------------------------ MODULE CacheAndDynamoProofs ------------------------
(* The two providers whose clients are made from settings that come from    *)
(* several places: lattice-controller, from credentials that may be         *)
(* replaced, and sqldb-dynamodb, from the link values, an env file and the  *)
(* environment.  The parts do not depend on each other.                     *)
EXTENDS ClientCache, DynamoDb, SequenceTheorems, WellFoundedInduction, TLAPS

-----------------------------------------------------------------------------
(* For every set of lattices and operations, every period and any number of  *)
(* credentials: which credentials the connections of ClientCache are made    *)
(* with.                                                                     *)

PCs == {"none", "hit", "miss", "connecting", "storing", "operating", "done", "rejected",
        "failed"}
OperationRecord == [pc : PCs, version : Versions, created : BOOLEAN]

\* The map of credentials holds the newest ones.
NewestStored == \A l \in Lattices : meta[l].version = given[l]

\* No operation knows of credentials that were not given, one that has or makes
\* a client has some, and the ones it connects with are at least as new as those
\* stored when it began.
OperationAgrees(q) ==
    /\ latest[q] <= given[LatticeOf[q]] /\ operation[q].version <= given[LatticeOf[q]]
    /\ operation[q].pc \in {"hit", "connecting", "storing", "operating"} => operation[q].version > 0
    /\ operation[q].pc \in {"connecting", "storing"} \/ operation[q].created
         => operation[q].version >= latest[q]

OperationsAgree == \A q \in Operations : OperationAgrees(q)

\* The inductive invariant.
CIInv == CTypeOK /\ NewestStored /\ OperationsAgree

\* The parts of the type invariant, one by one.
LEMMA Types ==
    ASSUME CTypeOK
    PROVE  /\ meta \in [Lattices -> [version : Versions, age : 0..(Period + 1)]]
           /\ clients \in [Lattices -> Versions]
           /\ \A l \in Lattices : clients[l] <= meta[l].version
           /\ operation \in [Operations -> OperationRecord]
           /\ given \in [Lattices -> Versions] /\ latest \in [Operations -> Versions]
           /\ LatticeOf \in [Operations -> Lattices]
           /\ Versions \subseteq Nat
  BY CacheAssumption DEF CTypeOK, OperationRecord, PCs, Versions

\* A cache that is empty satisfies the invariant.
LEMMA InitCIInv == CInit => CIInv
  <1> SUFFICES ASSUME CInit PROVE CIInv
    OBVIOUS
  <1>1. 0 \in Versions /\ 0 \in 0..(Period + 1) /\ 0 \in 0..Period
    BY CacheAssumption DEF Versions
  <1>2. CTypeOK
    BY <1>1 DEF CInit, CTypeOK, Idle
  <1>3. NewestStored /\ OperationsAgree
    BY CacheAssumption DEF CInit, NewestStored, OperationsAgree, OperationAgrees
  <1> QED BY <1>2, <1>3 DEF CIInv

\* A step of one operation, whatever else it does, as long as no credentials
\* are given in it.
LEMMA OperationStep ==
    ASSUME CIInv, NEW q \in Operations, NEW r \in OperationRecord, NEW n \in Versions,
           operation' = [operation EXCEPT ![q] = r], latest' = [latest EXCEPT ![q] = n],
           n <= given[LatticeOf[q]], r.version <= given[LatticeOf[q]],
           r.pc \in {"hit", "connecting", "storing", "operating"} => r.version > 0,
           r.pc \in {"connecting", "storing"} \/ r.created => r.version >= n,
           given' = given
    PROVE  /\ operation' \in [Operations -> OperationRecord]
           /\ latest' \in [Operations -> Versions] /\ OperationsAgree'
  <1>1. operation' \in [Operations -> OperationRecord] /\ latest' \in [Operations -> Versions]
    BY Types DEF CIInv
  <1>2. OperationsAgree'
    <2> SUFFICES ASSUME NEW p \in Operations PROVE OperationAgrees(p)'
      BY DEF OperationsAgree
    <2>1. CASE p = q
      <3>1. operation'[p] = r /\ latest'[p] = n
        BY <2>1, Types DEF CIInv
      <3> QED BY <2>1, <3>1 DEF OperationAgrees
    <2>2. CASE p # q
      <3>1. operation'[p] = operation[p] /\ latest'[p] = latest[p]
        BY <2>2, Types DEF CIInv
      <3> QED BY <3>1 DEF CIInv, OperationsAgree, OperationAgrees
    <2> QED BY <2>1, <2>2
  <1> QED BY <1>1, <1>2

\* The same for a step that does not begin or end the operation.
LEMMA OwnStep ==
    ASSUME CIInv, NEW q \in Operations, NEW r \in OperationRecord,
           operation' = [operation EXCEPT ![q] = r], latest' = latest,
           r.version <= given[LatticeOf[q]],
           r.pc \in {"hit", "connecting", "storing", "operating"} => r.version > 0,
           r.pc \in {"connecting", "storing"} \/ r.created => r.version >= latest[q],
           given' = given
    PROVE  /\ operation' \in [Operations -> OperationRecord]
           /\ latest' \in [Operations -> Versions] /\ OperationsAgree'
  <1>1. latest[q] \in Versions /\ latest' = [latest EXCEPT ![q] = latest[q]]
    BY Types DEF CIInv
  <1>2. latest[q] <= given[LatticeOf[q]]
    BY DEF CIInv, OperationsAgree, OperationAgrees
  <1> QED BY <1>1, <1>2, OperationStep

\* New credentials: whatever was stored or known before is older.
LEMMA PutConfigStep ==
    ASSUME CIInv, NEW l \in Lattices, put_config(l)
    PROVE  CIInv'
  <1>1. /\ given \in [Lattices -> Versions] /\ clients \in [Lattices -> Versions]
        /\ meta \in [Lattices -> [version : Versions, age : 0..(Period + 1)]]
        /\ operation \in [Operations -> OperationRecord] /\ latest \in [Operations -> Versions]
        /\ LatticeOf \in [Operations -> Lattices] /\ Versions \subseteq Nat
        /\ \A m \in Lattices : clients[m] <= meta[m].version
    BY Types DEF CIInv
  <1>2. given[l] + 1 \in Versions /\ 0 \in 0..(Period + 1)
    BY <1>1, CacheAssumption DEF put_config, Versions
  <1>3. /\ given' \in [Lattices -> Versions] /\ given'[l] = given[l] + 1
        /\ \A m \in Lattices : m # l => given'[m] = given[m]
    BY <1>1, <1>2 DEF put_config
  <1>4. /\ meta' \in [Lattices -> [version : Versions, age : 0..(Period + 1)]]
        /\ meta'[l].version = given'[l]
        /\ \A m \in Lattices : m # l => meta'[m] = meta[m]
    <2>1. given'[l] \in Versions
      BY <1>3
    <2>2. [version |-> given'[l], age |-> 0] \in [version : Versions, age : 0..(Period + 1)]
      BY <1>2, <2>1
    <2>3. meta' = [meta EXCEPT ![l] = [version |-> given'[l], age |-> 0]]
      BY DEF put_config
    <2> QED BY <1>1, <2>2, <2>3
  <1>5. \A m \in Lattices : given[m] \in Nat /\ given'[m] \in Nat /\ given[m] <= given'[m]
    <2> SUFFICES ASSUME NEW m \in Lattices
                 PROVE  given[m] \in Nat /\ given'[m] \in Nat /\ given[m] <= given'[m]
      OBVIOUS
    <2>1. given[m] \in Versions /\ given'[m] \in Versions
      BY <1>1, <1>3
    <2>2. given[m] \in Nat /\ given'[m] \in Nat
      BY <1>1, <2>1
    <2>3. given'[m] = given[m] \/ given'[m] = given[m] + 1
      BY <1>3
    <2> QED BY <2>2, <2>3
  <1>6. \A m \in Lattices : clients[m] <= meta'[m].version
    <2> SUFFICES ASSUME NEW m \in Lattices PROVE clients[m] <= meta'[m].version
      OBVIOUS
    <2>1. meta'[m].version = given'[m] /\ meta[m].version = given[m]
      BY <1>3, <1>4 DEF CIInv, NewestStored
    <2>2. clients[m] \in Nat /\ clients[m] <= given[m]
      BY <1>1, <2>1
    <2> QED BY <1>5, <2>1, <2>2
  <1>7. CTypeOK'
    BY <1>3, <1>4, <1>6 DEF put_config, CIInv, CTypeOK
  <1>8. NewestStored'
    BY <1>3, <1>4 DEF CIInv, NewestStored
  <1>9. OperationsAgree'
    <2> SUFFICES ASSUME NEW q \in Operations PROVE OperationAgrees(q)'
      BY DEF OperationsAgree
    <2>1. OperationAgrees(q) /\ operation' = operation /\ latest' = latest
      BY DEF CIInv, OperationsAgree, put_config
    <2>2. LatticeOf[q] \in Lattices /\ latest[q] \in Nat /\ operation[q].version \in Nat
      BY <1>1 DEF OperationRecord
    <2>3. latest[q] <= given'[LatticeOf[q]] /\ operation[q].version <= given'[LatticeOf[q]]
      BY <1>5, <2>1, <2>2 DEF OperationAgrees
    <2> QED BY <2>1, <2>3 DEF OperationAgrees
  <1> QED BY <1>7, <1>8, <1>9 DEF CIInv

\* The maps in a step that gives no credentials: ages change, clients go, or
\* come with credentials that were given.
LEMMA MapStep ==
    ASSUME CIInv, given' = given,
           operation' \in [Operations -> OperationRecord],
           latest' \in [Operations -> Versions], OperationsAgree',
           timer' \in 0..Period,
           evacuating' \in [on : BOOLEAN, expired_keys : SUBSET Lattices],
           meta' \in [Lattices -> [version : Versions, age : 0..(Period + 1)]],
           \A l \in Lattices : meta'[l].version = meta[l].version,
           clients' \in [Lattices -> Versions],
           \A l \in Lattices : clients'[l] <= given[l]
    PROVE  CIInv'
  <1>1. NewestStored'
    BY DEF CIInv, NewestStored
  <1>2. \A l \in Lattices : clients'[l] <= meta'[l].version
    BY DEF CIInv, NewestStored
  <1>3. CTypeOK'
    BY <1>2, Types DEF CIInv, CTypeOK, OperationRecord, PCs
  <1> QED BY <1>1, <1>3 DEF CIInv

\* Every operation, the clock and the expiration task keep the invariant.
LEMMA CIInvStep == CIInv /\ [CNext]_cvars => CIInv'
  <1> SUFFICES ASSUME CIInv, [CNext]_cvars PROVE CIInv'
    OBVIOUS
  <1>1. /\ given \in [Lattices -> Versions] /\ clients \in [Lattices -> Versions]
        /\ meta \in [Lattices -> [version : Versions, age : 0..(Period + 1)]]
        /\ operation \in [Operations -> OperationRecord] /\ latest \in [Operations -> Versions]
        /\ LatticeOf \in [Operations -> Lattices] /\ Versions \subseteq Nat
        /\ \A l \in Lattices : meta[l].version = given[l] /\ clients[l] <= given[l]
    BY Types DEF CIInv, NewestStored
  <1>2. 0 \in Versions /\ 0 \in 0..(Period + 1) /\ Period \in Nat
    BY CacheAssumption DEF Versions
  <1>3. /\ timer \in 0..Period
        /\ evacuating \in [on : BOOLEAN, expired_keys : SUBSET Lattices]
        /\ OperationsAgree
    BY DEF CIInv, CTypeOK
  <1>4. ASSUME UNCHANGED <<meta, clients, timer, evacuating, given>>,
               operation' \in [Operations -> OperationRecord],
               latest' \in [Operations -> Versions], OperationsAgree'
        PROVE  CIInv'
    BY <1>1, <1>3, <1>4, MapStep
  <1>5. ASSUME NEW q \in Operations, get_client(q) PROVE CIInv'
    <2> DEFINE l == LatticeOf[q]
    <2> DEFINE r == [pc |-> IF clients[l] # 0 THEN "hit" ELSE "miss",
                     version |-> clients[l], created |-> FALSE]
    <2>1. operation' = [operation EXCEPT ![q] = r] /\ latest' = [latest EXCEPT ![q] = given[l]]
      BY <1>5 DEF get_client
    <2>2. UNCHANGED <<meta, clients, timer, evacuating, given>>
      BY <1>5 DEF get_client
    <2>3. l \in Lattices /\ clients[l] \in Nat /\ clients[l] <= given[l] /\ given[l] \in Versions
            /\ given[l] \in Nat
      BY <1>1
    <2>4. r \in OperationRecord
      BY <1>1, <2>3 DEF OperationRecord, PCs
    <2>5. /\ r.version <= given[l] /\ given[l] <= given[l]
          /\ r.pc \in {"hit", "connecting", "storing", "operating"} => r.version > 0
          /\ ~(r.pc \in {"connecting", "storing"} \/ r.created)
      BY <2>3
    <2> HIDE DEF r
    <2> QED BY <1>4, <2>1, <2>2, <2>3, <2>4, <2>5, OperationStep
  <1>6. ASSUME NEW q \in Operations, record_access(q) PROVE CIInv'
    <2> DEFINE l == LatticeOf[q]
    <2> DEFINE r == [operation[q] EXCEPT !.pc = "operating"]
    <2>1. /\ operation' = [operation EXCEPT ![q] = r] /\ meta' = [meta EXCEPT ![l].age = 0]
          /\ operation[q].pc = "hit"
          /\ UNCHANGED <<clients, timer, evacuating, given, latest>>
      BY <1>6 DEF record_access
    <2>2. r \in OperationRecord /\ r.pc = "operating" /\ r.version = operation[q].version
            /\ r.created = operation[q].created
      BY <1>1 DEF OperationRecord, PCs
    <2>3. OperationAgrees(q)
      BY <1>3 DEF OperationsAgree
    <2> HIDE DEF r
    <2>4. /\ operation' \in [Operations -> OperationRecord]
          /\ latest' \in [Operations -> Versions] /\ OperationsAgree'
      BY <2>1, <2>2, <2>3, OwnStep DEF OperationAgrees
    <2>5. /\ meta' \in [Lattices -> [version : Versions, age : 0..(Period + 1)]]
          /\ \A m \in Lattices : meta'[m].version = meta[m].version
      BY <1>1, <1>2, <2>1
    <2> QED BY <1>1, <1>3, <2>1, <2>4, <2>5, MapStep
  <1>7. ASSUME NEW q \in Operations, read_config(q) PROVE CIInv'
    <2> DEFINE l == LatticeOf[q]
    <2> DEFINE v == meta[l].version
    <2> DEFINE r == [operation[q] EXCEPT !.version = v,
                                         !.pc = IF v = 0 THEN "failed" ELSE "connecting"]
    <2>1. /\ operation' = [operation EXCEPT ![q] = r]
          /\ UNCHANGED <<meta, clients, timer, evacuating, given, latest>>
      BY <1>7 DEF read_config
    <2>2. v \in Versions /\ v \in Nat /\ v = given[l] /\ l \in Lattices
      BY <1>1
    <2>3. /\ r \in OperationRecord /\ r.pc = IF v = 0 THEN "failed" ELSE "connecting"
          /\ r.version = v
      BY <1>1, <2>2 DEF OperationRecord, PCs
    <2>4. latest[q] <= v /\ latest[q] \in Nat
      BY <1>1, <1>3, <2>2 DEF OperationsAgree, OperationAgrees
    <2> HIDE DEF r, v
    <2>5. /\ r.version <= given[l]
          /\ r.pc \in {"hit", "connecting", "storing", "operating"} => r.version > 0
          /\ r.version >= latest[q]
      BY <2>2, <2>3, <2>4
    <2>6. /\ operation' \in [Operations -> OperationRecord]
          /\ latest' \in [Operations -> Versions] /\ OperationsAgree'
      BY <2>1, <2>3, <2>5, OwnStep
    <2> QED BY <1>4, <2>1, <2>6
  <1>8. ASSUME NEW q \in Operations, create_client(q) PROVE CIInv'
    <2>1. PICK pc \in {"storing", "failed"} : operation' = [operation EXCEPT ![q].pc = pc]
      BY <1>8 DEF create_client
    <2> DEFINE r == [operation[q] EXCEPT !.pc = pc]
    <2>2. /\ operation' = [operation EXCEPT ![q] = r] /\ operation[q].pc = "connecting"
          /\ UNCHANGED <<meta, clients, timer, evacuating, given, latest>>
      BY <1>8, <2>1 DEF create_client
    <2>3. r \in OperationRecord /\ r.pc = pc /\ r.version = operation[q].version
            /\ r.created = operation[q].created
      BY <1>1 DEF OperationRecord, PCs
    <2>4. OperationAgrees(q)
      BY <1>3 DEF OperationsAgree
    <2> HIDE DEF r
    <2>5. /\ operation' \in [Operations -> OperationRecord]
          /\ latest' \in [Operations -> Versions] /\ OperationsAgree'
      BY <2>2, <2>3, <2>4, OwnStep DEF OperationAgrees
    <2> QED BY <1>4, <2>2, <2>5
  <1>9. ASSUME NEW q \in Operations, store_client(q) PROVE CIInv'
    <2> DEFINE l == LatticeOf[q]
    <2> DEFINE r == [operation[q] EXCEPT !.pc = "operating", !.created = TRUE]
    <2>1. /\ operation' = [operation EXCEPT ![q] = r] /\ operation[q].pc = "storing"
          /\ clients' = [clients EXCEPT ![l] = operation[q].version]
          /\ UNCHANGED <<meta, timer, evacuating, given, latest>>
      BY <1>9 DEF store_client
    <2>2. r \in OperationRecord /\ r.pc = "operating" /\ r.version = operation[q].version
      BY <1>1 DEF OperationRecord, PCs
    <2>3. OperationAgrees(q)
      BY <1>3 DEF OperationsAgree
    <2> HIDE DEF r
    <2>4. /\ operation' \in [Operations -> OperationRecord]
          /\ latest' \in [Operations -> Versions] /\ OperationsAgree'
      BY <2>1, <2>2, <2>3, OwnStep DEF OperationAgrees
    <2>5. operation[q].version \in Versions
      BY <1>1 DEF OperationRecord
    <2>6. clients' \in [Lattices -> Versions] /\ \A m \in Lattices : clients'[m] <= given[m]
      BY <1>1, <2>1, <2>3, <2>5 DEF OperationAgrees
    <2> QED BY <1>1, <1>3, <2>1, <2>4, <2>6, MapStep
  <1>10. ASSUME NEW q \in Operations, query(q) \/ command(q) PROVE CIInv'
    <2>1. PICK pc \in {"done", "rejected", "failed"} :
             /\ operation' = [operation EXCEPT ![q] = [pc |-> pc, version |-> 0, created |-> FALSE]]
             /\ latest' = [latest EXCEPT ![q] = 0]
             /\ UNCHANGED <<meta, clients, timer, evacuating, given>>
      BY <1>10 DEF query, command, operate
    <2>2. [pc |-> pc, version |-> 0, created |-> FALSE] \in OperationRecord
      BY <1>2 DEF OperationRecord, PCs
    <2>3. 0 <= given[LatticeOf[q]]
      <3>1. given[LatticeOf[q]] \in Versions
        BY <1>1
      <3>2. given[LatticeOf[q]] \in Nat
        BY <1>1, <3>1
      <3> QED BY <3>2
    <2>4. /\ operation' \in [Operations -> OperationRecord]
          /\ latest' \in [Operations -> Versions] /\ OperationsAgree'
      BY <1>2, <2>1, <2>2, <2>3, OperationStep
    <2> QED BY <1>4, <2>1, <2>4
  <1>11. CASE Tick
    <2>1. \A n \in 0..(Period + 1) : Older(n) \in 0..(Period + 1)
      BY <1>2 DEF Older
    <2>2. meta' = [l \in Lattices |-> [meta[l] EXCEPT !.age = Older(@)]]
      BY <1>11 DEF Tick
    <2>3. \A l \in Lattices : /\ [meta[l] EXCEPT !.age = Older(@)]
                                   \in [version : Versions, age : 0..(Period + 1)]
                              /\ [meta[l] EXCEPT !.age = Older(@)].version = meta[l].version
      BY <1>1, <2>1
    <2>4. /\ meta' \in [Lattices -> [version : Versions, age : 0..(Period + 1)]]
          /\ \A l \in Lattices : meta'[l].version = meta[l].version
      BY <2>2, <2>3
    <2>5. timer' \in 0..Period /\ UNCHANGED <<clients, operation, evacuating, given, latest>>
      BY <1>2, <1>3, <1>11 DEF Tick
    <2>6. OperationsAgree'
      BY <1>3, <2>5 DEF OperationsAgree, OperationAgrees
    <2> QED BY <1>1, <1>3, <2>4, <2>5, <2>6, MapStep
  <1>12. CASE expired_keys
    <2>1. /\ timer' \in 0..Period
          /\ evacuating' \in [on : BOOLEAN, expired_keys : SUBSET Lattices]
          /\ UNCHANGED <<meta, clients, operation, given, latest>>
      BY <1>2, <1>12 DEF expired_keys
    <2>2. OperationsAgree'
      BY <1>3, <2>1 DEF OperationsAgree, OperationAgrees
    <2> QED BY <1>1, <2>1, <2>2, MapStep
  <1>13. CASE evacuate_cache
    <2>1. /\ clients' = [l \in Lattices |-> IF l \in evacuating.expired_keys THEN 0
                                            ELSE clients[l]]
          /\ evacuating' \in [on : BOOLEAN, expired_keys : SUBSET Lattices]
          /\ UNCHANGED <<meta, operation, timer, given, latest>>
      BY <1>13 DEF evacuate_cache, Idle
    <2>2. clients' \in [Lattices -> Versions] /\ \A l \in Lattices : clients'[l] <= given[l]
      <3>1. clients' \in [Lattices -> Versions]
        BY <1>1, <1>2, <2>1
      <3>2. ASSUME NEW l \in Lattices PROVE clients'[l] <= given[l]
        <4>1. clients'[l] = 0 \/ clients'[l] = clients[l]
          BY <2>1
        <4>2. given[l] \in Versions /\ clients[l] <= given[l]
          BY <1>1
        <4>3. given[l] \in Nat
          BY <1>1, <4>2
        <4> QED BY <4>1, <4>2, <4>3
      <3> QED BY <3>1, <3>2
    <2>3. OperationsAgree'
      BY <1>3, <2>1 DEF OperationsAgree, OperationAgrees
    <2> QED BY <1>1, <1>3, <2>1, <2>2, <2>3, MapStep
  <1>14. CASE UNCHANGED cvars
    <2>1. OperationsAgree'
      BY <1>3, <1>14 DEF OperationsAgree, OperationAgrees, cvars
    <2> QED BY <1>1, <1>4, <1>14, <2>1 DEF cvars
  <1> QED BY <1>5, <1>6, <1>7, <1>8, <1>9, <1>10, <1>11, <1>12, <1>13, <1>14, PutConfigStep
          DEF CNext

\* The invariant holds throughout.
LEMMA CInvariance == CSpec => []CIInv
  <1> QED BY InitCIInv, CIInvStep, PTL DEF CSpec

\* An operation that makes its own connection does so with credentials no older
\* than the newest when it began, and none goes ahead without credentials: for
\* any number of operations, credentials and evacuations that interleave.
THEOREM ConnectionsAreFresh == CSpec => []FreshOnCreate
  <1>1. CIInv => FreshOnCreate
    BY DEF CIInv, FreshOnCreate, OperationsAgree, OperationAgrees
  <1> QED BY CInvariance, <1>1, PTL

-----------------------------------------------------------------------------
(* For every number of actors, links and calls and all link values: that the *)
(* settings of a link put alone are its own, and that its client is          *)
(* replaced, unlinked and let go as LinkResources says.                      *)

Config(k) == parse(link[k].values).config
EnvLines(k) == parse(link[k].values).lines

\* The environment when the lines of a link's env file have been set.
Own(k) == After(link[k].before, EnvLines(k))

LinesOf(v) == {parse(v).lines[i] : i \in DOMAIN parse(v).lines}

Live(k) == link[k].stage \notin {"unused", "closed"}

LinkFields == {"stage", "actor", "values", "lines", "at", "config", "found", "before",
               "alone", "last"}

\* A link has its fields, and the lines that are left are of its own file.
LinkTyped(k) ==
    /\ DOMAIN link[k] = LinkFields /\ link[k].stage \in Stages
    /\ link[k].actor \in Actors \cup {None} /\ link[k].at \in DOMAIN EnvReads
    /\ link[k].alone \in BOOLEAN /\ link[k].last \in BOOLEAN
    /\ DOMAIN link[k].config = Fields
    /\ Live(k) =>
         /\ link[k].values \in LinkValues /\ parse(link[k].values) # None
         /\ link[k].actor \in Actors /\ link[k].before \in [Vars -> Value]
         /\ link[k].lines \in Seq(LinesOf(link[k].values))
    /\ link[k].stage \in {"unused", "setting"} => link[k].at = 1

\* What has been read of the environment so far, and what it has overridden.
Position(k) == IF link[k].stage = "configuring" THEN 6 ELSE link[k].at

Taken(k, i) ==
    /\ i < Position(k) /\ Own(k)[EnvReads[i]] # None
    /\ i \in {1, 5} \/ Own(k)["AWS_ROLE_ARN"] # None

ReadSoFar(k) ==
    /\ \A i \in DOMAIN EnvReads :
         link[k].config[FieldOf[EnvReads[i]]] =
           IF Taken(k, i) THEN Own(k)[EnvReads[i]] ELSE Config(k)[FieldOf[EnvReads[i]]]
    /\ \A f \in {"access_key_id", "secret_access_key", "region"} :
         link[k].config[f] = Config(k)[f]
    /\ Position(k) \in 2..4 => Own(k)["AWS_ROLE_ARN"] # None

ConfigAgrees(k) ==
    /\ link[k].stage = "setting" => link[k].config = Config(k)
    /\ link[k].alone =>
         /\ link[k].stage \in {"reading", "configuring"} => ReadSoFar(k)
         /\ link[k].stage \in {"ready", "linked", "dropped"} =>
              link[k].config = Layered(link[k].values, link[k].before)

\* The keys are looked up once, in the link's own environment.
FoundAgrees(k) ==
    link[k].found # None =>
        /\ link[k].stage \in {"linked", "dropped", "closed"}
        /\ Live(k) /\ link[k].alone /\ link[k].last => link[k].found = Keys(Own(k))

LinkAgrees(k) == LinkTyped(k) /\ ConfigAgrees(k) /\ FoundAgrees(k)

\* A link that was put alone is not disturbed before the next one is put: while
\* it sets its lines, what is left of them makes up for what is missing; from
\* then on the environment is its own.
Undisturbed(k) ==
    link[k].alone /\ (AtWork(k) \/ (Live(k) /\ link[k].last))

EnvAgrees(k) ==
    Undisturbed(k) =>
        /\ Alone(k)
        /\ IF link[k].stage = "setting" THEN After(env, link[k].lines) = Own(k)
           ELSE env = Own(k)

LinksAgree == DOMAIN link = Links /\ \A k \in Links : LinkAgrees(k) /\ EnvAgrees(k)

\* The client an actor has in the map was made for it and is not dropped.
MapAgrees ==
    \A a \in Actors : actors[a] # None =>
        link[actors[a]].stage = "linked" /\ link[actors[a]].actor = a

\* A call has a client that is not closed.
CallsAgree ==
    /\ call = [q \in Calls |-> [via |-> call[q].via, answer |-> call[q].answer]]
    /\ \A q \in Calls :
         call[q].via # None => link[call[q].via].stage \in {"linked", "dropped"}

\* The inductive invariant.
IInv == TypeOK /\ LinksAgree /\ MapAgrees /\ CallsAgree

-----------------------------------------------------------------------------
(* Setting the lines of an env file, one after the other. *)

\* A set of positions has a last one.
LEMMA LastExists ==
    ASSUME NEW n \in Nat, NEW I \in SUBSET (1..n), I # {}
    PROVE  \E i \in I : \A j \in I : j <= i
  <1> DEFINE D == {n - i : i \in I}
  <1> DEFINE R == {ss \in Nat \X Nat : ss[1] < ss[2]}
  <1>1. D \in SUBSET Nat /\ D # {}
    <2>1. \A i \in I : i \in 1..n
      OBVIOUS
    <2>2. \A i \in I : n - i \in Nat
      BY <2>1
    <2> QED BY <2>2
  <1>2. PICK d \in D : \A e \in D : ~(<<e, d>> \in R)
    <2> HIDE DEF D
    <2>1. IsWellFoundedOn(R, Nat)
      BY NatLessThanWellFounded DEF OpToRel
    <2> HIDE DEF R
    <2> QED BY <1>1, <2>1, WFMin
  <1>3. \A e \in D : d <= e
    <2>1. \A e \in D : <<e, d>> \in R <=> e < d
      <3> HIDE DEF D
      <3> QED BY <1>1, <1>2
    <2>2. \A e \in D : e \in Nat
      BY <1>1
    <2>3. \A e \in D : ~(e < d)
      <3> HIDE DEF D, R
      <3> QED BY <1>2, <2>1, Zenon
    <2> HIDE DEF D, R
    <2> QED BY <2>2, <2>3
  <1>4. PICK i \in I : d = n - i
    BY <1>2
  <1>5. \A j \in I : n - i <= n - j
    BY <1>3, <1>4
  <1> QED BY <1>5

\* The last line of a variable is the last one in what is left of the file, if
\* there is one.
LEMMA LastOfTail ==
    ASSUME NEW S, NEW s \in Seq(S), s # <<>>, NEW x,
           NEW i \in DOMAIN Tail(s), Tail(s)[i].key = x,
           \A j \in DOMAIN Tail(s) : Tail(s)[j].key = x => j <= i
    PROVE  /\ i + 1 \in DOMAIN s /\ s[i + 1] = Tail(s)[i]
           /\ \A j \in DOMAIN s : s[j].key = x => j <= i + 1
  <1>1. /\ DOMAIN s = 1..Len(s) /\ DOMAIN Tail(s) = 1..(Len(s) - 1) /\ Len(s) \in Nat
        /\ \A j \in 1..(Len(s) - 1) : Tail(s)[j] = s[j + 1]
    BY HeadTailProperties, LenProperties, EmptySeq
  <1>2. i \in Nat /\ i + 1 \in DOMAIN s /\ s[i + 1] = Tail(s)[i] /\ i >= 1
    BY <1>1
  <1>3. ASSUME NEW j \in DOMAIN s, s[j].key = x PROVE j <= i + 1
    <2>1. CASE j = 1
      BY <1>2, <2>1
    <2>2. CASE j # 1
      <3>1. j - 1 \in DOMAIN Tail(s) /\ Tail(s)[j - 1] = s[j]
        BY <1>1, <2>2
      <3> QED BY <1>1, <1>2, <1>3, <3>1
    <2> QED BY <2>1, <2>2
  <1> QED BY <1>2, <1>3

\* What a variable is when the lines are set.
Lines(lines, x) == {i \in DOMAIN lines : lines[i].key = x}
LastOf(lines, x, i) == i \in Lines(lines, x) /\ \A j \in Lines(lines, x) : j <= i

LEMMA AfterIs ==
    ASSUME NEW e, NEW S, NEW s \in Seq(S), NEW x \in DOMAIN e
    PROVE  /\ Lines(s, x) = {} => After(e, s)[x] = e[x]
           /\ Lines(s, x) # {} => \E i \in DOMAIN s : LastOf(s, x, i)
           /\ \A i \in DOMAIN s : LastOf(s, x, i) => After(e, s)[x] = s[i].value
  <1> DEFINE I == Lines(s, x)
  <1>1. After(e, s)[x] = IF I = {} THEN e[x]
                         ELSE s[CHOOSE i \in I : \A j \in I : j <= i].value
    BY DEF After, Lines
  <1>2. Len(s) \in Nat /\ DOMAIN s = 1..Len(s) /\ I \in SUBSET (1..Len(s))
    BY LenProperties DEF Lines
  <1>3. I # {} => \E i \in DOMAIN s : LastOf(s, x, i)
    <2> HIDE DEF I
    <2>1. I # {} => \E i \in I : \A j \in I : j <= i
      BY <1>2, LastExists
    <2> QED BY <1>2, <2>1 DEF LastOf, I
  <1>4. ASSUME NEW i \in DOMAIN s, LastOf(s, x, i)
        PROVE  After(e, s)[x] = s[i].value
    <2>1. i \in I /\ \A j \in I : j <= i
      BY <1>4 DEF LastOf
    <2> HIDE DEF I
    <2>2. \A j \in I : (\A l \in I : l <= j) => j = i
      BY <1>2, <2>1
    <2>3. (CHOOSE j \in I : \A l \in I : l <= j) = i
      BY <2>1, <2>2
    <2> QED BY <1>1, <2>1, <2>3
  <1> QED BY <1>1, <1>3, <1>4

\* Setting the first line and then the others is setting them all.
LEMMA AfterLine ==
    ASSUME NEW e, NEW S, NEW s \in Seq(S), s # <<>>
    PROVE  After([e EXCEPT ![Head(s).key] = Head(s).value], Tail(s)) = After(e, s)
  <1> DEFINE h == Head(s)
  <1> DEFINE t == Tail(s)
  <1> DEFINE f == [e EXCEPT ![h.key] = h.value]
  <1>1. /\ t \in Seq(S) /\ DOMAIN s = 1..Len(s) /\ DOMAIN t = 1..(Len(s) - 1)
        /\ Len(s) \in Nat \ {0}
        /\ \A i \in 1..(Len(s) - 1) : t[i] = s[i + 1]
        /\ h = s[1]
    BY HeadTailProperties, LenProperties, EmptySeq
  <1>2. DOMAIN f = DOMAIN e
    OBVIOUS
  <1>3. ASSUME NEW x \in DOMAIN e PROVE After(f, t)[x] = After(e, s)[x]
    <2>1. CASE Lines(t, x) # {}
      <3> HIDE DEF f, t
      <3>a. x \in DOMAIN f
        BY <1>2
      <3>b. PICK i \in DOMAIN t : LastOf(t, x, i)
        BY <1>1, <2>1, <3>a, AfterIs
      <3>1. LastOf(t, x, i) /\ After(f, t)[x] = t[i].value
        BY <1>1, <3>a, <3>b, AfterIs
      <3> USE DEF t
      <3>2. i + 1 \in DOMAIN s /\ s[i + 1] = t[i]
            /\ \A j \in DOMAIN s : s[j].key = x => j <= i + 1
        BY <3>1, LastOfTail DEF LastOf, Lines
      <3>3. LastOf(s, x, i + 1)
        BY <3>1, <3>2 DEF LastOf, Lines
      <3> QED BY <3>1, <3>2, <3>3, AfterIs
    <2>2. CASE Lines(t, x) = {}
      <3>1. After(f, t)[x] = f[x]
        <4> HIDE DEF f, t
        <4> QED BY <1>1, <1>2, <2>2, AfterIs
      <3>2. \A j \in DOMAIN s : s[j].key = x => j = 1
        <4>1. \A j \in DOMAIN s : j # 1 => j - 1 \in DOMAIN t /\ t[j - 1] = s[j]
          BY <1>1
        <4> QED BY <2>2, <4>1 DEF Lines
      <3>3. CASE h.key = x
        <4>1. LastOf(s, x, 1) /\ 1 \in DOMAIN s
          BY <1>1, <3>2, <3>3 DEF LastOf, Lines
        <4>2. After(e, s)[x] = h.value
          BY <1>1, <4>1, AfterIs
        <4> QED BY <3>1, <3>3, <4>2
      <3>4. CASE h.key # x
        <4>1. Lines(s, x) = {}
          BY <1>1, <3>2, <3>4 DEF Lines
        <4>2. After(e, s)[x] = e[x]
          BY <4>1, AfterIs
        <4> QED BY <3>1, <3>4, <4>2
      <3> QED BY <3>3, <3>4
    <2> QED BY <2>1, <2>2
  <1> HIDE DEF f, t
  <1>4. /\ After(f, t) = [x \in DOMAIN e |-> After(f, t)[x]]
        /\ After(e, s) = [x \in DOMAIN e |-> After(e, s)[x]]
    BY <1>2 DEF After
  <1> QED BY <1>3, <1>4 DEF f, t

\* With no lines left, the environment is as it is.
LEMMA AfterAll ==
    ASSUME NEW S, NEW e \in [Vars -> S]
    PROVE  After(e, <<>>) = e
  <1>1. \A x \in Vars : {i \in DOMAIN <<>> : <<>>[i].key = x} = {}
    OBVIOUS
  <1> QED BY <1>1 DEF After

-----------------------------------------------------------------------------
(* What a link's settings depend on. *)

\* A link that goes on its way from ready to closed, or stays what it is.
Onward(s, t) == s = t \/ <<s, t>> \in {<<"ready", "linked">>, <<"linked", "dropped">>,
                                       <<"dropped", "closed">>}

\* Nothing else of the link changes but that it was not alone, or is not the last.
Moves(k) ==
    /\ DOMAIN link'[k] = LinkFields /\ Onward(link[k].stage, link'[k].stage)
    /\ link'[k].actor = link[k].actor /\ link'[k].values = link[k].values
    /\ link'[k].lines = link[k].lines /\ link'[k].at = link[k].at
    /\ link'[k].config = link[k].config /\ link'[k].found = link[k].found
    /\ link'[k].before = link[k].before
    /\ link'[k].alone \in BOOLEAN /\ link'[k].last \in BOOLEAN
    /\ link'[k].alone => link[k].alone
    /\ link'[k].last => link[k].last

LEMMA OnwardFacts ==
    ASSUME NEW s, NEW t, Onward(s, t)
    PROVE  \/ s = t
           \/ s = "ready" /\ t = "linked"
           \/ s = "linked" /\ t = "dropped"
           \/ s = "dropped" /\ t = "closed"
  BY DEF Onward

LEMMA MovesKeepLink ==
    ASSUME NEW k \in Links, LinkAgrees(k), Moves(k)
    PROVE  LinkAgrees(k)' /\ (AtWork(k)' <=> AtWork(k)) /\ (Undisturbed(k)' => Undisturbed(k))
           /\ Own(k)' = Own(k) /\ (Live(k)' => Live(k))
  <1>1. /\ Own(k)' = Own(k) /\ Config(k)' = Config(k)
        /\ Layered(link'[k].values, link'[k].before) = Layered(link[k].values, link[k].before)
    BY DEF Moves, Own, Config, EnvLines
  <1>2. /\ Live(k)' => Live(k)
        /\ AtWork(k)' <=> AtWork(k)
        /\ link'[k].stage \in {"reading", "configuring", "setting", "unused"}
             => link'[k].stage = link[k].stage
        /\ link'[k].stage \in {"ready", "linked", "dropped"}
             => link[k].stage \in {"ready", "linked", "dropped"}
        /\ link[k].stage \in {"linked", "dropped", "closed"}
             => link'[k].stage \in {"linked", "dropped", "closed"}
        /\ link[k].stage \in Stages => link'[k].stage \in Stages
    BY OnwardFacts DEF Moves, Live, AtWork, Stages
  <1>3. LinkTyped(k)'
    BY <1>2 DEF LinkAgrees, LinkTyped, Moves
  <1>4. link[k].stage = link'[k].stage /\ ReadSoFar(k) => ReadSoFar(k)'
    <2>1. link[k].stage = link'[k].stage => Position(k)' = Position(k)
      BY DEF Position, Moves
    <2>2. \A i : link[k].stage = link'[k].stage => (Taken(k, i)' <=> Taken(k, i))
      BY <1>1, <2>1 DEF Taken
    <2> QED BY <1>1, <2>1, <2>2 DEF ReadSoFar, Moves
  <1>5. ConfigAgrees(k)'
    BY <1>1, <1>2, <1>4 DEF LinkAgrees, ConfigAgrees, Moves
  <1>6. FoundAgrees(k)'
    BY <1>1, <1>2 DEF LinkAgrees, FoundAgrees, Moves
  <1>7. Undisturbed(k)' => Undisturbed(k)
    BY <1>2 DEF Undisturbed, Moves
  <1> QED BY <1>1, <1>2, <1>3, <1>5, <1>6, <1>7 DEF LinkAgrees

\* A link keeps its environment as long as nobody starts to work.
LEMMA MovesKeepEnv ==
    ASSUME NEW k \in Links, LinkAgrees(k), EnvAgrees(k), Moves(k), env' = env,
           \A j \in Links \ {k} : AtWork(j)' => AtWork(j)
    PROVE  EnvAgrees(k)'
  <1> SUFFICES ASSUME Undisturbed(k)'
               PROVE  /\ Alone(k)'
                      /\ IF link'[k].stage = "setting" THEN After(env', link'[k].lines) = Own(k)'
                         ELSE env' = Own(k)'
    BY DEF EnvAgrees
  <1>1. Undisturbed(k) /\ Own(k)' = Own(k) /\ (AtWork(k)' <=> AtWork(k))
    BY MovesKeepLink
  <1>2. Alone(k)'
    BY <1>1 DEF EnvAgrees, Alone
  <1>3. link'[k].stage = "setting" <=> link[k].stage = "setting"
    BY OnwardFacts DEF Moves
  <1> QED BY <1>1, <1>2, <1>3 DEF EnvAgrees, Moves

\* Steps that only move links on.
LEMMA MovesKeepLinks ==
    ASSUME LinksAgree, DOMAIN link' = Links, env' = env, \A k \in Links : Moves(k)
    PROVE  LinksAgree'
  <1>1. \A k \in Links : LinkAgrees(k)' /\ (AtWork(k)' <=> AtWork(k))
    BY MovesKeepLink DEF LinksAgree
  <1>2. \A k \in Links : EnvAgrees(k)'
    BY <1>1, MovesKeepEnv DEF LinksAgree
  <1> QED BY <1>1, <1>2 DEF LinksAgree

\* What a link does while it is at work disturbs the others, who are not alone.
LEMMA WorkKeepsLinks ==
    ASSUME LinksAgree, NEW k \in Links, AtWork(k), DOMAIN link' = Links,
           \A j \in Links \ {k} : link'[j] = link[j],
           LinkAgrees(k)', EnvAgrees(k)'
    PROVE  LinksAgree'
  <1>1. ASSUME NEW j \in Links \ {k} PROVE LinkAgrees(j)' /\ EnvAgrees(j)'
    <2>1. Moves(j)
      BY <1>1 DEF Moves, Onward, LinksAgree, LinkAgrees, LinkTyped
    <2>2. LinkAgrees(j)' /\ (Undisturbed(j)' => Undisturbed(j))
      BY <2>1, MovesKeepLink DEF LinksAgree
    <2>3. ~Undisturbed(j)
      BY DEF LinksAgree, EnvAgrees, Alone
    <2> QED BY <2>2, <2>3 DEF EnvAgrees
  <1> QED BY <1>1 DEF LinksAgree

-----------------------------------------------------------------------------
(* The steps of put_link. *)

\* The lines of a file that was read set variables to values.
LEMMA ParseFacts ==
    ASSUME NEW v \in LinkValues, parse(v) # None
    PROVE  /\ parse(v).lines \in Seq(LinesOf(v))
           /\ \A l \in LinesOf(v) : l.value \in Value
           /\ DOMAIN parse(v).config = Fields
  <1> DEFINE has(key) == key \in DOMAIN v
  <1> DEFINE file == IF has("env") THEN v["env"] ELSE [readable |-> TRUE, lines |-> <<>>]
  <1>1. parse(v).lines = file.lines /\ DOMAIN parse(v).config = Fields
    BY DEF parse, Deserialized
  <1>2. CASE has("env")
    <2>1. parse(v).lines = v["env"].lines
      BY <1>1, <1>2
    <2>2. v["env"].lines \in Seq({v["env"].lines[i] : i \in DOMAIN v["env"].lines})
      BY <1>2, DynamoDbAssumption
    <2>3. LinesOf(v) = {v["env"].lines[i] : i \in DOMAIN v["env"].lines}
      BY <2>1 DEF LinesOf
    <2>4. \A i \in DOMAIN v["env"].lines : v["env"].lines[i].value \in Value
      <3>1. LineValues(v) \in {LineValues(w) : w \in {u \in LinkValues : "env" \in DOMAIN u}}
        BY <1>2
      <3>2. LineValues(v) \subseteq Value
        BY <3>1 DEF Value
      <3> QED BY <3>2 DEF LineValues
    <2> QED BY <1>1, <2>1, <2>2, <2>3, <2>4
  <1>3. CASE ~has("env")
    <2>1. parse(v).lines = <<>>
      BY <1>1, <1>3
    <2>2. LinesOf(v) = {} /\ <<>> \in Seq(LinesOf(v))
      BY <2>1, EmptySeq DEF LinesOf
    <2> QED BY <1>1, <2>1, <2>2
  <1> QED BY <1>2, <1>3

LEMMA PutStep ==
    ASSUME IInv, NEW k \in Links, NEW a \in Actors, NEW v \in LinkValues, put_link(k, a, v)
    PROVE  LinksAgree'
  <1> DEFINE p == parse(v)
  <1> DEFINE r == [link[k] EXCEPT !.stage = IF p = None THEN "closed" ELSE "setting",
                                  !.actor = a, !.values = v,
                                  !.lines = IF p = None THEN <<>> ELSE p.lines,
                                  !.config = IF p = None THEN StorageConfigDefault
                                            ELSE p.config,
                                  !.before = env, !.alone = Alone(k), !.last = TRUE]
  <1>1. LinksAgree /\ link[k].stage = "unused" /\ env' = env /\ LinkAgrees(k)
    BY DEF IInv, LinksAgree, put_link
  <1>2. DOMAIN link[k] = LinkFields /\ link[k].at = 1 /\ link[k].found = None
    BY <1>1 DEF LinkAgrees, LinkTyped, FoundAgrees
  <1>3. /\ DOMAIN link' = Links /\ link'[k] = r
        /\ \A j \in Links \ {k} :
             link'[j] = IF p = None THEN link[j]
                        ELSE [link[j] EXCEPT !.alone = @ /\ ~AtWork(j), !.last = FALSE]
    <2> DEFINE begun == [link EXCEPT ![k] = r]
    <2>1. /\ link' = IF p = None THEN begun
                     ELSE [j \in Links |->
                             IF j = k THEN begun[j]
                             ELSE [begun[j] EXCEPT !.alone = @ /\ ~AtWork(j), !.last = FALSE]]
      BY DEF put_link
    <2> HIDE DEF r, p
    <2>2. DOMAIN begun = Links /\ begun[k] = r /\ \A j \in Links \ {k} : begun[j] = link[j]
      BY <1>1 DEF LinksAgree
    <2> HIDE DEF begun
    <2> QED BY <2>1, <2>2
  <1>4. /\ DOMAIN r = LinkFields
        /\ r.stage = (IF p = None THEN "closed" ELSE "setting")
        /\ r.actor = a /\ r.values = v /\ r.before = env /\ r.at = 1 /\ r.found = None
        /\ r.lines = (IF p = None THEN <<>> ELSE p.lines)
        /\ r.config = (IF p = None THEN StorageConfigDefault ELSE p.config)
        /\ r.alone = Alone(k) /\ r.last = TRUE
    BY <1>2 DEF LinkFields
  <1> HIDE DEF r, p
  <1>5. Alone(k) \in BOOLEAN
    BY DEF Alone
  <1>6. LinkAgrees(k)'
    <2>1. LinkTyped(k)'
      <3>1. DOMAIN r.config = Fields
        BY <1>1, <1>4, ParseFacts DEF p, StorageConfigDefault
      <3>2. p # None => p.lines \in Seq(LinesOf(v))
        BY ParseFacts DEF p
      <3>3. env \in [Vars -> Value]
        BY DEF IInv, TypeOK
      <3>4. 1 \in DOMAIN EnvReads
        BY DEF EnvReads
      <3> QED BY <1>3, <1>4, <1>5, <3>1, <3>2, <3>3, <3>4 DEF LinkTyped, Live, Stages, p
    <2>2. ConfigAgrees(k)'
      BY <1>3, <1>4 DEF ConfigAgrees, Config, p
    <2>3. FoundAgrees(k)'
      BY <1>3, <1>4 DEF FoundAgrees
    <2> QED BY <2>1, <2>2, <2>3 DEF LinkAgrees
  <1>7. EnvAgrees(k)'
    <2> SUFFICES ASSUME Undisturbed(k)'
                 PROVE  /\ Alone(k)'
                        /\ IF link'[k].stage = "setting"
                           THEN After(env', link'[k].lines) = Own(k)' ELSE env' = Own(k)'
      BY DEF EnvAgrees
    <2>1. p # None /\ Alone(k)
      BY <1>3, <1>4 DEF Undisturbed, AtWork, Live
    <2>2. \A j \in Links \ {k} : link'[j].stage = link[j].stage
      BY <1>1, <1>3 DEF LinksAgree, LinkAgrees, LinkTyped, LinkFields
    <2>3. Alone(k)'
      BY <2>1, <2>2 DEF Alone, AtWork
    <2>4. Own(k)' = After(env, p.lines)
      BY <1>3, <1>4 DEF Own, EnvLines, p
    <2> QED BY <1>1, <1>3, <1>4, <2>1, <2>3, <2>4
  <1>8. ASSUME NEW j \in Links \ {k} PROVE LinkAgrees(j)' /\ EnvAgrees(j)'
    <2>1. LinkAgrees(j) /\ EnvAgrees(j) /\ DOMAIN link[j] = LinkFields
          /\ link[j].last \in BOOLEAN /\ link[j].alone \in BOOLEAN
      BY <1>1 DEF LinksAgree, LinkAgrees, LinkTyped
    <2>2. CASE p = None
      <3>1. Moves(j)
        BY <1>3, <2>1, <2>2 DEF Moves, Onward
      <3>2. \A l \in Links \ {j} : AtWork(l)' => AtWork(l)
        BY <1>3, <1>4, <2>2 DEF AtWork
      <3> QED BY <1>1, <2>1, <3>1, <3>2, MovesKeepLink, MovesKeepEnv
    <2>3. CASE p # None
      <3>1. /\ DOMAIN link'[j] = LinkFields
            /\ \A f \in LinkFields \ {"alone", "last"} : link'[j][f] = link[j][f]
            /\ link'[j].alone = (link[j].alone /\ ~AtWork(j)) /\ link'[j].last = FALSE
        BY <1>3, <2>1, <2>3 DEF LinkFields
      <3>2. Moves(j)
        BY <2>1, <3>1 DEF Moves, Onward, LinkFields, AtWork
      <3>3. LinkAgrees(j)' /\ (AtWork(j)' <=> AtWork(j))
        BY <2>1, <3>2, MovesKeepLink
      <3>4. ~Undisturbed(j)'
        BY <3>1, <3>3 DEF Undisturbed
      <3> QED BY <3>3, <3>4 DEF EnvAgrees
    <2> QED BY <2>2, <2>3
  <1> QED BY <1>3, <1>6, <1>7, <1>8 DEF LinksAgree

\* One more line of the env file is set, or the file has come to its end.
LEMMA SetVarStep ==
    ASSUME IInv, NEW k \in Links, set_var(k)
    PROVE  LinksAgree' /\ env' \in [Vars -> Value]
  <1>1. /\ LinksAgree /\ link[k].stage = "setting" /\ env \in [Vars -> Value] /\ AtWork(k)
        /\ LinkTyped(k) /\ ConfigAgrees(k) /\ FoundAgrees(k) /\ EnvAgrees(k)
        /\ Live(k) /\ DOMAIN link = Links
    BY DEF IInv, LinksAgree, LinkAgrees, set_var, TypeOK, AtWork, Live
  <1>2. /\ DOMAIN link[k] = LinkFields /\ link[k].at = 1 /\ link[k].found = None
        /\ link[k].lines \in Seq(LinesOf(link[k].values))
        /\ link[k].config = Config(k)
    BY <1>1 DEF LinkTyped, ConfigAgrees, FoundAgrees
  <1>3. CASE link[k].lines = <<>>
    <2>1. link' = [link EXCEPT ![k].stage = "reading"] /\ env' = env
      BY <1>3 DEF set_var
    <2>2. /\ DOMAIN link' = Links /\ \A j \in Links \ {k} : link'[j] = link[j]
          /\ DOMAIN link'[k] = LinkFields /\ link'[k].stage = "reading"
          /\ \A f \in LinkFields \ {"stage"} : link'[k][f] = link[k][f]
      BY <1>1, <1>2, <2>1 DEF LinkFields
    <2>3. Own(k)' = Own(k) /\ Config(k)' = Config(k)
      BY <2>2 DEF Own, Config, EnvLines, LinkFields
    <2>4. LinkTyped(k)'
      BY <1>1, <2>2 DEF LinkTyped, LinkFields, Live, Stages
    <2>5. ConfigAgrees(k)'
      <3>1. ReadSoFar(k)'
        <4>1. Position(k)' = 1
          BY <1>2, <2>2 DEF Position, LinkFields
        <4>2. \A i \in DOMAIN EnvReads : ~Taken(k, i)'
          BY <4>1 DEF Taken, EnvReads
        <4>3. link'[k].config = Config(k)'
          BY <1>2, <2>2, <2>3 DEF LinkFields
        <4> QED BY <4>1, <4>2, <4>3 DEF ReadSoFar
      <3> QED BY <2>2, <3>1 DEF ConfigAgrees
    <2>6. FoundAgrees(k)'
      BY <1>2, <2>2 DEF FoundAgrees, LinkFields
    <2>7. EnvAgrees(k)'
      <3>1. Undisturbed(k)' => Undisturbed(k)
        BY <1>1, <2>2 DEF Undisturbed, LinkFields
      <3>2. After(env, link[k].lines) = env
        BY <1>1, <1>3, AfterAll
      <3>3. Alone(k) => Alone(k)'
        BY <2>2 DEF Alone, AtWork
      <3> QED BY <1>1, <2>1, <2>2, <2>3, <3>1, <3>2, <3>3 DEF EnvAgrees
    <2> QED BY <1>1, <2>1, <2>2, <2>4, <2>5, <2>6, <2>7, WorkKeepsLinks DEF LinkAgrees
  <1>4. CASE link[k].lines # <<>>
    <2> DEFINE line == Head(link[k].lines)
    <2>1. /\ env' = [env EXCEPT ![line.key] = line.value]
          /\ link' = [link EXCEPT ![k].lines = Tail(@)]
      BY <1>4 DEF set_var
    <2>2. /\ DOMAIN link' = Links /\ \A j \in Links \ {k} : link'[j] = link[j]
          /\ DOMAIN link'[k] = LinkFields /\ link'[k].lines = Tail(link[k].lines)
          /\ \A f \in LinkFields \ {"lines"} : link'[k][f] = link[k][f]
      BY <1>1, <1>2, <2>1 DEF LinkFields
    <2>3. Own(k)' = Own(k) /\ Config(k)' = Config(k)
      BY <2>2 DEF Own, Config, EnvLines, LinkFields
    <2>4. line \in LinesOf(link[k].values) /\ Tail(link[k].lines) \in Seq(LinesOf(link[k].values))
      BY <1>2, <1>4, HeadTailProperties
    <2>5. LinkTyped(k)'
      BY <1>1, <2>2, <2>4 DEF LinkTyped, LinkFields, Live, Stages
    <2>6. ConfigAgrees(k)' /\ FoundAgrees(k)'
      BY <1>1, <1>2, <2>2, <2>3 DEF ConfigAgrees, FoundAgrees, LinkFields
    <2>7. EnvAgrees(k)'
      <3>1. Undisturbed(k)' => Undisturbed(k)
        BY <1>1, <2>2 DEF Undisturbed, LinkFields
      <3>2. After(env', link'[k].lines) = After(env, link[k].lines)
        <4> DEFINE s == link[k].lines
        <4>1. s \in Seq(LinesOf(link[k].values)) /\ s # <<>>
          BY <1>2, <1>4
        <4> HIDE DEF s
        <4>2. After([env EXCEPT ![Head(s).key] = Head(s).value], Tail(s)) = After(env, s)
          BY <4>1, AfterLine
        <4> QED BY <2>1, <2>2, <4>2 DEF s
      <3>3. Alone(k) => Alone(k)'
        BY <2>2 DEF Alone, AtWork
      <3>4. link'[k].stage = "setting"
        BY <1>1, <2>2 DEF LinkFields
      <3> QED BY <1>1, <2>3, <3>1, <3>2, <3>3, <3>4 DEF EnvAgrees
    <2>8. env' \in [Vars -> Value]
      <3>1. link[k].values \in LinkValues /\ parse(link[k].values) # None
        BY <1>1 DEF LinkTyped
      <3>2. line.value \in Value
        BY <2>4, <3>1, ParseFacts
      <3> QED BY <1>1, <2>1, <3>2
    <2> QED BY <1>1, <2>2, <2>5, <2>6, <2>7, <2>8, WorkKeepsLinks DEF LinkAgrees
  <1> QED BY <1>3, <1>4

\* The variables and the fields they override.
LEMMA ReadFacts ==
    /\ DOMAIN EnvReads = 1..5 /\ Len(EnvReads) = 5
    /\ \A i \in 1..5 : EnvReads[i] \in Vars /\ FieldOf[EnvReads[i]] \in Fields
    /\ \A i, j \in 1..5 : FieldOf[EnvReads[i]] = FieldOf[EnvReads[j]] => i = j
    /\ \A i \in 1..5 : FieldOf[EnvReads[i]]
                         \notin {"access_key_id", "secret_access_key", "region"}
    /\ EnvReads[1] = "AWS_ROLE_ARN"
  <1>1. /\ DOMAIN EnvReads = 1..5 /\ Len(EnvReads) = 5
        /\ EnvReads[1] = "AWS_ROLE_ARN" /\ EnvReads[2] = "AWS_ROLE_REGION"
        /\ EnvReads[3] = "AWS_ROLE_SESSION_NAME" /\ EnvReads[4] = "AWS_ROLE_EXTERNAL_ID"
        /\ EnvReads[5] = "AWS_ENDPOINT"
    BY DEF EnvReads
  <1>2. /\ FieldOf["AWS_ROLE_ARN"] = "role" /\ FieldOf["AWS_ROLE_REGION"] = "role_region"
        /\ FieldOf["AWS_ROLE_SESSION_NAME"] = "session"
        /\ FieldOf["AWS_ROLE_EXTERNAL_ID"] = "external_id"
        /\ FieldOf["AWS_ENDPOINT"] = "endpoint"
    BY DEF FieldOf
  <1>3. 1..5 = {1, 2, 3, 4, 5}
    OBVIOUS
  <1>4. \A i \in 1..5 : EnvReads[i] \in Vars /\ FieldOf[EnvReads[i]] \in Fields
    BY <1>1, <1>2, <1>3 DEF Vars, Fields, StsFields
  <1>5. \A i, j \in 1..5 : FieldOf[EnvReads[i]] = FieldOf[EnvReads[j]] => i = j
    <2>1. /\ FieldOf[EnvReads[1]] = "role" /\ FieldOf[EnvReads[2]] = "role_region"
          /\ FieldOf[EnvReads[3]] = "session" /\ FieldOf[EnvReads[4]] = "external_id"
          /\ FieldOf[EnvReads[5]] = "endpoint"
      BY <1>1, <1>2
    <2> QED BY <1>3, <2>1
  <1>6. \A i \in 1..5 : FieldOf[EnvReads[i]]
                          \notin {"access_key_id", "secret_access_key", "region"}
    BY <1>1, <1>2, <1>3
  <1> QED BY <1>1, <1>4, <1>5, <1>6

\* The next variable is read.
LEMMA EnvVarStep ==
    ASSUME IInv, NEW k \in Links, env_var(k)
    PROVE  LinksAgree'
  <1> DEFINE i == link[k].at
  <1> DEFINE x == EnvReads[i]
  <1> DEFINE value == env[x]
  <1> DEFINE n == NextRead(i, value)
  <1>1. /\ LinksAgree /\ link[k].stage = "reading" /\ AtWork(k) /\ env' = env
        /\ LinkTyped(k) /\ ConfigAgrees(k) /\ FoundAgrees(k) /\ EnvAgrees(k)
        /\ Live(k) /\ DOMAIN link = Links /\ DOMAIN link[k] = LinkFields
        /\ i \in 1..5 /\ link[k].found = None
    BY ReadFacts
       DEF IInv, LinksAgree, LinkAgrees, LinkTyped, FoundAgrees, env_var, AtWork, Live
  <1>2. link' = [link EXCEPT ![k].config = Override(@, x, value),
                             ![k].at = IF n > Len(EnvReads) THEN 1 ELSE n,
                             ![k].stage = IF n > Len(EnvReads) THEN "configuring" ELSE @]
    BY DEF env_var
  <1> HIDE DEF i, x, value, n
  <1>3. /\ DOMAIN link' = Links /\ \A j \in Links \ {k} : link'[j] = link[j]
        /\ DOMAIN link'[k] = LinkFields
        /\ link'[k].config = Override(link[k].config, x, value)
        /\ link'[k].at = (IF n > 5 THEN 1 ELSE n)
        /\ link'[k].stage = (IF n > 5 THEN "configuring" ELSE "reading")
        /\ \A f \in LinkFields \ {"config", "at", "stage"} : link'[k][f] = link[k][f]
    BY <1>1, <1>2, ReadFacts DEF LinkFields
  <1>4. n = (IF i = 1 /\ value = None THEN 5 ELSE i + 1) /\ n \in 2..6
    BY <1>1, ReadFacts DEF NextRead, n
  <1>5. Position(k) = i /\ Position(k)' = n
    BY <1>1, <1>3, <1>4 DEF Position, i
  <1>6. Own(k)' = Own(k) /\ Config(k)' = Config(k)
    BY <1>3 DEF Own, Config, EnvLines, LinkFields
  <1>7. /\ DOMAIN link'[k].config = DOMAIN link[k].config
        /\ \A f \in DOMAIN link[k].config : f # FieldOf[x] => link'[k].config[f] = link[k].config[f]
        /\ FieldOf[x] \in DOMAIN link[k].config =>
             link'[k].config[FieldOf[x]] = IF value = None THEN link[k].config[FieldOf[x]]
                                           ELSE value
    BY <1>3 DEF Override
  <1>8. DOMAIN link[k].config = Fields
    BY <1>1 DEF LinkTyped
  <1>9. LinkTyped(k)'
    <2>1. link'[k].at \in DOMAIN EnvReads
      BY <1>3, <1>4, ReadFacts
    <2> QED BY <1>1, <1>3, <1>7, <1>8, <2>1 DEF LinkTyped, LinkFields, Live, Stages
  <1>10. ASSUME link[k].alone PROVE ReadSoFar(k)'
    <2>1. env = Own(k) /\ ReadSoFar(k)
      BY <1>1, <1>10 DEF EnvAgrees, ConfigAgrees, Undisturbed
    <2> HIDE DEF Undisturbed
    <2>2. value = Own(k)[x]
      BY <2>1 DEF value
    <2>3. i = 1 => x = "AWS_ROLE_ARN"
      BY ReadFacts DEF x
    <2>4. i \in {1, 5} \/ Own(k)["AWS_ROLE_ARN"] # None
      BY <1>1, <1>5, <2>1 DEF ReadSoFar
    <2>5. n \in 2..4 => Own(k)["AWS_ROLE_ARN"] # None
      BY <1>1, <1>4, <2>2, <2>3, <2>4
    <2>6. ASSUME NEW m \in 1..5
          PROVE  link'[k].config[FieldOf[EnvReads[m]]] =
                   IF Taken(k, m)' THEN Own(k)[EnvReads[m]] ELSE Config(k)[FieldOf[EnvReads[m]]]
      <3>1. /\ Taken(k, m) <=> /\ m < i /\ Own(k)[EnvReads[m]] # None
                               /\ m \in {1, 5} \/ Own(k)["AWS_ROLE_ARN"] # None
            /\ Taken(k, m)' <=> /\ m < n /\ Own(k)[EnvReads[m]] # None
                                /\ m \in {1, 5} \/ Own(k)["AWS_ROLE_ARN"] # None
        BY <1>5, <1>6 DEF Taken
      <3>2. link[k].config[FieldOf[EnvReads[m]]] =
              IF Taken(k, m) THEN Own(k)[EnvReads[m]] ELSE Config(k)[FieldOf[EnvReads[m]]]
        BY <2>1, ReadFacts DEF ReadSoFar
      <3>3. FieldOf[EnvReads[m]] \in Fields
        BY ReadFacts
      <3>4. CASE m = i
        <4>1. link'[k].config[FieldOf[x]] = IF value = None THEN link[k].config[FieldOf[x]]
                                            ELSE value
          BY <1>7, <1>8, <3>3, <3>4 DEF x
        <4>2. ~Taken(k, m) /\ (Taken(k, m)' <=> value # None)
          BY <1>1, <1>4, <2>2, <2>4, <3>1, <3>4 DEF x
        <4> QED BY <2>2, <3>2, <3>4, <4>1, <4>2 DEF x
      <3>5. CASE m # i
        <4>1. FieldOf[EnvReads[m]] # FieldOf[x]
          BY <1>1, <3>5, ReadFacts DEF x
        <4>2. link'[k].config[FieldOf[EnvReads[m]]] = link[k].config[FieldOf[EnvReads[m]]]
          BY <1>7, <1>8, <3>3, <4>1
        <4>3. Taken(k, m)' <=> Taken(k, m)
          <5>1. CASE n = i + 1
            BY <1>1, <3>1, <3>5, <5>1
          <5>2. CASE i = 1 /\ value = None
            <6>1. Own(k)["AWS_ROLE_ARN"] = None /\ n = 5
              BY <1>4, <2>2, <2>3, <5>2
            <6>2. m \in 2..4 \/ m = 5
              BY <3>5, <5>2
            <6> QED BY <3>1, <5>2, <6>1, <6>2
          <5> QED BY <1>4, <5>1, <5>2
        <4> QED BY <3>2, <4>2, <4>3
      <3> QED BY <3>4, <3>5
    <2>7. \A f \in {"access_key_id", "secret_access_key", "region"} :
            link'[k].config[f] = Config(k)[f]
      <3>1. \A f \in {"access_key_id", "secret_access_key", "region"} : f \in Fields /\ f # FieldOf[x]
        BY <1>1, ReadFacts DEF Fields, x
      <3> QED BY <1>7, <1>8, <2>1, <3>1 DEF ReadSoFar
    <2> QED BY <1>5, <1>6, <2>5, <2>6, <2>7, ReadFacts DEF ReadSoFar
  <1>11. link'[k].alone = link[k].alone
    BY <1>3 DEF LinkFields
  <1>12. ConfigAgrees(k)'
    BY <1>3, <1>10, <1>11 DEF ConfigAgrees
  <1>13. FoundAgrees(k)'
    BY <1>1, <1>3 DEF FoundAgrees, LinkFields
  <1>14. EnvAgrees(k)'
    <2>1. Undisturbed(k)' => Undisturbed(k)
      BY <1>1, <1>11 DEF Undisturbed
    <2>2. Alone(k) => Alone(k)'
      BY <1>3 DEF Alone, AtWork
    <2> QED BY <1>1, <1>3, <1>6, <2>1, <2>2 DEF EnvAgrees
  <1> QED BY <1>1, <1>3, <1>9, <1>12, <1>13, <1>14, WorkKeepsLinks DEF LinkAgrees

\* All that has been read adds up to the settings of the link.
LEMMA ConfiguredIsLayered ==
    ASSUME NEW k \in Links, LinkTyped(k), Live(k), link[k].stage = "configuring", ReadSoFar(k),
           env = Own(k)
    PROVE  configure_aws(link[k].config, env) = Layered(link[k].values, link[k].before)
  <1> DEFINE c == link[k].config
  <1> DEFINE d == Config(k)
  <1> DEFINE own == Own(k)
  <1> DEFINE first(y, z) == IF y # None THEN y ELSE z
  <1> DEFINE role(f, x) == IF own["AWS_ROLE_ARN"] # None THEN first(own[x], d[f]) ELSE d[f]
  <1>1. 1..5 = {1, 2, 3, 4, 5}
    OBVIOUS
  <1>2. \A i \in 1..5 :
          c[FieldOf[EnvReads[i]]] =
            IF /\ own[EnvReads[i]] # None
               /\ i \in {1, 5} \/ own["AWS_ROLE_ARN"] # None
            THEN own[EnvReads[i]] ELSE d[FieldOf[EnvReads[i]]]
    BY ReadFacts DEF ReadSoFar, Taken, Position
  <1>3. /\ c["role"] = role("role", "AWS_ROLE_ARN")
        /\ c["role_region"] = role("role_region", "AWS_ROLE_REGION")
        /\ c["session"] = role("session", "AWS_ROLE_SESSION_NAME")
        /\ c["external_id"] = role("external_id", "AWS_ROLE_EXTERNAL_ID")
        /\ c["endpoint"] = first(own["AWS_ENDPOINT"], d["endpoint"])
    <2>1. /\ FieldOf[EnvReads[1]] = "role" /\ FieldOf[EnvReads[2]] = "role_region"
          /\ FieldOf[EnvReads[3]] = "session" /\ FieldOf[EnvReads[4]] = "external_id"
          /\ FieldOf[EnvReads[5]] = "endpoint"
          /\ EnvReads[1] = "AWS_ROLE_ARN" /\ EnvReads[2] = "AWS_ROLE_REGION"
          /\ EnvReads[3] = "AWS_ROLE_SESSION_NAME" /\ EnvReads[4] = "AWS_ROLE_EXTERNAL_ID"
          /\ EnvReads[5] = "AWS_ENDPOINT"
      BY DEF EnvReads, FieldOf
    <2> HIDE DEF c, d, own
    <2> QED BY <1>1, <1>2, <2>1
  <1>4. /\ c["access_key_id"] = d["access_key_id"]
        /\ c["secret_access_key"] = d["secret_access_key"] /\ c["region"] = d["region"]
    BY DEF ReadSoFar
  <1>5. d["role"] = None => d["session"] = None
    BY DynamoDbAssumption DEF LinkTyped, Config, StsFields
  <1>6. DOMAIN c = Fields
    BY DEF LinkTyped
  <1> DEFINE keys == d["access_key_id"] # None /\ d["secret_access_key"] # None
  <1> DEFINE lay == [access_key_id |-> IF keys THEN d["access_key_id"] ELSE None,
        secret_access_key |-> IF keys THEN d["secret_access_key"] ELSE None,
        region |-> first(d["region"], own["AWS_REGION"]),
        endpoint |-> IF c["endpoint"] # None /\ IsEndpoint(c["endpoint"]) THEN c["endpoint"]
                     ELSE None,
        role |-> c["role"],
        role_region |-> c["role_region"],
        session |-> IF c["role"] = None THEN None ELSE first(c["session"], DefaultSession),
        external_id |-> c["external_id"]]
  <1>7. Layered(link[k].values, link[k].before) = lay
    BY <1>3 DEF Layered, Own, Config, EnvLines
  <1>8. c["role"] = None => c["session"] = None
    BY <1>3, <1>5
  <1>9. configure_aws(c, own) = lay
    <2> DEFINE conf == configure_aws(c, own)
    <2> HIDE DEF c, d, own
    <2>1. DOMAIN conf = Fields /\ conf = [f \in Fields |-> conf[f]]
      BY <1>6 DEF configure_aws
    <2>2. /\ conf["access_key_id"] = lay["access_key_id"]
          /\ conf["secret_access_key"] = lay["secret_access_key"]
          /\ conf["region"] = lay["region"]
      BY <1>4, <1>6 DEF configure_aws, Fields
    <2>3. conf["endpoint"] = lay["endpoint"]
      BY <1>6 DEF configure_aws, Fields
    <2>4. /\ conf["role"] = lay["role"] /\ conf["role_region"] = lay["role_region"]
          /\ conf["session"] = lay["session"] /\ conf["external_id"] = lay["external_id"]
      BY <1>6, <1>8 DEF configure_aws, Fields, StsFields
    <2>5. DOMAIN lay = Fields /\ lay = [f \in Fields |-> lay[f]]
      BY DEF Fields, StsFields
    <2> HIDE DEF conf, lay
    <2>6. \A f \in Fields : conf[f] = lay[f]
      BY <2>2, <2>3, <2>4 DEF Fields, StsFields
    <2> QED BY <2>1, <2>5, <2>6 DEF conf
  <1> QED BY <1>7, <1>9

\* The client is built from what has been read.
LEMMA NewStep ==
    ASSUME IInv, NEW k \in Links, new(k)
    PROVE  LinksAgree'
  <1>1. /\ LinksAgree /\ link[k].stage = "configuring" /\ AtWork(k) /\ env' = env
        /\ LinkTyped(k) /\ ConfigAgrees(k) /\ FoundAgrees(k) /\ EnvAgrees(k)
        /\ Live(k) /\ DOMAIN link = Links /\ DOMAIN link[k] = LinkFields
        /\ link[k].found = None
    BY DEF IInv, LinksAgree, LinkAgrees, LinkTyped, FoundAgrees, new, AtWork, Live
  <1> DEFINE c == configure_aws(link[k].config, env)
  <1>2. link' = [link EXCEPT ![k].config = c, ![k].stage = "ready"]
    BY <1>1 DEF new
  <1>3. DOMAIN c = Fields
    BY <1>1 DEF configure_aws, LinkTyped
  <1>4. link[k].alone => env = Own(k) /\ c = Layered(link[k].values, link[k].before)
    BY <1>1, ConfiguredIsLayered DEF EnvAgrees, Undisturbed, ConfigAgrees
  <1> HIDE DEF c
  <1>5. /\ DOMAIN link' = Links /\ \A j \in Links \ {k} : link'[j] = link[j]
        /\ DOMAIN link'[k] = LinkFields /\ link'[k].config = c /\ link'[k].stage = "ready"
        /\ \A f \in LinkFields \ {"config", "stage"} : link'[k][f] = link[k][f]
    BY <1>1, <1>2 DEF LinkFields
  <1>6. Own(k)' = Own(k)
    BY <1>5 DEF Own, EnvLines, LinkFields
  <1>7. LinkTyped(k)'
    BY <1>1, <1>3, <1>5 DEF LinkTyped, LinkFields, Live, Stages
  <1>8. ConfigAgrees(k)' /\ FoundAgrees(k)'
    BY <1>1, <1>4, <1>5 DEF ConfigAgrees, FoundAgrees, LinkFields
  <1>9. EnvAgrees(k)'
    <2>1. Undisturbed(k)' => Undisturbed(k) /\ link[k].alone
      BY <1>1, <1>5 DEF Undisturbed, LinkFields
    <2>2. Alone(k) => Alone(k)'
      BY <1>5 DEF Alone, AtWork
    <2> QED BY <1>1, <1>4, <1>5, <1>6, <2>1, <2>2 DEF EnvAgrees
  <1> QED BY <1>1, <1>5, <1>7, <1>8, <1>9, WorkKeepsLinks DEF LinkAgrees

-----------------------------------------------------------------------------
(* Clients and calls. *)

\* Of the link only the stage changes.
Stage(k, s) ==
    /\ DOMAIN link'[k] = LinkFields /\ link'[k].stage = s
    /\ \A f \in LinkFields \ {"stage"} : link'[k][f] = link[k][f]

LEMMA StagesMoveOn ==
    ASSUME IInv, NEW k \in Links, NEW s, Stage(k, s), Onward(link[k].stage, s)
    PROVE  Moves(k)
  <1>1. LinkTyped(k)
    BY DEF IInv, LinksAgree, LinkAgrees
  <1> QED BY <1>1 DEF Moves, LinkTyped, LinkFields, Stage

\* The clients that are taken out of the map, or replaced, are dropped.
StageAfter(k, D) == IF k \in D THEN "dropped" ELSE link[k].stage

LEMMA DroppedStages ==
    ASSUME IInv, NEW D, NEW k \in Links, Dropped(D)[k] = link'[k]
    PROVE  Stage(k, StageAfter(k, D))
  <1>1. DOMAIN link[k] = LinkFields
    BY DEF IInv, LinksAgree, LinkAgrees, LinkTyped
  <1>2. CASE k \in D
    <2>1. link'[k] = [link[k] EXCEPT !.stage = "dropped"]
      BY <1>2 DEF Dropped
    <2> QED BY <1>1, <1>2, <2>1 DEF Stage, StageAfter, LinkFields
  <1>3. CASE k \notin D
    <2>1. link'[k] = link[k]
      BY <1>3 DEF Dropped
    <2> QED BY <1>1, <1>3, <2>1 DEF Stage, StageAfter, LinkFields
  <1> QED BY <1>2, <1>3

\* Clients of the map are linked, so that to drop them is to move on.
LEMMA DropMovesOn ==
    ASSUME IInv, NEW A \in SUBSET Actors, NEW k \in Links
    PROVE  Onward(link[k].stage, StageAfter(k, {actors[a] : a \in A}))
  <1> SUFFICES ASSUME k \in {actors[a] : a \in A} PROVE Onward(link[k].stage, "dropped")
    BY DEF StageAfter, Onward
  <1>1. PICK a \in A : actors[a] = k
    OBVIOUS
  <1>2. k # None
    BY DynamoDbAssumption
  <1> QED BY <1>1, <1>2 DEF IInv, MapAgrees, Onward

\* Calls keep their clients while the stages move on, but for those that close.
LEMMA CallsKeep ==
    ASSUME IInv, call' = call,
           \A q \in Calls : call[q].via # None =>
             Onward(link[call[q].via].stage, link'[call[q].via].stage)
             /\ link'[call[q].via].stage # "closed"
    PROVE  CallsAgree'
  <1>1. ASSUME NEW q \in Calls, call[q].via # None
        PROVE  link'[call[q].via].stage \in {"linked", "dropped"}
    <2>1. link[call[q].via].stage \in {"linked", "dropped"}
      BY <1>1 DEF IInv, CallsAgree
    <2> QED BY <1>1, <2>1, OnwardFacts
  <1> QED BY <1>1 DEF IInv, CallsAgree

\* The map after clients were taken out of it.
LEMMA ReleaseStep ==
    ASSUME IInv, NEW A \in SUBSET Actors, env' = env, call' = call,
           actors' = [a \in Actors |-> IF a \in A THEN None ELSE actors[a]],
           link' = Dropped({actors[a] : a \in A})
    PROVE  LinksAgree' /\ MapAgrees' /\ CallsAgree' /\ actors' \in [Actors -> Links \cup {None}]
  <1> DEFINE D == {actors[a] : a \in A}
  <1>1. DOMAIN link' = Links
    BY DEF Dropped
  <1>2. ASSUME NEW k \in Links
        PROVE  Moves(k) /\ Stage(k, StageAfter(k, D)) /\ Onward(link[k].stage, link'[k].stage)
    <2>1. Stage(k, StageAfter(k, D))
      BY DroppedStages
    <2>2. Onward(link[k].stage, StageAfter(k, D))
      BY DropMovesOn
    <2> HIDE DEF D
    <2> QED BY <2>1, <2>2, StagesMoveOn DEF Stage
  <1>3. LinksAgree'
    BY <1>1, <1>2, MovesKeepLinks DEF IInv
  <1>4. actors \in [Actors -> Links \cup {None}] /\ actors' \in [Actors -> Links \cup {None}]
    BY DEF IInv, TypeOK
  <1>5. MapAgrees'
    <2> SUFFICES ASSUME NEW a \in Actors, actors'[a] # None
                 PROVE  link'[actors'[a]].stage = "linked" /\ link'[actors'[a]].actor = a
      BY DEF MapAgrees
    <2> DEFINE k == actors[a]
    <2>1. a \notin A /\ actors'[a] = k /\ k \in Links /\ link[k].stage = "linked"
          /\ link[k].actor = a
      BY <1>4 DEF IInv, MapAgrees
    <2>2. k \notin D
      <3> SUFFICES ASSUME NEW b \in A, actors[b] = k PROVE FALSE
        OBVIOUS
      <3>1. link[k].actor = b
        BY <2>1, DynamoDbAssumption DEF IInv, MapAgrees
      <3> QED BY <2>1, <3>1
    <2> HIDE DEF D, k
    <2>3. Stage(k, link[k].stage)
      BY <1>2, <2>1, <2>2 DEF StageAfter
    <2> QED BY <2>1, <2>3 DEF Stage, LinkFields
  <1>6. CallsAgree'
    <2> HIDE DEF D
    <2>1. \A q \in Calls : call[q].via # None => call[q].via \in Links
      BY DEF IInv, TypeOK
    <2>2. \A k \in Links : link'[k].stage = "closed" => link[k].stage = "closed"
      BY <1>2 DEF Stage, StageAfter
    <2>3. \A q \in Calls : call[q].via # None => link[call[q].via].stage # "closed"
      BY DEF IInv, CallsAgree
    <2> QED BY <1>2, <2>1, <2>2, <2>3, CallsKeep
  <1> QED BY <1>3, <1>4, <1>5, <1>6

\* put_link ends: the client is the actor's, the one it replaces is dropped.
LEMMA InsertStep ==
    ASSUME IInv, NEW k \in Links, insert(k)
    PROVE  LinksAgree' /\ MapAgrees' /\ CallsAgree' /\ actors' \in [Actors -> Links \cup {None}]
  <1> DEFINE a == link[k].actor
  <1> DEFINE D == {actors[b] : b \in {a}}
  <1>1. /\ link[k].stage = "ready" /\ a \in Actors /\ DOMAIN link[k] = LinkFields
        /\ actors \in [Actors -> Links \cup {None}]
    BY DEF IInv, TypeOK, LinksAgree, LinkAgrees, LinkTyped, Live, insert
  <1>2. /\ actors' = [actors EXCEPT ![a] = k] /\ env' = env /\ call' = call
        /\ link' = [Dropped(D) EXCEPT ![k].stage = "linked"]
    <2>1. D = {actors[a]}
      OBVIOUS
    <2> QED BY <2>1 DEF insert
  <1>3. k \notin D
    BY <1>1, DynamoDbAssumption DEF IInv, MapAgrees
  <1>4. /\ DOMAIN link' = Links
        /\ \A j \in Links \ {k} : Dropped(D)[j] = link'[j]
        /\ link'[k] = [link[k] EXCEPT !.stage = "linked"]
    <2> HIDE DEF D, a
    <2>1. DOMAIN Dropped(D) = Links /\ Dropped(D)[k] = link[k]
      BY <1>3 DEF Dropped
    <2> QED BY <1>2, <2>1
  <1>5. Stage(k, "linked") /\ Onward(link[k].stage, "linked") /\ Moves(k)
    <2>1. Stage(k, "linked") /\ Onward(link[k].stage, "linked")
      BY <1>1, <1>4 DEF Stage, LinkFields, Onward
    <2> QED BY <2>1, StagesMoveOn
  <1>6. ASSUME NEW j \in Links \ {k}
        PROVE  Moves(j) /\ Stage(j, StageAfter(j, D)) /\ Onward(link[j].stage, link'[j].stage)
    <2>1. Stage(j, StageAfter(j, D))
      BY <1>4, DroppedStages
    <2>2. Onward(link[j].stage, StageAfter(j, D))
      BY <1>1, DropMovesOn
    <2> HIDE DEF D
    <2> QED BY <2>1, <2>2, StagesMoveOn DEF Stage
  <1>7. LinksAgree'
    BY <1>2, <1>4, <1>5, <1>6, MovesKeepLinks DEF IInv
  <1>8. actors' \in [Actors -> Links \cup {None}]
    BY <1>1, <1>2
  <1>9. MapAgrees'
    <2> SUFFICES ASSUME NEW b \in Actors, actors'[b] # None
                 PROVE  link'[actors'[b]].stage = "linked" /\ link'[actors'[b]].actor = b
      BY DEF MapAgrees
    <2>1. CASE b = a
      BY <1>1, <1>2, <1>5, <2>1 DEF Stage, LinkFields
    <2>2. CASE b # a
      <3> DEFINE j == actors[b]
      <3>1. actors'[b] = j /\ j \in Links /\ link[j].stage = "linked" /\ link[j].actor = b
        BY <1>1, <1>2, <2>2 DEF IInv, MapAgrees
      <3>2. j # k
        BY <1>1, <3>1
      <3>3. j \notin D
        BY <1>1, <2>2, <3>1, DynamoDbAssumption DEF IInv, MapAgrees
      <3> HIDE DEF D, j
      <3>4. Stage(j, "linked")
        BY <1>6, <3>1, <3>2, <3>3 DEF StageAfter
      <3> QED BY <3>1, <3>4 DEF Stage, LinkFields
    <2> QED BY <2>1, <2>2
  <1>10. CallsAgree'
    <2> HIDE DEF D
    <2>1. \A q \in Calls : call[q].via # None => call[q].via \in Links
      BY DEF IInv, TypeOK
    <2>2. \A j \in Links : link'[j].stage = "closed" => link[j].stage = "closed"
      BY <1>5, <1>6 DEF Stage, StageAfter
    <2>3. \A q \in Calls : call[q].via # None => link[call[q].via].stage # "closed"
      BY DEF IInv, CallsAgree
    <2>4. \A j \in Links : Onward(link[j].stage, link'[j].stage)
      BY <1>5, <1>6 DEF Stage
    <2> QED BY <1>2, <2>1, <2>2, <2>3, <2>4, CallsKeep
  <1> QED BY <1>7, <1>8, <1>9, <1>10

\* The last clone of a dropped client is gone.
LEMMA CloseStep ==
    ASSUME IInv, NEW k \in Links, Close(k)
    PROVE  LinksAgree' /\ MapAgrees' /\ CallsAgree'
  <1>1. /\ link[k].stage = "dropped" /\ DOMAIN link = Links
        /\ \A j \in Links : DOMAIN link[j] = LinkFields
        /\ actors \in [Actors -> Links \cup {None}]
        /\ actors' = actors /\ env' = env /\ call' = call
        /\ link' = [link EXCEPT ![k].stage = "closed"]
        /\ \A q \in Calls : call[q].via # k
    BY DEF IInv, TypeOK, LinksAgree, LinkAgrees, LinkTyped, Close
  <1>2. /\ DOMAIN link' = Links /\ Stage(k, "closed")
        /\ \A j \in Links \ {k} : link'[j] = link[j] /\ Stage(j, link[j].stage)
    BY <1>1 DEF Stage, LinkFields
  <1>3. ASSUME NEW j \in Links PROVE Moves(j) /\ Onward(link[j].stage, link'[j].stage)
    <2>1. CASE j = k
      <3>1. Stage(j, "closed") /\ Onward(link[j].stage, "closed")
        BY <1>1, <1>2, <2>1 DEF Onward
      <3> QED BY <3>1, StagesMoveOn DEF Stage
    <2>2. CASE j # k
      <3>1. Stage(j, link[j].stage) /\ Onward(link[j].stage, link[j].stage)
        BY <1>2, <2>2 DEF Onward
      <3> QED BY <3>1, StagesMoveOn DEF Stage
    <2> QED BY <2>1, <2>2
  <1>4. LinksAgree'
    BY <1>1, <1>2, <1>3, MovesKeepLinks DEF IInv
  <1>5. MapAgrees'
    <2>1. \A a \in Actors : actors[a] # None => actors[a] # k
      BY <1>1 DEF IInv, MapAgrees
    <2> QED BY <1>1, <1>2, <2>1 DEF IInv, MapAgrees
  <1>6. CallsAgree'
    <2>1. \A q \in Calls : call[q].via # None => call[q].via \in Links \ {k}
      BY <1>1 DEF IInv, TypeOK
    <2>2. \A q \in Calls : call[q].via # None => link[call[q].via].stage # "closed"
      BY DEF IInv, CallsAgree
    <2> QED BY <1>1, <1>2, <1>3, <2>1, <2>2, CallsKeep
  <1> QED BY <1>4, <1>5, <1>6

\* The first request of a client finds its keys where the link left them.
LEMMA FindKeysStep ==
    ASSUME IInv, NEW q \in Calls, find_keys(q)
    PROVE  LinksAgree' /\ MapAgrees' /\ CallsAgree'
  <1>a. PICK k \in Links : k = call[q].via
    BY DEF IInv, TypeOK, find_keys
  <1>1. /\ link[k].stage \in {"linked", "dropped"}
        /\ actors' = actors /\ env' = env /\ call' = call
        /\ link' = [link EXCEPT ![k].found = Keys(env)]
    BY <1>a DEF IInv, CallsAgree, find_keys
  <1>2. /\ DOMAIN link = Links /\ \A j \in Links : LinkTyped(j) /\ DOMAIN link[j] = LinkFields
        /\ LinkAgrees(k) /\ EnvAgrees(k) /\ Live(k)
        /\ actors \in [Actors -> Links \cup {None}]
    BY <1>1 DEF IInv, TypeOK, LinksAgree, LinkAgrees, LinkTyped, Live
  <1>3. /\ DOMAIN link' = Links /\ \A j \in Links \ {k} : link'[j] = link[j]
        /\ DOMAIN link'[k] = LinkFields /\ link'[k].found = Keys(env)
        /\ \A f \in LinkFields \ {"found"} : link'[k][f] = link[k][f]
    BY <1>1, <1>2 DEF LinkFields
  <1>4. \A j \in Links : link'[j].stage = link[j].stage /\ link'[j].actor = link[j].actor
    BY <1>3 DEF LinkFields
  <1>5. Own(k)' = Own(k) /\ Config(k)' = Config(k)
        /\ Layered(link'[k].values, link'[k].before) = Layered(link[k].values, link[k].before)
    BY <1>3 DEF Own, Config, EnvLines, LinkFields
  <1>6. LinkAgrees(k)'
    <2>1. LinkTyped(k)'
      BY <1>2, <1>3 DEF LinkTyped, LinkFields, Live
    <2>2. ConfigAgrees(k)'
      BY <1>1, <1>2, <1>3, <1>5 DEF LinkAgrees, ConfigAgrees, LinkFields
    <2>3. FoundAgrees(k)'
      <3>1. link[k].alone /\ link[k].last => env = Own(k)
        BY <1>1, <1>2 DEF EnvAgrees, Undisturbed
      <3> QED BY <1>1, <1>3, <1>5, <3>1 DEF FoundAgrees, LinkFields
    <2> QED BY <2>1, <2>2, <2>3 DEF LinkAgrees
  <1>7. EnvAgrees(k)'
    <2>1. Undisturbed(k)' <=> Undisturbed(k)
      BY <1>3 DEF Undisturbed, AtWork, Live, LinkFields
    <2>2. Alone(k)' <=> Alone(k)
      BY <1>4 DEF Alone, AtWork
    <2> QED BY <1>1, <1>2, <1>4, <1>5, <2>1, <2>2 DEF EnvAgrees
  <1>8. ASSUME NEW j \in Links \ {k} PROVE LinkAgrees(j)' /\ EnvAgrees(j)'
    <2>1. LinkAgrees(j) /\ EnvAgrees(j)
      BY DEF IInv, LinksAgree
    <2>2. Moves(j)
      BY <1>2, <1>3 DEF Moves, Onward, LinkTyped
    <2>3. \A l \in Links \ {j} : AtWork(l)' => AtWork(l)
      BY <1>4 DEF AtWork
    <2> QED BY <1>1, <2>1, <2>2, <2>3, MovesKeepLink, MovesKeepEnv
  <1>9. LinksAgree'
    BY <1>3, <1>6, <1>7, <1>8 DEF LinksAgree
  <1>10. MapAgrees'
    BY <1>1, <1>2, <1>4 DEF IInv, MapAgrees
  <1>11. CallsAgree'
    <2>1. \A c \in Calls : call[c].via # None => call[c].via \in Links
      BY DEF IInv, TypeOK
    <2> QED BY <1>1, <1>4, <2>1 DEF IInv, CallsAgree
  <1> QED BY <1>9, <1>10, <1>11

\* Beginning and end of a call.
LEMMA CallStep ==
    ASSUME IInv, NEW q \in Calls, (\E a \in Actors : execute(q, a)) \/ respond(q)
    PROVE  /\ link' = link /\ actors' = actors /\ env' = env /\ CallsAgree'
           /\ \A c \in Calls : call'[c].via \in Links \cup {None}
                               /\ call'[c].answer \in {"none", "ok", "error", "panic"}
  <1> DEFINE Ends == {"none", "ok", "error", "panic"}
  <1>1. link' = link /\ actors' = actors /\ env' = env
    BY DEF execute, respond
  <1>2. PICK v, end : /\ call' = [call EXCEPT ![q] = [via |-> v, answer |-> end]]
                      /\ v = None \/ (\E a \in Actors : v = actors[a] /\ actors[a] # None)
                      /\ end \in Ends
    <2>1. CASE \E a \in Actors : execute(q, a)
      BY <2>1, DynamoDbAssumption DEF execute, Answer
    <2>2. CASE respond(q)
      BY <2>2, DynamoDbAssumption DEF respond, Answer
    <2> QED BY <2>1, <2>2
  <1>3. v # None => v \in Links /\ link[v].stage = "linked"
    BY <1>2 DEF IInv, TypeOK, MapAgrees
  <1>4. DOMAIN call = Calls /\ \A c \in Calls : call[c].via \in Links \cup {None}
                                               /\ call[c].answer \in Ends
    BY DEF IInv, TypeOK, CallsAgree
  <1>5. \A c \in Calls : call'[c] = IF c = q THEN [via |-> v, answer |-> end] ELSE call[c]
    BY <1>2, <1>4
  <1>6. call' = [c \in Calls |-> [via |-> call'[c].via, answer |-> call'[c].answer]]
    <2>1. call' = [c \in Calls |-> call'[c]]
      BY <1>2, <1>4
    <2>2. \A c \in Calls : call'[c] = [via |-> call'[c].via, answer |-> call'[c].answer]
      BY <1>5 DEF IInv, CallsAgree
    <2> QED BY <2>1, <2>2
  <1>7. \A c \in Calls : call'[c].via # None => link[call'[c].via].stage \in {"linked", "dropped"}
    <2>1. \A c \in Calls : call[c].via # None => link[call[c].via].stage \in {"linked", "dropped"}
      BY DEF IInv, CallsAgree
    <2> QED BY <1>3, <1>5, <2>1
  <1>8. CallsAgree'
    BY <1>1, <1>6, <1>7 DEF CallsAgree
  <1>9. \A c \in Calls : call'[c].via \in Links \cup {None} /\ call'[c].answer \in Ends
    BY <1>2, <1>3, <1>4, <1>5
  <1> QED BY <1>1, <1>8, <1>9

-----------------------------------------------------------------------------
(* What the operations do, as LinkResources sees them. *)

\* put_link takes an unused link for the actor and leaves the others be.
LEMMA PutEffect ==
    ASSUME IInv, NEW k \in Links, NEW a \in Actors, NEW v \in LinkValues, put_link(k, a, v)
    PROVE  /\ link[k].stage = "unused" /\ link'[k].stage \in {"setting", "closed"}
           /\ link'[k].actor = a /\ actors' = actors /\ call' = call /\ env' = env
           /\ \A j \in Links \ {k} : link'[j].stage = link[j].stage /\ link'[j].actor = link[j].actor
  <1> DEFINE p == parse(v)
  <1> DEFINE r == [link[k] EXCEPT !.stage = IF p = None THEN "closed" ELSE "setting",
                                  !.actor = a, !.values = v,
                                  !.lines = IF p = None THEN <<>> ELSE p.lines,
                                  !.config = IF p = None THEN StorageConfigDefault
                                             ELSE p.config,
                                  !.before = env, !.alone = Alone(k), !.last = TRUE]
  <1> DEFINE begun == [link EXCEPT ![k] = r]
  <1>1. /\ DOMAIN link = Links /\ \A j \in Links : DOMAIN link[j] = LinkFields
        /\ link[k].stage = "unused" /\ actors' = actors /\ call' = call /\ env' = env
    BY DEF IInv, LinksAgree, LinkAgrees, LinkTyped, put_link
  <1>2. link' = IF p = None THEN begun
                ELSE [j \in Links |->
                        IF j = k THEN begun[j]
                        ELSE [begun[j] EXCEPT !.alone = @ /\ ~AtWork(j), !.last = FALSE]]
    BY DEF put_link
  <1>3. r.stage \in {"setting", "closed"} /\ r.actor = a
    BY <1>1 DEF LinkFields
  <1> HIDE DEF r
  <1>4. begun[k] = r /\ \A j \in Links \ {k} : begun[j] = link[j]
    BY <1>1
  <1> HIDE DEF begun, p
  <1>5. \A j \in Links \ {k} : link'[j].stage = link[j].stage /\ link'[j].actor = link[j].actor
    BY <1>1, <1>2, <1>4 DEF LinkFields
  <1>6. link'[k] = r
    BY <1>2, <1>4
  <1> QED BY <1>1, <1>3, <1>5, <1>6

\* The steps of put_link between its beginning and its end.
LEMMA WorkEffect ==
    ASSUME IInv, NEW k \in Links, set_var(k) \/ env_var(k) \/ new(k)
    PROVE  /\ AtWork(k) /\ link'[k].stage \in {"setting", "reading", "configuring", "ready"}
           /\ link'[k].actor = link[k].actor /\ actors' = actors /\ call' = call
           /\ \A j \in Links \ {k} : link'[j] = link[j]
  <1>1. DOMAIN link = Links /\ DOMAIN link[k] = LinkFields
    BY DEF IInv, LinksAgree, LinkAgrees, LinkTyped
  <1>2. CASE set_var(k)
    BY <1>1, <1>2 DEF set_var, AtWork, LinkFields
  <1>3. CASE env_var(k)
    BY <1>1, <1>3 DEF env_var, AtWork, LinkFields
  <1>4. CASE new(k)
    BY <1>1, <1>4 DEF new, AtWork, LinkFields
  <1> QED BY <1>2, <1>3, <1>4

\* delete_link and shutdown take clients out of the map and drop them.
Releases(A) ==
    /\ actors' = [a \in Actors |-> IF a \in A THEN None ELSE actors[a]]
    /\ link' = Dropped({actors[a] : a \in A})
    /\ env' = env /\ call' = call

LEMMA ReleasesAgree ==
    ASSUME IInv, NEW A \in SUBSET Actors, Releases(A)
    PROVE  LinksAgree' /\ MapAgrees' /\ CallsAgree' /\ actors' \in [Actors -> Links \cup {None}]
  BY ReleaseStep DEF Releases

LEMMA DeleteReleases == ASSUME IInv, NEW a \in Actors, delete_link(a) PROVE Releases({a})
  <1>1. actors' = [b \in Actors |-> IF b \in {a} THEN None ELSE actors[b]]
    BY DEF delete_link, IInv, TypeOK
  <1>2. {actors[b] : b \in {a}} = {actors[a]}
    OBVIOUS
  <1> QED BY <1>1, <1>2 DEF delete_link, Releases

LEMMA ShutdownReleases == ASSUME IInv, shutdown PROVE Releases(Actors)
  <1>1. actors' = [b \in Actors |-> IF b \in Actors THEN None ELSE actors[b]]
    BY DEF shutdown
  <1> QED BY <1>1 DEF shutdown, Releases

-----------------------------------------------------------------------------
(* The invariant. *)

LEMMA InitIInv == Init => IInv
  <1> SUFFICES ASSUME Init PROVE IInv
    OBVIOUS
  <1>1. /\ DOMAIN link = Links
        /\ \A k \in Links :
             /\ DOMAIN link[k] = LinkFields /\ link[k].stage = "unused" /\ link[k].at = 1
             /\ link[k].actor = None /\ link[k].found = None
             /\ link[k].alone = TRUE /\ link[k].last = TRUE
             /\ link[k].config = StorageConfigDefault
    BY DEF Init, LinkFields
  <1>2. \A k \in Links : LinkAgrees(k)
    <2>1. DOMAIN StorageConfigDefault = Fields /\ 1 \in DOMAIN EnvReads
      BY DEF StorageConfigDefault, EnvReads
    <2> QED BY <1>1, <2>1 DEF LinkAgrees, LinkTyped, ConfigAgrees, FoundAgrees, Live, Stages
  <1>3. \A k \in Links : EnvAgrees(k)
    BY <1>1 DEF EnvAgrees, Undisturbed, AtWork, Live
  <1>4. MapAgrees /\ CallsAgree
    BY DEF Init, MapAgrees, CallsAgree
  <1>5. TypeOK
    <2>1. env \in [Vars -> Value]
      <3>1. \A x \in Vars : Environment[x] \in Value
        BY DEF Value
      <3> QED BY <3>1, DynamoDbAssumption DEF Init
    <2>2. \A k \in Links : LinkTyped(k)
      BY <1>2 DEF LinkAgrees
    <2> QED BY <2>1, <2>2 DEF TypeOK, LinkTyped, Init
  <1> QED BY <1>1, <1>2, <1>3, <1>4, <1>5 DEF IInv, LinksAgree

\* Every operation keeps the map, the links and the calls in agreement.
LEMMA StepAgrees ==
    ASSUME IInv, [Next]_vars
    PROVE  LinksAgree' /\ MapAgrees' /\ CallsAgree' /\ actors' \in [Actors -> Links \cup {None}]
  <1>1. actors \in [Actors -> Links \cup {None}]
    BY DEF IInv, TypeOK
  <1>2. ASSUME actors' = actors, call' = call, LinksAgree',
               \A j \in Links : link[j].stage \in {"linked", "dropped"} =>
                 link'[j].stage = link[j].stage /\ link'[j].actor = link[j].actor
        PROVE  MapAgrees' /\ CallsAgree'
    <2>1. \A q \in Calls : call[q].via # None => call[q].via \in Links
      BY DEF IInv, TypeOK
    <2> QED BY <1>1, <1>2, <2>1 DEF IInv, MapAgrees, CallsAgree
  <1>3. ASSUME NEW k \in Links, NEW a \in Actors, NEW v \in LinkValues, put_link(k, a, v)
        PROVE  LinksAgree' /\ MapAgrees' /\ CallsAgree' /\ actors' = actors
    <2>1. LinksAgree'
      BY <1>3, PutStep
    <2>2. actors' = actors /\ call' = call /\ link[k].stage = "unused"
      BY <1>3 DEF put_link
    <2>3. \A j \in Links \ {k} : link'[j].stage = link[j].stage /\ link'[j].actor = link[j].actor
      BY <1>3, PutEffect
    <2> QED BY <1>2, <2>1, <2>2, <2>3
  <1>4. ASSUME NEW k \in Links, set_var(k) \/ env_var(k) \/ new(k)
        PROVE  LinksAgree' /\ MapAgrees' /\ CallsAgree' /\ actors' = actors
    <2>1. LinksAgree'
      BY <1>4, SetVarStep, EnvVarStep, NewStep
    <2>2. actors' = actors /\ call' = call /\ AtWork(k)
      BY <1>4 DEF set_var, env_var, new, AtWork
    <2>3. \A j \in Links \ {k} : link'[j] = link[j]
      BY <1>4, WorkEffect
    <2>4. link[k].stage \notin {"linked", "dropped"}
      BY <2>2 DEF AtWork
    <2> QED BY <1>2, <2>1, <2>2, <2>3, <2>4
  <1>5. ASSUME NEW k \in Links, insert(k) \/ Close(k)
        PROVE  LinksAgree' /\ MapAgrees' /\ CallsAgree' /\ actors' \in [Actors -> Links \cup {None}]
    BY <1>1, <1>5, InsertStep, CloseStep DEF Close
  <1>6. ASSUME NEW a \in Actors, delete_link(a)
        PROVE  LinksAgree' /\ MapAgrees' /\ CallsAgree' /\ actors' \in [Actors -> Links \cup {None}]
    BY <1>6, DeleteReleases, ReleasesAgree
  <1>7. ASSUME shutdown
        PROVE  LinksAgree' /\ MapAgrees' /\ CallsAgree' /\ actors' \in [Actors -> Links \cup {None}]
    BY <1>7, ShutdownReleases, ReleasesAgree
  <1>8. ASSUME NEW q \in Calls, find_keys(q)
        PROVE  LinksAgree' /\ MapAgrees' /\ CallsAgree' /\ actors' \in [Actors -> Links \cup {None}]
    BY <1>1, <1>8, FindKeysStep DEF find_keys
  <1>9. ASSUME link' = link, env' = env PROVE LinksAgree'
    <2>1. \A k \in Links : Moves(k)
      BY <1>9 DEF Moves, Onward, IInv, LinksAgree, LinkAgrees, LinkTyped
    <2> QED BY <1>9, <2>1, MovesKeepLinks DEF IInv, LinksAgree
  <1>10. ASSUME NEW q \in Calls, (\E a \in Actors : execute(q, a)) \/ respond(q)
         PROVE  LinksAgree' /\ MapAgrees' /\ CallsAgree' /\ actors' \in [Actors -> Links \cup {None}]
    <2>1. link' = link /\ actors' = actors /\ env' = env /\ CallsAgree'
      BY <1>10, CallStep
    <2>2. MapAgrees'
      BY <2>1 DEF IInv, MapAgrees
    <2> QED BY <1>1, <1>9, <2>1, <2>2
  <1>11. CASE UNCHANGED vars
    <2>1. link' = link /\ actors' = actors /\ env' = env /\ call' = call
      BY <1>11 DEF vars
    <2> QED BY <1>1, <1>2, <1>9, <2>1
  <1> QED BY <1>1, <1>3, <1>4, <1>5, <1>6, <1>7, <1>8, <1>10, <1>11 DEF Next

\* The environment has values, and calls have answers.
LEMMA StepTyped ==
    ASSUME IInv, [Next]_vars
    PROVE  /\ env' \in [Vars -> Value]
           /\ \A q \in Calls : /\ call'[q].via \in Links \cup {None}
                               /\ call'[q].answer \in {"none", "ok", "error", "panic"}
  <1>1. /\ env \in [Vars -> Value]
        /\ \A q \in Calls : /\ call[q].via \in Links \cup {None}
                            /\ call[q].answer \in {"none", "ok", "error", "panic"}
    BY DEF IInv, TypeOK
  <1>2. ASSUME NEW k \in Links, set_var(k) PROVE env' \in [Vars -> Value] /\ call' = call
    BY <1>2, SetVarStep DEF set_var
  <1>3. ASSUME NEW k \in Links,
               \/ \E a \in Actors, v \in LinkValues : put_link(k, a, v)
               \/ env_var(k) \/ new(k) \/ insert(k) \/ Close(k)
        PROVE  env' = env /\ call' = call
    BY <1>3 DEF put_link, env_var, new, insert, Close
  <1>4. ASSUME (\E a \in Actors : delete_link(a)) \/ shutdown \/ UNCHANGED vars
               \/ \E q \in Calls : find_keys(q)
        PROVE  env' = env /\ call' = call
    BY <1>4 DEF delete_link, shutdown, vars, find_keys
  <1>5. ASSUME NEW q \in Calls, (\E a \in Actors : execute(q, a)) \/ respond(q)
        PROVE  /\ env' = env
               /\ \A c \in Calls : /\ call'[c].via \in Links \cup {None}
                                   /\ call'[c].answer \in {"none", "ok", "error", "panic"}
    BY <1>5, CallStep
  <1>6. CASE \E k \in Links : set_var(k)
    BY <1>1, <1>2, <1>6
  <1>7. CASE \E q \in Calls : (\E a \in Actors : execute(q, a)) \/ respond(q)
    BY <1>1, <1>5, <1>7
  <1>8. CASE env' = env /\ call' = call
    BY <1>1, <1>8
  <1> QED BY <1>3, <1>4, <1>6, <1>7, <1>8 DEF Next

LEMMA NextIInv == IInv /\ [Next]_vars => IInv'
  <1> SUFFICES ASSUME IInv, [Next]_vars PROVE IInv'
    OBVIOUS
  <1>1. LinksAgree' /\ MapAgrees' /\ CallsAgree' /\ actors' \in [Actors -> Links \cup {None}]
    BY StepAgrees
  <1>2. TypeOK'
    BY <1>1, StepTyped DEF TypeOK, LinksAgree, LinkAgrees, LinkTyped
  <1> QED BY <1>1, <1>2 DEF IInv

LEMMA Invariance == Spec => []IInv
  <1> QED BY InitIInv, NextIInv, PTL DEF Spec

\* A link put alone has the settings that its document, its env file and the
\* environment before it add up to, and keys of its own if it is the last.
THEOREM SettingsAreOwn == Spec => []OwnSettings
  <1>1. IInv => OwnSettings
    <2> SUFFICES ASSUME IInv, NEW k \in Links,
                        link[k].stage \in {"ready", "linked", "dropped"}, link[k].alone
                 PROVE  /\ link[k].config = Layered(link[k].values, link[k].before)
                        /\ link[k].last /\ link[k].found # None =>
                             link[k].found
                               = Keys(After(link[k].before, parse(link[k].values).lines))
      BY DEF OwnSettings, IInv
    <2>1. ConfigAgrees(k) /\ FoundAgrees(k) /\ Live(k)
      BY DEF IInv, LinksAgree, LinkAgrees, Live
    <2>2. link[k].config = Layered(link[k].values, link[k].before)
      BY <2>1 DEF ConfigAgrees
    <2>3. link[k].last /\ link[k].found # None => link[k].found = Keys(Own(k))
      BY <2>1 DEF FoundAgrees
    <2> QED BY <2>2, <2>3 DEF Own, EnvLines
  <1> QED BY <1>1, Invariance, PTL

-----------------------------------------------------------------------------
(* The provider implements LinkResources. *)

\* The phase of a client is that of its stage.
PhaseOf(s) ==
    CASE s = "unused" -> "unused"
      [] s \in {"setting", "reading", "configuring", "ready"} -> "opening"
      [] s = "linked" -> "open"
      [] s = "dropped" -> "closing"
      [] s = "closed" -> "closed"

LEMMA PhaseIs ==
    /\ phase = [k \in Links |-> PhaseOf(link[k].stage)]
    /\ phase' = [k \in Links |-> PhaseOf(link'[k].stage)]
  BY DEF phase, PhaseOf, AtWork

LEMMA PhaseValues ==
    /\ PhaseOf("unused") = "unused" /\ PhaseOf("setting") = "opening"
    /\ PhaseOf("reading") = "opening" /\ PhaseOf("configuring") = "opening"
    /\ PhaseOf("ready") = "opening" /\ PhaseOf("linked") = "open"
    /\ PhaseOf("dropped") = "closing" /\ PhaseOf("closed") = "closed"
  BY DEF PhaseOf

\* The provider starts with no client, as LinkResources does.
LEMMA LinkInit == Init => LinkClients!LInit
  <1> SUFFICES ASSUME Init PROVE LinkClients!LInit
    OBVIOUS
  <1>1. \A k \in Links : link[k].stage = "unused" /\ link[k].actor = None
    BY DEF Init
  <1>2. phase = [k \in Links |-> "unused"]
    BY <1>1, PhaseIs, PhaseValues
  <1>3. [k \in Links |-> link[k].actor] = [k \in Links |-> None]
    BY <1>1
  <1> QED BY <1>2, <1>3 DEF Init, LinkClients!LInit

\* A step that leaves the map, the phases and the owners alone.
LEMMA LinkStutter ==
    ASSUME actors' = actors,
           \A k \in Links : /\ PhaseOf(link'[k].stage) = PhaseOf(link[k].stage)
                            /\ link'[k].actor = link[k].actor
    PROVE  UNCHANGED LinkClients!lvars
  <1>1. phase' = phase
    BY PhaseIs
  <1>2. [k \in Links |-> link'[k].actor] = [k \in Links |-> link[k].actor]
    OBVIOUS
  <1> QED BY <1>1, <1>2 DEF LinkClients!lvars

\* put_link opens a client, or fails to.
LEMMA LinkPut ==
    ASSUME IInv, NEW k \in Links, NEW a \in Actors, NEW v \in LinkValues, put_link(k, a, v)
    PROVE  LinkClients!Open(k, a)
  <1>1. /\ link[k].stage = "unused" /\ link'[k].stage \in {"setting", "closed"}
        /\ link'[k].actor = a /\ actors' = actors
        /\ \A j \in Links \ {k} : link'[j].stage = link[j].stage /\ link'[j].actor = link[j].actor
    BY PutEffect
  <1>2. PhaseOf(link'[k].stage) \in {"opening", "closed"} /\ phase[k] = "unused"
    BY <1>1, PhaseIs, PhaseValues
  <1>3. phase' = [phase EXCEPT ![k] = PhaseOf(link'[k].stage)]
    <2>1. \A j \in Links : j # k => PhaseOf(link'[j].stage) = PhaseOf(link[j].stage)
      BY <1>1
    <2> QED BY <2>1, PhaseIs
  <1>4. [j \in Links |-> link'[j].actor] = [[j \in Links |-> link[j].actor] EXCEPT ![k] = a]
    BY <1>1
  <1> QED BY <1>1, <1>2, <1>3, <1>4 DEF LinkClients!Open

\* The last clone of a dropped client is gone.
LEMMA LinkClose ==
    ASSUME IInv, NEW k \in Links, Close(k)
    PROVE  LinkClients!Closed(k)
  <1>1. /\ link[k].stage = "dropped" /\ actors' = actors
        /\ link'[k].stage = "closed" /\ link'[k].actor = link[k].actor
        /\ \A j \in Links \ {k} : link'[j] = link[j]
    BY DEF Close, IInv, LinksAgree, LinkAgrees, LinkTyped, LinkFields
  <1>2. phase[k] = "closing" /\ phase' = [phase EXCEPT ![k] = "closed"]
    <2>1. \A j \in Links : j # k => PhaseOf(link'[j].stage) = PhaseOf(link[j].stage)
      BY <1>1
    <2> QED BY <1>1, <2>1, PhaseIs, PhaseValues
  <1>3. [j \in Links |-> link'[j].actor] = [j \in Links |-> link[j].actor]
    BY <1>1
  <1> QED BY <1>1, <1>2, <1>3 DEF LinkClients!Closed

\* The insert of put_link installs the client and lets go of the one it replaces.
LEMMA LinkInsert ==
    ASSUME IInv, NEW k \in Links, insert(k)
    PROVE  LinkClients!Install(k)
  <1> DEFINE a == link[k].actor
  <1> DEFINE old == actors[a]
  <1>1. /\ link[k].stage = "ready" /\ actors' = [actors EXCEPT ![a] = k]
        /\ link' = [Dropped({old}) EXCEPT ![k].stage = "linked"]
        /\ DOMAIN link = Links /\ \A j \in Links : DOMAIN link[j] = LinkFields
    BY DEF insert, IInv, LinksAgree, LinkAgrees, LinkTyped
  <1> HIDE DEF old
  <1>2. ASSUME NEW j \in Links
        PROVE  /\ link'[j].stage = IF j = k THEN "linked" ELSE StageAfter(j, {old})
               /\ link'[j].actor = link[j].actor
    <2>1. /\ DOMAIN Dropped({old}) = Links /\ DOMAIN Dropped({old})[j] = LinkFields
          /\ Dropped({old})[j].stage = StageAfter(j, {old})
          /\ Dropped({old})[j].actor = link[j].actor
      BY <1>1 DEF Dropped, StageAfter, LinkFields
    <2>2. CASE j = k
      BY <1>1, <2>1, <2>2 DEF LinkFields
    <2>3. CASE j # k
      <3>1. link'[j] = Dropped({old})[j]
        BY <1>1, <2>1, <2>3
      <3> QED BY <2>1, <2>3, <3>1
    <2> QED BY <2>2, <2>3
  <1>3. [j \in Links |-> link'[j].actor] = [j \in Links |-> link[j].actor]
    BY <1>2
  <1>4. phase[k] = "opening"
    BY <1>1, PhaseIs, PhaseValues
  <1>5. phase' = [j \in Links |-> IF j = k THEN "open"
                                  ELSE IF j = old THEN "closing" ELSE phase[j]]
    <2>1. \A j \in Links : PhaseOf(link'[j].stage)
                             = IF j = k THEN "open"
                               ELSE IF j = old THEN "closing" ELSE PhaseOf(link[j].stage)
      BY <1>2, PhaseValues DEF StageAfter
    <2> QED BY <2>1, PhaseIs
  <1> QED BY <1>1, <1>3, <1>4, <1>5 DEF LinkClients!Install, old

\* Taking clients out of the map releases them.
LEMMA LinkRelease ==
    ASSUME IInv, NEW A \in SUBSET Actors, Releases(A)
    PROVE  LinkClients!Release(A)
  <1> DEFINE gone == {actors[a] : a \in A}
  <1> HIDE DEF gone
  <1>1. actors' = [a \in Actors |-> IF a \in A THEN None ELSE actors[a]] /\ link' = Dropped(gone)
    BY DEF Releases, gone
  <1>2. ASSUME NEW j \in Links
        PROVE  link'[j].stage = StageAfter(j, gone) /\ link'[j].actor = link[j].actor
    BY <1>1, DroppedStages DEF Stage, LinkFields
  <1>3. [j \in Links |-> link'[j].actor] = [j \in Links |-> link[j].actor]
    BY <1>2
  <1>4. \A j \in Links : j \in gone <=> \E a \in A : actors[a] = j
    BY DEF gone
  <1>5. phase' = [j \in Links |-> IF \E a \in A : actors[a] = j THEN "closing" ELSE phase[j]]
    <2>1. \A j \in Links : PhaseOf(link'[j].stage)
                             = IF j \in gone THEN "closing" ELSE PhaseOf(link[j].stage)
      BY <1>2, PhaseValues DEF StageAfter
    <2> QED BY <1>4, <2>1, PhaseIs
  <1> QED BY <1>1, <1>3, <1>5 DEF LinkClients!Release

\* Hence every step of the provider is one of LinkResources, or none.
LEMMA LinkStep == IInv /\ [Next]_vars => [LinkClients!LNext]_(LinkClients!lvars)
  <1> SUFFICES ASSUME IInv, [Next]_vars PROVE [LinkClients!LNext]_(LinkClients!lvars)
    OBVIOUS
  <1>1. ASSUME NEW k \in Links,
               \/ \E a \in Actors, v \in LinkValues : put_link(k, a, v)
               \/ insert(k) \/ Close(k)
        PROVE  LinkClients!LNext
    BY <1>1, LinkPut, LinkInsert, LinkClose DEF LinkClients!LNext
  <1>2. ASSUME NEW k \in Links, set_var(k) \/ env_var(k) \/ new(k)
        PROVE  UNCHANGED LinkClients!lvars
    <2>1. /\ AtWork(k) /\ link'[k].stage \in {"setting", "reading", "configuring", "ready"}
          /\ link'[k].actor = link[k].actor /\ actors' = actors
          /\ \A j \in Links \ {k} : link'[j] = link[j]
      BY <1>2, WorkEffect
    <2>2. PhaseOf(link'[k].stage) = PhaseOf(link[k].stage)
      BY <2>1, PhaseValues DEF AtWork
    <2> QED BY <2>1, <2>2, LinkStutter
  <1>3. ASSUME NEW a \in Actors, delete_link(a) PROVE LinkClients!LNext
    BY <1>3, DeleteReleases, LinkRelease DEF LinkClients!LNext
  <1>4. ASSUME shutdown PROVE LinkClients!LNext
    BY <1>4, ShutdownReleases, LinkRelease DEF LinkClients!LNext
  <1>5. ASSUME actors' = actors,
               \A k \in Links : link'[k].stage = link[k].stage /\ link'[k].actor = link[k].actor
        PROVE  UNCHANGED LinkClients!lvars
    BY <1>5, LinkStutter
  <1>6. ASSUME NEW q \in Calls, find_keys(q) PROVE UNCHANGED LinkClients!lvars
    <2>1. \A k \in Links : link'[k].stage = link[k].stage /\ link'[k].actor = link[k].actor
      BY <1>6 DEF find_keys, IInv, LinksAgree, LinkAgrees, LinkTyped, LinkFields
    <2> QED BY <1>5, <1>6, <2>1 DEF find_keys
  <1>7. ASSUME NEW q \in Calls, (\E a \in Actors : execute(q, a)) \/ respond(q)
        PROVE  UNCHANGED LinkClients!lvars
    BY <1>5, <1>7 DEF execute, respond
  <1>8. CASE UNCHANGED vars
    BY <1>5, <1>8 DEF vars
  <1> QED BY <1>1, <1>2, <1>3, <1>4, <1>6, <1>7, <1>8 DEF Next

\* The provider implements LinkResources: a client is replaced, unlinked and let
\* go as the abstract specification says.
THEOREM DynamoKeepsLinks == Spec => LinksKept
  <1> QED BY Invariance, LinkInit, LinkStep, PTL DEF Spec, LinksKept, LinkClients!LSpec

=============================================================================
