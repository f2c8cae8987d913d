----------------------------- MODULE ServicesProofs -----------------------------
(***************************************************************************)
(* What is proved of the services of MCServices: the idempotency claims of *)
(* HTTP Push, the ledger of models, replays, the registry of source        *)
(* connections, the historian client, the turns of the assistant, the      *)
(* actions it asks the operator for and the runtime processor, each for    *)
(* every value of its constants.  Only what is said of the answers of a    *)
(* turn is for PostgreSQL alone.                                           *)
(***************************************************************************)
EXTENDS MCServices, FiniteSets, FiniteSetTheorems, SequenceTheorems, TLAPS

-----------------------------------------------------------------------------
(* HTTP Push. *)

(* The claims of a key are numbered from 0, one more each time the last one is released.  A key is
   backed when every copy in the topic, and every one a replica has produced or is about to, can be
   given a claim of its own; while the key is free there is one to spare. *)
Shares(logged, held, c, out, free, n) ==
    /\ logged \subseteq 0..n /\ held \in [Replicas -> SUBSET (0..n)]
    /\ \A r \in Replicas : logged \cap held[r] = {}
    /\ \A r, s \in Replicas : r # s => held[r] \cap held[s] = {}
    /\ c <= Cardinality(logged) /\ \A r \in Replicas : out[r] <= Cardinality(held[r])
    /\ free => \E t \in 0..n : t \notin logged /\ \A r \in Replicas : t \notin held[r]

Backed(c, out, free, n) == \E logged, held : Shares(logged, held, c, out, free, n)

\* What is still to come of a key from each replica.
Outstanding(k) ==
    [r \in Replicas |-> producerQueue[r][k] + (IF pushPc[r] = "ingest" /\ pushing[r] = k THEN 1 ELSE 0)]

LEMMA ClaimSets ==
    ASSUME NEW n \in Nat, NEW S \in SUBSET (0..n)
    PROVE  /\ IsFiniteSet(S) /\ Cardinality(S) \in Nat /\ Cardinality(S) <= n + 1
           /\ Cardinality(S) = n + 1 => S = 0..n
<1>1. IsFiniteSet(0..n) /\ Cardinality(0..n) = n + 1
      BY FS_Interval
<1> QED BY <1>1, FS_Subset, FS_CardinalityType

\* A request takes the claim of a free key.
LEMMA BackedTakes ==
    ASSUME NEW n \in Nat, NEW c \in Nat, NEW out \in [Replicas -> Nat], NEW next \in [Replicas -> Nat],
           NEW r \in Replicas, next[r] <= out[r] + 1, \A s \in Replicas \ {r} : next[s] <= out[s],
           Backed(c, out, TRUE, n)
    PROVE  Backed(c, next, FALSE, n)
<1>1. PICK logged, held : Shares(logged, held, c, out, TRUE, n)
      BY DEF Backed
<1>2. PICK t \in 0..n : t \notin logged /\ \A s \in Replicas : t \notin held[s]
      BY <1>1 DEF Shares
<1> DEFINE given == [held EXCEPT ![r] = @ \cup {t}]
<1>3. held \in [Replicas -> SUBSET (0..n)] /\ \A s \in Replicas : IsFiniteSet(held[s]) /\ Cardinality(held[s]) \in Nat
      BY <1>1, ClaimSets DEF Shares
<1>4. Cardinality(held[r] \cup {t}) = Cardinality(held[r]) + 1
      BY <1>2, <1>3, FS_AddElement
<1>5. given \in [Replicas -> SUBSET (0..n)] /\ given[r] = held[r] \cup {t} /\ \A s \in Replicas \ {r} : given[s] = held[s]
      BY <1>3
<1> HIDE DEF given
<1>6. \A s \in Replicas : next[s] <= Cardinality(given[s])
  <2>1. \A s \in Replicas : out[s] <= Cardinality(held[s])
        BY <1>1 DEF Shares
  <2>2. next[r] <= Cardinality(given[r])
        BY <1>3, <1>4, <1>5, <2>1
  <2>3. ASSUME NEW s \in Replicas \ {r} PROVE next[s] <= Cardinality(given[s])
        BY <1>3, <1>5, <2>1, <2>3
  <2> QED BY <2>2, <2>3
<1>7. \A s \in Replicas : logged \cap given[s] = {}
  <2>1. \A s \in Replicas : logged \cap held[s] = {} /\ given[s] \subseteq held[s] \cup {t}
        BY <1>1, <1>5 DEF Shares
  <2> QED BY <1>2, <2>1
<1>8. \A q, s \in Replicas : q # s => given[q] \cap given[s] = {}
      BY <1>1, <1>2, <1>5 DEF Shares
<1>9. Shares(logged, given, c, next, FALSE, n)
      BY <1>1, <1>5, <1>6, <1>7, <1>8 DEF Shares
<1> QED BY <1>9 DEF Backed

\* Copies of a replica arrive in the topic, with the claims they have.
LEMMA BackedMoves ==
    ASSUME NEW n \in Nat, NEW c \in Nat, NEW more \in Nat, NEW free \in BOOLEAN,
           NEW out \in [Replicas -> Nat], NEW next \in [Replicas -> Nat], NEW r \in Replicas,
           NEW logged, NEW held, Shares(logged, held, c, out, free, n),
           NEW moved \in SUBSET held[r], more <= c + Cardinality(moved),
           next[r] <= Cardinality(held[r] \ moved), \A s \in Replicas \ {r} : next[s] <= out[s]
    PROVE  Backed(more, next, free, n)
<1> DEFINE given == [held EXCEPT ![r] = @ \ moved]
<1>1. held \in [Replicas -> SUBSET (0..n)] /\ logged \in SUBSET (0..n) /\ moved \in SUBSET (0..n)
      BY DEF Shares
<1>2. IsFiniteSet(logged) /\ IsFiniteSet(moved) /\ logged \cap moved = {}
      BY <1>1, ClaimSets DEF Shares
<1>3. Cardinality(logged) \in Nat /\ Cardinality(moved) \in Nat /\ Cardinality({}) = 0
      BY <1>2, FS_CardinalityType, FS_EmptySet
<1>4. Cardinality(logged \cup moved) = Cardinality(logged) + Cardinality(moved)
  <2>1. Cardinality(logged \cap moved) = 0
        BY <1>2, <1>3
  <2>2. Cardinality(logged \cup moved) = Cardinality(logged) + Cardinality(moved) - Cardinality(logged \cap moved)
        BY <1>2, FS_Union
  <2> QED BY <1>3, <2>1, <2>2
<1>5. more <= Cardinality(logged \cup moved)
      BY <1>3, <1>4 DEF Shares
<1>6. given \in [Replicas -> SUBSET (0..n)] /\ given[r] = held[r] \ moved /\ \A s \in Replicas \ {r} : given[s] = held[s]
      BY <1>1
<1> HIDE DEF given
<1>7. \A s \in Replicas : next[s] <= Cardinality(given[s])
  <2>1. ASSUME NEW s \in Replicas \ {r} PROVE next[s] <= Cardinality(given[s])
    <3>1. out[s] <= Cardinality(held[s]) /\ Cardinality(held[s]) \in Nat
          BY <1>1, ClaimSets DEF Shares
    <3> QED BY <1>6, <3>1
  <2> QED BY <1>6, <2>1
<1>8. \A s \in Replicas : (logged \cup moved) \cap given[s] = {}
      BY <1>6 DEF Shares
<1>9. \A q, s \in Replicas : q # s => given[q] \cap given[s] = {}
      BY <1>6 DEF Shares
<1>10. free => \E t \in 0..n : t \notin logged \cup moved /\ \A s \in Replicas : t \notin given[s]
       BY <1>6 DEF Shares
<1>11. Shares(logged \cup moved, given, more, next, free, n)
       BY <1>1, <1>5, <1>6, <1>7, <1>8, <1>9, <1>10 DEF Shares
<1> QED BY <1>11 DEF Backed

\* All that a replica has of a key arrives, or one copy of it.
LEMMA BackedArrives ==
    ASSUME NEW n \in Nat, NEW c \in Nat, NEW more \in Nat, NEW free \in BOOLEAN,
           NEW out \in [Replicas -> Nat], NEW next \in [Replicas -> Nat], NEW r \in Replicas,
           Backed(c, out, free, n), \A s \in Replicas \ {r} : next[s] <= out[s],
           \/ next[r] = 0 /\ more <= c + out[r]
           \/ out[r] > 0 /\ next[r] = out[r] - 1 /\ more = c + 1
    PROVE  Backed(more, next, free, n)
<1>1. PICK logged, held : Shares(logged, held, c, out, free, n)
      BY DEF Backed
<1>2. IsFiniteSet(held[r]) /\ Cardinality(held[r]) \in Nat /\ out[r] <= Cardinality(held[r]) /\ out[r] \in Nat
      BY <1>1, ClaimSets DEF Shares
<1>3. held[r] \ held[r] = {} /\ Cardinality({}) = 0
      BY FS_EmptySet
<1>4. CASE next[r] = 0 /\ more <= c + out[r]
  <2> DEFINE moved == held[r]
  <2>1. moved \in SUBSET held[r] /\ more <= c + Cardinality(moved)
        BY <1>2, <1>4
  <2>2. Cardinality(held[r] \ moved) = 0
        BY <1>3
  <2>3. next[r] <= Cardinality(held[r] \ moved)
        BY <1>4, <2>2
  <2> HIDE DEF moved
  <2> QED BY <1>1, <2>1, <2>3, BackedMoves
<1>5. CASE out[r] > 0 /\ next[r] = out[r] - 1 /\ more = c + 1
  <2>1. held[r] # {}
    <3>1. held[r] = {} => Cardinality(held[r]) = 0
          BY FS_EmptySet
    <3>2. Cardinality(held[r]) # 0
          BY <1>2, <1>5
    <3> QED BY <3>1, <3>2
  <2>2. PICK t : t \in held[r]
        BY <2>1
  <2> DEFINE moved == {t}
  <2>3. Cardinality(moved) = 1 /\ Cardinality(held[r] \ moved) = Cardinality(held[r]) - 1
        BY <1>2, <2>2, FS_Singleton, FS_RemoveElement
  <2>4. moved \in SUBSET held[r] /\ more <= c + Cardinality(moved) /\ next[r] <= Cardinality(held[r] \ moved)
        BY <1>2, <1>5, <2>2, <2>3
  <2> HIDE DEF moved
  <2> QED BY <1>1, <2>4, BackedMoves
<1> QED BY <1>4, <1>5

\* A claim that is released is followed by another.
LEMMA BackedReopens ==
    ASSUME NEW n \in Nat, NEW c \in Nat, NEW out \in [Replicas -> Nat], NEW free \in BOOLEAN, Backed(c, out, free, n)
    PROVE  Backed(c, out, TRUE, n + 1)
<1>1. PICK logged, held : Shares(logged, held, c, out, free, n)
      BY DEF Backed
<1>2. 0..n \subseteq 0..(n + 1) /\ n + 1 \in 0..(n + 1) /\ n + 1 \notin 0..n
      OBVIOUS
<1>3. logged \subseteq 0..(n + 1) /\ held \in [Replicas -> SUBSET (0..(n + 1))]
      BY <1>1, <1>2 DEF Shares
<1>4. n + 1 \notin logged /\ \A r \in Replicas : n + 1 \notin held[r]
      BY <1>1, <1>2 DEF Shares
<1>5. Shares(logged, held, c, out, TRUE, n + 1)
      BY <1>1, <1>2, <1>3, <1>4 DEF Shares
<1> QED BY <1>5 DEF Backed

LEMMA BackedBounds ==
    ASSUME NEW n \in Nat, NEW c \in Nat, NEW out \in [Replicas -> Nat], NEW free \in BOOLEAN, Backed(c, out, free, n)
    PROVE  /\ c <= n + 1 /\ (free => c <= n)
           /\ \A r \in Replicas : out[r] <= n + 1 /\ (free => out[r] <= n)
<1>1. PICK logged, held : Shares(logged, held, c, out, free, n)
      BY DEF Backed
<1>2. ASSUME NEW S \in SUBSET (0..n), NEW m \in Nat, m <= Cardinality(S)
      PROVE  m <= n + 1 /\ (0..n # S => m <= n)
      BY <1>2, ClaimSets
<1>3. logged \in SUBSET (0..n) /\ \A r \in Replicas : held[r] \in SUBSET (0..n) /\ out[r] \in Nat
      BY <1>1 DEF Shares
<1>4. free => logged # 0..n /\ \A r \in Replicas : held[r] # 0..n
      BY <1>1 DEF Shares
<1> QED BY <1>1, <1>2, <1>3, <1>4 DEF Shares
-----------------------------------------------------------------------------
PushTypes ==
    /\ claims \in [Keys -> {"none", "claimed", "ingested", "rejected"}]
    /\ pushPc \in [Replicas -> {"idle", "ingest", "complete", "undo", "release"}]
    /\ pushing \in [Replicas -> Keys]
    /\ producerQueue \in [Replicas -> [Keys -> Nat]]
    /\ copies \in [Keys -> Nat] /\ reopened \in [Keys -> Nat]
    /\ calls \in 0..MaxCalls /\ pushFaults \in 0..MaxPushFaults
    /\ told \in [Keys -> SUBSET {"ingested", "rejected", "duplicate", "error"}]
    /\ burnt \subseteq Keys

InFlight(r, k) == pushPc[r] # "idle" /\ pushing[r] = k

\* A request at work on a key is the only one, and holds its claim.
OneHolder ==
    /\ \A r \in Replicas : pushPc[r] # "idle" => claims[pushing[r]] = "claimed"
    /\ \A k \in Keys, r, s \in Replicas : InFlight(r, k) /\ InFlight(s, k) => r = s

CopiesBacked == \A k \in Keys : Backed(copies[k], Outstanding(k), claims[k] = "none", reopened[k])

ClaimsAreCalls == \A k \in Keys : reopened[k] + (IF claims[k] = "none" THEN 0 ELSE 1) <= calls

\* The event of a key is in the topic, or an exception of AnsweredIsPublished has been met.
Settled(k) == copies[k] > 0 \/ k \in burnt \/ reopened[k] > 0

EventsAreCaredFor ==
    /\ \A r \in Replicas : pushPc[r] \in {"complete", "undo"} /\ pushing[r] \notin Invalid => Settled(pushing[r])
    /\ \A k \in Keys \ Invalid :
          claims[k] # "none" \/ told[k] \cap {"ingested", "duplicate"} # {} =>
              Settled(k) \/ \E r \in Replicas : InFlight(r, k)

PushIInv == PushTypes /\ OneHolder /\ CopiesBacked /\ ClaimsAreCalls /\ EventsAreCaredFor

LEMMA PushInitially == PushInit => PushIInv
<1> SUFFICES ASSUME PushInit PROVE PushIInv
    OBVIOUS
<1>1. PushTypes
      BY HttpPushAssumption DEF PushInit, PushTypes, NothingQueued
<1>2. ASSUME NEW k \in Keys PROVE Backed(copies[k], Outstanding(k), claims[k] = "none", reopened[k])
  <2> DEFINE held == [r \in Replicas |-> {}]
  <2>1. copies[k] = 0 /\ reopened[k] = 0 /\ \A r \in Replicas : Outstanding(k)[r] = 0
        BY <1>2 DEF PushInit, Outstanding, NothingQueued
  <2>2. Cardinality({}) = 0
        BY FS_EmptySet
  <2>3. held \in [Replicas -> SUBSET (0..0)] /\ \A r \in Replicas : held[r] = {}
        OBVIOUS
  <2> HIDE DEF held
  <2>4. 0 \in 0..0 /\ 0 \notin {}
        OBVIOUS
  <2>5. Shares({}, held, copies[k], Outstanding(k), claims[k] = "none", reopened[k])
        BY <2>1, <2>2, <2>3, <2>4 DEF Shares
  <2> QED BY <2>5 DEF Backed
<1>3. OneHolder /\ ClaimsAreCalls /\ EventsAreCaredFor
      BY DEF PushInit, OneHolder, ClaimsAreCalls, EventsAreCaredFor, InFlight
<1> QED BY <1>1, <1>2, <1>3 DEF PushIInv, CopiesBacked

LEMMA PushTypesStep == PushTypes /\ [PushNext]_pushVars => PushTypes'
<1> SUFFICES ASSUME PushTypes, [PushNext]_pushVars PROVE PushTypes'
    OBVIOUS
<1> USE HttpPushAssumption
<1> USE DEF PushTypes, PushGoto, PushFault, Tell, PushRequest
<1>1. ASSUME NEW r \in Replicas, NEW k \in Keys, ClaimKey(r, k) PROVE PushTypes'
      BY <1>1 DEF ClaimKey
<1>2. ASSUME NEW r \in Replicas, NEW k \in Keys, Duplicate(r, k) PROVE PushTypes'
      BY <1>2 DEF Duplicate
<1>3. ASSUME NEW r \in Replicas, NEW k \in Keys, ClaimUnavailable(r, k) PROVE PushTypes'
      BY <1>3 DEF ClaimUnavailable
<1>4. ASSUME NEW r \in Replicas, NEW k \in Keys, LeaveClient(r, k) PROVE PushTypes'
  <2>1. producerQueue'[r][k] = producerQueue[r][k] - 1 /\ producerQueue' \in [Replicas -> [Keys -> Nat]]
        BY <1>4 DEF LeaveClient
  <2> QED BY <1>4, <2>1 DEF LeaveClient
<1>5. ASSUME NEW r \in Replicas, RejectEvent(r) PROVE PushTypes'
      BY <1>5 DEF RejectEvent
<1>6. ASSUME NEW r \in Replicas, PublishEvent(r) PROVE PushTypes'
  <2>1. Produced(r) \in [Keys -> Nat] /\ NothingQueued \in [Keys -> Nat]
        BY DEF Produced, NothingQueued
  <2> QED BY <1>6, <2>1 DEF PublishEvent
<1>7. ASSUME NEW r \in Replicas, PublishTimesOut(r) PROVE PushTypes'
  <2>1. Produced(r) \in [Keys -> Nat]
        BY DEF Produced
  <2> QED BY <1>7, <2>1 DEF PublishTimesOut
<1>8. ASSUME NEW r \in Replicas, Complete(r) PROVE PushTypes'
      BY <1>8 DEF Complete, Result
<1>9. ASSUME NEW r \in Replicas, CompleteFails(r) PROVE PushTypes'
      BY <1>9 DEF CompleteFails
<1>10. ASSUME NEW r \in Replicas, ReleaseClaim(r) PROVE PushTypes'
       BY <1>10 DEF ReleaseClaim
<1>11. ASSUME NEW r \in Replicas, CrashReplica(r) PROVE PushTypes'
       BY <1>11 DEF CrashReplica, NothingQueued
<1>12. CASE UNCHANGED pushVars
       BY <1>12 DEF pushVars
<1> QED BY <1>1, <1>2, <1>3, <1>4, <1>5, <1>6, <1>7, <1>8, <1>9, <1>10, <1>11, <1>12 DEF PushNext

\* Only a request that takes a free key begins to hold its claim, and only the holder changes it.
LEMMA OneHolderStep == PushTypes /\ OneHolder /\ [PushNext]_pushVars => OneHolder'
<1> SUFFICES ASSUME PushTypes, OneHolder, [PushNext]_pushVars PROVE OneHolder'
    OBVIOUS
<1> USE DEF PushTypes, OneHolder, InFlight, PushGoto
<1>1. ASSUME NEW r \in Replicas, NEW k \in Keys, ClaimKey(r, k) PROVE OneHolder'
      BY <1>1 DEF ClaimKey, PushRequest
<1>2. ASSUME NEW r \in Replicas, NEW k \in Keys, Duplicate(r, k) \/ LeaveClient(r, k) PROVE OneHolder'
      BY <1>2 DEF Duplicate, LeaveClient
<1>3. ASSUME NEW r \in Replicas, NEW k \in Keys, ClaimUnavailable(r, k) PROVE OneHolder'
      BY <1>3 DEF ClaimUnavailable
<1>4. ASSUME NEW r \in Replicas, RejectEvent(r) \/ PublishEvent(r) \/ PublishTimesOut(r) \/ CompleteFails(r)
      PROVE OneHolder'
  <2>1. PICK place \in {"complete", "release", "undo"} :
            pushPc[r] # "idle" /\ pushPc' = [pushPc EXCEPT ![r] = place] /\ UNCHANGED <<pushing, claims>>
        BY <1>4 DEF RejectEvent, PublishEvent, PublishTimesOut, CompleteFails, Publishing
  <2> QED BY <2>1
<1>5. ASSUME NEW r \in Replicas, Complete(r) \/ ReleaseClaim(r) \/ CrashReplica(r) PROVE OneHolder'
  <2>1. pushPc' = [pushPc EXCEPT ![r] = "idle"] /\ pushing' = pushing
        BY <1>5 DEF Complete, ReleaseClaim, CrashReplica
  <2>2. CASE claims' = claims
        BY <2>1, <2>2
  <2>3. CASE \A k \in Keys \ {pushing[r]} : claims'[k] = claims[k]
    <3>1. claims' = claims \/ pushPc[r] # "idle"
          BY <1>5 DEF Complete, ReleaseClaim, CrashReplica
    <3> QED BY <2>1, <2>2, <2>3, <3>1
  <2> QED BY <1>5, <2>2, <2>3 DEF Complete, ReleaseClaim, CrashReplica
<1>6. CASE UNCHANGED pushVars
      BY <1>6 DEF pushVars
<1> QED BY <1>1, <1>2, <1>3, <1>4, <1>5, <1>6 DEF PushNext

\* A claim that is held or was released took a request.
LEMMA ClaimsAreCallsStep ==
    PushTypes /\ OneHolder /\ ClaimsAreCalls /\ [PushNext]_pushVars => ClaimsAreCalls'
<1> SUFFICES ASSUME PushTypes, OneHolder, ClaimsAreCalls, [PushNext]_pushVars PROVE ClaimsAreCalls'
    OBVIOUS
<1> USE HttpPushAssumption
<1> USE DEF PushTypes, ClaimsAreCalls
<1>1. ASSUME NEW r \in Replicas, NEW k \in Keys, ClaimKey(r, k) \/ ClaimUnavailable(r, k) PROVE ClaimsAreCalls'
  <2>1. /\ claims' = claims \/ (claims[k] = "none" /\ claims' = [claims EXCEPT ![k] = "claimed"])
        /\ calls < MaxCalls /\ calls' = calls + 1 /\ reopened' = reopened
        BY <1>1 DEF ClaimKey, ClaimUnavailable, PushRequest
  <2> QED BY <2>1
<1>2. ASSUME NEW r \in Replicas, NEW k \in Keys, Duplicate(r, k) PROVE ClaimsAreCalls'
      BY <1>2 DEF Duplicate, PushRequest
<1>3. ASSUME NEW r \in Replicas, Complete(r) PROVE ClaimsAreCalls'
      BY <1>3 DEF Complete, OneHolder
<1>4. ASSUME NEW r \in Replicas, ReleaseClaim(r) PROVE ClaimsAreCalls'
  <2>1. PICK k \in Keys : k = pushing[r] /\ claims[k] = "claimed"
        BY <1>4 DEF ReleaseClaim, OneHolder
  <2>2. \/ UNCHANGED <<claims, reopened, calls>>
        \/ /\ claims' = [claims EXCEPT ![k] = "none"] /\ reopened' = [reopened EXCEPT ![k] = @ + 1]
           /\ calls' = calls
        BY <1>4, <2>1 DEF ReleaseClaim
  <2> QED BY <2>1, <2>2
<1>5. ASSUME UNCHANGED <<claims, reopened, calls>> PROVE ClaimsAreCalls'
      BY <1>5
<1> QED BY <1>1, <1>2, <1>3, <1>4, <1>5
        DEF PushNext, LeaveClient, RejectEvent, PublishEvent, PublishTimesOut, CompleteFails, CrashReplica, pushVars

LEMMA OutstandingTyped == PushTypes => \A k \in Keys : Outstanding(k) \in [Replicas -> Nat]
  BY DEF PushTypes, Outstanding

\* A step after which a key has no more copies, here or to come, and is no more free than before.
LEMMA NothingAdded ==
    ASSUME PushTypes, PushTypes', NEW k \in Keys,
           Backed(copies[k], Outstanding(k), claims[k] = "none", reopened[k]),
           copies'[k] <= copies[k], \A r \in Replicas : Outstanding(k)'[r] <= Outstanding(k)[r],
           claims'[k] = "none" => claims[k] = "none", reopened'[k] = reopened[k]
    PROVE  Backed(copies[k], Outstanding(k), claims[k] = "none", reopened[k])'
<1>1. PICK logged, held : Shares(logged, held, copies[k], Outstanding(k), claims[k] = "none", reopened[k])
      BY DEF Backed
<1>2. reopened[k] \in Nat /\ copies[k] \in Nat /\ copies'[k] \in Nat
      BY DEF PushTypes
<1>3. Outstanding(k) \in [Replicas -> Nat] /\ Outstanding(k)' \in [Replicas -> Nat]
      BY DEF PushTypes, Outstanding
<1>4. logged \in SUBSET (0..reopened[k]) /\ held \in [Replicas -> SUBSET (0..reopened[k])]
      BY <1>1 DEF Shares
<1>5. Cardinality(logged) \in Nat /\ \A r \in Replicas : Cardinality(held[r]) \in Nat
      BY <1>2, <1>4, ClaimSets
<1>6. copies'[k] <= Cardinality(logged) /\ \A r \in Replicas : Outstanding(k)'[r] <= Cardinality(held[r])
      BY <1>1, <1>2, <1>3, <1>5 DEF Shares
<1>7. Shares(logged, held, copies'[k], Outstanding(k)', claims'[k] = "none", reopened'[k])
      BY <1>1, <1>6 DEF Shares
<1> QED BY <1>7 DEF Backed

\* A step of one replica after which copies of a key it had have arrived in the topic.
LEMMA CopiesArrive ==
    ASSUME PushTypes, PushTypes', NEW k \in Keys, NEW r \in Replicas,
           Backed(copies[k], Outstanding(k), claims[k] = "none", reopened[k]),
           claims' = claims, reopened' = reopened,
           \A s \in Replicas \ {r} : Outstanding(k)'[s] = Outstanding(k)[s],
           \/ Outstanding(k)'[r] = 0 /\ copies'[k] <= copies[k] + Outstanding(k)[r]
           \/ Outstanding(k)[r] > 0 /\ Outstanding(k)'[r] = Outstanding(k)[r] - 1 /\ copies'[k] = copies[k] + 1
    PROVE  Backed(copies[k], Outstanding(k), claims[k] = "none", reopened[k])'
<1> DEFINE next == Outstanding(k)'
           out == Outstanding(k)
           free == claims[k] = "none"
<1>1. next \in [Replicas -> Nat] /\ out \in [Replicas -> Nat] /\ free \in BOOLEAN
      BY DEF PushTypes, Outstanding
<1>2. copies[k] \in Nat /\ copies'[k] \in Nat /\ reopened[k] \in Nat
      BY DEF PushTypes
<1>3. \A s \in Replicas \ {r} : next[s] <= out[s]
      BY <1>1
<1>4. Backed(copies[k], out, free, reopened[k])
      OBVIOUS
<1>5. \/ next[r] = 0 /\ copies'[k] <= copies[k] + out[r]
      \/ out[r] > 0 /\ next[r] = out[r] - 1 /\ copies'[k] = copies[k] + 1
      OBVIOUS
<1> HIDE DEF next, out, free
<1>6. Backed(copies'[k], next, free, reopened[k])
      BY <1>1, <1>2, <1>3, <1>4, <1>5, BackedArrives
<1> QED BY <1>6 DEF next, free

LEMMA CopiesBackedStep ==
    PushTypes /\ PushTypes' /\ OneHolder /\ CopiesBacked /\ [PushNext]_pushVars => CopiesBacked'
<1> SUFFICES ASSUME PushTypes, PushTypes', OneHolder, CopiesBacked, [PushNext]_pushVars, NEW k \in Keys
             PROVE  Backed(copies[k], Outstanding(k), claims[k] = "none", reopened[k])'
    BY DEF CopiesBacked
<1> DEFINE Goal == Backed(copies[k], Outstanding(k), claims[k] = "none", reopened[k])'
<1>0. Backed(copies[k], Outstanding(k), claims[k] = "none", reopened[k])
      BY DEF CopiesBacked
<1>9. /\ copies[k] \in Nat /\ copies'[k] \in Nat /\ reopened[k] \in Nat
      /\ Outstanding(k) \in [Replicas -> Nat] /\ Outstanding(k)' \in [Replicas -> Nat]
      BY DEF PushTypes, Outstanding
<1>1. ASSUME NEW r \in Replicas, NEW j \in Keys, ClaimKey(r, j) PROVE Goal
  <2>1. CASE j # k
    <3>1. \A s \in Replicas : Outstanding(k)'[s] <= Outstanding(k)[s]
          BY <1>1, <2>1 DEF ClaimKey, PushRequest, PushGoto, Outstanding, PushTypes
    <3>2. claims'[k] = claims[k] /\ UNCHANGED <<copies, reopened>>
          BY <1>1, <2>1 DEF ClaimKey, PushTypes
    <3> QED BY <1>0, <1>9, <3>1, <3>2, NothingAdded
  <2>2. CASE j = k
    <3> DEFINE next == Outstanding(k)'
               out == Outstanding(k)
               held == FALSE
    <3>1. next[r] <= out[r] + 1 /\ \A s \in Replicas \ {r} : next[s] <= out[s]
          BY <1>1, <2>2 DEF ClaimKey, PushRequest, PushGoto, Outstanding, PushTypes
    <3>2. claims[k] = "none" /\ claims'[k] # "none" /\ UNCHANGED <<copies, reopened>>
          BY <1>1, <2>2 DEF ClaimKey, PushTypes
    <3>3. Backed(copies[k], out, TRUE, reopened[k])
          BY <1>0, <3>2
    <3> HIDE DEF next, out
    <3>4. Backed(copies[k], next, FALSE, reopened[k])
          BY <1>9, <3>1, <3>3, BackedTakes DEF next, out
    <3> QED BY <3>2, <3>4 DEF next
  <2> QED BY <2>1, <2>2
<1>2. ASSUME NEW r \in Replicas, NEW j \in Keys, Duplicate(r, j) \/ ClaimUnavailable(r, j) PROVE Goal
  <2>1. Outstanding(k)' = Outstanding(k) /\ copies' = copies /\ reopened' = reopened
        BY <1>2 DEF Duplicate, ClaimUnavailable, Outstanding
  <2>2. claims'[k] = "none" => claims[k] = "none"
        BY <1>2 DEF Duplicate, ClaimUnavailable, PushTypes
  <2> QED BY <1>0, <1>9, <2>1, <2>2, NothingAdded
<1>3. ASSUME NEW r \in Replicas, NEW j \in Keys, LeaveClient(r, j) PROVE Goal
  <2>1. /\ producerQueue[r][j] > 0 /\ producerQueue' = [producerQueue EXCEPT ![r][j] = @ - 1]
        /\ UNCHANGED <<claims, pushPc, pushing, reopened>>
        BY <1>3 DEF LeaveClient
  <2>2. \A s \in Replicas \ {r} : Outstanding(k)'[s] = Outstanding(k)[s]
        BY <2>1 DEF Outstanding, PushTypes
  <2>3. CASE j # k
    <3>1. Outstanding(k)'[r] = Outstanding(k)[r] /\ copies'[k] = copies[k]
          BY <1>3, <2>1, <2>3 DEF LeaveClient, Outstanding, PushTypes
    <3> QED BY <1>0, <1>9, <2>1, <2>2, <3>1, NothingAdded
  <2>4. CASE j = k
    <3>1. Outstanding(k)'[r] = Outstanding(k)[r] - 1 /\ Outstanding(k)[r] > 0
          BY <2>1, <2>4 DEF Outstanding, PushTypes
    <3>2. CASE copies' = copies
          BY <1>0, <1>9, <2>1, <2>2, <3>1, <3>2, NothingAdded
    <3>3. CASE copies' = [copies EXCEPT ![k] = @ + 1]
      <4>1. copies'[k] = copies[k] + 1
            BY <3>3 DEF PushTypes
      <4> QED BY <1>0, <2>1, <2>2, <3>1, <4>1, CopiesArrive
    <3> QED BY <1>3, <2>4, <3>2, <3>3 DEF LeaveClient
  <2> QED BY <2>3, <2>4
<1>4. ASSUME NEW r \in Replicas, RejectEvent(r) \/ Complete(r) \/ CompleteFails(r) \/ CrashReplica(r) PROVE Goal
  <2>1. copies' = copies /\ reopened' = reopened /\ pushing' = pushing
        BY <1>4 DEF RejectEvent, Complete, CompleteFails, CrashReplica
  <2>2. claims'[k] = "none" => claims[k] = "none"
        BY <1>4 DEF RejectEvent, Complete, CompleteFails, CrashReplica, PushTypes, OneHolder, Result
  <2>3. \A s \in Replicas : Outstanding(k)'[s] <= Outstanding(k)[s]
        BY <1>4 DEF RejectEvent, Complete, CompleteFails, CrashReplica, PushGoto, Outstanding, PushTypes, NothingQueued
  <2> QED BY <1>0, <1>9, <2>1, <2>2, <2>3, NothingAdded
<1>5. ASSUME NEW r \in Replicas, PublishEvent(r) PROVE Goal
  <2>1. /\ claims' = claims /\ reopened' = reopened /\ pushing' = pushing
        /\ producerQueue' = [producerQueue EXCEPT ![r] = NothingQueued]
        /\ pushPc[r] = "ingest" /\ pushPc' = [pushPc EXCEPT ![r] = "complete"]
        BY <1>5 DEF PublishEvent, Publishing, PushGoto
  <2>2. \A s \in Replicas \ {r} : Outstanding(k)'[s] = Outstanding(k)[s]
        BY <2>1 DEF Outstanding, PushTypes
  <2>3. Outstanding(k)'[r] = 0
        BY <2>1 DEF Outstanding, PushTypes, NothingQueued
  <2>4. Produced(r)[k] = Outstanding(k)[r] /\ producerQueue[r][k] <= Outstanding(k)[r]
        BY <2>1 DEF Produced, Outstanding, PushTypes
  <2>5. copies'[k] <= copies[k] + Outstanding(k)[r]
    <3>1. \/ copies'[k] = copies[k] + Produced(r)[k]
          \/ copies'[k] = copies[k] + producerQueue[r][k]
          BY <1>5 DEF PublishEvent
    <3>2. Outstanding(k)[r] \in Nat /\ producerQueue[r][k] \in Nat
          BY <1>9 DEF PushTypes
    <3> QED BY <1>9, <2>4, <3>1, <3>2
  <2> QED BY <1>0, <2>1, <2>2, <2>3, <2>5, CopiesArrive
<1>6. ASSUME NEW r \in Replicas, PublishTimesOut(r) PROVE Goal
  <2>1. /\ UNCHANGED <<claims, copies, reopened, pushing>>
        /\ producerQueue' = [producerQueue EXCEPT ![r] = Produced(r)]
        /\ pushPc[r] = "ingest" /\ pushPc' = [pushPc EXCEPT ![r] = "release"]
        BY <1>6 DEF PublishTimesOut, Publishing, PushGoto
  <2>2. \A s \in Replicas : Outstanding(k)'[s] = Outstanding(k)[s]
        BY <2>1 DEF Produced, Outstanding, PushTypes
  <2> QED BY <1>0, <1>9, <2>1, <2>2, NothingAdded
<1>7. ASSUME NEW r \in Replicas, ReleaseClaim(r) PROVE Goal
  <2>1. /\ copies' = copies /\ Outstanding(k)' = Outstanding(k)
        BY <1>7 DEF ReleaseClaim, PushGoto, Outstanding, PushTypes
  <2>2. CASE claims' = claims /\ reopened' = reopened
        BY <1>0, <1>9, <2>1, <2>2, NothingAdded
  <2>3. CASE pushing[r] # k /\ claims' = [claims EXCEPT ![pushing[r]] = "none"]
                            /\ reopened' = [reopened EXCEPT ![pushing[r]] = @ + 1]
    <3>1. claims'[k] = claims[k] /\ reopened'[k] = reopened[k]
          BY <2>3 DEF PushTypes
    <3> QED BY <1>0, <1>9, <2>1, <3>1, NothingAdded
  <2>4. CASE claims' = [claims EXCEPT ![k] = "none"] /\ reopened' = [reopened EXCEPT ![k] = @ + 1]
    <3> DEFINE free == claims[k] = "none"
    <3>1. claims'[k] = "none" /\ reopened'[k] = reopened[k] + 1
          BY <2>4 DEF PushTypes
    <3>2. Backed(copies[k], Outstanding(k), free, reopened[k]) /\ free \in BOOLEAN
          BY <1>0
    <3> HIDE DEF free
    <3>3. Backed(copies[k], Outstanding(k), TRUE, reopened[k] + 1)
          BY <1>9, <3>2, BackedReopens
    <3> QED BY <2>1, <3>1, <3>3
  <2> QED BY <1>7, <2>2, <2>3, <2>4 DEF ReleaseClaim
<1>8. CASE UNCHANGED pushVars
      BY <1>0, <1>8 DEF pushVars, Outstanding
<1> QED BY <1>1, <1>2, <1>3, <1>4, <1>5, <1>6, <1>7, <1>8 DEF PushNext

\* A step that leaves a request at work on each key it was at work on, or the event settled, and
\* answers and claims nothing.
LEMMA StillCaredFor ==
    ASSUME EventsAreCaredFor,
           \A k \in Keys : Settled(k) => Settled(k)',
           \A k \in Keys \ Invalid, r \in Replicas : InFlight(r, k) => Settled(k)' \/ InFlight(r, k)',
           \A r \in Replicas : pushPc'[r] \in {"complete", "undo"} /\ pushing'[r] \notin Invalid => Settled(pushing[r])',
           \A k \in Keys \ Invalid : \/ claims'[k] = "none" \/ claims[k] # "none"
                                     \/ \E r \in Replicas : InFlight(r, k)' \/ Settled(k)',
           \A k \in Keys \ Invalid : told'[k] \cap {"ingested", "duplicate"} # {} =>
               told[k] \cap {"ingested", "duplicate"} # {} \/ claims[k] # "none" \/ Settled(k)'
    PROVE  EventsAreCaredFor'
<1>1. ASSUME NEW k \in Keys \ Invalid, claims'[k] # "none" \/ told'[k] \cap {"ingested", "duplicate"} # {}
      PROVE  Settled(k)' \/ \E r \in Replicas : InFlight(r, k)'
      BY <1>1 DEF EventsAreCaredFor
<1> QED BY <1>1 DEF EventsAreCaredFor

LEMMA CaredForStep == PushTypes /\ EventsAreCaredFor /\ [PushNext]_pushVars => EventsAreCaredFor'
<1> SUFFICES ASSUME PushTypes, EventsAreCaredFor, [PushNext]_pushVars PROVE EventsAreCaredFor'
    OBVIOUS
<1> USE DEF InFlight, PushGoto
<1>1. ASSUME NEW r \in Replicas, NEW k \in Keys, ClaimKey(r, k) PROVE EventsAreCaredFor'
  <2>1. /\ pushPc' = [pushPc EXCEPT ![r] = "ingest"] /\ pushing' = [pushing EXCEPT ![r] = k]
        /\ pushPc[r] = "idle" /\ claims' = [claims EXCEPT ![k] = "claimed"]
        /\ UNCHANGED <<copies, told, reopened, burnt>>
        BY <1>1 DEF ClaimKey, PushRequest
  <2>2. \A j \in Keys : Settled(j)' <=> Settled(j)
        BY <2>1 DEF Settled
  <2>3. InFlight(r, k)' /\ \A s \in Replicas \ {r} : pushPc'[s] = pushPc[s] /\ pushing'[s] = pushing[s]
        BY <2>1 DEF PushTypes
  <2>4. \A s \in Replicas : pushPc'[s] \in {"complete", "undo"} /\ pushing'[s] \notin Invalid => Settled(pushing[s])'
        BY <2>1, <2>2, <2>3 DEF EventsAreCaredFor, PushTypes
  <2>5. \A j \in Keys \ Invalid : \/ claims'[j] = "none" \/ claims[j] # "none"
                                  \/ \E s \in Replicas : InFlight(s, j)' \/ Settled(j)'
        BY <2>1, <2>3 DEF PushTypes
  <2> QED BY <2>1, <2>2, <2>3, <2>4, <2>5
          DEF EventsAreCaredFor, PushTypes
<1>2. ASSUME NEW r \in Replicas, NEW k \in Keys, Duplicate(r, k) PROVE EventsAreCaredFor'
  <2>1. /\ claims[k] # "none" /\ told' = [told EXCEPT ![k] = @ \cup {"duplicate"}]
        /\ UNCHANGED <<claims, pushPc, pushing, copies, reopened, burnt>>
        BY <1>2 DEF Duplicate, Tell
  <2>2. \A j \in Keys : told'[j] \cap {"ingested", "duplicate"} # {} =>
            told[j] \cap {"ingested", "duplicate"} # {} \/ claims[j] # "none"
        BY <2>1 DEF PushTypes
  <2> QED BY <2>1, <2>2, StillCaredFor DEF EventsAreCaredFor, Settled
<1>3. ASSUME NEW r \in Replicas, NEW k \in Keys, ClaimUnavailable(r, k) PROVE EventsAreCaredFor'
  <2>1. /\ told' = [told EXCEPT ![k] = @ \cup {"error"}]
        /\ UNCHANGED <<pushPc, pushing, copies, reopened>> /\ burnt \subseteq burnt'
        /\ \/ claims' = claims
           \/ claims' = [claims EXCEPT ![k] = "claimed"] /\ k \in burnt'
        BY <1>3 DEF ClaimUnavailable, Tell
  <2>2. \A j \in Keys : told'[j] \cap {"ingested", "duplicate"} # {} => told[j] \cap {"ingested", "duplicate"} # {}
        BY <2>1 DEF PushTypes
  <2>3. \A j \in Keys : Settled(j) => Settled(j)'
        BY <2>1 DEF Settled
  <2>4. \A j \in Keys : claims'[j] = "none" \/ claims[j] # "none" \/ Settled(j)'
        BY <2>1 DEF Settled, PushTypes
  <2>5. \A s \in Replicas : pushPc'[s] \in {"complete", "undo"} /\ pushing'[s] \notin Invalid => Settled(pushing[s])'
        BY <2>1, <2>3 DEF EventsAreCaredFor, PushTypes
  <2> QED BY <2>1, <2>2, <2>3, <2>4, <2>5, StillCaredFor
<1>4. ASSUME NEW r \in Replicas, NEW k \in Keys, LeaveClient(r, k) PROVE EventsAreCaredFor'
  <2>1. /\ UNCHANGED <<claims, pushPc, pushing, told, reopened, burnt>>
        /\ \A j \in Keys : copies'[j] >= copies[j] /\ copies[j] \in Nat /\ copies'[j] \in Nat
        BY <1>4 DEF LeaveClient, PushTypes
  <2>2. \A j \in Keys : Settled(j) => Settled(j)'
        BY <2>1 DEF Settled
  <2> QED BY <2>1, <2>2 DEF EventsAreCaredFor, PushTypes
<1>5. ASSUME NEW r \in Replicas, RejectEvent(r) \/ PublishEvent(r) PROVE EventsAreCaredFor'
  <2>1. /\ UNCHANGED <<claims, pushing, told, reopened>> /\ burnt \subseteq burnt'
        /\ pushPc[r] # "idle" /\ pushPc' = [pushPc EXCEPT ![r] = "complete"]
        BY <1>5 DEF RejectEvent, PublishEvent, Publishing
  <2>2. \A j \in Keys : copies'[j] >= copies[j] /\ copies[j] \in Nat /\ copies'[j] \in Nat
    <3>1. \A j \in Keys : Produced(r)[j] \in Nat /\ producerQueue[r][j] \in Nat
          BY DEF Produced, PushTypes
    <3> QED BY <1>5, <3>1 DEF RejectEvent, PublishEvent, PushTypes
  <2>3. \A j \in Keys : Settled(j) => Settled(j)'
        BY <2>1, <2>2 DEF Settled
  <2>4. pushing[r] \notin Invalid => Settled(pushing[r])'
    <3> SUFFICES ASSUME pushing[r] \notin Invalid PROVE Settled(pushing[r])'
        OBVIOUS
    <3>1. PublishEvent(r) /\ pushing[r] \in Keys
          BY <1>5 DEF RejectEvent, PushTypes
    <3>2. Produced(r)[pushing[r]] > 0 /\ Produced(r)[pushing[r]] \in Nat /\ copies[pushing[r]] \in Nat
          BY <3>1 DEF Produced, PushTypes
    <3>3. CASE copies' = [k \in Keys |-> copies[k] + Produced(r)[k]]
      <4>1. copies'[pushing[r]] = copies[pushing[r]] + Produced(r)[pushing[r]]
            BY <3>1, <3>3
      <4> QED BY <2>1, <3>2, <4>1 DEF Settled
    <3>4. CASE burnt' = burnt \cup {pushing[r]}
          BY <2>1, <3>4 DEF Settled
    <3> QED BY <3>1, <3>3, <3>4 DEF PublishEvent
  <2>5. \A s \in Replicas : pushPc'[s] \in {"complete", "undo"} /\ pushing'[s] \notin Invalid => Settled(pushing[s])'
        BY <2>1, <2>3, <2>4 DEF EventsAreCaredFor, PushTypes
  <2>6. \A j \in Keys, s \in Replicas : InFlight(s, j) => InFlight(s, j)'
        BY <2>1 DEF PushTypes
  <2> QED BY <2>1, <2>3, <2>5, <2>6, StillCaredFor
<1>6. ASSUME NEW r \in Replicas, PublishTimesOut(r) \/ CompleteFails(r) PROVE EventsAreCaredFor'
  <2>1. /\ UNCHANGED <<claims, pushing, copies, told, reopened, burnt>>
        /\ \E place \in {"release", "undo"} : pushPc' = [pushPc EXCEPT ![r] = place]
        /\ pushPc[r] # "idle" /\ (pushPc'[r] = "undo" => pushPc[r] = "complete")
        BY <1>6 DEF PublishTimesOut, CompleteFails, Publishing, PushTypes
  <2>2. \A s \in Replicas : pushPc'[s] \in {"complete", "undo"} /\ pushing'[s] \notin Invalid => Settled(pushing[s])'
        BY <2>1 DEF EventsAreCaredFor, PushTypes, Settled
  <2>3. \A j \in Keys, s \in Replicas : InFlight(s, j) => InFlight(s, j)'
        BY <2>1 DEF PushTypes
  <2> QED BY <2>1, <2>2, <2>3, StillCaredFor DEF Settled
<1>7. ASSUME NEW r \in Replicas, Complete(r) PROVE EventsAreCaredFor'
  <2>1. /\ UNCHANGED <<pushing, copies, reopened, burnt>>
        /\ pushPc[r] = "complete" /\ pushPc' = [pushPc EXCEPT ![r] = "idle"]
        /\ told' = [told EXCEPT ![pushing[r]] = @ \cup {Result(pushing[r])}]
        /\ \A j \in Keys : claims[j] = "none" => claims'[j] = "none"
        BY <1>7 DEF Complete, Tell, PushTypes
  <2>2. \A j \in Keys : Settled(j)' <=> Settled(j)
        BY <2>1 DEF Settled
  <2>3. pushing[r] \notin Invalid => Settled(pushing[r])
        BY <2>1 DEF EventsAreCaredFor
  <2>4. \A j \in Keys \ Invalid : told'[j] \cap {"ingested", "duplicate"} # {} =>
            told[j] \cap {"ingested", "duplicate"} # {} \/ Settled(j)
        BY <2>1, <2>3 DEF PushTypes
  <2>5. \A j \in Keys \ Invalid, s \in Replicas : InFlight(s, j) => Settled(j) \/ InFlight(s, j)'
        BY <2>1, <2>3 DEF PushTypes
  <2>6. \A s \in Replicas : pushPc'[s] \in {"complete", "undo"} /\ pushing'[s] \notin Invalid => Settled(pushing[s])
        BY <2>1 DEF EventsAreCaredFor, PushTypes
  <2>7. \A s \in Replicas : pushing[s] \in Keys
        BY DEF PushTypes
  <2> QED BY <2>1, <2>2, <2>4, <2>5, <2>6, <2>7, StillCaredFor
<1>8. ASSUME NEW r \in Replicas, ReleaseClaim(r) \/ CrashReplica(r) PROVE EventsAreCaredFor'
  <2>1. /\ UNCHANGED <<pushing, copies>> /\ burnt \subseteq burnt'
        /\ pushPc' = [pushPc EXCEPT ![r] = "idle"]
        BY <1>8 DEF ReleaseClaim, CrashReplica
  <2>7. \A j \in Keys : claims[j] = "none" => claims'[j] = "none"
        BY <1>8 DEF ReleaseClaim, CrashReplica, PushTypes
  <2>8. \A j \in Keys : reopened[j] \in Nat /\ reopened'[j] \in Nat /\ reopened'[j] >= reopened[j]
        BY <1>8 DEF ReleaseClaim, CrashReplica, PushTypes
  <2>9. told' = told \/ told' = [told EXCEPT ![pushing[r]] = @ \cup {"error"}]
        BY <1>8 DEF ReleaseClaim, CrashReplica, Tell
  <2>2. \A j \in Keys : Settled(j) => Settled(j)'
        BY <2>1, <2>8 DEF Settled
  <2>3. pushPc[r] # "idle" => Settled(pushing[r])'
    <3> SUFFICES ASSUME pushPc[r] # "idle" PROVE Settled(pushing[r])'
        OBVIOUS
    <3>1. \/ pushing[r] \in burnt'
          \/ reopened' = [reopened EXCEPT ![pushing[r]] = @ + 1]
          BY <1>8 DEF ReleaseClaim, CrashReplica
    <3> QED BY <2>1, <3>1 DEF Settled, PushTypes
  <2>4. \A j \in Keys, s \in Replicas : InFlight(s, j) => Settled(j)' \/ InFlight(s, j)'
        BY <2>1, <2>3 DEF PushTypes
  <2>5. \A s \in Replicas : pushPc'[s] \in {"complete", "undo"} /\ pushing'[s] \notin Invalid => Settled(pushing[s])'
        BY <2>1, <2>2 DEF EventsAreCaredFor, PushTypes
  <2>6. \A j \in Keys : told'[j] \cap {"ingested", "duplicate"} # {} => told[j] \cap {"ingested", "duplicate"} # {}
        BY <2>9 DEF PushTypes
  <2> QED BY <2>1, <2>7, <2>2, <2>4, <2>5, <2>6, StillCaredFor
<1>9. CASE UNCHANGED pushVars
      BY <1>9 DEF pushVars, EventsAreCaredFor, Settled
<1> QED BY <1>1, <1>2, <1>3, <1>4, <1>5, <1>6, <1>7, <1>8, <1>9 DEF PushNext

LEMMA PushStep == PushIInv /\ [PushNext]_pushVars => PushIInv'
  BY PushTypesStep, OneHolderStep, ClaimsAreCallsStep, CopiesBackedStep, CaredForStep DEF PushIInv

LEMMA PushInvariant == PushSpec => []PushIInv
  BY PushInitially, PushStep, PTL DEF PushSpec

(* An idempotency key stands for one publication: whatever replicas retry, crash, time out or lose a
   late delivery, each copy of the event took a claim of its own, and no one is told that an event
   is in hand that is not, or for a reason AnsweredIsPublished names. *)
THEOREM KeyIsOnePublicationAlways == PushSpec => []KeyIsOnePublication
<1>1. PushIInv => CopiesNeedAClaim
  <2> SUFFICES ASSUME PushIInv, NEW k \in Keys PROVE copies[k] <= 1 + reopened[k]
      BY DEF CopiesNeedAClaim
  <2> DEFINE free == claims[k] = "none"
  <2>1. Backed(copies[k], Outstanding(k), free, reopened[k]) /\ free \in BOOLEAN
        BY DEF PushIInv, CopiesBacked
  <2>2. copies[k] \in Nat /\ reopened[k] \in Nat /\ Outstanding(k) \in [Replicas -> Nat]
        BY OutstandingTyped DEF PushIInv, PushTypes
  <2> HIDE DEF free
  <2>3. copies[k] <= reopened[k] + 1
        BY <2>1, <2>2, BackedBounds
  <2> QED BY <2>2, <2>3
<1>2. PushIInv => AnsweredIsPublished
      BY DEF PushIInv, EventsAreCaredFor, Settled, InFlight, AnsweredIsPublished
<1> QED BY <1>1, <1>2, PushInvariant, PTL DEF KeyIsOnePublication

LEMMA PushTyped == PushIInv => HttpPushTypeOK
<1> SUFFICES ASSUME PushIInv PROVE HttpPushTypeOK
    OBVIOUS
<1>1. ASSUME NEW k \in Keys
      PROVE  copies[k] <= MaxCalls /\ reopened[k] <= MaxCalls
             /\ \A r \in Replicas : producerQueue[r][k] <= MaxCalls
  <2> DEFINE free == claims[k] = "none"
  <2>1. Backed(copies[k], Outstanding(k), free, reopened[k]) /\ free \in BOOLEAN
        BY DEF PushIInv, CopiesBacked
  <2>2. copies[k] \in Nat /\ reopened[k] \in Nat /\ Outstanding(k) \in [Replicas -> Nat]
        BY OutstandingTyped DEF PushIInv, PushTypes
  <2>3. reopened[k] <= calls /\ (~free => reopened[k] + 1 <= calls) /\ calls \in Nat /\ calls <= MaxCalls
        BY <2>2, HttpPushAssumption DEF PushIInv, PushTypes, ClaimsAreCalls
  <2> HIDE DEF free
  <2>4. /\ copies[k] <= reopened[k] + 1 /\ (free => copies[k] <= reopened[k])
        /\ \A r \in Replicas : /\ Outstanding(k)[r] <= reopened[k] + 1
                               /\ free => Outstanding(k)[r] <= reopened[k]
        BY <2>1, <2>2, BackedBounds
  <2>5. copies[k] <= MaxCalls /\ reopened[k] <= MaxCalls /\ \A r \in Replicas : Outstanding(k)[r] <= MaxCalls
        BY <2>1, <2>2, <2>3, <2>4, HttpPushAssumption
  <2>6. \A r \in Replicas : producerQueue[r][k] \in Nat /\ producerQueue[r][k] <= Outstanding(k)[r]
        BY DEF Outstanding, PushIInv, PushTypes
  <2> QED BY <2>2, <2>5, <2>6, HttpPushAssumption
<1>2. \A k \in Keys : copies[k] \in 0..MaxCalls /\ reopened[k] \in 0..MaxCalls
      BY <1>1 DEF PushIInv, PushTypes
<1>3. \A r \in Replicas, k \in Keys : producerQueue[r][k] \in 0..MaxCalls
      BY <1>1 DEF PushIInv, PushTypes
<1>4. copies \in [Keys -> 0..MaxCalls] /\ reopened \in [Keys -> 0..MaxCalls]
      BY <1>2 DEF PushIInv, PushTypes
<1>5. \A r \in Replicas : producerQueue[r] \in [Keys -> 0..MaxCalls]
      BY <1>3 DEF PushIInv, PushTypes
<1>6. producerQueue \in [Replicas -> [Keys -> 0..MaxCalls]]
      BY <1>5 DEF PushIInv, PushTypes
<1> QED BY <1>4, <1>6 DEF PushIInv, PushTypes, HttpPushTypeOK

\* No queue, count of copies or count of releases exceeds the number of requests.
THEOREM PushTypeCorrect == PushSpec => []HttpPushTypeOK
  BY PushTyped, PushInvariant, PTL
-----------------------------------------------------------------------------
(* The promotion ledger. *)

\* Moving a registered version gives a record of the ledger, in that state, with its evaluations.
LEMMA MovedRecord ==
    ASSUME LifecycleTypeOK, changes' \in Nat, NEW v \in Registered, NEW state \in ModelStates
    PROVE  /\ Moved(v, state) \in Records
           /\ Moved(v, state).state = state
           /\ Moved(v, state).passed = ledger[v].passed
<1>1. ledger[v] \in [state : ModelStates, passed : BOOLEAN, updated : Nat]
      BY DEF LifecycleTypeOK, Registered, Records
<1> QED BY <1>1 DEF Moved, Records

\* Only an approved version can be moved to active, and only an active one to retired.
LEMMA ServiceSources ==
    ASSUME NEW state \in ModelStates
    PROVE  /\ "active" \in AllowedTransitions[state] => state = "approved"
           /\ "retired" \in AllowedTransitions[state] => state = "active"
  BY DEF ModelStates, AllowedTransitions

LEMMA RegisteredState == LifecycleTypeOK => \A v \in Registered : ledger[v].state \in ModelStates
  BY DEF LifecycleTypeOK, Registered, Records

\* The clock of the ledger.
LEMMA ChangeType == LifecycleTypeOK /\ Change => changes' \in Nat
  BY DEF LifecycleTypeOK, Change

LEMMA LifecycleTypeStep == LifecycleTypeOK /\ [LifecycleNext]_lifecycleVars => LifecycleTypeOK'
<1> SUFFICES ASSUME LifecycleTypeOK, [LifecycleNext]_lifecycleVars PROVE LifecycleTypeOK'
    OBVIOUS
<1>1. ASSUME NEW v \in Versions, Register(v) PROVE LifecycleTypeOK'
      BY <1>1, ChangeType DEF Register, LifecycleTypeOK, Records, ModelStates
<1>2. ASSUME NEW v \in Versions, NEW passed \in BOOLEAN, Evaluate(v, passed) PROVE LifecycleTypeOK'
  <2>1. ledger[v] \in Records
        BY <1>2 DEF Evaluate, InState, Registered, LifecycleTypeOK
  <2>2. ledger[v].passed \/ passed \in BOOLEAN
        BY <2>1 DEF Records
  <2> QED BY <1>2, <2>2, ChangeType DEF Evaluate, LifecycleTypeOK, Records, ModelStates
<1>3. ASSUME NEW v \in Versions, NEW target \in ModelStates, Move(v, target) PROVE LifecycleTypeOK'
  <2>1. Moved(v, target) \in Records
        BY <1>3, ChangeType, MovedRecord DEF Move, Allowed
  <2>2. ledger' \in [Versions -> Records \cup {Unregistered}]
        BY <1>3, <2>1 DEF Move, LifecycleTypeOK
  <2>3. approved' \subseteq Versions
        BY <1>3 DEF Move, LifecycleTypeOK
  <2> QED BY <1>3, <2>2, <2>3, ChangeType DEF Move, LifecycleTypeOK
<1>4. ASSUME NEW v \in Versions, Activate(v) PROVE LifecycleTypeOK'
  <2>1. \A w \in InState({"active"}) : Moved(w, "retired") \in Records
        BY <1>4, ChangeType, MovedRecord DEF Activate, InState, ModelStates
  <2>2. Moved(v, "active") \in Records
        BY <1>4, ChangeType, MovedRecord DEF Activate, Allowed, ModelStates
  <2>3. ledger' \in [Versions -> Records \cup {Unregistered}]
        BY <1>4, <2>1, <2>2 DEF Activate, LifecycleTypeOK
  <2> QED BY <1>4, <2>3, ChangeType DEF Activate, LifecycleTypeOK
<1>5. ASSUME NEW v \in Versions, Rollback(v) PROVE LifecycleTypeOK'
  <2>1. PICK target \in RollbackTargets(v) :
            ledger' = [ledger EXCEPT ![v] = Moved(v, "retired"), ![target] = Moved(target, "active")]
        BY <1>5 DEF Rollback
  <2>2. Moved(v, "retired") \in Records /\ Moved(target, "active") \in Records
        BY <1>5, <2>1, ChangeType, MovedRecord DEF Rollback, RollbackTargets, InState, ModelStates
  <2>3. ledger' \in [Versions -> Records \cup {Unregistered}]
        BY <2>1, <2>2 DEF LifecycleTypeOK
  <2> QED BY <1>5, <2>3, ChangeType DEF Rollback, LifecycleTypeOK
<1>6. CASE UNCHANGED lifecycleVars
      BY <1>6 DEF lifecycleVars, LifecycleTypeOK
<1> QED BY <1>1, <1>2, <1>3, <1>4, <1>5, <1>6 DEF LifecycleNext

\* Every reachable ledger is well typed: a request that is answered leaves a state the file may hold.
THEOREM LifecycleTypeCorrect == LifecycleSpec => []LifecycleTypeOK
<1>1. LifecycleInit => LifecycleTypeOK
      BY DEF LifecycleInit, LifecycleTypeOK, Records
<1> QED BY <1>1, LifecycleTypeStep, PTL DEF LifecycleSpec
-----------------------------------------------------------------------------
\* Activation and rollback are the two requests that put a version into service, and each takes the
\* one of its family out of it.
LEMMA OneActiveStep ==
    LifecycleTypeOK /\ OneActive /\ [LifecycleNext]_lifecycleVars => OneActive'
<1> SUFFICES ASSUME LifecycleTypeOK, OneActive, [LifecycleNext]_lifecycleVars,
                    NEW a \in Versions, NEW b \in Versions, a # b, FamilyOf[a] = FamilyOf[b],
                    a \in InState({"active"})', b \in InState({"active"})'
             PROVE  FALSE
    BY DEF OneActive, InState, Registered
<1> USE DEF LifecycleTypeOK, InState, Registered
<1>1. ASSUME NEW v \in Versions, Register(v) PROVE FALSE
      BY <1>1 DEF Register, OneActive
<1>2. ASSUME NEW v \in Versions, NEW passed \in BOOLEAN, Evaluate(v, passed) PROVE FALSE
      BY <1>2 DEF Evaluate, OneActive
<1>3. ASSUME NEW v \in Versions, NEW target \in ModelStates, Move(v, target) PROVE FALSE
  <2>1. ledger'[v].state = target /\ \A w \in Versions \ {v} : ledger'[w] = ledger[w]
        BY <1>3, ChangeType, MovedRecord DEF Move, Allowed
  <2>2. a # v /\ b # v
        BY <1>3, <2>1 DEF Move
  <2> QED BY <2>1, <2>2 DEF OneActive
<1>4. ASSUME NEW v \in Versions, Activate(v) PROVE FALSE
  <2>1. \A w \in Siblings(v) : ledger'[w] = IF w \in InState({"active"}) THEN Moved(w, "retired") ELSE ledger[w]
        BY <1>4 DEF Activate, Siblings
  <2>2. \A w \in InState({"active"}) : Moved(w, "retired").state = "retired"
        BY <1>4, ChangeType, MovedRecord DEF Activate, ModelStates
  <2>3. a \notin Siblings(v) /\ b \notin Siblings(v)
        BY <2>1, <2>2
  <2>4. \A w \in Versions : w # v /\ w \notin Siblings(v) => ledger'[w] = ledger[w]
        BY <1>4 DEF Activate
  <2>5. a # v /\ b # v
        BY <2>3 DEF Siblings
  <2> QED BY <2>3, <2>4, <2>5 DEF OneActive
<1>5. ASSUME NEW v \in Versions, Rollback(v) PROVE FALSE
  <2>1. PICK target \in RollbackTargets(v) :
            ledger' = [ledger EXCEPT ![v] = Moved(v, "retired"), ![target] = Moved(target, "active")]
        BY <1>5 DEF Rollback
  <2>2. /\ target # v /\ FamilyOf[target] = FamilyOf[v]
        /\ ledger'[v].state = "retired"
        /\ \A w \in Versions \ {v, target} : ledger'[w] = ledger[w]
        BY <1>5, <2>1, ChangeType, MovedRecord DEF Rollback, RollbackTargets, Siblings, ModelStates
  <2>3. v \in InState({"active"}) /\ a # v /\ b # v
        BY <1>5, <2>2 DEF Rollback
  \* Of a and b one is not the target, has stayed active, and is of the family of v.
  <2> QED BY <2>2, <2>3 DEF OneActive
<1>6. CASE UNCHANGED lifecycleVars
      BY <1>6 DEF lifecycleVars, OneActive
<1> QED BY <1>1, <1>2, <1>3, <1>4, <1>5, <1>6 DEF LifecycleNext

\* No sequence of requests leaves two versions of a model active at a site.
THEOREM OneActiveAlways == LifecycleSpec => []OneActive
<1>1. LifecycleInit => OneActive
      BY DEF LifecycleInit, OneActive, InState, Registered
<1> QED BY <1>1, LifecycleTypeCorrect, OneActiveStep, PTL DEF LifecycleSpec
-----------------------------------------------------------------------------
\* No request reaches approved, active or retired around the approval.
LEMMA ServedIsApprovedStep ==
    LifecycleTypeOK /\ ServedIsApproved /\ [LifecycleNext]_lifecycleVars => ServedIsApproved'
<1> SUFFICES ASSUME LifecycleTypeOK, ServedIsApproved, [LifecycleNext]_lifecycleVars,
                    NEW a \in Versions, a \in InState({"approved", "active", "retired"})'
             PROVE  ledger'[a].passed /\ a \in approved'
    BY DEF ServedIsApproved, InState, Registered
<1> USE DEF LifecycleTypeOK, InState, Registered
<1>1. ASSUME NEW v \in Versions, Register(v) PROVE ledger'[a].passed /\ a \in approved'
      BY <1>1 DEF Register, ServedIsApproved
<1>2. ASSUME NEW v \in Versions, NEW passed \in BOOLEAN, Evaluate(v, passed)
      PROVE ledger'[a].passed /\ a \in approved'
      BY <1>2 DEF Evaluate, ServedIsApproved
<1>3. ASSUME NEW v \in Versions, NEW target \in ModelStates, Move(v, target)
      PROVE ledger'[a].passed /\ a \in approved'
  <2>1. /\ ledger'[v].state = target /\ ledger'[v].passed = ledger[v].passed
        /\ \A w \in Versions \ {v} : ledger'[w] = ledger[w]
        BY <1>3, ChangeType, MovedRecord DEF Move, Allowed
  <2>2. CASE a # v
        BY <1>3, <2>1, <2>2 DEF Move, ServedIsApproved
  <2>3. CASE a = v /\ target = "approved"
        BY <1>3, <2>1, <2>3 DEF Move
  <2>4. CASE a = v /\ target = "retired"
    <3>1. ledger[v].state = "active"
          BY <1>3, <2>4, ServiceSources, RegisteredState DEF Move, Allowed
    <3> QED BY <1>3, <2>1, <2>4, <3>1 DEF Move, Allowed, ServedIsApproved
  <2>5. a = v => target \in {"approved", "retired"}
        BY <1>3, <2>1 DEF Move
  <2> QED BY <2>2, <2>3, <2>4, <2>5
<1>4. ASSUME NEW v \in Versions, Activate(v) PROVE ledger'[a].passed /\ a \in approved'
  <2>1. v \in InState({"approved"})
        BY <1>4, ServiceSources, RegisteredState DEF Activate, Allowed
  <2>2. \A w \in InState({"approved", "active"}), state \in {"active", "retired"} :
            Moved(w, state).passed = ledger[w].passed
        BY <1>4, ChangeType, MovedRecord DEF Activate, ModelStates
  <2>3. \/ ledger'[a] = ledger[a]
        \/ a \in InState({"approved", "active"}) /\ ledger'[a].passed = ledger[a].passed
        BY <1>4, <2>1, <2>2 DEF Activate
  <2>4. approved' = approved
        BY <1>4 DEF Activate
  <2> QED BY <2>3, <2>4 DEF ServedIsApproved
<1>5. ASSUME NEW v \in Versions, Rollback(v) PROVE ledger'[a].passed /\ a \in approved'
  <2>1. PICK target \in RollbackTargets(v) :
            ledger' = [ledger EXCEPT ![v] = Moved(v, "retired"), ![target] = Moved(target, "active")]
        BY <1>5 DEF Rollback
  <2>2. v \in InState({"active"}) /\ target \in InState({"approved", "retired"})
        BY <1>5, <2>1 DEF Rollback, RollbackTargets
  <2>3. Moved(v, "retired").passed = ledger[v].passed /\ Moved(target, "active").passed = ledger[target].passed
        BY <1>5, <2>2, ChangeType, MovedRecord DEF Rollback, ModelStates
  <2>4. \/ ledger'[a] = ledger[a]
        \/ a \in {v, target} /\ ledger'[a].passed = ledger[a].passed
        BY <2>1, <2>2, <2>3
  <2>5. approved' = approved
        BY <1>5 DEF Rollback
  <2> QED BY <2>2, <2>4, <2>5 DEF ServedIsApproved
<1>6. CASE UNCHANGED lifecycleVars
      BY <1>6 DEF lifecycleVars, ServedIsApproved
<1> QED BY <1>1, <1>2, <1>3, <1>4, <1>5, <1>6 DEF LifecycleNext

\* A version in service, or retired from it, has passed an evaluation and been approved since it
\* was last a candidate.
THEOREM ServedIsApprovedAlways == LifecycleSpec => []ServedIsApproved
<1>1. LifecycleInit => ServedIsApproved
      BY DEF LifecycleInit, ServedIsApproved, InState, Registered
<1> QED BY <1>1, LifecycleTypeCorrect, ServedIsApprovedStep, PTL DEF LifecycleSpec
-----------------------------------------------------------------------------
(* Replays. *)

\* The part of the state the argument is about.
ReplayInv ==
    /\ started \in Nat
    /\ \E P : thread \in [Replays -> P]
    /\ RunningHasItsThread

LEMMA ReplayInvInit == ReplayInit => ReplayInv
<1> SUFFICES ASSUME ReplayInit PROVE ReplayInv
    OBVIOUS
<1>1. thread \in [Replays -> {"none"}]
      BY DEF ReplayInit
<1> QED BY <1>1 DEF ReplayInit, ReplayInv, RunningHasItsThread

\* Only the thread itself ends, and the step it ends with clears replayRunning.
LEMMA ReplayInvStep == ReplayInv /\ [ReplayNext]_replayVars => ReplayInv'
<1> SUFFICES ASSUME ReplayInv, [ReplayNext]_replayVars PROVE ReplayInv'
    OBVIOUS
<1> DEFINE Phases == {thread[n] : n \in Replays} \cup Verdicts \cup {"loop", "publish", "flush", "done"}
<1>0. started \in Nat /\ thread \in [Replays -> Phases]
      BY DEF ReplayInv
<1>1. CASE StartReplay
  <2>1. started' \in Replays /\ started' \in Nat
        BY <1>0, <1>1, ReplayAssumption DEF StartReplay, Replays
  <2>2. thread' \in [Replays -> Phases] /\ thread'[started'] = "loop"
        BY <1>0, <1>1, <2>1 DEF StartReplay
  <2> QED BY <2>1, <2>2 DEF ReplayInv, RunningHasItsThread, Alive
<1>2. CASE StopReplay
      BY <1>0, <1>2 DEF StopReplay, ReplayInv, RunningHasItsThread
<1>3. ASSUME NEW n \in Replays, TestLoop(n) \/ PublishRow(n) \/ Flush(n) PROVE ReplayInv'
  <2>1. PICK to \in Verdicts \cup {"loop", "publish", "flush"} : thread' = [thread EXCEPT ![n] = to]
        BY <1>3 DEF TestLoop, PublishRow, Flush, Verdict, Verdicts
  <2>2. replayRunning' = replayRunning /\ started' = started
        BY <1>3 DEF TestLoop, PublishRow, Flush
  <2>3. thread' \in [Replays -> Phases]
        BY <1>0, <2>1
  <2>4. Alive \subseteq Alive'
        BY <1>0, <2>1 DEF Alive, Verdicts
  <2> QED BY <1>0, <2>2, <2>3, <2>4 DEF ReplayInv, RunningHasItsThread
<1>4. ASSUME NEW n \in Replays, Finish(n) PROVE ReplayInv'
      BY <1>0, <1>4 DEF Finish, ReplayInv, RunningHasItsThread
<1>5. ASSUME NEW n \in Replays, Acknowledge(n) PROVE ReplayInv'
      BY <1>0, <1>5 DEF Acknowledge, ReplayInv, RunningHasItsThread, Alive
<1>6. CASE UNCHANGED replayVars
      BY <1>0, <1>6 DEF replayVars, ReplayInv, RunningHasItsThread, Alive
<1> QED BY <1>1, <1>2, <1>3, <1>4, <1>5, <1>6 DEF ReplayNext, Step

\* A state that says a replay is running has a thread that will say when it ends, whatever the
\* threads of earlier, stopped replays write in the meantime.
THEOREM RunningHasItsThreadAlways == ReplaySpec => []RunningHasItsThread
<1>1. ReplayInv => RunningHasItsThread
      BY DEF ReplayInv
<1> QED BY <1>1, ReplayInvInit, ReplayInvStep, PTL DEF ReplaySpec
-----------------------------------------------------------------------------
(* Source connections. *)

\* Every connection a registry enables is permitted.
Permits(file, allowed) == \A c \in Connections : file[c] # Absent /\ file[c].enabled => c \in allowed

\* The memory of the API and the file may differ, by failed writes; neither enables more than the
\* requests have.
PermittedInv ==
    /\ registry \in Registries /\ Permits(registry, permitted)
    /\ apiMemory = Absent \/ (apiMemory \in Registries /\ Permits(apiMemory, permitted))
    /\ requests \in Nat

LEMMA PermittedInit == ConnectionsInit => PermittedInv
  BY DEF ConnectionsInit, PermittedInv, Permits, Registries

LEMMA Persisted ==
    ASSUME PermittedInv, NEW changed \in Registries, Persist(changed)
    PROVE  /\ apiMemory' = changed /\ requests' \in Nat
           /\ registry' \in {changed, registry} /\ registry' \in Registries
  BY DEF Persist, PermittedInv

\* A write that enables nothing new.
LEMMA WritesPermitted ==
    ASSUME PermittedInv, NEW changed \in Registries, Persist(changed),
           Permits(changed, permitted'), permitted \subseteq permitted'
    PROVE  PermittedInv'
  BY Persisted DEF PermittedInv, Permits

\* The definition a connection is replaced by is a registry's.
LEMMA Replaced ==
    ASSUME apiMemory \in Registries, NEW c \in Connections, NEW new \in Definitions
    PROVE  LET changed == [apiMemory EXCEPT ![c] = new]
           IN  /\ changed \in Registries /\ changed[c] = new
               /\ \A d \in Connections \ {c} : changed[d] = apiMemory[d]
  BY DEF Registries

\* Definitions edited by a request.
LEMMA Edited ==
    ASSUME NEW d \in Definitions, NEW b \in BOOLEAN, NEW n \in Nat, NEW state \in States
    PROVE  /\ [d EXCEPT !.complete = b, !.request = n] \in Definitions
           /\ [d EXCEPT !.version = n, !.state = state, !.enabled = b] \in Definitions
  BY DEF Definitions

LEMMA PutPermitted ==
    ASSUME PermittedInv, apiMemory # Absent, NEW c \in Connections, NEW incoming \in Definitions,
           Put(c, incoming), permitted \subseteq permitted',
           apiMemory[c] = Absent /\ incoming.enabled => c \in permitted'
    PROVE  PermittedInv'
<1> DEFINE old == apiMemory[c]
           new == IF old = Absent THEN incoming
                  ELSE [incoming EXCEPT !.version = old.version + 1, !.state = old.state, !.enabled = old.enabled]
           changed == [apiMemory EXCEPT ![c] = new]
<1>1. apiMemory \in Registries /\ Permits(apiMemory, permitted)
      BY DEF PermittedInv
<1>2. old # Absent => old \in Definitions
      BY <1>1 DEF Registries
<1>3. new \in Definitions /\ (old # Absent => new.enabled = old.enabled)
  <2>1. CASE old = Absent
        BY <2>1
  <2>2. CASE old # Absent
    <3> DEFINE next == old.version + 1
    <3>1. next \in Nat /\ old.state \in States /\ old.enabled \in BOOLEAN
          BY <1>2, <2>2 DEF Definitions
    <3>2. new = [incoming EXCEPT !.version = next, !.state = old.state, !.enabled = old.enabled]
          BY <2>2
    <3> HIDE DEF next, new
    <3>3. new \in Definitions
          BY <3>1, <3>2, Edited, Zenon
    <3>4. new.enabled = old.enabled
          BY <3>2 DEF Definitions
    <3> QED BY <3>3, <3>4
  <2> QED BY <2>1, <2>2
<1>4. new.enabled => c \in permitted'
      BY <1>1, <1>3 DEF Permits
<1>5. Persist(changed)
      BY DEF Put
<1> HIDE DEF new
<1>6. changed \in Registries /\ changed[c] = new /\ \A d \in Connections \ {c} : changed[d] = apiMemory[d]
      BY <1>1, <1>3, Replaced
<1> HIDE DEF changed
<1>7. Permits(changed, permitted')
      BY <1>1, <1>4, <1>6 DEF Permits
<1> QED BY <1>5, <1>6, <1>7, WritesPermitted

LEMMA SwitchedRegistry ==
    ASSUME PermittedInv, apiMemory # Absent, NEW c \in Connections, apiMemory[c] # Absent,
           NEW enabled \in BOOLEAN, NEW state \in States
    PROVE  LET changed == Switched(c, enabled, state)
           IN  /\ changed \in Registries /\ changed[c].enabled = enabled
               /\ \A d \in Connections \ {c} : changed[d] = apiMemory[d]
<1>1. apiMemory \in Registries /\ apiMemory[c] \in Definitions
      BY DEF PermittedInv, Registries
<1>2. PICK d \in Definitions : d = apiMemory[c]
      BY <1>1
<1>3. [d EXCEPT !.enabled = enabled, !.state = state] \in Definitions
      BY DEF Definitions
<1>4. [d EXCEPT !.enabled = enabled, !.state = state].enabled = enabled
      BY DEF Definitions
<1>5. PICK new \in Definitions : /\ new = [apiMemory[c] EXCEPT !.enabled = enabled, !.state = state]
                                 /\ new.enabled = enabled
      BY <1>2, <1>3, <1>4
<1>6. Switched(c, enabled, state) = [apiMemory EXCEPT ![c] = new]
      BY <1>5 DEF Switched
<1>7. PICK changed : changed = Switched(c, enabled, state)
      OBVIOUS
<1>8. /\ changed \in Registries /\ changed[c] = new
      /\ \A e \in Connections \ {c} : changed[e] = apiMemory[e]
      BY <1>1, <1>6, <1>7 DEF Registries
<1> QED BY <1>5, <1>7, <1>8

LEMMA WithdrawPermitted ==
    ASSUME PermittedInv, NEW c \in Connections, NEW state \in States, Withdraw(c, state)
    PROVE  PermittedInv'
<1> DEFINE changed == Switched(c, FALSE, state)
<1>1. apiMemory # Absent /\ apiMemory[c] # Absent /\ Persist(changed)
      BY DEF Withdraw, RegistryRequest
<1>2. /\ changed \in Registries /\ changed[c].enabled = FALSE
      /\ \A d \in Connections \ {c} : changed[d] = apiMemory[d]
      BY <1>1, SwitchedRegistry
<1> HIDE DEF changed
<1>3. apiMemory' = changed /\ registry' \in {changed, registry} /\ registry' \in Registries /\ requests' \in Nat
      BY <1>1, <1>2, Persisted
<1>4. Permits(changed, permitted \ {c})
      BY <1>1, <1>2 DEF Permits, PermittedInv
<1>5. CASE registry' = apiMemory'
      BY <1>2, <1>3, <1>4, <1>5 DEF Withdraw, PermittedInv
<1>6. CASE registry' # apiMemory'
  <2>1. permitted' = permitted /\ registry' = registry
        BY <1>3, <1>6 DEF Withdraw
  <2>2. Permits(changed, permitted)
        BY <1>4 DEF Permits
  <2> QED BY <1>2, <1>3, <2>1, <2>2 DEF PermittedInv
<1> QED BY <1>5, <1>6

LEMMA PermittedStep == PermittedInv /\ [ConnectionsNext]_connectionVars => PermittedInv'
<1> SUFFICES ASSUME PermittedInv, [ConnectionsNext]_connectionVars PROVE PermittedInv'
    OBVIOUS
<1>1. ASSUME NEW c \in Connections, NEW complete \in BOOLEAN, NEW enabled \in BOOLEAN,
             CreateConnection(c, complete, enabled)
      PROVE  PermittedInv'
  <2> DEFINE incoming == [state |-> IF enabled THEN "enabled" ELSE "configured", enabled |-> enabled,
                          version |-> 1, complete |-> complete, request |-> requests + 1]
  <2>1. incoming \in Definitions /\ incoming.enabled = enabled
        BY DEF PermittedInv, Definitions, States
  <2>2. apiMemory # Absent /\ Put(c, incoming)
        BY <1>1 DEF CreateConnection, RegistryRequest
  <2>3. permitted \subseteq permitted' /\ (apiMemory[c] = Absent /\ enabled => c \in permitted')
        BY <1>1 DEF CreateConnection
  <2> HIDE DEF incoming
  <2> QED BY <2>1, <2>2, <2>3, PutPermitted
<1>2. ASSUME NEW c \in Connections, NEW complete \in BOOLEAN, UpdateConnection(c, complete)
      PROVE  PermittedInv'
  <2> DEFINE incoming == [apiMemory[c] EXCEPT !.complete = complete, !.request = requests + 1]
  <2>1. apiMemory # Absent /\ apiMemory[c] # Absent /\ Put(c, incoming) /\ permitted' = permitted
        BY <1>2 DEF UpdateConnection, RegistryRequest
  <2>2. apiMemory[c] \in Definitions
        BY <2>1 DEF PermittedInv, Registries
  <2>3. incoming \in Definitions
    <3>1. requests + 1 \in Nat
          BY DEF PermittedInv
    <3> QED BY <2>2, <3>1, Edited DEF States
  <2> HIDE DEF incoming
  <2> QED BY <2>1, <2>3, PutPermitted
<1>3. ASSUME NEW c \in Connections, EnableConnection(c) PROVE PermittedInv'
  <2> DEFINE changed == Switched(c, TRUE, "enabled")
  <2>1. apiMemory # Absent /\ apiMemory[c] # Absent /\ Persist(changed) /\ permitted' = permitted \cup {c}
        BY <1>3 DEF EnableConnection, RegistryRequest
  <2>2. changed \in Registries /\ \A d \in Connections \ {c} : changed[d] = apiMemory[d]
        BY <2>1, SwitchedRegistry DEF States
  <2> HIDE DEF changed
  <2>3. Permits(changed, permitted')
        BY <2>1, <2>2 DEF Permits, PermittedInv
  <2> QED BY <2>1, <2>2, <2>3, WritesPermitted
<1>4. ASSUME NEW c \in Connections, DisableConnection(c) \/ RetireConnection(c) \/ RestoreConnection(c)
      PROVE  PermittedInv'
      BY <1>4, WithdrawPermitted DEF DisableConnection, RetireConnection, RestoreConnection, States
<1>5. CASE RestartApi
      BY <1>5 DEF RestartApi, PermittedInv
<1>6. ASSUME UNCHANGED apiVars PROVE PermittedInv'
      BY <1>6 DEF apiVars, PermittedInv
<1>7. CASE RestartEdge \/ Reconcile \/ \E s \in running : ConnectorEnds(s)
      BY <1>6, <1>7
      DEF RestartEdge, Reconcile, ReadConfigured, CancelTasks, BuildTasks, Sleep, ConnectorEnds
<1>8. CASE UNCHANGED connectionVars
      BY <1>6, <1>8 DEF connectionVars
<1> QED BY <1>1, <1>2, <1>3, <1>4, <1>5, <1>7, <1>8 DEF ConnectionsNext

\* A connection the file enables has been enabled by a request since the last one that withdrew it
\* and reached the file, across failed writes, edits and restarts.
THEOREM EnabledByRequestAlways == ConnectionsSpec => []EnabledByRequest
<1>1. PermittedInv => EnabledByRequest
      BY DEF PermittedInv, Permits, EnabledByRequest
<1> QED BY <1>1, PermittedInit, PermittedStep, PTL DEF ConnectionsSpec
-----------------------------------------------------------------------------
(* The historian client. *)

\* A thread that holds a connection for the query with an id.
RegisteredAs(t, q) ==
    /\ apiThread[t].query = q /\ apiThread[t].conn = activeQueries[q]
    /\ apiThread[t].pc \in {"execute", "release"}

\* The event loop runs no query with an id of a client.
HandlesInv ==
    /\ apiThread \in [ApiThreads -> ThreadStates]
    /\ activeQueries \in [QueryIds -> Conns \cup {0}]
    /\ apiThread[EventLoop].query = NoQuery
    /\ \A q \in QueryIds : activeQueries[q] # 0 => \E t \in QueryThreads : RegisteredAs(t, q)

LEMMA HandlesInit == HistorianInit => HandlesInv
<1> SUFFICES ASSUME HistorianInit PROVE HandlesInv
    OBVIOUS
<1>1. IdleThread \in ThreadStates /\ IdleThread.query = NoQuery
      BY DEF IdleThread, ThreadStates
<1> QED BY <1>1 DEF HistorianInit, HandlesInv, ApiThreads

\* No id loses its thread when one thread takes a step that registers and releases nothing.
LEMMA OneThread ==
    ASSUME HandlesInv, NEW t \in ApiThreads, NEW r \in ThreadStates,
           apiThread' = [apiThread EXCEPT ![t] = r], activeQueries' = activeQueries,
           t = EventLoop => r.query = NoQuery,
           \/ t = EventLoop
           \/ apiThread[t].pc \notin {"execute", "release"}
           \/ /\ r.query = apiThread[t].query /\ r.conn = apiThread[t].conn
              /\ r.pc \in {"execute", "release"}
    PROVE  HandlesInv'
<1>1. apiThread' \in [ApiThreads -> ThreadStates] /\ apiThread'[EventLoop].query = NoQuery
      BY DEF HandlesInv, ApiThreads
<1>2. ASSUME NEW q \in QueryIds, activeQueries[q] # 0
      PROVE  \E u \in QueryThreads : RegisteredAs(u, q)'
  <2>1. PICK u \in QueryThreads : RegisteredAs(u, q)
        BY <1>2 DEF HandlesInv
  <2>2. RegisteredAs(u, q)'
        BY <2>1, HistorianClientAssumption DEF RegisteredAs, HandlesInv, ApiThreads
  <2> QED BY <2>2
<1> QED BY <1>1, <1>2 DEF HandlesInv

\* Where a thread goes on.
LEMMA GoesOn ==
    ASSUME HandlesInv, NEW t \in ApiThreads,
           NEW place \in {"free", "pool", "connect", "execute", "commit", "release", "return", "end"},
           NEW error \in {"none", "connection", "cancelled", "other"},
           ThreadGoesTo(t, place, error), activeQueries' = activeQueries,
           t = EventLoop \/ apiThread[t].pc \notin {"execute", "release"} \/ place \in {"execute", "release"}
    PROVE  HandlesInv'
<1> DEFINE r == [apiThread[t] EXCEPT !.pc = place, !.error = error]
<1>1. apiThread[t] \in ThreadStates
      BY DEF HandlesInv
<1>2. r \in ThreadStates /\ r.query = apiThread[t].query /\ r.conn = apiThread[t].conn /\ r.pc = place
      BY <1>1 DEF ThreadStates
<1>3. apiThread' = [apiThread EXCEPT ![t] = r]
      BY DEF ThreadGoesTo
<1>4. t = EventLoop => r.query = NoQuery
      BY <1>2 DEF HandlesInv
<1> HIDE DEF r
<1> QED BY <1>2, <1>3, <1>4, OneThread

\* A connection is registered in the step that takes it.
LEMMA Takes ==
    ASSUME HandlesInv, NEW t \in ApiThreads, NEW c \in Conns, TakeConnection(t, c),
           apiThread[t].pc = "connect"
    PROVE  HandlesInv'
<1> DEFINE r == [apiThread[t] EXCEPT !.pc = "execute", !.conn = c]
<1>1. apiThread[t] \in ThreadStates
      BY DEF HandlesInv
<1>2. r \in ThreadStates /\ r.query = apiThread[t].query /\ r.conn = c /\ r.pc = "execute"
      BY <1>1 DEF ThreadStates
<1>3. apiThread' = [apiThread EXCEPT ![t] = r]
      BY DEF TakeConnection
<1> HIDE DEF r
<1>4. /\ apiThread' \in [ApiThreads -> ThreadStates] /\ apiThread'[t] = r
      /\ \A u \in ApiThreads \ {t} : apiThread'[u] = apiThread[u]
      /\ apiThread'[EventLoop].query = NoQuery
      BY <1>2, <1>3 DEF HandlesInv, ApiThreads
<1>5. activeQueries' \in [QueryIds -> Conns \cup {0}]
      BY DEF TakeConnection, HandlesInv
<1>6. ASSUME NEW q \in QueryIds, activeQueries'[q] # 0
      PROVE  \E u \in QueryThreads : RegisteredAs(u, q)'
  <2>1. CASE q = apiThread[t].query
    <3>1. t \in QueryThreads
          BY <2>1, HistorianClientAssumption DEF HandlesInv, ApiThreads
    <3>2. activeQueries'[q] = c
          BY <2>1 DEF TakeConnection
    <3> QED BY <1>2, <1>4, <2>1, <3>1, <3>2 DEF RegisteredAs
  <2>2. CASE q # apiThread[t].query
    <3>1. activeQueries'[q] = activeQueries[q]
          BY <2>2 DEF TakeConnection
    <3>2. PICK u \in QueryThreads : RegisteredAs(u, q)
          BY <1>6, <3>1 DEF HandlesInv
    <3>3. u # t /\ u \in ApiThreads
          BY <2>2, <3>2 DEF RegisteredAs, ApiThreads
    <3> QED BY <1>4, <3>1, <3>2, <3>3 DEF RegisteredAs
  <2> QED BY <2>1, <2>2
<1> QED BY <1>4, <1>5, <1>6 DEF HandlesInv

SameQuery(r, s) == r.query = s.query /\ r.conn = s.conn /\ r.pc = s.pc

\* The end of an attempt leaves the queries under way with their connections.
LEMMA EndedThreads ==
    ASSUME HandlesInv
    PROVE  /\ IdleThread \in ThreadStates /\ IdleThread.query = NoQuery
           /\ NextAttempt \in [ApiThreads -> ThreadStates] /\ NextAttempt[EventLoop].query = NoQuery
           /\ \A t \in QueryThreads : SameQuery(NextAttempt[t], apiThread[t])
<1>1. IdleThread \in ThreadStates /\ IdleThread.query = NoQuery
      BY DEF IdleThread, ThreadStates
<1>2. ASSUME NEW n \in Nat
      PROVE  LET r == [IdleThread EXCEPT !.pc = "pool", !.attempt = n]
             IN  r \in ThreadStates /\ r.query = NoQuery
      BY DEF IdleThread, ThreadStates
<1>3. ASSUME NEW t \in ApiThreads, NEW b \in BOOLEAN
      PROVE  LET r == [apiThread[t] EXCEPT !.stale = b]
             IN  r \in ThreadStates /\ SameQuery(r, apiThread[t])
      BY DEF HandlesInv, ThreadStates, SameQuery
<1>4. ASSUME NEW t \in ApiThreads
      PROVE  (apiThread[t].stale \/ (poolOpen /\ apiThread[t].pc \notin {"free", "pool", "end"})) \in BOOLEAN
      OBVIOUS
<1>5. apiThread[EventLoop].attempt + 1 \in Nat
      BY DEF HandlesInv, ApiThreads, ThreadStates
<1>6. \A t \in ApiThreads : t # EventLoop =>
          NextAttempt[t] \in ThreadStates /\ SameQuery(NextAttempt[t], apiThread[t])
      BY <1>3, <1>4 DEF NextAttempt
<1>7. NextAttempt[EventLoop] \in ThreadStates /\ NextAttempt[EventLoop].query = NoQuery
      BY <1>2, <1>5 DEF NextAttempt, ApiThreads
<1>8. NextAttempt \in [ApiThreads -> ThreadStates]
      BY <1>6, <1>7 DEF NextAttempt
<1> QED BY <1>1, <1>6, <1>7, <1>8, HistorianClientAssumption DEF ApiThreads

LEMMA HandlesStep ==
    HandlesInv /\ idleConn \in Conns \cup {0} /\ [HistorianNext]_historianVars => HandlesInv'
<1> SUFFICES ASSUME HandlesInv, idleConn \in Conns \cup {0}, [HistorianNext]_historianVars
             PROVE  HandlesInv'
    OBVIOUS
<1>0. NewConns # {} => NewConn \in Conns
      BY DEF NewConn, NewConns
<1>1. ASSUME NEW t \in ApiThreads, OpenPool(t) PROVE HandlesInv'
      BY <1>1, GoesOn DEF OpenPool, AtStep
<1>2. ASSUME NEW t \in ApiThreads, GetConnection(t) PROVE HandlesInv'
  <2>1. CASE ThreadGoesTo(t, "end", "other") /\ UNCHANGED activeQueries
        BY <1>2, <2>1, GoesOn DEF GetConnection, AtStep
  <2>2. CASE ThreadGoesTo(t, "end", "connection") /\ UNCHANGED activeQueries
        BY <1>2, <2>2, GoesOn DEF GetConnection, AtStep
  <2>3. CASE \E c \in Conns : TakeConnection(t, c)
        BY <1>2, <2>3, Takes DEF GetConnection, AtStep
  <2> QED BY <1>0, <1>2, <2>1, <2>2, <2>3 DEF GetConnection
<1>3. ASSUME NEW t \in ApiThreads, ExecuteStatement(t) PROVE HandlesInv'
      BY <1>3, GoesOn DEF ExecuteStatement, AfterStatement, ApiThreads
<1>4. ASSUME NEW t \in ApiThreads, CommitWrite(t) PROVE HandlesInv'
      BY <1>4, GoesOn DEF CommitWrite, AtStep
<1>5. ASSUME NEW t \in ApiThreads, ReleaseHandle(t) PROVE HandlesInv'
  <2> DEFINE r == [apiThread[t] EXCEPT !.pc = "return", !.error = apiThread[t].error]
  <2>1. apiThread[t] \in ThreadStates
        BY DEF HandlesInv
  <2>2. r \in ThreadStates /\ r.query = apiThread[t].query
        BY <2>1 DEF ThreadStates
  <2>3. apiThread' = [apiThread EXCEPT ![t] = r]
        BY <1>5 DEF ReleaseHandle, ThreadGoesTo
  <2> HIDE DEF r
  <2>4. /\ apiThread' \in [ApiThreads -> ThreadStates] /\ apiThread'[EventLoop].query = NoQuery
        /\ \A u \in ApiThreads \ {t} : apiThread'[u] = apiThread[u]
        BY <2>2, <2>3 DEF HandlesInv, ApiThreads
  <2>5. activeQueries' = [activeQueries EXCEPT ![apiThread[t].query] = 0]
        BY <1>5 DEF ReleaseHandle
  <2>6. activeQueries' \in [QueryIds -> Conns \cup {0}]
        BY <2>5 DEF HandlesInv
  <2>7. ASSUME NEW q \in QueryIds, activeQueries'[q] # 0
        PROVE  \E u \in QueryThreads : RegisteredAs(u, q)'
    <3>1. q # apiThread[t].query /\ activeQueries'[q] = activeQueries[q]
          BY <2>5, <2>7 DEF HandlesInv
    <3>2. PICK u \in QueryThreads : RegisteredAs(u, q)
          BY <2>7, <3>1 DEF HandlesInv
    <3>3. u # t /\ u \in ApiThreads
          BY <3>1, <3>2 DEF RegisteredAs, ApiThreads
    <3> QED BY <2>4, <3>1, <3>2, <3>3 DEF RegisteredAs
  <2> QED BY <2>4, <2>6, <2>7 DEF HandlesInv
<1>6. ASSUME NEW t \in ApiThreads, ReturnConnection(t) PROVE HandlesInv'
  <2>1. PICK error \in {"none", "connection", "cancelled", "other"} :
            apiThread' = [apiThread EXCEPT ![t] = [IdleThread EXCEPT !.pc = "end", !.query = apiThread[t].query,
                              !.attempt = apiThread[t].attempt, !.error = error]]
        BY <1>6 DEF ReturnConnection, HandlesInv, ThreadStates
  <2> DEFINE r == [IdleThread EXCEPT !.pc = "end", !.query = apiThread[t].query,
                              !.attempt = apiThread[t].attempt, !.error = error]
  <2>2. r \in ThreadStates /\ r.query = apiThread[t].query
        BY DEF IdleThread, ThreadStates, HandlesInv
  <2>3. t = EventLoop => r.query = NoQuery
        BY <2>2 DEF HandlesInv
  <2> HIDE DEF r
  <2> QED BY <1>6, <2>1, <2>2, <2>3, OneThread DEF ReturnConnection, AtStep, r
<1>7. ASSUME NEW t \in QueryThreads, NEW q \in QueryIds, BeginQuery(t, q) PROVE HandlesInv'
  <2>1. [IdleThread EXCEPT !.pc = "pool", !.query = q] \in ThreadStates
        BY DEF IdleThread, ThreadStates
  <2> QED BY <1>7, <2>1, OneThread, HistorianClientAssumption DEF BeginQuery, AtStep, ApiThreads
<1>8. ASSUME NEW t \in QueryThreads, EndQuery(t) PROVE HandlesInv'
  <2>1. IdleThread \in ThreadStates
        BY DEF IdleThread, ThreadStates
  <2> QED BY <1>8, <2>1, OneThread, HistorianClientAssumption DEF EndQuery, AtStep, ApiThreads
<1>9. ASSUME NEW c \in cancelRequests, CancelConnection(c) PROVE HandlesInv'
  <2>1. CASE UNCHANGED apiThread
        BY <1>9, <2>1 DEF CancelConnection, HandlesInv, RegisteredAs
  <2>2. CASE \E t \in ApiThreads : ThreadGoesTo(t, AfterStatement(t), "cancelled")
        BY <1>9, <2>2, GoesOn DEF CancelConnection, AfterStatement
  <2> QED BY <1>9, <2>1, <2>2 DEF CancelConnection
<1>10. ASSUME NEW kind \in {"write", "audit"}, BeginStatement(kind) PROVE HandlesInv'
  <2>1. LET r == [IdleThread EXCEPT !.pc = "pool", !.attempt = 1]
        IN  r \in ThreadStates /\ r.query = NoQuery
        BY DEF IdleThread, ThreadStates
  <2> QED BY <1>10, <2>1, OneThread DEF BeginStatement, ApiThreads
<1>11. CASE EndAttempt
  <2>1. /\ apiThread' \in [ApiThreads -> ThreadStates] /\ apiThread'[EventLoop].query = NoQuery
        /\ \A t \in QueryThreads : SameQuery(apiThread'[t], apiThread[t])
        BY <1>11, EndedThreads, HistorianClientAssumption
        DEF EndAttempt, EndStatement, SameQuery, ApiThreads, HandlesInv
  <2>2. activeQueries' = activeQueries
        BY <1>11 DEF EndAttempt
  <2> QED BY <2>1, <2>2, HistorianClientAssumption DEF HandlesInv, RegisteredAs, SameQuery
<1>12. CASE BreakConnections \/ UNCHANGED historianVars \/ \E q \in QueryIds : LookUp(q)
      BY <1>12 DEF BreakConnections, LookUp, historianVars, HandlesInv, RegisteredAs
<1> QED BY <1>1, <1>2, <1>3, <1>4, <1>5, <1>6, <1>7, <1>8, <1>9, <1>10, <1>11, <1>12 DEF HistorianNext

\* The connection the pool keeps is one it may lend.
LEMMA IdleStep ==
    HandlesInv /\ idleConn \in Conns \cup {0} /\ [HistorianNext]_historianVars => idleConn' \in Conns \cup {0}
<1> SUFFICES ASSUME HandlesInv, idleConn \in Conns \cup {0}, [HistorianNext]_historianVars
             PROVE  idleConn' \in Conns \cup {0}
    OBVIOUS
<1>0. NewConns # {} => NewConn \in Conns
      BY DEF NewConn, NewConns
<1>1. \A t \in ApiThreads : apiThread[t].conn \in Conns \cup {0}
      BY DEF HandlesInv, ThreadStates
<1> QED BY <1>0, <1>1
        DEF HistorianNext, historianVars, OpenPool, GetConnection, ExecuteStatement, CommitWrite,
            ReleaseHandle, ReturnConnection, BeginQuery, EndQuery, LookUp, CancelConnection,
            BeginStatement, EndAttempt, Reopen, BreakConnections

\* A cancellation is never directed at a connection that runs something else by the time of the
\* look-up, however connections are reused, broken, closed and handed out again.
THEOREM CancelFindsItsQueryAlways == HistorianSpec => []CancelFindsItsQuery
<1> DEFINE Inv == HandlesInv /\ idleConn \in Conns \cup {0}
<1>1. HistorianInit => Inv
      BY HandlesInit DEF HistorianInit
<1>2. Inv /\ [HistorianNext]_historianVars => Inv'
      BY HandlesStep, IdleStep
<1>3. Inv => CancelFindsItsQuery
      BY DEF HandlesInv, RegisteredAs, CancelFindsItsQuery
<1> HIDE DEF Inv
<1> QED BY <1>1, <1>2, <1>3, PTL DEF HistorianSpec

\* A connection is with one thread or with the pool, and a pool that has been closed with neither.
OnePlace ==
    /\ brokenConns \subseteq Conns
    /\ \A t \in ApiThreads :
          /\ apiThread[t].pc \in {"free", "pool", "connect", "end"} <=> apiThread[t].conn = 0
          /\ apiThread[t].conn # 0 => apiThread[t].conn # idleConn
          /\ \A u \in ApiThreads \ {t} : apiThread[t].conn # 0 => apiThread[t].conn # apiThread[u].conn
          /\ ~poolOpen => apiThread[t].stale \/ apiThread[t].pc \in {"free", "pool", "end"}
    /\ ~poolOpen => idleConn = 0

\* A connection that a thread may still use, or be given, is broken.
BrokenLive ==
    \/ idleConn \in brokenConns
    \/ \E t \in ApiThreads : ~apiThread[t].stale /\ apiThread[t].conn \in brokenConns

\* Every attempt that failed has met a fault that the attempts before it had not, and so has the
\* one that will.
Charged ==
    LET loop == apiThread[EventLoop]
    IN  /\ dbFaults \in Nat
        /\ ~loop.stale
        /\ loop.pc = "free" => loop.attempt = 0
        /\ loop.pc # "free" => loop.attempt >= 1 /\ dbFaults + 1 >= loop.attempt
        /\ loop.pc # "free" /\ loop.error \in {"connection", "cancelled"} => dbFaults >= loop.attempt
        /\ BrokenLive => dbFaults >= 1 /\ dbFaults >= loop.attempt

Statements == [kind : {"write", "audit"}, stored : BOOLEAN, outcome : {"none", "returned", "gave up", "raised"}]

\* A write the event loop has come through with is in the database.
Through ==
    /\ statements \in Seq(Statements)
    /\ apiThread[EventLoop].pc # "release"
    /\ apiThread[EventLoop].pc # "free" => statements # <<>>
    /\ apiThread[EventLoop].pc \in {"return", "end"} /\ apiThread[EventLoop].error = "none"
          => (Last(statements).kind = "write" => Last(statements).stored)

LEMMA LoopIsThread ==
    /\ EventLoop \in ApiThreads /\ EventLoop \notin QueryThreads /\ 0 \notin Conns
    /\ QueryThreads = ApiThreads \ {EventLoop}
  BY HistorianClientAssumption DEF ApiThreads

LEMMA MovedThread ==
    ASSUME HandlesInv, NEW t \in ApiThreads, NEW place, NEW error, ThreadGoesTo(t, place, error)
    PROVE  /\ apiThread'[t].pc = place /\ apiThread'[t].error = error
           /\ apiThread'[t].conn = apiThread[t].conn /\ apiThread'[t].stale = apiThread[t].stale
           /\ apiThread'[t].attempt = apiThread[t].attempt
           /\ \A u \in ApiThreads \ {t} : apiThread'[u] = apiThread[u]
<1>1. apiThread[t] \in ThreadStates
      BY DEF HandlesInv
<1> QED BY <1>1 DEF HandlesInv, ThreadGoesTo, ThreadStates

LEMMA TakenThread ==
    ASSUME HandlesInv, NEW t \in ApiThreads, NEW c, TakeConnection(t, c)
    PROVE  /\ apiThread'[t].pc = "execute" /\ apiThread'[t].error = apiThread[t].error
           /\ apiThread'[t].conn = c /\ apiThread'[t].stale = apiThread[t].stale
           /\ apiThread'[t].attempt = apiThread[t].attempt
           /\ \A u \in ApiThreads \ {t} : apiThread'[u] = apiThread[u]
<1>1. apiThread[t] \in ThreadStates
      BY DEF HandlesInv
<1> QED BY <1>1 DEF HandlesInv, TakeConnection, ThreadStates

LEMMA ReturnedThread ==
    ASSUME HandlesInv, NEW t \in ApiThreads, ReturnConnection(t)
    PROVE  /\ apiThread'[t].pc = "end" /\ apiThread'[t].conn = 0 /\ ~apiThread'[t].stale
           /\ apiThread'[t].error = IF apiThread[t].stale THEN "other" ELSE apiThread[t].error
           /\ apiThread'[t].attempt = apiThread[t].attempt
           /\ \A u \in ApiThreads \ {t} : apiThread'[u] = apiThread[u]
<1>1. apiThread[t] \in ThreadStates
      BY DEF HandlesInv
<1> QED BY <1>1 DEF HandlesInv, ReturnConnection, ThreadStates, IdleThread

\* The threads after the end of an attempt, of a kind each.
LEMMA AttemptEnds ==
    ASSUME HandlesInv, EndAttempt
    PROVE  \/ /\ StatementKind = "write" /\ apiThread[EventLoop].error \in {"connection", "cancelled"}
              /\ Reopen
              /\ \A t \in QueryThreads :
                    apiThread'[t] = [apiThread[t] EXCEPT !.stale =
                        @ \/ (poolOpen /\ apiThread[t].pc \notin {"free", "pool", "end"})]
              /\ \/ /\ apiThread'[EventLoop] =
                          [IdleThread EXCEPT !.pc = "pool", !.attempt = apiThread[EventLoop].attempt + 1]
                    /\ UNCHANGED statements
                 \/ /\ apiThread'[EventLoop] = IdleThread
                    /\ ~(apiThread[EventLoop].attempt < WriteAttempts)
                    /\ statements' = [statements EXCEPT ![Len(statements)].outcome = "gave up"]
           \/ /\ ~(StatementKind = "write" /\ apiThread[EventLoop].error \in {"connection", "cancelled"})
              /\ apiThread' = [apiThread EXCEPT ![EventLoop] = IdleThread]
              /\ UNCHANGED <<poolOpen, idleConn, brokenConns>>
              /\ \/ statements' = [statements EXCEPT ![Len(statements)].outcome = "raised"]
                 \/ /\ statements' = [statements EXCEPT ![Len(statements)].outcome = "returned"]
                    /\ ~(StatementKind = "write" /\ apiThread[EventLoop].error = "other")
<1>1. CASE StatementKind = "write" /\ apiThread[EventLoop].error \in {"connection", "cancelled"}
  <2>1. Reopen
        BY <1>1 DEF EndAttempt
  <2>2. CASE apiThread' = NextAttempt /\ UNCHANGED statements
        BY <1>1, <2>1, <2>2, LoopIsThread DEF NextAttempt
  <2>3. CASE ~(apiThread[EventLoop].attempt < WriteAttempts) /\ EndStatement("gave up", NextAttempt)
        BY <1>1, <2>1, <2>3, LoopIsThread DEF NextAttempt, EndStatement
  <2> QED BY <1>1, <2>2, <2>3 DEF EndAttempt
<1>2. CASE ~(StatementKind = "write" /\ apiThread[EventLoop].error \in {"connection", "cancelled"})
      BY <1>2 DEF EndAttempt, EndStatement
<1> QED BY <1>1, <1>2

LEMMA OnePlaceStep ==
    HandlesInv /\ idleConn \in Conns \cup {0} /\ OnePlace /\ [HistorianNext]_historianVars => OnePlace'
<1> SUFFICES ASSUME HandlesInv, idleConn \in Conns \cup {0}, OnePlace, [HistorianNext]_historianVars
             PROVE  OnePlace'
    OBVIOUS
<1>0. NewConns # {} =>
          /\ NewConn \in Conns /\ NewConn # idleConn /\ NewConn # 0
          /\ \A t \in ApiThreads : apiThread[t].conn # NewConn
      BY LoopIsThread DEF NewConn, NewConns, InUse
<1>01. \A t \in ApiThreads : apiThread[t].conn \in Conns \cup {0} /\ apiThread[t].stale \in BOOLEAN
      BY DEF HandlesInv, ThreadStates
<1>1. ASSUME NEW t \in ApiThreads, NEW place, NEW error, ThreadGoesTo(t, place, error),
             place \in {"free", "pool", "connect", "end"} <=> apiThread[t].conn = 0,
             poolOpen \/ apiThread[t].stale \/ place \in {"free", "pool", "end"},
             UNCHANGED <<idleConn, poolOpen>>, brokenConns' \subseteq Conns
      PROVE  OnePlace'
      BY <1>1, MovedThread DEF OnePlace
<1>2. ASSUME NEW t \in ApiThreads, OpenPool(t) PROVE OnePlace'
  <2>1. CASE poolOpen /\ ThreadGoesTo(t, "connect", "none") /\ UNCHANGED <<poolOpen, idleConn, brokenConns>>
        BY <1>1, <1>2, <2>1 DEF OpenPool, AtStep, OnePlace
  <2>2. CASE /\ ThreadGoesTo(t, "connect", "none") /\ NewConns # {}
             /\ poolOpen' = TRUE /\ idleConn' = NewConn /\ brokenConns' = brokenConns \ {NewConn}
        BY <1>0, <1>2, <2>2, MovedThread DEF OpenPool, AtStep, OnePlace
  <2>3. CASE ThreadGoesTo(t, "end", "connection") /\ UNCHANGED <<poolOpen, idleConn, brokenConns>>
        BY <1>1, <1>2, <2>3 DEF OpenPool, AtStep, OnePlace
  <2> QED BY <1>2, <2>1, <2>2, <2>3 DEF OpenPool
<1>3. ASSUME NEW t \in ApiThreads, GetConnection(t) PROVE OnePlace'
  <2>1. CASE \E error : ThreadGoesTo(t, "end", error) /\ UNCHANGED <<poolOpen, idleConn, brokenConns>>
        BY <1>1, <1>3, <2>1 DEF GetConnection, AtStep, OnePlace
  <2>2. CASE /\ ~apiThread[t].stale /\ idleConn # 0 /\ TakeConnection(t, idleConn) /\ idleConn' = 0
             /\ UNCHANGED <<poolOpen, brokenConns>>
        BY <1>3, <1>01, <2>2, TakenThread DEF GetConnection, AtStep, OnePlace
  <2>3. CASE /\ ~apiThread[t].stale /\ NewConns # {} /\ TakeConnection(t, NewConn)
             /\ brokenConns' = brokenConns \ {NewConn} /\ UNCHANGED <<poolOpen, idleConn>>
        BY <1>0, <1>01, <1>3, <2>3, TakenThread DEF GetConnection, AtStep, OnePlace
  <2> QED BY <1>3, <2>1, <2>2, <2>3 DEF GetConnection
<1>4. ASSUME NEW t \in ApiThreads, ExecuteStatement(t) PROVE OnePlace'
  <2>1. \E place \in {"return", "release", "commit"} : \E error : ThreadGoesTo(t, place, error)
        BY <1>4 DEF ExecuteStatement, AfterStatement
  <2> QED BY <1>1, <1>4, <2>1 DEF ExecuteStatement, AtStep, OnePlace
<1>5. ASSUME NEW t \in ApiThreads, CommitWrite(t) PROVE OnePlace'
  <2>1. \E error : ThreadGoesTo(t, "return", error)
        BY <1>5 DEF CommitWrite
  <2>2. brokenConns' \subseteq Conns
        BY <1>01, <1>5 DEF CommitWrite, OnePlace, Broken, AtStep
  <2> QED BY <1>1, <1>5, <2>1, <2>2 DEF CommitWrite, AtStep, OnePlace
<1>6. ASSUME NEW t \in ApiThreads, ReleaseHandle(t) PROVE OnePlace'
      BY <1>1, <1>6 DEF ReleaseHandle, AtStep, OnePlace
<1>7. ASSUME NEW t \in ApiThreads, ReturnConnection(t) PROVE OnePlace'
  <2>1. \/ UNCHANGED idleConn
        \/ idleConn' = apiThread[t].conn /\ ~apiThread[t].stale
        BY <1>7 DEF ReturnConnection
  <2>2. brokenConns' \subseteq Conns
        BY <1>01, <1>7 DEF ReturnConnection, OnePlace, AtStep
  <2>3. ~apiThread[t].stale => poolOpen
        BY <1>7 DEF ReturnConnection, OnePlace, AtStep
  <2>4. UNCHANGED poolOpen
        BY <1>7 DEF ReturnConnection
  <2> QED BY <1>01, <1>7, <2>1, <2>2, <2>3, <2>4, ReturnedThread DEF OnePlace
<1>8. ASSUME NEW t \in ApiThreads, NEW r, apiThread' = [apiThread EXCEPT ![t] = r],
             r.conn = 0, r.pc \in {"free", "pool"}, UNCHANGED <<idleConn, poolOpen, brokenConns>>
      PROVE  OnePlace'
      BY <1>8 DEF OnePlace, HandlesInv
<1>9. ASSUME NEW t \in QueryThreads, NEW q \in QueryIds, BeginQuery(t, q) PROVE OnePlace'
  <2>1. PICK r : r = [IdleThread EXCEPT !.pc = "pool", !.query = q]
        OBVIOUS
  <2>2. r.conn = 0 /\ r.pc = "pool"
        BY <2>1 DEF IdleThread
  <2> QED BY <1>8, <1>9, <2>1, <2>2, LoopIsThread DEF BeginQuery
<1>10. ASSUME NEW t \in QueryThreads, EndQuery(t) PROVE OnePlace'
  <2>1. IdleThread.conn = 0 /\ IdleThread.pc = "free"
        BY DEF IdleThread
  <2> QED BY <1>8, <1>10, <2>1, LoopIsThread DEF EndQuery
<1>11. ASSUME NEW kind \in {"write", "audit"}, BeginStatement(kind) PROVE OnePlace'
  <2>1. PICK r : r = [IdleThread EXCEPT !.pc = "pool", !.attempt = 1]
        OBVIOUS
  <2>2. r.conn = 0 /\ r.pc = "pool"
        BY <2>1 DEF IdleThread
  <2> QED BY <1>8, <1>11, <2>1, <2>2, LoopIsThread DEF BeginStatement
<1>12. ASSUME UNCHANGED <<apiThread, idleConn, poolOpen>>, brokenConns' \subseteq Conns PROVE OnePlace'
      BY <1>12 DEF OnePlace
<1>13. ASSUME NEW c \in cancelRequests, CancelConnection(c) PROVE OnePlace'
  <2>1. CASE UNCHANGED apiThread
        BY <1>12, <1>13, <2>1 DEF CancelConnection, OnePlace
  <2>2. CASE \E t \in ApiThreads : AtStep(t, "execute") /\ ThreadGoesTo(t, AfterStatement(t), "cancelled")
    <3>1. PICK t \in ApiThreads, place \in {"return", "release"} :
              AtStep(t, "execute") /\ ThreadGoesTo(t, place, "cancelled")
          BY <2>2 DEF AfterStatement
    <3> QED BY <1>1, <1>13, <3>1 DEF CancelConnection, AtStep, OnePlace
  <2> QED BY <1>13, <2>1, <2>2 DEF CancelConnection
<1>14. CASE EndAttempt
  <2>1. apiThread[EventLoop].conn = 0 /\ IdleThread.conn = 0 /\ IdleThread.pc = "free"
        BY <1>14, LoopIsThread DEF EndAttempt, AtStep, OnePlace, IdleThread
  <2>2. CASE /\ Reopen
             /\ \A t \in QueryThreads :
                    apiThread'[t] = [apiThread[t] EXCEPT !.stale =
                        @ \/ (poolOpen /\ apiThread[t].pc \notin {"free", "pool", "end"})]
             /\ \/ apiThread'[EventLoop] =
                       [IdleThread EXCEPT !.pc = "pool", !.attempt = apiThread[EventLoop].attempt + 1]
                \/ apiThread'[EventLoop] = IdleThread
    <3>1. ASSUME NEW t \in QueryThreads
          PROVE  /\ apiThread'[t].pc = apiThread[t].pc /\ apiThread'[t].conn = apiThread[t].conn
                 /\ apiThread'[t].stale = (apiThread[t].stale \/ (poolOpen /\ apiThread[t].pc \notin {"free", "pool", "end"}))
      <4>1. apiThread[t] \in ThreadStates
            BY LoopIsThread DEF HandlesInv
      <4> QED BY <2>2, <4>1 DEF ThreadStates
    <3>2. apiThread'[EventLoop].conn = 0 /\ apiThread'[EventLoop].pc \in {"free", "pool"}
      <4>1. ASSUME NEW n, apiThread'[EventLoop] = [IdleThread EXCEPT !.pc = "pool", !.attempt = n]
            PROVE  apiThread'[EventLoop].conn = 0 /\ apiThread'[EventLoop].pc = "pool"
            BY <4>1 DEF IdleThread
      <4>2. CASE apiThread'[EventLoop] = IdleThread
            BY <2>1, <4>2
      <4> QED BY <2>2, <4>1, <4>2
    <3>3. ~poolOpen' /\ idleConn' = 0 /\ brokenConns' \subseteq Conns
          BY <1>01, <2>2 DEF Reopen, InUse, OnePlace
    <3>4. \A t \in ApiThreads : apiThread'[t].stale \/ apiThread'[t].pc \in {"free", "pool", "end"}
          BY <2>1, <3>1, <3>2, LoopIsThread DEF OnePlace
    <3>7. \A t \in ApiThreads : apiThread'[t].conn = apiThread[t].conn
          BY <2>1, <3>1, <3>2, LoopIsThread
    <3>5. \A t \in ApiThreads : apiThread'[t].pc \in {"free", "pool", "connect", "end"} <=> apiThread'[t].conn = 0
          BY <3>1, <3>2, LoopIsThread DEF OnePlace
    <3>6. \A t \in ApiThreads : \A u \in ApiThreads \ {t} :
              apiThread'[t].conn # 0 => apiThread'[t].conn # apiThread'[u].conn
      <4> SUFFICES ASSUME NEW t \in ApiThreads, NEW u \in ApiThreads \ {t}, apiThread'[t].conn # 0
                   PROVE  apiThread'[t].conn # apiThread'[u].conn
          OBVIOUS
      <4>1. apiThread[t].conn # 0 => apiThread[t].conn # apiThread[u].conn
            BY DEF OnePlace
      <4>2. apiThread'[t].conn = apiThread[t].conn
            BY <3>7
      <4>3. apiThread'[u].conn = apiThread[u].conn
            BY <3>7
      <4> QED BY <4>1, <4>2, <4>3
    <3> QED BY <3>3, <3>4, <3>5, <3>6, <3>7 DEF OnePlace
  <2>3. CASE apiThread' = [apiThread EXCEPT ![EventLoop] = IdleThread] /\ UNCHANGED <<poolOpen, idleConn, brokenConns>>
        BY <1>8, <2>1, <2>3, LoopIsThread
  <2> QED BY <1>14, <2>2, <2>3, AttemptEnds
<1>15. CASE BreakConnections
  <2>1. brokenConns' \subseteq Conns
        BY <1>01, <1>15 DEF BreakConnections, InUse, OnePlace
  <2> QED BY <1>12, <1>15, <2>1 DEF BreakConnections
<1>16. ASSUME NEW q \in QueryIds, LookUp(q) PROVE OnePlace'
      BY <1>12, <1>16 DEF LookUp, OnePlace
<1>17. CASE UNCHANGED historianVars
      BY <1>12, <1>17 DEF historianVars, OnePlace
<1> QED BY <1>2, <1>3, <1>4, <1>5, <1>6, <1>7, <1>9, <1>10, <1>11, <1>13, <1>14, <1>15, <1>16, <1>17
        DEF HistorianNext

\* What is live and broken after one thread has taken a step.
LEMMA LiveAfter ==
    ASSUME HandlesInv, NEW t \in ApiThreads, NEW r, apiThread' = [apiThread EXCEPT ![t] = r],
           BrokenLive', ~BrokenLive
    PROVE  idleConn' \in brokenConns' \/ (~r.stale /\ r.conn \in brokenConns')
               \/ \E u \in ApiThreads \ {t} : ~apiThread[u].stale /\ apiThread[u].conn \in brokenConns' \ brokenConns
  BY DEF BrokenLive, HandlesInv

\* A step that breaks nothing and leaves the event loop where it is, or charges a fault.
LEMMA OthersCharge ==
    ASSUME HandlesInv, Charged, NEW t \in QueryThreads,
           \A u \in ApiThreads \ {t} : apiThread'[u] = apiThread[u],
           \/ dbFaults' = dbFaults + 1
           \/ dbFaults' = dbFaults /\ (BrokenLive' => BrokenLive)
    PROVE  Charged'
<1>1. apiThread'[EventLoop] = apiThread[EventLoop] /\ apiThread[EventLoop].attempt \in Nat
      BY LoopIsThread DEF HandlesInv, ThreadStates
<1> QED BY <1>1 DEF Charged

\* The event loop goes on with an attempt.
LEMMA LoopCharges ==
    ASSUME HandlesInv, Charged, apiThread[EventLoop].pc # "free",
           apiThread'[EventLoop].pc # "free", ~apiThread'[EventLoop].stale,
           apiThread'[EventLoop].attempt = apiThread[EventLoop].attempt,
           \/ dbFaults' = dbFaults + 1
           \/ /\ dbFaults' = dbFaults /\ (BrokenLive' => BrokenLive)
              /\ \/ apiThread'[EventLoop].error \notin {"connection", "cancelled"}
                 \/ apiThread'[EventLoop].error = apiThread[EventLoop].error
                 \/ BrokenLive
    PROVE  Charged'
<1>1. apiThread[EventLoop].attempt \in Nat
      BY LoopIsThread DEF HandlesInv, ThreadStates
<1> QED BY <1>1 DEF Charged

LEMMA ChargedStep ==
    HandlesInv /\ idleConn \in Conns \cup {0} /\ OnePlace /\ Charged /\ [HistorianNext]_historianVars => Charged'
<1> SUFFICES ASSUME HandlesInv, idleConn \in Conns \cup {0}, OnePlace, Charged, [HistorianNext]_historianVars
             PROVE  Charged'
    OBVIOUS
<1>0. NewConns # {} =>
          /\ NewConn \in Conns /\ NewConn # idleConn /\ NewConn # 0
          /\ \A t \in ApiThreads : apiThread[t].conn # NewConn
      BY LoopIsThread DEF NewConn, NewConns, InUse
<1>01. \A t \in ApiThreads : apiThread[t].conn \in Conns \cup {0} /\ apiThread[t].stale \in BOOLEAN
      BY DEF HandlesInv, ThreadStates
<1>02. 0 \notin brokenConns
      BY LoopIsThread DEF OnePlace
\* One thread goes on.
<1>1. ASSUME NEW t \in ApiThreads, apiThread[t].pc # "free", apiThread'[t].pc # "free",
             apiThread'[t].attempt = apiThread[t].attempt,
             t = EventLoop => ~apiThread'[t].stale,
             \A u \in ApiThreads \ {t} : apiThread'[u] = apiThread[u],
             \/ dbFaults' = dbFaults + 1
             \/ /\ dbFaults' = dbFaults /\ (BrokenLive' => BrokenLive)
                /\ \/ apiThread'[t].error \notin {"connection", "cancelled"}
                   \/ apiThread'[t].error = apiThread[t].error
                   \/ t = EventLoop => BrokenLive
      PROVE  Charged'
  <2>1. CASE t = EventLoop
        BY <1>1, <2>1, LoopCharges
  <2>2. CASE t # EventLoop
        BY <1>1, <2>2, OthersCharge, LoopIsThread
  <2> QED BY <2>1, <2>2
<1>2. ASSUME NEW t \in ApiThreads, OpenPool(t) PROVE Charged'
  <2>1. CASE ThreadGoesTo(t, "connect", "none") /\ UNCHANGED <<idleConn, brokenConns, dbFaults>>
    <3>1. BrokenLive' => BrokenLive
          BY <2>1, MovedThread DEF BrokenLive
    <3> QED BY <1>1, <1>2, <2>1, <3>1, MovedThread DEF OpenPool, AtStep, Charged
  <2>2. CASE /\ ThreadGoesTo(t, "connect", "none") /\ NewConns # {}
             /\ idleConn' = NewConn /\ brokenConns' = brokenConns \ {NewConn} /\ UNCHANGED dbFaults
    <3>1. BrokenLive' => BrokenLive
          BY <2>2, MovedThread DEF BrokenLive
    <3> QED BY <1>1, <1>2, <2>2, <3>1, MovedThread DEF OpenPool, AtStep, Charged
  <2>3. CASE ThreadGoesTo(t, "end", "connection") /\ DbFault
        BY <1>1, <1>2, <2>3, MovedThread DEF OpenPool, AtStep, Charged, DbFault
  <2> QED BY <1>2, <2>1, <2>2, <2>3 DEF OpenPool
<1>3. ASSUME NEW t \in ApiThreads, GetConnection(t) PROVE Charged'
  <2>1. CASE ThreadGoesTo(t, "end", "other") /\ UNCHANGED <<idleConn, brokenConns, dbFaults>>
    <3>1. BrokenLive' => BrokenLive
          BY <2>1, MovedThread DEF BrokenLive
    <3> QED BY <1>1, <1>3, <2>1, <3>1, MovedThread DEF GetConnection, AtStep, Charged
  <2>2. CASE /\ ~apiThread[t].stale /\ TakeConnection(t, idleConn) /\ idleConn' = 0
             /\ UNCHANGED <<brokenConns, dbFaults>>
    <3>1. BrokenLive' => BrokenLive
          BY <1>02, <2>2, TakenThread DEF BrokenLive
    <3> QED BY <1>1, <1>3, <2>2, <3>1, TakenThread DEF GetConnection, AtStep, Charged
  <2>3. CASE /\ NewConns # {} /\ TakeConnection(t, NewConn) /\ brokenConns' = brokenConns \ {NewConn}
             /\ UNCHANGED <<idleConn, dbFaults>>
    <3>1. BrokenLive' => BrokenLive
          BY <2>3, TakenThread DEF BrokenLive
    <3> QED BY <1>1, <1>3, <2>3, <3>1, TakenThread DEF GetConnection, AtStep, Charged
  <2>4. CASE ThreadGoesTo(t, "end", "connection") /\ DbFault
        BY <1>1, <1>3, <2>4, MovedThread DEF GetConnection, AtStep, Charged, DbFault
  <2> QED BY <1>3, <2>1, <2>2, <2>3, <2>4 DEF GetConnection
<1>4. ASSUME NEW t \in ApiThreads, ExecuteStatement(t) PROVE Charged'
  <2>1. PICK place \in {"return", "release", "commit"}, error \in {"none", "connection", "other"} :
            /\ ThreadGoesTo(t, place, error)
            /\ error = "connection" => apiThread[t].conn \in brokenConns
        BY <1>4 DEF ExecuteStatement, AfterStatement, Broken
  <2>2. UNCHANGED <<idleConn, brokenConns, dbFaults>>
        BY <1>4 DEF ExecuteStatement
  <2>3. BrokenLive' => BrokenLive
        BY <2>1, <2>2, MovedThread DEF BrokenLive
  <2>4. t = EventLoop /\ error = "connection" => BrokenLive
        BY <2>1 DEF BrokenLive, Charged
  <2> QED BY <1>1, <1>4, <2>1, <2>2, <2>3, <2>4, MovedThread DEF ExecuteStatement, AtStep, Charged
<1>5. ASSUME NEW t \in ApiThreads, CommitWrite(t) PROVE Charged'
  <2>1. CASE ThreadGoesTo(t, "return", "none") /\ UNCHANGED <<brokenConns, dbFaults>>
    <3>1. BrokenLive' => BrokenLive
          BY <1>5, <2>1, MovedThread DEF BrokenLive, CommitWrite
    <3> QED BY <1>1, <1>5, <2>1, <3>1, MovedThread DEF CommitWrite, AtStep, Charged
  <2>2. CASE Broken(t) /\ ThreadGoesTo(t, "return", "connection") /\ UNCHANGED <<brokenConns, dbFaults>>
    <3>1. BrokenLive' => BrokenLive
          BY <1>5, <2>2, MovedThread DEF BrokenLive, CommitWrite
    <3>2. t = EventLoop => BrokenLive
          BY <2>2 DEF Broken, BrokenLive, Charged
    <3> QED BY <1>1, <1>5, <2>2, <3>1, <3>2, MovedThread DEF CommitWrite, AtStep, Charged
  <2>3. CASE DbFault /\ ThreadGoesTo(t, "return", "connection")
        BY <1>1, <1>5, <2>3, MovedThread DEF CommitWrite, AtStep, Charged, DbFault
  <2> QED BY <1>5, <2>1, <2>2, <2>3 DEF CommitWrite
<1>6. ASSUME NEW t \in ApiThreads, ReleaseHandle(t) PROVE Charged'
  <2>1. ThreadGoesTo(t, "return", apiThread[t].error) /\ UNCHANGED <<idleConn, brokenConns, dbFaults>>
        BY <1>6 DEF ReleaseHandle
  <2>2. BrokenLive' => BrokenLive
        BY <2>1, MovedThread DEF BrokenLive
  <2> QED BY <1>1, <1>6, <2>1, <2>2, MovedThread DEF ReleaseHandle, AtStep, Charged
<1>7. ASSUME NEW t \in ApiThreads, ReturnConnection(t) PROVE Charged'
  <2>1. BrokenLive' => BrokenLive
    <3> SUFFICES ASSUME BrokenLive' PROVE BrokenLive
        OBVIOUS
    <3>1. CASE apiThread[t].stale
      <4>1. UNCHANGED <<idleConn, brokenConns>>
            BY <1>7, <3>1 DEF ReturnConnection
      <4> QED BY <1>02, <1>7, <4>1, ReturnedThread DEF BrokenLive
    <3>2. CASE ~apiThread[t].stale /\ (Broken(t) \/ idleConn # 0)
      <4>1. brokenConns' = brokenConns \cup {apiThread[t].conn} /\ UNCHANGED idleConn
            BY <1>7, <3>2 DEF ReturnConnection
      <4>2. apiThread[t].conn # 0
            BY <1>7 DEF ReturnConnection, AtStep, OnePlace
      <4>3. idleConn # apiThread[t].conn /\ \A u \in ApiThreads \ {t} : apiThread[u].conn # apiThread[t].conn
            BY <4>2 DEF OnePlace
      <4> QED BY <1>02, <1>7, <4>1, <4>2, <4>3, ReturnedThread DEF BrokenLive
    <3>3. CASE ~apiThread[t].stale /\ ~Broken(t) /\ idleConn = 0
      <4>1. idleConn' = apiThread[t].conn /\ UNCHANGED brokenConns
            BY <1>7, <3>3 DEF ReturnConnection
      <4> QED BY <1>02, <1>7, <3>3, <4>1, ReturnedThread DEF BrokenLive, Broken
    <3> QED BY <3>1, <3>2, <3>3
  <2>2. UNCHANGED dbFaults
        BY <1>7 DEF ReturnConnection
  <2>3. apiThread[t].pc = "return"
        BY <1>7 DEF ReturnConnection, AtStep
  <2>4. CASE t = EventLoop
    <3>1. /\ apiThread'[t].pc = "end" /\ ~apiThread'[t].stale /\ apiThread'[t].attempt = apiThread[t].attempt
          /\ apiThread'[t].error = IF apiThread[t].stale THEN "other" ELSE apiThread[t].error
          BY <1>7, ReturnedThread
    <3> QED BY <1>1, <2>1, <2>2, <2>3, <2>4, <3>1 DEF Charged
  <2>5. CASE t # EventLoop
    <3>1. apiThread'[EventLoop] = apiThread[EventLoop]
          BY <1>7, <2>5, LoopIsThread, ReturnedThread
    <3> QED BY <1>1, <2>1, <2>2, <3>1 DEF Charged
  <2> QED BY <2>4, <2>5
\* A query begins or ends, with no connection.
<1>8. ASSUME NEW t \in QueryThreads, NEW r, apiThread' = [apiThread EXCEPT ![t] = r], r.conn = 0,
             UNCHANGED <<idleConn, brokenConns, dbFaults>>
      PROVE  Charged'
  <2>1. BrokenLive' => BrokenLive
        BY <1>8, <1>02, LiveAfter, LoopIsThread DEF BrokenLive
  <2> QED BY <1>8, <2>1, OthersCharge DEF HandlesInv
<1>9. ASSUME NEW t \in QueryThreads, NEW q \in QueryIds, BeginQuery(t, q) PROVE Charged'
  <2>1. PICK r : r = [IdleThread EXCEPT !.pc = "pool", !.query = q]
        OBVIOUS
  <2>2. r.conn = 0
        BY <2>1 DEF IdleThread
  <2> QED BY <1>8, <1>9, <2>1, <2>2 DEF BeginQuery
<1>10. ASSUME NEW t \in QueryThreads, EndQuery(t) PROVE Charged'
  <2>1. IdleThread.conn = 0
        BY DEF IdleThread
  <2> QED BY <1>8, <1>10, <2>1 DEF EndQuery
<1>11. ASSUME NEW kind \in {"write", "audit"}, BeginStatement(kind) PROVE Charged'
  <2>1. PICK r : r = [IdleThread EXCEPT !.pc = "pool", !.attempt = 1]
        OBVIOUS
  <2>2. r.conn = 0 /\ r.pc = "pool" /\ r.attempt = 1 /\ ~r.stale /\ r.error = "none"
        BY <2>1 DEF IdleThread
  <2>3. apiThread' = [apiThread EXCEPT ![EventLoop] = r] /\ UNCHANGED <<idleConn, brokenConns, dbFaults>>
        BY <1>11, <2>1 DEF BeginStatement
  <2>4. BrokenLive' => BrokenLive
        BY <1>02, <2>2, <2>3, LiveAfter, LoopIsThread DEF BrokenLive
  <2>5. apiThread'[EventLoop] = r
        BY <2>3, LoopIsThread DEF HandlesInv
  <2> QED BY <2>2, <2>3, <2>4, <2>5 DEF Charged
<1>12. ASSUME UNCHANGED <<apiThread, idleConn, brokenConns, dbFaults>> PROVE Charged'
      BY <1>12 DEF Charged, BrokenLive
<1>13. ASSUME NEW c \in cancelRequests, CancelConnection(c) PROVE Charged'
  <2>1. CASE UNCHANGED <<apiThread, dbFaults>>
        BY <1>12, <1>13, <2>1 DEF CancelConnection
  <2>2. CASE \E t \in ApiThreads : /\ AtStep(t, "execute") /\ ThreadGoesTo(t, AfterStatement(t), "cancelled")
                                   /\ IF t = EventLoop THEN DbFault ELSE UNCHANGED dbFaults
    <3>1. PICK t \in ApiThreads, place \in {"return", "release"} :
              /\ AtStep(t, "execute") /\ ThreadGoesTo(t, place, "cancelled")
              /\ IF t = EventLoop THEN DbFault ELSE UNCHANGED dbFaults
          BY <2>2 DEF AfterStatement
    <3>2. UNCHANGED <<idleConn, brokenConns>>
          BY <1>13 DEF CancelConnection
    <3>3. BrokenLive' => BrokenLive
          BY <3>1, <3>2, MovedThread DEF BrokenLive
    <3> QED BY <1>1, <3>1, <3>3, MovedThread DEF AtStep, Charged, DbFault
  <2> QED BY <1>13, <2>1, <2>2 DEF CancelConnection
<1>14. CASE EndAttempt
  <2>1. /\ IdleThread.conn = 0 /\ IdleThread.pc = "free" /\ IdleThread.attempt = 0 /\ ~IdleThread.stale
        /\ apiThread[EventLoop].pc = "end" /\ UNCHANGED dbFaults /\ apiThread[EventLoop].attempt \in Nat
        BY <1>14, LoopIsThread DEF EndAttempt, AtStep, IdleThread, HandlesInv, ThreadStates
  <2>2. CASE /\ apiThread[EventLoop].error \in {"connection", "cancelled"}
             /\ Reopen
             /\ \A t \in QueryThreads :
                    apiThread'[t] = [apiThread[t] EXCEPT !.stale =
                        @ \/ (poolOpen /\ apiThread[t].pc \notin {"free", "pool", "end"})]
             /\ \/ apiThread'[EventLoop] =
                       [IdleThread EXCEPT !.pc = "pool", !.attempt = apiThread[EventLoop].attempt + 1]
                \/ apiThread'[EventLoop] = IdleThread
    <3>1. ASSUME NEW t \in QueryThreads PROVE apiThread'[t].stale \/ apiThread'[t].conn = 0
      <4>1. apiThread[t] \in ThreadStates
            BY LoopIsThread DEF HandlesInv
      <4>2. /\ apiThread'[t].conn = apiThread[t].conn
            /\ apiThread'[t].stale = (apiThread[t].stale \/ (poolOpen /\ apiThread[t].pc \notin {"free", "pool", "end"}))
            BY <2>2, <4>1 DEF ThreadStates
      <4> QED BY <4>2, LoopIsThread DEF OnePlace
    <3>2. ASSUME NEW n
          PROVE  LET r == [IdleThread EXCEPT !.pc = "pool", !.attempt = n]
                 IN  r.conn = 0 /\ r.pc = "pool" /\ r.attempt = n /\ r.error = "none" /\ ~r.stale
          BY DEF IdleThread
    <3>3. /\ apiThread'[EventLoop].conn = 0 /\ ~apiThread'[EventLoop].stale
          /\ \/ /\ apiThread'[EventLoop].pc = "pool" /\ apiThread'[EventLoop].error = "none"
                /\ apiThread'[EventLoop].attempt = apiThread[EventLoop].attempt + 1
             \/ apiThread'[EventLoop].pc = "free" /\ apiThread'[EventLoop].attempt = 0
      <4>1. PICK n \in Nat : n = apiThread[EventLoop].attempt + 1
            BY <2>1
      <4>2. CASE apiThread'[EventLoop] = IdleThread
            BY <2>1, <4>2
      <4>3. CASE apiThread'[EventLoop] = [IdleThread EXCEPT !.pc = "pool", !.attempt = n]
            BY <3>2, <4>1, <4>3
      <4> QED BY <2>2, <4>1, <4>2, <4>3
    <3>4. 0 \notin brokenConns' /\ idleConn' = 0
          BY <1>02, <2>2 DEF Reopen
    <3>5. ~BrokenLive'
          BY <3>1, <3>3, <3>4, LoopIsThread DEF BrokenLive
    <3> QED BY <2>1, <2>2, <3>3, <3>5 DEF Charged
  <2>3. CASE apiThread' = [apiThread EXCEPT ![EventLoop] = IdleThread] /\ UNCHANGED <<idleConn, brokenConns>>
    <3>1. BrokenLive' => BrokenLive
          BY <1>02, <2>1, <2>3, LiveAfter, LoopIsThread DEF BrokenLive
    <3>2. apiThread'[EventLoop] = IdleThread
          BY <2>3, LoopIsThread DEF HandlesInv
    <3> QED BY <2>1, <2>3, <3>1, <3>2 DEF Charged
  <2> QED BY <1>14, <2>2, <2>3, AttemptEnds
<1>15. CASE BreakConnections
  <2>1. dbFaults' = dbFaults + 1 /\ apiThread' = apiThread
        BY <1>15 DEF BreakConnections, DbFault
  <2>2. apiThread[EventLoop].attempt \in Nat
        BY LoopIsThread DEF HandlesInv, ThreadStates
  <2> QED BY <2>1, <2>2 DEF Charged
<1>16. ASSUME NEW q \in QueryIds, LookUp(q) PROVE Charged'
      BY <1>12, <1>16 DEF LookUp
<1>17. CASE UNCHANGED historianVars
      BY <1>12, <1>17 DEF historianVars
<1> QED BY <1>2, <1>3, <1>4, <1>5, <1>6, <1>7, <1>9, <1>10, <1>11, <1>13, <1>14, <1>15, <1>16, <1>17
        DEF HistorianNext

LEMMA LastIsStatement ==
    ASSUME NEW s \in Seq(Statements), s # <<>>
    PROVE  s[Len(s)] = Last(s) /\ Last(s) \in Statements
<1>1. Len(s) \in DOMAIN s
      OBVIOUS
<1> QED BY <1>1, ElementOfSeq DEF Last

\* What a change of the last statement changes.
LEMMA LastReplaced ==
    ASSUME NEW s \in Seq(Statements), s # <<>>, NEW r \in Statements, NEW new, new = [s EXCEPT ![Len(s)] = r]
    PROVE  /\ new \in Seq(Statements) /\ new # <<>> /\ Last(new) = r
           /\ DOMAIN new = DOMAIN s
           /\ \A i \in DOMAIN s : new[i] = IF i = Len(s) THEN r ELSE s[i]
<1>1. PICK n \in Nat : n = Len(s) /\ n > 0 /\ DOMAIN s = 1..n
      OBVIOUS
<1>2. \A i \in 1..n : s[i] \in Statements
      BY <1>1, ElementOfSeq
<1>3. new \in [1..n -> Statements] /\ \A i \in 1..n : new[i] = IF i = n THEN r ELSE s[i]
      BY <1>1, <1>2
<1>4. new \in Seq(Statements) /\ Len(new) = n
      BY <1>1, <1>3
<1> QED BY <1>1, <1>3, <1>4 DEF Last

LEMMA ThroughStep ==
    HandlesInv /\ Charged /\ Through /\ WritesAreStoredOrRetried /\ [HistorianNext]_historianVars
        => Through' /\ WritesAreStoredOrRetried'
<1> SUFFICES ASSUME HandlesInv, Charged, Through, WritesAreStoredOrRetried, [HistorianNext]_historianVars
             PROVE  Through' /\ WritesAreStoredOrRetried'
    OBVIOUS
<1>0. dbFaults \in Nat /\ WriteAttempts \in Nat /\ statements \in Seq(Statements)
      BY HistorianClientAssumption DEF Charged, Through
\* A thread goes on and the statements stay.
<1>1. ASSUME UNCHANGED statements, dbFaults' \in {dbFaults, dbFaults + 1} PROVE WritesAreStoredOrRetried'
  <2>1. dbFaults >= WriteAttempts => dbFaults' >= WriteAttempts
        BY <1>0, <1>1
  <2> QED BY <1>1, <2>1 DEF WritesAreStoredOrRetried
<1>2. ASSUME UNCHANGED statements, dbFaults' \in {dbFaults, dbFaults + 1},
             NEW t \in ApiThreads, \A u \in ApiThreads \ {t} : apiThread'[u] = apiThread[u],
             t = EventLoop => /\ apiThread[t].pc # "free" /\ apiThread'[t].pc \notin {"release"}
                              /\ apiThread'[t].pc \in {"return", "end"} /\ apiThread'[t].error = "none"
                                    => \/ apiThread[t].pc \in {"return", "end"} /\ apiThread[t].error = "none"
                                       \/ StatementKind = "audit"
      PROVE  Through' /\ WritesAreStoredOrRetried'
  <2>1. CASE t = EventLoop
    <3>1. Last(statements)' = Last(statements)
          BY <1>2 DEF Last
    <3> QED BY <1>1, <1>2, <2>1, <3>1 DEF Through, StatementKind
  <2>2. CASE t # EventLoop
    <3>1. Last(statements)' = Last(statements) /\ apiThread'[EventLoop] = apiThread[EventLoop]
          BY <1>2, <2>2, LoopIsThread DEF Last
    <3> QED BY <1>1, <1>2, <3>1 DEF Through
  <2> QED BY <2>1, <2>2
<1>3. ASSUME NEW t \in ApiThreads, OpenPool(t) PROVE Through' /\ WritesAreStoredOrRetried'
  <2>1. \/ ThreadGoesTo(t, "connect", "none") /\ UNCHANGED dbFaults
        \/ ThreadGoesTo(t, "end", "connection") /\ dbFaults' = dbFaults + 1
        BY <1>3 DEF OpenPool, DbFault
  <2>2. UNCHANGED statements /\ apiThread[t].pc = "pool"
        BY <1>3 DEF OpenPool, AtStep
  <2> QED BY <1>2, <2>1, <2>2, MovedThread
<1>4. ASSUME NEW t \in ApiThreads, GetConnection(t) PROVE Through' /\ WritesAreStoredOrRetried'
  <2>1. \/ ThreadGoesTo(t, "end", "other") /\ UNCHANGED dbFaults
        \/ (\E c : TakeConnection(t, c)) /\ UNCHANGED dbFaults
        \/ ThreadGoesTo(t, "end", "connection") /\ dbFaults' = dbFaults + 1
        BY <1>4 DEF GetConnection, DbFault
  <2>2. UNCHANGED statements /\ apiThread[t].pc = "connect"
        BY <1>4 DEF GetConnection, AtStep
  <2>3. ASSUME NEW c, TakeConnection(t, c), UNCHANGED dbFaults PROVE Through' /\ WritesAreStoredOrRetried'
        BY <1>2, <2>2, <2>3, TakenThread
  <2> QED BY <1>2, <2>1, <2>2, <2>3, MovedThread
<1>5. ASSUME NEW t \in ApiThreads, ExecuteStatement(t) PROVE Through' /\ WritesAreStoredOrRetried'
  <2>1. \/ ThreadGoesTo(t, AfterStatement(t), "connection")
        \/ t \in QueryThreads /\ ThreadGoesTo(t, "release", "none")
        \/ ThreadGoesTo(t, "return", "other")
        \/ ThreadGoesTo(t, "commit", "none")
        BY <1>5 DEF ExecuteStatement
  <2>2. UNCHANGED <<statements, dbFaults>> /\ apiThread[t].pc = "execute"
        BY <1>5 DEF ExecuteStatement, AtStep
  <2>3. t = EventLoop => AfterStatement(t) = "return"
        BY DEF AfterStatement
  <2> QED BY <1>2, <2>1, <2>2, <2>3, MovedThread, LoopIsThread
<1>6. ASSUME NEW t \in ApiThreads, ReleaseHandle(t) PROVE Through' /\ WritesAreStoredOrRetried'
      BY <1>2, <1>6, MovedThread DEF ReleaseHandle, AtStep, Through
<1>7. ASSUME NEW t \in ApiThreads, ReturnConnection(t) PROVE Through' /\ WritesAreStoredOrRetried'
  <2>1. UNCHANGED <<statements, dbFaults>> /\ apiThread[t].pc = "return"
        BY <1>7 DEF ReturnConnection, AtStep
  <2> QED BY <1>2, <1>7, <2>1, ReturnedThread DEF Charged
<1>8. ASSUME NEW t \in ApiThreads, CommitWrite(t) PROVE Through' /\ WritesAreStoredOrRetried'
  <2>1. CASE Broken(t) /\ ThreadGoesTo(t, "return", "connection") /\ UNCHANGED <<statements, dbFaults>>
        BY <1>2, <1>8, <2>1, MovedThread DEF CommitWrite, AtStep
  <2>2. CASE \/ /\ statements' = [statements EXCEPT ![Len(statements)].stored = TRUE]
                /\ ThreadGoesTo(t, "return", "none") /\ UNCHANGED dbFaults
             \/ /\ \E applied \in BOOLEAN : statements' = [statements EXCEPT ![Len(statements)].stored = @ \/ applied]
                /\ ThreadGoesTo(t, "return", "connection") /\ dbFaults' = dbFaults + 1
    <3>1. CASE statements = <<>>
      <4>1. statements' = statements
            BY <2>2, <3>1
      <4>2. t # EventLoop
            BY <1>8, <3>1 DEF CommitWrite, AtStep, Through
      <4> QED BY <1>2, <2>2, <4>1, <4>2, MovedThread
    <3>2. CASE statements # <<>>
      <4>1. statements[Len(statements)] = Last(statements) /\ Last(statements) \in Statements
            BY <1>0, <3>2, LastIsStatement
      <4>2. PICK b \in BOOLEAN, error \in {"none", "connection"} :
                /\ statements' = [statements EXCEPT ![Len(statements)].stored = b]
                /\ Last(statements).stored => b
                /\ ThreadGoesTo(t, "return", error) /\ (error = "none" => b)
        <5>1. Last(statements).stored \in BOOLEAN
              BY <4>1 DEF Statements
        <5>2. CASE /\ statements' = [statements EXCEPT ![Len(statements)].stored = TRUE]
                   /\ ThreadGoesTo(t, "return", "none")
              BY <5>2
        <5>3. ASSUME NEW applied \in BOOLEAN, ThreadGoesTo(t, "return", "connection"),
                     statements' = [statements EXCEPT ![Len(statements)].stored = @ \/ applied]
              PROVE  \E b \in BOOLEAN, error \in {"none", "connection"} :
                         /\ statements' = [statements EXCEPT ![Len(statements)].stored = b]
                         /\ Last(statements).stored => b
                         /\ ThreadGoesTo(t, "return", error) /\ (error = "none" => b)
          <6>1. PICK b \in BOOLEAN : b = (statements[Len(statements)].stored \/ applied)
                OBVIOUS
          <6>2. statements' = [statements EXCEPT ![Len(statements)].stored = b]
                BY <5>3, <6>1
          <6> QED BY <4>1, <5>3, <6>1, <6>2
        <5> QED BY <2>2, <5>2, <5>3
      <4>3. PICK r \in Statements : /\ r = [Last(statements) EXCEPT !.stored = b]
                                    /\ r.kind = Last(statements).kind /\ r.outcome = Last(statements).outcome
                                    /\ r.stored = b
        <5>1. PICK l \in Statements : l = Last(statements)
              BY <4>1
        <5>2. PICK r : r = [l EXCEPT !.stored = b]
              OBVIOUS
        <5>3. r \in Statements /\ r.kind = l.kind /\ r.outcome = l.outcome /\ r.stored = b
              BY <5>2 DEF Statements
        <5> QED BY <5>1, <5>2, <5>3
      <4>4. statements' = [statements EXCEPT ![Len(statements)] = r]
            BY <4>1, <4>2, <4>3
      <4>5. /\ statements' \in Seq(Statements) /\ statements' # <<>> /\ Last(statements)' = r
            /\ DOMAIN statements' = DOMAIN statements
            /\ \A i \in DOMAIN statements : statements'[i] = IF i = Len(statements) THEN r ELSE statements[i]
        <5>1. PICK new : new = statements'
              OBVIOUS
        <5> QED BY <1>0, <3>2, <4>4, <5>1, LastReplaced DEF Last
      <4>6. dbFaults >= WriteAttempts => dbFaults' >= WriteAttempts
            BY <1>0, <2>2
      <4>7. WritesAreStoredOrRetried'
        <5>1. ASSUME NEW i \in DOMAIN statements, statements[i].kind = "write"
                         => /\ statements[i].outcome = "returned" => statements[i].stored
                            /\ statements[i].outcome = "gave up" => dbFaults >= WriteAttempts
              PROVE  statements'[i].kind = "write"
                         => /\ statements'[i].outcome = "returned" => statements'[i].stored
                            /\ statements'[i].outcome = "gave up" => dbFaults' >= WriteAttempts
          <6>1. CASE i = Len(statements)
            <7>1. statements'[i] = r /\ statements[i] = Last(statements)
                  BY <4>1, <4>5, <6>1
            <7>2. r.kind = "write" /\ r.outcome = "returned" => r.stored
                  BY <4>2, <4>3, <5>1, <7>1
            <7> QED BY <4>3, <4>6, <5>1, <7>1, <7>2
          <6>2. CASE i # Len(statements)
                BY <4>5, <4>6, <5>1, <6>2
          <6> QED BY <6>1, <6>2
        <5> QED BY <4>5, <5>1 DEF WritesAreStoredOrRetried
      <4>8. Through'
        <5>1. CASE t = EventLoop
          <6>1. /\ apiThread'[EventLoop].pc = "return" /\ apiThread'[EventLoop].error = error
                /\ error = "none" => r.stored
                BY <4>2, <4>3, <5>1, MovedThread
          <6> QED BY <4>5, <6>1 DEF Through
        <5>2. CASE t # EventLoop
          <6>1. apiThread'[EventLoop] = apiThread[EventLoop]
                BY <4>2, <5>2, MovedThread, LoopIsThread
          <6> QED BY <4>2, <4>3, <4>5, <6>1 DEF Through
        <5> QED BY <5>1, <5>2
      <4> QED BY <4>7, <4>8
    <3> QED BY <3>1, <3>2
  <2> QED BY <1>8, <2>1, <2>2 DEF CommitWrite, DbFault
<1>9. ASSUME NEW t \in QueryThreads, (\E q \in QueryIds : BeginQuery(t, q)) \/ EndQuery(t)
      PROVE  Through' /\ WritesAreStoredOrRetried'
  <2>1. \E r : apiThread' = [apiThread EXCEPT ![t] = r]
        BY <1>9 DEF BeginQuery, EndQuery
  <2>2. \A u \in ApiThreads \ {t} : apiThread'[u] = apiThread[u]
        BY <2>1 DEF HandlesInv
  <2>3. UNCHANGED <<statements, dbFaults>>
        BY <1>9 DEF BeginQuery, EndQuery
  <2> QED BY <1>2, <2>2, <2>3, LoopIsThread
<1>10. ASSUME NEW kind \in {"write", "audit"}, BeginStatement(kind) PROVE Through' /\ WritesAreStoredOrRetried'
  <2>1. PICK r \in Statements : r = [kind |-> kind, stored |-> FALSE, outcome |-> "none"]
        BY DEF Statements
  <2>2. statements' = Append(statements, r) /\ UNCHANGED dbFaults
        BY <1>10, <2>1 DEF BeginStatement
  <2>3. statements' \in Seq(Statements) /\ statements' # <<>>
        BY <1>0, <2>2
  <2>4. \A i \in DOMAIN statements' : statements'[i] = r \/ (i \in DOMAIN statements /\ statements'[i] = statements[i])
        BY <1>0, <2>2
  <2>5. r.outcome = "none"
        BY <2>1
  <2>6. WritesAreStoredOrRetried'
        BY <2>2, <2>4, <2>5 DEF WritesAreStoredOrRetried
  <2>7. PICK s : s = [IdleThread EXCEPT !.pc = "pool", !.attempt = 1]
        OBVIOUS
  <2>8. s.pc = "pool"
        BY <2>7 DEF IdleThread
  <2>9. apiThread'[EventLoop] = s
        BY <1>10, <2>7, LoopIsThread DEF BeginStatement, HandlesInv
  <2> QED BY <2>3, <2>6, <2>8, <2>9 DEF Through
<1>11. ASSUME NEW c \in cancelRequests, CancelConnection(c) PROVE Through' /\ WritesAreStoredOrRetried'
  <2>1. UNCHANGED statements
        BY <1>11 DEF CancelConnection
  <2>2. CASE UNCHANGED <<apiThread, dbFaults>>
        BY <1>1, <2>1, <2>2 DEF Through, Last
  <2>3. CASE \E t \in ApiThreads : /\ AtStep(t, "execute") /\ ThreadGoesTo(t, AfterStatement(t), "cancelled")
                                   /\ dbFaults' \in {dbFaults, dbFaults + 1}
    <3>1. PICK t \in ApiThreads : /\ apiThread[t].pc = "execute" /\ ThreadGoesTo(t, AfterStatement(t), "cancelled")
                                  /\ dbFaults' \in {dbFaults, dbFaults + 1}
          BY <2>3 DEF AtStep
    <3>2. t = EventLoop => AfterStatement(t) = "return"
          BY DEF AfterStatement
    <3> QED BY <1>2, <2>1, <3>1, <3>2, MovedThread
  <2> QED BY <1>11, <2>2, <2>3 DEF CancelConnection, DbFault
<1>12. CASE EndAttempt
  <2>1. /\ apiThread[EventLoop].pc = "end" /\ UNCHANGED dbFaults /\ statements # <<>>
        /\ apiThread[EventLoop].attempt \in Nat
        BY <1>12, LoopIsThread DEF EndAttempt, AtStep, Through, HandlesInv, ThreadStates
  <2>2. CASE /\ UNCHANGED statements
             /\ apiThread'[EventLoop] = [IdleThread EXCEPT !.pc = "pool", !.attempt = apiThread[EventLoop].attempt + 1]
    <3>1. apiThread'[EventLoop].pc = "pool"
          BY <2>2 DEF IdleThread
    <3> QED BY <1>1, <2>1, <2>2, <3>1 DEF Through
  <2>3. ASSUME NEW o \in {"returned", "gave up", "raised"},
               statements' = [statements EXCEPT ![Len(statements)].outcome = o],
               apiThread'[EventLoop] = IdleThread,
               o = "gave up" => dbFaults >= WriteAttempts,
               o = "returned" => (StatementKind = "write" => Last(statements).stored)
        PROVE  Through' /\ WritesAreStoredOrRetried'
    <3>1. statements[Len(statements)] = Last(statements) /\ Last(statements) \in Statements
      <4>1. statements # <<>>
            BY <2>1
      <4> QED BY <1>0, <4>1, LastIsStatement
    <3>2. PICK r \in Statements : /\ r = [Last(statements) EXCEPT !.outcome = o]
                                  /\ r.kind = Last(statements).kind /\ r.stored = Last(statements).stored
                                  /\ r.outcome = o
      <4>1. PICK l \in Statements : l = Last(statements)
            BY <3>1
      <4>2. PICK r : r = [l EXCEPT !.outcome = o]
            OBVIOUS
      <4>3. r \in Statements /\ r.kind = l.kind /\ r.stored = l.stored /\ r.outcome = o
            BY <4>2 DEF Statements
      <4> QED BY <4>1, <4>2, <4>3
    <3>3. statements' = [statements EXCEPT ![Len(statements)] = r]
          BY <2>3, <3>1, <3>2
    <3>4. /\ statements' \in Seq(Statements)
          /\ DOMAIN statements' = DOMAIN statements
          /\ \A i \in DOMAIN statements : statements'[i] = IF i = Len(statements) THEN r ELSE statements[i]
      <4>1. PICK new : new = statements'
            OBVIOUS
      <4> QED BY <1>0, <2>1, <3>3, <4>1, LastReplaced
    <3>5. WritesAreStoredOrRetried'
      <4>2. ASSUME r.kind = "write"
            PROVE  (r.outcome = "returned" => r.stored) /\ (r.outcome = "gave up" => dbFaults >= WriteAttempts)
            BY <2>3, <3>2, <4>2 DEF StatementKind
      <4>3. ASSUME NEW i \in DOMAIN statements, statements'[i].kind = "write"
            PROVE  /\ statements'[i].outcome = "returned" => statements'[i].stored
                   /\ statements'[i].outcome = "gave up" => dbFaults >= WriteAttempts
        <5>1. CASE i = Len(statements)
              BY <3>4, <4>2, <4>3, <5>1
        <5>2. CASE i # Len(statements)
              BY <2>1, <3>4, <4>3, <5>2 DEF WritesAreStoredOrRetried
        <5> QED BY <5>1, <5>2
      <4> QED BY <2>1, <3>4, <4>3 DEF WritesAreStoredOrRetried
    <3>6. apiThread'[EventLoop].pc = "free"
      <4>1. IdleThread.pc = "free"
            BY DEF IdleThread
      <4> QED BY <2>3, <4>1
    <3> QED BY <3>4, <3>5, <3>6 DEF Through
  <2>4. \/ /\ apiThread[EventLoop].error \in {"connection", "cancelled"}
           /\ \/ /\ apiThread'[EventLoop] =
                        [IdleThread EXCEPT !.pc = "pool", !.attempt = apiThread[EventLoop].attempt + 1]
                 /\ UNCHANGED statements
              \/ /\ apiThread'[EventLoop] = IdleThread
                 /\ ~(apiThread[EventLoop].attempt < WriteAttempts)
                 /\ statements' = [statements EXCEPT ![Len(statements)].outcome = "gave up"]
        \/ /\ ~(StatementKind = "write" /\ apiThread[EventLoop].error \in {"connection", "cancelled"})
           /\ apiThread'[EventLoop] = IdleThread
           /\ \/ statements' = [statements EXCEPT ![Len(statements)].outcome = "raised"]
              \/ /\ statements' = [statements EXCEPT ![Len(statements)].outcome = "returned"]
                 /\ ~(StatementKind = "write" /\ apiThread[EventLoop].error = "other")
        BY <1>12, AttemptEnds, LoopIsThread DEF HandlesInv
  <2>5. apiThread[EventLoop].error \in {"connection", "cancelled"} => dbFaults >= apiThread[EventLoop].attempt
        BY <2>1 DEF Charged
  <2>6. apiThread[EventLoop].error \in {"none", "connection", "cancelled", "other"}
        BY LoopIsThread DEF HandlesInv, ThreadStates
  <2>7. apiThread[EventLoop].error = "none" => (StatementKind = "write" => Last(statements).stored)
        BY <2>1 DEF Through, StatementKind
  <2>8. ~(apiThread[EventLoop].attempt < WriteAttempts) /\ dbFaults >= apiThread[EventLoop].attempt
            => dbFaults >= WriteAttempts
        BY <1>0, <2>1
  <2> QED BY <2>2, <2>3, <2>4, <2>5, <2>6, <2>7, <2>8
<1>13. CASE BreakConnections
  <2>1. UNCHANGED <<apiThread, statements>> /\ dbFaults' = dbFaults + 1
        BY <1>13 DEF BreakConnections, DbFault
  <2> QED BY <1>1, <2>1 DEF Through, Last
<1>14. ASSUME UNCHANGED <<apiThread, statements, dbFaults>> PROVE Through' /\ WritesAreStoredOrRetried'
      BY <1>1, <1>14 DEF Through, Last
<1>15. ASSUME NEW q \in QueryIds, LookUp(q) PROVE Through' /\ WritesAreStoredOrRetried'
      BY <1>14, <1>15 DEF LookUp
<1>16. CASE UNCHANGED historianVars
      BY <1>14, <1>16 DEF historianVars
<1> QED BY <1>3, <1>4, <1>5, <1>6, <1>7, <1>8, <1>9, <1>10, <1>11, <1>12, <1>13, <1>15, <1>16 DEF HistorianNext

HistorianInv ==
    /\ HandlesInv /\ idleConn \in Conns \cup {0} /\ OnePlace /\ Charged /\ Through
    /\ WritesAreStoredOrRetried

LEMMA HistorianInvInit == HistorianInit => HistorianInv
<1> SUFFICES ASSUME HistorianInit PROVE HistorianInv
    OBVIOUS
<1>1. HandlesInv /\ idleConn \in Conns \cup {0}
      BY HandlesInit DEF HistorianInit
<1>2. \A t \in ApiThreads : apiThread[t] = IdleThread
      BY DEF HistorianInit
<1>3. OnePlace /\ Charged /\ Through
      BY <1>2, LoopIsThread DEF HistorianInit, OnePlace, Charged, BrokenLive, Through, IdleThread
<1>4. statements = <<>> /\ DOMAIN statements = {}
      BY DEF HistorianInit
<1>5. WritesAreStoredOrRetried
      BY <1>4 DEF WritesAreStoredOrRetried
<1> QED BY <1>1, <1>3, <1>5 DEF HistorianInv

LEMMA HistorianInvStep == HistorianInv /\ [HistorianNext]_historianVars => HistorianInv'
  BY HandlesStep, IdleStep, OnePlaceStep, ChargedStep, ThroughStep DEF HistorianInv

(* A write that returned is in the database, and one that gave up has met a fault for each of its
   attempts: connections that broke together cost it one, because a failed attempt closes the pool
   and every connection lent by it, so that the next one starts with none that is broken. *)
THEOREM WritesAreStoredOrRetriedAlways == HistorianSpec => []WritesAreStoredOrRetried
<1>1. HistorianInv => WritesAreStoredOrRetried
      BY DEF HistorianInv
<1> QED BY <1>1, HistorianInvInit, HistorianInvStep, PTL DEF HistorianSpec
-----------------------------------------------------------------------------
(* The turns of the assistant. *)

\* The executor of a turn has stored an answer.
HasAnswered == {"answered", "erred", "settled"}

\* A turn is neither under way nor open to a retry.
AtRest(content, t) ==
    /\ content.status[t] \notin {"running", "executing"}
    /\ ~(content.status[t] = "failed" /\ content.retryable[t])

\* Answers in the store, and those a renaming replaced the thread without.
Kept == store.answered \cup overwritten

TurnsType ==
    /\ turn \in [Turns -> Executions] /\ store \in Contents
    /\ job \in [Workers -> Messages \cup {NoJob}]
    /\ streamEnd \in [Messages -> SUBSET {"complete", "error"}]
    /\ begun \in Nat

(* A message has one turn, which begins in a place nothing has used.  What was answered is in the
   store, or was overwritten, when the executor, the turn's status or the stream says so, and a turn
   an executor has settled stays at rest. *)
TurnsInv ==
    /\ TurnsType
    /\ \A t \in Turns : t > begun => turn[t].pc = "none" /\ turn[t].message = NoJob
    /\ \A t, u \in Turns : turn[t].message = turn[u].message /\ turn[t].message # NoJob => t = u
    /\ \A t \in Turns : turn[t].pc \in HasAnswered => t \in Kept
    /\ \A t \in Turns : store.status[t] = "completed" => t \in Kept
    /\ \A m \in Messages : "complete" \in streamEnd[m] =>
          \E t \in Turns : turn[t].message = m /\ t \in Kept
    /\ \A t \in Turns : turn[t].pc = "settled" => AtRest(store, t)

LEMMA TurnsInvInit == AssistantInit => TurnsInv
<1> SUFFICES ASSUME AssistantInit PROVE TurnsInv
    OBVIOUS
<1>1. Empty \in Contents /\ \A t \in Turns : Empty.status[t] = "none"
      BY DEF Empty, Contents, Statuses
<1>2. TurnsType
      BY <1>1 DEF AssistantInit, TurnsType, Executions, Processes
<1> QED BY <1>1, <1>2 DEF AssistantInit, TurnsInv, HasAnswered
-----------------------------------------------------------------------------
(* What the operations on the store and on the executors do. *)

LEMMA SetStatusGives ==
    ASSUME NEW content \in Contents, NEW t, NEW status \in Statuses, NEW retryable \in BOOLEAN
    PROVE  /\ SetStatus(content, t, status, retryable) \in Contents
           /\ SetStatus(content, t, status, retryable).answered = content.answered
           /\ t \in Turns => SetStatus(content, t, status, retryable).status[t] = status
  BY DEF SetStatus, Contents

LEMMA SetStatusKeeps ==
    ASSUME NEW content \in Contents, NEW t, NEW status \in Statuses, NEW retryable \in BOOLEAN,
           NEW u \in Turns, u # t
    PROVE  /\ SetStatus(content, t, status, retryable).status[u] = content.status[u]
           /\ SetStatus(content, t, status, retryable).retryable[u] <=> content.retryable[u]
  BY DEF SetStatus, Contents

LEMMA SetStatusOffers ==
    ASSUME NEW content \in Contents, NEW t \in Turns, NEW status \in Statuses, NEW retryable \in BOOLEAN
    PROVE  SetStatus(content, t, status, retryable).retryable[t] <=> retryable
  BY DEF SetStatus, Contents

LEMMA Goes ==
    ASSUME TurnsType, NEW t \in Turns,
           NEW place \in {"none", "started", "working", "answered", "erred", "settled", "done"},
           TurnGoto(t, place)
    PROVE  /\ turn' \in [Turns -> Executions] /\ turn'[t].pc = place
           /\ \A u \in Turns : turn'[u].message = turn[u].message
           /\ \A u \in Turns \ {t} : turn'[u] = turn[u]
  BY DEF TurnsType, TurnGoto, Executions

LEMMA Frees ==
    ASSUME TurnsType, NEW t \in Turns, FreeWorker(t)
    PROVE  job' \in [Workers -> Messages \cup {NoJob}]
  BY DEF TurnsType, FreeWorker

LEMMA Publishes ==
    ASSUME TurnsType, NEW m, NEW event \in {"complete", "error"}, PublishEnd(m, event)
    PROVE  /\ streamEnd' \in [Messages -> SUBSET {"complete", "error"}]
           /\ \A n \in Messages : "complete" \in streamEnd'[n] =>
                 "complete" \in streamEnd[n] \/ (n = m /\ event = "complete")
  BY DEF TurnsType, PublishEnd

\* Steps that begin no turn.
LEMMA Advances ==
    ASSUME TurnsInv, TurnsType', begun' = begun,
           \A u \in Turns : turn'[u].message = turn[u].message,
           \A u \in Turns : turn[u].pc = "none" => turn'[u].pc = "none",
           Kept \subseteq Kept',
           \A u \in Turns : turn'[u].pc \in HasAnswered => turn[u].pc \in HasAnswered \/ u \in Kept',
           \A u \in Turns : store'.status[u] = "completed" => store.status[u] = "completed" \/ u \in Kept',
           \A m \in Messages : "complete" \in streamEnd'[m] =>
               \/ "complete" \in streamEnd[m]
               \/ \E u \in Turns : turn[u].message = m /\ u \in Kept,
           \A u \in Turns : turn'[u].pc = "settled" => AtRest(store', u)
    PROVE  TurnsInv'
<1>1. \A t \in Turns : t > begun' => turn'[t].pc = "none" /\ turn'[t].message = NoJob
      BY DEF TurnsInv
<1>2. \A t, u \in Turns : turn'[t].message = turn'[u].message /\ turn'[t].message # NoJob => t = u
      BY DEF TurnsInv
<1>3. \A t \in Turns : turn'[t].pc \in HasAnswered => t \in Kept'
      BY DEF TurnsInv
<1>4. \A t \in Turns : store'.status[t] = "completed" => t \in Kept'
      BY DEF TurnsInv
<1>5. \A m \in Messages : "complete" \in streamEnd'[m] =>
          \E t \in Turns : turn'[t].message = m /\ t \in Kept'
      BY DEF TurnsInv
<1> QED BY <1>1, <1>2, <1>3, <1>4, <1>5 DEF TurnsInv, HasAnswered

\* A turn that begins takes a place nothing has used, for a message that has none yet.
LEMMA Starts ==
    ASSUME Backend = "postgres", TurnsInv, NEW p \in Processes, NEW m \in Messages \cup {NoJob},
           \A t \in Turns : m # NoJob => turn[t].message # m,
           StartTurn(p, m), UNCHANGED <<job, streamEnd, overwritten>>
    PROVE  TurnsInv'
<1> DEFINE n == begun + 1
           no == FALSE
<1>1. begun' = n /\ n \in Nat
      BY DEF StartTurn, TurnsInv, TurnsType
<1>2. store' = SetStatus(store, n, "running", no) /\ no \in BOOLEAN
      BY <1>1 DEF StartTurn, Save, View
<1>3. turn' = [turn EXCEPT ![n] = [pc |-> "started", host |-> p, message |-> m]]
      BY <1>1 DEF StartTurn
<1>4. n \in Turns => turn[n].pc = "none" /\ turn[n].message = NoJob
      BY DEF TurnsInv, TurnsType
<1>5. \A t \in Turns : t > n => t > begun
      BY DEF TurnsInv, TurnsType, Turns
<1> HIDE DEF n, no
<1>6. /\ store' \in Contents /\ store'.answered = store.answered
      /\ \A u \in Turns \ {n} : store'.status[u] = store.status[u] /\ (store'.retryable[u] <=> store.retryable[u])
      /\ n \in Turns => store'.status[n] = "running"
  <2>1. store \in Contents /\ "running" \in Statuses
        BY DEF TurnsInv, TurnsType, Statuses
  <2>2. /\ store' \in Contents /\ store'.answered = store.answered
        /\ n \in Turns => store'.status[n] = "running"
        BY <1>2, <2>1, SetStatusGives
  <2>3. \A u \in Turns \ {n} : store'.status[u] = store.status[u]
        BY <1>2, <2>1, SetStatusKeeps
  <2>4. \A u \in Turns \ {n} : store'.retryable[u] <=> store.retryable[u]
        BY <1>2, <2>1, SetStatusKeeps
  <2> QED BY <2>2, <2>3, <2>4
<1>7. /\ turn' \in [Turns -> Executions]
      /\ \A u \in Turns \ {n} : turn'[u] = turn[u]
      /\ n \in Turns => turn'[n].pc = "started" /\ turn'[n].message = m
      BY <1>3 DEF TurnsInv, TurnsType, Executions
<1>8. TurnsType'
      BY <1>1, <1>6, <1>7 DEF TurnsInv, TurnsType
<1>9. \A t \in Turns : t > begun' => turn'[t].pc = "none" /\ turn'[t].message = NoJob
  <2>1. SUFFICES ASSUME NEW t \in Turns, t > n PROVE turn'[t].pc = "none" /\ turn'[t].message = NoJob
        BY <1>1
  <2>2. t # n /\ t > begun
        BY <1>1, <1>5, <2>1 DEF Turns
  <2> QED BY <1>7, <2>2 DEF TurnsInv
<1>10. \A t, u \in Turns : turn'[t].message = turn'[u].message /\ turn'[t].message # NoJob => t = u
       BY <1>7 DEF TurnsInv
<1>11. \A t \in Turns : turn'[t].pc \in HasAnswered => t \in Kept'
       BY <1>6, <1>7 DEF TurnsInv, HasAnswered, Kept
<1>12. \A t \in Turns : store'.status[t] = "completed" => t \in Kept'
       BY <1>6 DEF TurnsInv, Kept
<1>13. \A k \in Messages : "complete" \in streamEnd'[k] =>
           \E t \in Turns : turn'[t].message = k /\ t \in Kept'
  <2> SUFFICES ASSUME NEW k \in Messages, "complete" \in streamEnd[k]
               PROVE  \E t \in Turns : turn'[t].message = k /\ t \in Kept'
      OBVIOUS
  <2>1. PICK t \in Turns : turn[t].message = k /\ t \in Kept
        BY DEF TurnsInv
  <2>2. t # n
        BY <1>4, <2>1, AssistantTurnsAssumption
  <2> QED BY <1>6, <1>7, <2>1, <2>2 DEF Kept
<1>14. \A t \in Turns : turn'[t].pc = "settled" => AtRest(store', t)
       BY <1>6, <1>7 DEF TurnsInv, AtRest
<1> QED BY <1>8, <1>9, <1>10, <1>11, <1>12, <1>13, <1>14 DEF TurnsInv

\* Steps that leave the store as it was and publish no answer.
LEMMA Stays ==
    ASSUME TurnsInv, store' = store, overwritten' = overwritten, begun' = begun,
           turn' \in [Turns -> Executions],
           job' \in [Workers -> Messages \cup {NoJob}],
           streamEnd' \in [Messages -> SUBSET {"complete", "error"}],
           \A u \in Turns : turn'[u].message = turn[u].message /\ turn'[u].pc \in {turn[u].pc, "working", "done"},
           \A u \in Turns : turn[u].pc = "none" => turn'[u].pc = "none",
           \A m \in Messages : "complete" \in streamEnd'[m] => "complete" \in streamEnd[m]
    PROVE  TurnsInv'
<1>1. TurnsType'
      BY DEF TurnsInv, TurnsType
<1>2. \A u \in Turns : turn'[u].pc \in HasAnswered => turn[u].pc \in HasAnswered
      BY DEF HasAnswered
<1>3. \A u \in Turns : turn'[u].pc = "settled" => AtRest(store', u)
      BY DEF TurnsInv, AtRest
<1>4. Kept' = Kept
      BY DEF Kept
<1> QED BY <1>1, <1>2, <1>3, <1>4, Advances

\* Steps that set the status of one turn.
LEMMA Settles ==
    ASSUME TurnsInv, NEW t \in Turns, NEW status \in Statuses, NEW retryable \in BOOLEAN,
           store' = SetStatus(store, t, status, retryable), overwritten' = overwritten, begun' = begun,
           turn' \in [Turns -> Executions],
           job' \in [Workers -> Messages \cup {NoJob}],
           streamEnd' \in [Messages -> SUBSET {"complete", "error"}],
           \A u \in Turns : turn'[u].message = turn[u].message,
           \A u \in Turns \ {t} : turn'[u].pc = turn[u].pc,
           turn[t].pc = "none" => turn'[t].pc = "none",
           turn'[t].pc \in HasAnswered => turn[t].pc \in HasAnswered,
           status = "completed" => t \in Kept,
           turn'[t].pc = "settled" => status = "completed" \/ (status = "failed" /\ ~retryable),
           \A m \in Messages : "complete" \in streamEnd'[m] =>
               "complete" \in streamEnd[m] \/ (turn[t].message = m /\ t \in Kept)
    PROVE  TurnsInv'
<1>1. store \in Contents
      BY DEF TurnsInv, TurnsType
<1>2. store' \in Contents /\ store'.answered = store.answered /\ store'.status[t] = status
      BY <1>1, SetStatusGives
<1>3. \A u \in Turns \ {t} : store'.status[u] = store.status[u]
      BY <1>1, SetStatusKeeps
<1>4. \A u \in Turns \ {t} : store'.retryable[u] <=> store.retryable[u]
      BY <1>1, SetStatusKeeps
<1>5. store'.retryable[t] <=> retryable
      BY <1>1, SetStatusOffers
<1>6. TurnsType'
      BY <1>2 DEF TurnsInv, TurnsType
<1>7. Kept' = Kept
      BY <1>2 DEF Kept
<1>8. \A u \in Turns : store'.status[u] = "completed" => store.status[u] = "completed" \/ u \in Kept'
      BY <1>2, <1>3, <1>7
<1>9. \A u \in Turns : turn'[u].pc \in HasAnswered => turn[u].pc \in HasAnswered \/ u \in Kept'
      OBVIOUS
<1>10. \A u \in Turns : turn'[u].pc = "settled" => AtRest(store', u)
  <2>1. ASSUME NEW u \in Turns \ {t}, turn'[u].pc = "settled" PROVE AtRest(store', u)
        BY <1>3, <1>4, <2>1 DEF TurnsInv, AtRest
  <2>2. turn'[t].pc = "settled" => AtRest(store', t)
        BY <1>2, <1>5 DEF AtRest
  <2> QED BY <2>1, <2>2
<1>11. \A u \in Turns : turn[u].pc = "none" => turn'[u].pc = "none"
       OBVIOUS
<1> QED BY <1>2, <1>6, <1>7, <1>8, <1>9, <1>10, <1>11, Advances

-----------------------------------------------------------------------------
\* With PostgreSQL a process reads and writes what is stored.
LEMMA Tables ==
    ASSUME Backend = "postgres", NEW p, NEW content
    PROVE  View(p) = store /\ (Save(p, content) => store' = content)
  BY DEF View, Save

LEMMA CancelTurnKeeps ==
    ASSUME Backend = "postgres", TurnsInv, NEW m, NEW t \in Turns, CancelTurn(m, t)
    PROVE  TurnsInv'
<1> DEFINE no == FALSE
<1>1. store' = SetStatus(store, t, "failed", no) /\ no \in BOOLEAN /\ ~no /\ "failed" \in Statuses
      BY Tables DEF CancelTurn, Statuses
<1>2. /\ streamEnd' \in [Messages -> SUBSET {"complete", "error"}]
      /\ \A k \in Messages : "complete" \in streamEnd'[k] => "complete" \in streamEnd[k]
      BY Publishes DEF CancelTurn, TurnsInv
<1>3. turn' = turn /\ job' = job /\ begun' = begun /\ overwritten' = overwritten
      BY DEF CancelTurn, titleVars
<1> HIDE DEF no
<1> QED BY <1>1, <1>2, <1>3, Settles DEF TurnsInv, TurnsType

LEMMA ReapTurnKeeps ==
    ASSUME Backend = "postgres", TurnsInv, NEW w, NEW t \in Turns, ReapTurn(w, t)
    PROVE  TurnsInv'
<1> DEFINE yes == TRUE
<1>1. store' = SetStatus(store, t, "failed", yes) /\ yes \in BOOLEAN /\ "failed" \in Statuses
      BY Tables DEF ReapTurn, Statuses
<1>2. turn[t].pc # "settled"
      BY Tables DEF ReapTurn, UnderWay, TurnsInv, AtRest
<1>3. turn' = turn /\ job' = job /\ begun' = begun /\ overwritten' = overwritten /\ streamEnd' = streamEnd
      BY DEF ReapTurn, titleVars
<1> HIDE DEF yes
<1> QED BY <1>1, <1>2, <1>3, Settles DEF TurnsInv, TurnsType

LEMMA ClaimTurnKeeps ==
    ASSUME Backend = "postgres", TurnsInv, NEW t \in Turns, ClaimTurn(t)
    PROVE  TurnsInv'
<1> DEFINE no == FALSE
<1>1. /\ store' = store \/ store' = SetStatus(store, t, "executing", no)
      /\ no \in BOOLEAN /\ "executing" \in Statuses
      BY Tables DEF ClaimTurn, Statuses
<1>2. turn[t].pc = "started" /\ job' = job /\ begun' = begun /\ overwritten' = overwritten /\ streamEnd' = streamEnd
      BY DEF ClaimTurn, titleVars
<1>3. /\ turn' \in [Turns -> Executions] /\ turn'[t].pc = "working"
      /\ \A u \in Turns : turn'[u].message = turn[u].message
      /\ \A u \in Turns \ {t} : turn'[u] = turn[u]
      BY Goes DEF ClaimTurn, TurnsInv
<1> HIDE DEF no
<1>4. CASE store' = store
      BY <1>2, <1>3, <1>4, Stays DEF TurnsInv, TurnsType
<1>5. CASE store' = SetStatus(store, t, "executing", no)
      BY <1>1, <1>2, <1>3, <1>5, Settles DEF TurnsInv, TurnsType, HasAnswered
<1> QED BY <1>1, <1>4, <1>5

LEMMA AppendAnswerKeeps ==
    ASSUME Backend = "postgres", TurnsInv, NEW t \in Turns, AppendAnswer(t)
    PROVE  TurnsInv'
<1>1. store' = [store EXCEPT !.answered = @ \cup {t}] /\ turn[t].pc = "working"
      BY Tables DEF AppendAnswer
<1>2. /\ store' \in Contents /\ store'.answered = store.answered \cup {t}
      /\ store'.status = store.status /\ store'.retryable = store.retryable
      BY <1>1 DEF TurnsInv, TurnsType, Contents
<1>3. PICK place \in {"answered", "erred"} : TurnGoto(t, place)
      BY DEF AppendAnswer
<1>4. /\ turn' \in [Turns -> Executions] /\ turn'[t].pc = place
      /\ \A u \in Turns : turn'[u].message = turn[u].message
      /\ \A u \in Turns \ {t} : turn'[u] = turn[u]
      BY <1>3, Goes DEF TurnsInv
<1>5. job' = job /\ begun' = begun /\ overwritten' = overwritten /\ streamEnd' = streamEnd
      BY DEF AppendAnswer, titleVars
<1>6. TurnsType'
      BY <1>2, <1>4, <1>5 DEF TurnsInv, TurnsType
<1>7. \A u \in Turns : turn'[u].pc = "settled" => AtRest(store', u)
      BY <1>2, <1>3, <1>4 DEF TurnsInv, AtRest
<1>8. \A u \in Turns : turn'[u].pc \in HasAnswered => turn[u].pc \in HasAnswered \/ u \in Kept'
      BY <1>2, <1>4 DEF Kept
<1>9. \A u \in Turns : turn[u].pc = "none" => turn'[u].pc = "none"
      BY <1>1, <1>4
<1>10. Kept \subseteq Kept'
      BY <1>2, <1>5 DEF Kept
<1> QED BY <1>2, <1>4, <1>5, <1>6, <1>7, <1>8, <1>9, <1>10, Advances

LEMMA UpdateTurnKeeps ==
    ASSUME Backend = "postgres", TurnsInv, NEW t \in Turns, UpdateTurn(t)
    PROVE  TurnsInv'
<1> DEFINE status == IF turn[t].pc = "erred" THEN "failed" ELSE "completed"
           place == IF turn[t].pc = "answered" THEN "settled" ELSE "done"
<1>1. PICK retryable \in IF turn[t].pc = "erred" THEN BOOLEAN ELSE {FALSE} :
          Save(turn[t].host, SetStatus(View(turn[t].host), t, status, retryable))
      BY DEF UpdateTurn
<1>2. store' = SetStatus(store, t, status, retryable) /\ retryable \in BOOLEAN
      BY <1>1, Tables
<1>3. turn[t].pc \in {"answered", "erred"} /\ TurnGoto(t, place) /\ begun' = begun /\ overwritten' = overwritten
      BY DEF UpdateTurn, titleVars
<1>4. /\ turn' \in [Turns -> Executions] /\ turn'[t].pc = place
      /\ \A u \in Turns : turn'[u].message = turn[u].message
      /\ \A u \in Turns \ {t} : turn'[u] = turn[u]
      BY <1>3, Goes DEF TurnsInv
<1>5. t \in Kept
      BY <1>3 DEF TurnsInv, HasAnswered
<1>6. job' \in [Workers -> Messages \cup {NoJob}]
      BY Frees DEF UpdateTurn, TurnsInv
<1>7. /\ streamEnd' \in [Messages -> SUBSET {"complete", "error"}]
      /\ \A m \in Messages : "complete" \in streamEnd'[m] =>
            "complete" \in streamEnd[m] \/ turn[t].message = m
  <2>1. CASE turn[t].message = NoJob
        BY <2>1 DEF UpdateTurn, PublishFor, TurnsInv, TurnsType
  <2>2. CASE turn[t].message # NoJob
    <3>1. PublishEnd(turn[t].message, "complete")
          BY <2>2 DEF UpdateTurn, PublishFor
    <3> QED BY <3>1, Publishes DEF TurnsInv
  <2> QED BY <2>1, <2>2
<1>8. /\ status \in Statuses
      /\ place = "settled" => status = "completed"
      /\ place \in HasAnswered => turn[t].pc \in HasAnswered
      /\ turn[t].pc # "none"
      BY <1>3 DEF Statuses, HasAnswered
<1> HIDE DEF status, place
<1> QED BY <1>2, <1>3, <1>4, <1>5, <1>6, <1>7, <1>8, Settles


LEMMA TokenKeeps ==
    ASSUME Backend = "postgres", TurnsInv, NEW t \in Turns, Token(t)
    PROVE  TurnsInv'
<1>1. store' = store /\ begun' = begun /\ overwritten' = overwritten /\ turn[t].pc = "working"
      BY Tables DEF Token, titleVars
<1>2. CASE turn[t].message \in cancelKeys
  <2>1. /\ TurnGoto(t, "done") /\ job' \in [Workers -> Messages \cup {NoJob}]
        /\ PublishEnd(turn[t].message, "error")
        BY <1>2, Frees DEF Token, TurnsInv
  <2>2. /\ turn' \in [Turns -> Executions] /\ turn'[t].pc = "done"
        /\ \A u \in Turns : turn'[u].message = turn[u].message
        /\ \A u \in Turns \ {t} : turn'[u] = turn[u]
        BY <2>1, Goes DEF TurnsInv
  <2>3. /\ streamEnd' \in [Messages -> SUBSET {"complete", "error"}]
        /\ \A k \in Messages : "complete" \in streamEnd'[k] => "complete" \in streamEnd[k]
        BY <2>1, Publishes DEF TurnsInv
  <2> QED BY <1>1, <2>1, <2>2, <2>3, Stays
<1>3. CASE turn[t].message \notin cancelKeys
  <2>1. turn' = turn /\ job' = job /\ streamEnd' = streamEnd
        BY <1>3 DEF Token
  <2> QED BY <1>1, <2>1, Stays DEF TurnsInv, TurnsType
<1> QED BY <1>2, <1>3

LEMMA GiveUpKeeps ==
    ASSUME TurnsInv, NEW t \in Turns, GiveUp(t)
    PROVE  TurnsInv'
<1>1. store' = store /\ begun' = begun /\ overwritten' = overwritten /\ turn[t].pc # "none" /\ TurnGoto(t, "done")
      BY DEF GiveUp, titleVars
<1>2. /\ turn' \in [Turns -> Executions] /\ turn'[t].pc = "done"
      /\ \A u \in Turns : turn'[u].message = turn[u].message
      /\ \A u \in Turns \ {t} : turn'[u] = turn[u]
      BY <1>1, Goes DEF TurnsInv
<1>3. job' \in [Workers -> Messages \cup {NoJob}]
      BY Frees DEF GiveUp, TurnsInv
<1>4. /\ streamEnd' \in [Messages -> SUBSET {"complete", "error"}]
      /\ \A k \in Messages : "complete" \in streamEnd'[k] => "complete" \in streamEnd[k]
  <2>1. CASE turn[t].message = NoJob
        BY <2>1 DEF GiveUp, PublishFor, TurnsInv, TurnsType
  <2>2. CASE turn[t].message # NoJob
    <3>1. PublishEnd(turn[t].message, "error")
          BY <2>2 DEF GiveUp, PublishFor
    <3> QED BY <3>1, Publishes DEF TurnsInv
  <2> QED BY <2>1, <2>2
<1> QED BY <1>1, <1>2, <1>3, <1>4, Stays

LEMMA KilledKeeps ==
    ASSUME TurnsInv, NEW p \in Processes, Killed(p)
    PROVE  TurnsInv'
<1>1. store' = store /\ begun' = begun /\ overwritten' = overwritten /\ streamEnd' = streamEnd
      BY DEF Killed, titleVars
<1>2. job' \in [Workers -> Messages \cup {NoJob}]
      BY DEF Killed, TurnsInv, TurnsType
<1>3. turn' \in [Turns -> Executions]
      BY DEF Killed, TurnsInv, TurnsType, Executions
<1>4. \A u \in Turns : turn'[u].message = turn[u].message /\ turn'[u].pc \in {turn[u].pc, "done"}
      BY DEF Killed, TurnsInv, TurnsType, Executions
<1>5. \A u \in Turns : turn[u].pc = "none" => turn'[u].pc = "none"
      BY DEF Killed
<1> QED BY <1>1, <1>2, <1>3, <1>4, <1>5, Stays DEF TurnsInv, TurnsType

LEMMA ReadThreadKeeps ==
    ASSUME TurnsInv, NEW p, ReadThread(p)
    PROVE  TurnsInv'
<1>1. UNCHANGED <<store, overwritten, begun, turn, job, streamEnd>>
      BY DEF ReadThread
<1> QED BY <1>1, Stays DEF TurnsInv, TurnsType

LEMMA WriteThreadKeeps ==
    ASSUME TurnsInv, titling.answered \subseteq Turns, WriteThread
    PROVE  TurnsInv'
<1>1. /\ store' = [store EXCEPT !.answered = titling.answered]
      /\ overwritten' = overwritten \cup (store.answered \ titling.answered)
      /\ UNCHANGED <<begun, turn, job, streamEnd>>
      BY DEF WriteThread
<1>2. /\ store' \in Contents /\ store'.answered = titling.answered
      /\ store'.status = store.status /\ store'.retryable = store.retryable
      BY <1>1 DEF TurnsInv, TurnsType, Contents
<1>3. Kept \subseteq Kept'
      BY <1>1, <1>2 DEF Kept
<1>4. TurnsType'
      BY <1>1, <1>2 DEF TurnsInv, TurnsType
<1>5. \A u \in Turns : turn'[u].pc = "settled" => AtRest(store', u)
      BY <1>1, <1>2 DEF TurnsInv, AtRest
<1>6. \A m \in Messages : "complete" \in streamEnd'[m] => "complete" \in streamEnd[m]
      BY <1>1
<1> QED BY <1>1, <1>2, <1>3, <1>4, <1>5, <1>6, Advances

TitlingType == titling.answered \subseteq Turns

\* A process renames the thread with answers it has read.
LEMMA TitlingTypeStep ==
    ASSUME TurnsInv, TitlingType, [AssistantNext]_turnVars
    PROVE  TitlingType'
<1>1. titleVars' = titleVars \/ WriteThread \/ \E p \in Processes : ReadThread(p) \/ Killed(p)
  <2> USE DEF StreamMessage, CancelStream, CancelTurn, SendMessage, RetryTurn, Proceed, ClaimTurn, AppendAnswer, UpdateTurn,
              Token, GiveUp, Dequeue, StartJob, StartJobFails, ReapTurn, OtherRequest, turnVars
  <2> QED BY DEF AssistantNext
<1>2. CASE titleVars' = titleVars
      BY <1>2 DEF titleVars, TitlingType
<1>3. CASE WriteThread
      BY <1>3 DEF WriteThread, NotTitling, TitlingType
<1>4. ASSUME NEW p \in Processes, ReadThread(p) PROVE TitlingType'
      BY <1>4 DEF ReadThread, TitlingType, TurnsInv, TurnsType, Contents
<1>5. ASSUME NEW p \in Processes, Killed(p) PROVE TitlingType'
      BY <1>5 DEF Killed, NotTitling, TitlingType
<1> QED BY <1>1, <1>2, <1>3, <1>4, <1>5

JobsType == jobs \in Seq(Messages)

LEMMA JobsAreMessages == AssistantSpec => []JobsType
<1>1. AssistantInit => JobsType
      BY DEF AssistantInit, JobsType
<1>2. JobsType /\ [AssistantNext]_turnVars => JobsType'
  <2> SUFFICES ASSUME JobsType, [AssistantNext]_turnVars
               PROVE  jobs' = jobs \/ (jobs' = Tail(jobs) /\ jobs # <<>>)
                                   \/ \E m \in Messages : jobs' = Append(jobs, m)
      BY DEF JobsType
  <2> USE DEF StreamMessage, CancelStream, CancelTurn, SendMessage, RetryTurn, Proceed, ClaimTurn, AppendAnswer, UpdateTurn,
              Token, GiveUp, Dequeue, StartJob, StartJobFails, ReapTurn, OtherRequest, Killed, ReadThread,
              WriteThread, turnVars
  <2> QED BY DEF AssistantNext
<1> QED BY <1>1, <1>2, PTL DEF AssistantSpec

LEMMA TurnsInvStep ==
    ASSUME Backend = "postgres", JobsType, TitlingType, TurnsInv, [AssistantNext]_turnVars
    PROVE  TurnsInv'
<1> USE DEF Processes
<1>1. ASSUME NEW m \in Messages, StreamMessage(m) \/ CancelStream(m) PROVE TurnsInv'
  <2>1. store' = store /\ begun' = begun /\ overwritten' = overwritten /\ turn' = turn /\ job' = job
        BY <1>1 DEF StreamMessage, CancelStream, titleVars
  <2>2. /\ streamEnd' \in [Messages -> SUBSET {"complete", "error"}]
        /\ \A k \in Messages : "complete" \in streamEnd'[k] => "complete" \in streamEnd[k]
    <3>1. CASE UNCHANGED streamEnd
          BY <3>1 DEF TurnsInv, TurnsType
    <3>2. CASE PublishEnd(m, "error")
          BY <3>2, Publishes DEF TurnsInv
    <3> QED BY <1>1, <3>1, <3>2 DEF StreamMessage, CancelStream
  <2> QED BY <2>1, <2>2, Stays DEF TurnsInv, TurnsType
<1>2. ASSUME NEW m \in Messages, NEW t \in Turns, CancelTurn(m, t) PROVE TurnsInv'
      BY <1>2, CancelTurnKeeps
<1>3. ASSUME SendMessage \/ \E t \in Turns : RetryTurn(t) PROVE TurnsInv'
      BY <1>3, Starts DEF SendMessage, RetryTurn, titleVars
<1>4. ASSUME NEW t \in Turns, Proceed(t) \/ Token(t) \/ GiveUp(t) PROVE TurnsInv'
      BY <1>4, ClaimTurnKeeps, AppendAnswerKeeps, UpdateTurnKeeps, TokenKeeps, GiveUpKeeps DEF Proceed
<1>5. ASSUME NEW w \in Workers, Dequeue(w) PROVE TurnsInv'
  <2>1. store' = store /\ begun' = begun /\ overwritten' = overwritten /\ turn' = turn /\ streamEnd' = streamEnd
        BY <1>5 DEF Dequeue, titleVars
  <2>2. Head(jobs) \in Messages
        BY <1>5 DEF Dequeue, JobsType
  <2>3. job' \in [Workers -> Messages \cup {NoJob}]
        BY <1>5, <2>2 DEF Dequeue, TurnsInv, TurnsType
  <2> QED BY <2>1, <2>3, Stays DEF TurnsInv, TurnsType
<1>6. ASSUME NEW w \in Workers, StartJob(w) PROVE TurnsInv'
      BY <1>6, Starts DEF StartJob, titleVars, TurnsInv, TurnsType
<1>7. ASSUME NEW w \in Workers, StartJobFails(w) PROVE TurnsInv'
  <2>1. store' = store /\ begun' = begun /\ overwritten' = overwritten /\ turn' = turn /\ PublishEnd(job[w], "error")
        BY <1>7 DEF StartJobFails, titleVars
  <2>2. job' \in [Workers -> Messages \cup {NoJob}]
        BY <1>7 DEF StartJobFails, TurnsInv, TurnsType
  <2>3. /\ streamEnd' \in [Messages -> SUBSET {"complete", "error"}]
        /\ \A k \in Messages : "complete" \in streamEnd'[k] => "complete" \in streamEnd[k]
        BY <2>1, Publishes DEF TurnsInv
  <2> QED BY <2>1, <2>2, <2>3, Stays DEF TurnsInv, TurnsType
<1>8. ASSUME NEW w \in Workers, NEW t \in Turns, ReapTurn(w, t) PROVE TurnsInv'
      BY <1>8, ReapTurnKeeps
<1>9. CASE OtherRequest \/ UNCHANGED turnVars
  <2>1. store' = store /\ begun' = begun /\ overwritten' = overwritten /\ turn' = turn /\ job' = job /\ streamEnd' = streamEnd
        BY <1>9, Tables DEF OtherRequest, turnVars, titleVars
  <2> QED BY <2>1, Stays DEF TurnsInv, TurnsType
<1>10. ASSUME NEW p \in Processes, Killed(p) PROVE TurnsInv'
       BY <1>10, KilledKeeps
<1>11. ASSUME NEW p \in Processes, ReadThread(p) PROVE TurnsInv'
       BY <1>11, ReadThreadKeeps
<1>12. CASE WriteThread
       BY <1>12, WriteThreadKeeps DEF TitlingType
<1> QED BY <1>1, <1>2, <1>3, <1>4, <1>5, <1>6, <1>7, <1>8, <1>9, <1>10, <1>11, <1>12 DEF AssistantNext
-----------------------------------------------------------------------------
(* What the stream called complete and what is stored as completed has its answer in the store: of
   what a worker and the API do over a shared PostgreSQL, only a renaming that replaces the thread
   it read before takes an answer away. *)
THEOREM AnswersAreKeptAlways == Backend = "postgres" => (AssistantSpec => []AnswersAreKept)
<1> SUFFICES ASSUME Backend = "postgres" PROVE AssistantSpec => []AnswersAreKept
    OBVIOUS
<1>1. JobsType /\ TurnsInv /\ TitlingType /\ [AssistantNext]_turnVars => TurnsInv' /\ TitlingType'
      BY TurnsInvStep, TitlingTypeStep
<1>2. TurnsInv => AnswersAreKept
      BY DEF TurnsInv, TurnsType, AnswersAreKept, Executions, Kept
<1>3. AssistantInit => TitlingType
      BY DEF AssistantInit, TitlingType, NotTitling
<1> QED BY TurnsInvInit, JobsAreMessages, <1>1, <1>2, <1>3, PTL DEF AssistantSpec

(* A turn whose executor has answered it and settled it is never offered for a retry. *)
THEOREM AnsweredIsNotRetriedAlways == Backend = "postgres" => (AssistantSpec => []AnsweredIsNotRetried)
<1> SUFFICES ASSUME Backend = "postgres" PROVE AssistantSpec => []AnsweredIsNotRetried
    OBVIOUS
<1>1. JobsType /\ TurnsInv /\ TitlingType /\ [AssistantNext]_turnVars => TurnsInv' /\ TitlingType'
      BY TurnsInvStep, TitlingTypeStep
<1>2. TurnsInv => AnsweredIsNotRetried
      BY DEF TurnsInv, AtRest, AnsweredIsNotRetried
<1>3. AssistantInit => TitlingType
      BY DEF AssistantInit, TitlingType, NotTitling
<1> QED BY TurnsInvInit, JobsAreMessages, <1>1, <1>2, <1>3, PTL DEF AssistantSpec
-----------------------------------------------------------------------------
(* The actions. *)

Performing(c, i) == call[c].pc = "perform" /\ call[c].intent = i

(* An intent that may still be claimed has been neither performed nor claimed; a request that is
   about to perform one is the only one, and the first. *)
ActionsInv ==
    /\ call \in [Calls -> [pc : CallStates, intent : Intents]]
    /\ intentStatus \in [Intents -> IntentStatuses]
    /\ performed \in [Intents -> {0, 1}]
    /\ \A i \in Intents : intentStatus[i] \in {"none", "pending_confirmation"} =>
          performed[i] = 0 /\ \A c \in Calls : ~Performing(c, i)
    /\ \A i \in Intents, c \in Calls : Performing(c, i) => performed[i] = 0
    /\ \A i \in Intents, c, d \in Calls : Performing(c, i) /\ Performing(d, i) => c = d

LEMMA ActionsInvInit == ActionsInit => ActionsInv
  BY DEF ActionsInit, ActionsInv, Performing, CallStates, IntentStatuses

\* A request that goes anywhere but to its action leaves the others with theirs.
LEMMA GoesElsewhere ==
    ASSUME ActionsInv, NEW c \in Calls, NEW place \in CallStates \ {"perform"}, Go(c, place)
    PROVE  /\ call' \in [Calls -> [pc : CallStates, intent : Intents]]
           /\ \A i \in Intents, d \in Calls : Performing(d, i)' => Performing(d, i) /\ d # c
<1>1. call \in [Calls -> [pc : CallStates, intent : Intents]] /\ call' = [call EXCEPT ![c].pc = place]
      BY DEF ActionsInv, Go
<1>2. PICK was \in [pc : CallStates, intent : Intents] : was = call[c]
      BY <1>1
<1>3. [was EXCEPT !.pc = place] \in [pc : CallStates, intent : Intents] /\ [was EXCEPT !.pc = place].pc = place
      OBVIOUS
<1>4. /\ call' \in [Calls -> [pc : CallStates, intent : Intents]] /\ call'[c].pc = place
      /\ \A d \in Calls \ {c} : call'[d] = call[d]
      BY <1>1, <1>2, <1>3
<1> QED BY <1>4 DEF Performing

LEMMA ActionsInvStep == ActionsInv /\ [ActionsNext]_actionVars => ActionsInv'
<1> SUFFICES ASSUME ActionsInv, [ActionsNext]_actionVars PROVE ActionsInv'
    OBVIOUS
<1>1. ASSUME NEW i \in Intents, Preview(i) PROVE ActionsInv'
      BY <1>1 DEF Preview, ActionsInv, Performing, IntentStatuses
<1>2. ASSUME NEW c \in Calls, ConfirmAction(c) PROVE ActionsInv'
  <2>1. PICK place \in CallStates \ {"perform"} : Go(c, place)
        BY <1>2 DEF ConfirmAction, CallStates
  <2> QED BY <1>2, <2>1, GoesElsewhere DEF ConfirmAction, ActionsInv
<1>3. ASSUME NEW c \in Calls, RejectAction(c) PROVE ActionsInv'
  <2>1. PICK place \in CallStates \ {"perform"} : Go(c, place)
        BY <1>3 DEF RejectAction, CallStates
  <2> QED BY <1>3, <2>1, GoesElsewhere DEF RejectAction, ActionsInv
<1>4. ASSUME NEW c \in Calls, Claim(c) PROVE ActionsInv'
  <2>0. PICK i \in Intents : i = call[c].intent
        BY DEF ActionsInv
  <2>1. CASE intentStatus[i] = "pending_confirmation"
    <3>0. Go(c, "perform")
          BY <1>4, <2>0, <2>1 DEF Claim
    <3>1. /\ call' \in [Calls -> [pc : CallStates, intent : Intents]]
          /\ \A j \in Intents, d \in Calls : Performing(d, j)' => (d = c /\ j = i) \/ Performing(d, j)
          BY <2>0, <3>0 DEF Go, ActionsInv, Performing, CallStates
    <3>2. intentStatus' = [intentStatus EXCEPT ![i] = "executing"] /\ performed' = performed
          BY <1>4, <2>0, <2>1 DEF Claim
    <3>3. performed[i] = 0 /\ \A d \in Calls : ~Performing(d, i)
          BY <2>0, <2>1 DEF ActionsInv
    <3>4. intentStatus' \in [Intents -> IntentStatuses]
          BY <3>2 DEF ActionsInv, IntentStatuses
    <3>5. \A j \in Intents : intentStatus'[j] \in {"none", "pending_confirmation"} =>
              j # i /\ intentStatus'[j] = intentStatus[j]
          BY <2>0, <3>2 DEF ActionsInv
    <3> QED BY <2>0, <3>1, <3>2, <3>3, <3>4, <3>5 DEF ActionsInv
  <2>2. CASE intentStatus[i] # "pending_confirmation"
        BY <1>4, <2>0, <2>2, GoesElsewhere DEF Claim, ActionsInv, CallStates
  <2> QED BY <2>1, <2>2
<1>5. ASSUME NEW c \in Calls, Perform(c) PROVE ActionsInv'
  <2>0. PICK i \in Intents : i = call[c].intent /\ Performing(c, i)
        BY <1>5 DEF ActionsInv, Perform, Performing
  <2>1. PICK place \in {"completed", "failed", "answered"} : Go(c, place)
        BY <1>5 DEF Perform
  <2>2. /\ call' \in [Calls -> [pc : CallStates, intent : Intents]]
        /\ \A j \in Intents, d \in Calls : Performing(d, j)' => Performing(d, j) /\ d # c
        BY <2>1, GoesElsewhere DEF CallStates
  <2>3. performed' = performed \/ performed' = [performed EXCEPT ![i] = @ + 1]
        BY <1>5, <2>0 DEF Perform
  <2>4. performed[i] = 0 /\ intentStatus[i] \notin {"none", "pending_confirmation"}
        BY <2>0 DEF ActionsInv
  <2>5. /\ performed' \in [Intents -> {0, 1}]
        /\ \A j \in Intents : j # i => performed'[j] = performed[j]
        BY <2>0, <2>3, <2>4 DEF ActionsInv
  <2>6. \A d \in Calls : ~Performing(d, i)'
        BY <2>0, <2>2 DEF ActionsInv
  <2>7. intentStatus' = intentStatus
        BY <1>5 DEF Perform
  <2> QED BY <2>0, <2>2, <2>4, <2>5, <2>6, <2>7 DEF ActionsInv
<1>6. ASSUME NEW c \in Calls, UpdateIntent(c) PROVE ActionsInv'
  <2>1. intentStatus' \in [Intents -> IntentStatuses] /\ performed' = performed
        BY <1>6 DEF UpdateIntent, ActionsInv, IntentStatuses
  <2>2. \A i \in Intents : intentStatus'[i] \in {"none", "pending_confirmation"} =>
            intentStatus[i] \in {"none", "pending_confirmation"}
        BY <1>6 DEF UpdateIntent, ActionsInv
  <2> QED BY <1>6, <2>1, <2>2, GoesElsewhere DEF UpdateIntent, ActionsInv, CallStates
<1>7. ASSUME NEW c \in Calls, CallLost(c) PROVE ActionsInv'
      BY <1>7, GoesElsewhere DEF CallLost, ActionsInv, CallStates
<1>8. CASE UNCHANGED actionVars
      BY <1>8 DEF actionVars, ActionsInv, Performing
<1> QED BY <1>1, <1>2, <1>3, <1>4, <1>5, <1>6, <1>7, <1>8 DEF ActionsNext

\* No action is performed twice, however many requests confirm and reject it at however many
\* replicas: the claim is one statement that only a pending intent passes.
THEOREM PerformedOnceAlways == ActionsSpec => []PerformedOnce
<1>1. ActionsInv => PerformedOnce
  <2> SUFFICES ASSUME ActionsInv, NEW i \in Intents PROVE performed[i] <= 1
      BY DEF PerformedOnce
  <2>1. performed[i] = 0 \/ performed[i] = 1
        BY DEF ActionsInv
  <2> QED BY <2>1
<1> QED BY <1>1, ActionsInvInit, ActionsInvStep, PTL DEF ActionsSpec

-----------------------------------------------------------------------------
(* The runtime processor, for every topic, batch size, setting and run of faults.  Below its
   position a process that is not ending finds every record committed, buffered or undecodable,
   and the batch it is about to commit has been answered for by Kafka and stored; what it keeps
   of a stream is what the stream's records make it. *)
\* Kafka has taken or refused the derived event of a record.
Answered(o) == Acknowledged(o) \/ Refused(o)

\* The records the process has derived events of and has not committed.
Buffered == {d[1] : d \in Batch}

\* Every record below the limit that can be decoded is committed or buffered.
Covered(limit) ==
    \A o \in 0..limit - 1 : Record(o).level = Poison \/ o < committed \/ o \in Buffered

\* The part of TypeOK the argument needs.
ProcessorType ==
    /\ instance \in Instances
    /\ position \in 0..Len(topic) /\ committed \in 0..position
    /\ queue \subseteq Derived
    /\ pc \in {"poll", "deliver", "insert", "commit", "close", "down"} /\ ending \in BOOLEAN
    /\ buffer \in Seq(Derived)

BufferInOrder ==
    /\ \A o \in Buffered : o < position
    /\ buffer # <<>> =>
          /\ \A o \in Buffered : o <= Last(buffer)[1]
          /\ committed <= Last(buffer)[1] + 1
          /\ Covered(Last(buffer)[1] + 1)
    /\ pc # "down" /\ ~ending => Covered(position)
    /\ pc = "poll" => ~ending

\* What the place control has reached says of the batch.
BatchInHand ==
    /\ pc = "down" => buffer = <<>>
    /\ pc \in {"deliver", "insert", "commit"} => buffer # <<>>
    /\ Batch \subseteq queue \cup delivered \cup failed
    /\ pc \in {"insert", "commit"} => Batch \subseteq delivered \cup failed
    /\ pc = "commit" /\ instance.persist => \A o \in Buffered : Stored(o)

RuntimeInv == ProcessorType /\ BufferInOrder /\ BatchInHand /\ CommittedIsProcessed

-----------------------------------------------------------------------------
(* Lemmas.                                                                 *)

LEMMA TopicType ==
    ASSUME instance \in Instances
    PROVE  /\ topic \in Seq([stream : Streams, level : Levels \cup {Poison}])
           /\ Len(topic) \in Nat
<1>1. instance.topic \in Seq([stream : Streams, level : Levels \cup {Poison}])
    BY ProcessorAssumption
<1> QED BY <1>1 DEF topic

\* The last derived event of a batch is one of the batch, and its offset a number.
LEMMA LastOfBatch ==
    ASSUME ProcessorType, buffer # <<>>
    PROVE  Last(buffer) \in Batch /\ Last(buffer)[1] \in Buffered /\ Last(buffer)[1] \in Nat
<1>1. Len(buffer) \in DOMAIN buffer /\ buffer[Len(buffer)] \in Derived
    BY DEF ProcessorType
<1>2. Last(buffer) = buffer[Len(buffer)]
    BY DEF Last
<1>3. Last(buffer)[1] \in Nat
    <2>1. Offsets \subseteq Nat
        BY TopicType DEF Offsets, ProcessorType
    <2> QED BY <1>1, <1>2, <2>1 DEF Derived
<1> QED BY <1>1, <1>2, <1>3 DEF Batch, ToSet, Buffered

LEMMA BufferedType ==
    ASSUME ProcessorType
    PROVE  Buffered \subseteq Nat /\ Offsets \subseteq Nat /\ Len(topic) \in Nat
<1>1. Len(topic) \in Nat /\ Offsets \subseteq Nat
    BY TopicType DEF ProcessorType, Offsets
<1>2. Batch \subseteq Derived
    BY DEF ProcessorType, Batch, ToSet
<1> QED BY <1>1, <1>2 DEF Buffered, Derived

\* Nothing the sinks or the broker have is taken back.
LEMMA ProcessedKept ==
    ASSUME NEW limit, \A o \in 0..limit - 1 : Record(o).level # Poison => Answered(o) /\ (instance.persist => Stored(o)),
           UNCHANGED instance, committed' = limit,
           delivered \subseteq delivered', failed \subseteq failed', stored \subseteq stored'
    PROVE  CommittedIsProcessed'
<1>1. \A o : Record(o)' = Record(o)
    BY DEF Record, topic
<1>2. \A o : Answered(o) => Answered(o)'
    BY DEF Answered, Acknowledged, Refused
<1>3. \A o : Stored(o) => Stored(o)'
    BY DEF Stored
<1>4. \A o \in 0..committed' - 1 :
            Record(o)'.level # Poison => Answered(o)' /\ (instance'.persist => Stored(o)')
    BY <1>1, <1>2, <1>3
<1> QED BY <1>4 DEF CommittedIsProcessed, Answered

\* A step that leaves the batch and the committed offset alone, wherever control goes, as long
\* as what the new place says of the batch is true.
LEMMA SameBatch ==
    ASSUME RuntimeInv,
           UNCHANGED <<instance, committed, buffer>>,
           position' = position \/ (position' = position + 1 /\ position < Len(topic) /\ ending'),
           delivered \subseteq delivered', failed \subseteq failed', stored \subseteq stored',
           queue' \subseteq Derived, Batch \subseteq queue' \cup delivered' \cup failed',
           pc # "down", pc' \in {"poll", "deliver", "insert", "commit", "close"},
           ending' \in BOOLEAN, ending => ending', pc' = "poll" => ~ending',
           pc' \in {"deliver", "insert", "commit"} => buffer # <<>>,
           pc' \in {"insert", "commit"} => Batch \subseteq delivered' \cup failed',
           pc' = "commit" /\ instance.persist => \A o \in Buffered : \E d \in stored' : d[1] = o
    PROVE  RuntimeInv'
<1>1. ProcessorType /\ BufferInOrder /\ BatchInHand /\ CommittedIsProcessed
    BY DEF RuntimeInv
<1>2. Batch' = Batch /\ Buffered' = Buffered /\ topic' = topic
    BY DEF Batch, Buffered, topic
<1>3. position' \in 0..Len(topic) /\ position' >= position /\ position \in Nat
    BY <1>1, BufferedType DEF ProcessorType
<1>4. ProcessorType'
    BY <1>1, <1>2, <1>3 DEF ProcessorType, Derived, Offsets
<1>6. BufferInOrder'
    <2>1. \A o \in Buffered' : o < position'
        BY <1>1, <1>2, <1>3, BufferedType DEF BufferInOrder
    <2>2. ASSUME buffer' # <<>>
          PROVE  /\ \A o \in Buffered' : o <= Last(buffer')[1]
                 /\ committed' <= Last(buffer')[1] + 1
                 /\ Covered(Last(buffer)[1] + 1)'
        BY <1>1, <1>2, <2>2 DEF BufferInOrder, Covered, Record
    <2>3. ASSUME ~ending' PROVE Covered(position)'
        <3>1. position' = position /\ ~ending
            BY <2>3, <1>1 DEF ProcessorType
        <3>2. Covered(position)
            BY <1>1, <3>1 DEF BufferInOrder
        <3> QED BY <1>2, <3>1, <3>2 DEF Covered, Record
    <2> QED BY <2>1, <2>2, <2>3 DEF BufferInOrder
<1>7. BatchInHand'
    BY <1>1, <1>2 DEF BatchInHand, Stored
<1>8. CommittedIsProcessed'
    BY <1>1, ProcessedKept DEF CommittedIsProcessed, Answered
<1> QED BY <1>4, <1>6, <1>7, <1>8 DEF RuntimeInv

\* Raising leads to the finally block, and from there to its end.
LEMMA RaiseShape ==
    ASSUME ProcessorType, Raise
    PROVE  /\ ending' = TRUE /\ pc' \in {"deliver", "close"}
           /\ pc' = "deliver" => buffer # <<>>
BY DEF Raise, Finally, ProcessorType

-----------------------------------------------------------------------------
(* The steps.                                                              *)

LEMMA InitInv == Init => RuntimeInv
<1> SUFFICES ASSUME Init PROVE RuntimeInv
    OBVIOUS
<1>1. Batch = {} /\ Buffered = {}
    BY DEF Init, Batch, ToSet, Buffered
<1>2. ProcessorType
    <2>1. instance \in Instances /\ Len(topic) \in Nat
        BY TopicType DEF Init
    <2>2. <<>> \in Seq(Derived)
        OBVIOUS
    <2>3. position \in 0..Len(topic) /\ committed \in 0..position
        BY <2>1 DEF Init
    <2>4. queue \subseteq Derived /\ buffer \in Seq(Derived) /\ pc = "down" /\ ending = FALSE
        BY <2>2 DEF Init
    <2> QED BY <2>1, <2>3, <2>4 DEF ProcessorType
<1>3. BufferInOrder /\ BatchInHand /\ CommittedIsProcessed
    BY <1>1 DEF Init, BufferInOrder, BatchInHand, CommittedIsProcessed
<1> QED BY <1>2, <1>3 DEF RuntimeInv

LEMMA StartInv ==
    ASSUME RuntimeInv, Start
    PROVE  RuntimeInv'
<1>1. ProcessorType /\ BatchInHand /\ CommittedIsProcessed
    BY DEF RuntimeInv
<1>2. /\ pc = "down" /\ pc' = "poll" /\ ending' = FALSE /\ position' = committed
      /\ UNCHANGED <<instance, committed, delivered, failed, stored, queue, buffer>>
    BY DEF Start, kafka
<1>3. buffer' = <<>>
    BY <1>1, <1>2 DEF BatchInHand
<1>4. Batch' = {} /\ Buffered' = {} /\ topic' = topic
    BY <1>2, <1>3 DEF Batch, ToSet, Buffered, topic
<1>5. committed \in 0..Len(topic) /\ committed \in 0..committed
    BY <1>1, BufferedType DEF ProcessorType
<1>6. ProcessorType'
    BY <1>1, <1>2, <1>4, <1>5 DEF ProcessorType, Derived, Offsets
<1>7. Covered(position)'
    BY <1>2, <1>5 DEF Covered
<1>8. BufferInOrder' /\ BatchInHand'
    BY <1>2, <1>3, <1>4, <1>7 DEF BufferInOrder, BatchInHand
<1>9. CommittedIsProcessed'
    BY <1>1, <1>2, ProcessedKept DEF CommittedIsProcessed, Answered
<1> QED BY <1>6, <1>8, <1>9 DEF RuntimeInv

LEMMA ProcessInv ==
    ASSUME RuntimeInv, Process
    PROVE  RuntimeInv'
<1>1. ProcessorType /\ BufferInOrder /\ BatchInHand /\ CommittedIsProcessed
    BY DEF RuntimeInv
<1>2. /\ pc = "poll" /\ position < Len(topic) /\ position' = position + 1
      /\ UNCHANGED <<instance, committed, delivered, failed, stored, ending>>
      /\ pc' \in {"deliver", "poll"}
    BY DEF Process, kafka
<1>3. PICK severity \in Severities :
         /\ queue' = queue \cup {<<position, severity>>}
         /\ buffer' = Append(buffer, <<position, severity>>)
    BY DEF Process
<1> DEFINE new == <<position, severity>>
<1>4. new \in Derived /\ position \in Nat /\ position' \in 0..Len(topic) /\ position \in 0..Len(topic)
    BY <1>1, <1>2, BufferedType DEF ProcessorType, Derived, Offsets
<1>5. /\ buffer' \in Seq(Derived) /\ buffer' # <<>>
      /\ Last(buffer') = new
      /\ Batch' = Batch \cup {new} /\ Buffered' = Buffered \cup {position}
    <2>1. /\ buffer \in Seq(Derived) /\ buffer' \in Seq(Derived)
          /\ Len(buffer') = Len(buffer) + 1 /\ Len(buffer) \in Nat
          /\ \A i \in 1..Len(buffer) : buffer'[i] = buffer[i]
          /\ buffer'[Len(buffer) + 1] = new
        BY <1>1, <1>3, <1>4 DEF ProcessorType
    <2>2. DOMAIN buffer' = DOMAIN buffer \cup {Len(buffer) + 1} /\ DOMAIN buffer = 1..Len(buffer)
        BY <2>1
    <2>3. Batch' = Batch \cup {new}
        BY <2>1, <2>2 DEF Batch, ToSet
    <2>4. Last(buffer') = new /\ buffer' # <<>>
        BY <2>1 DEF Last
    <2>5. Buffered' = Buffered \cup {position}
        <3>1. new[1] = position
            OBVIOUS
        <3> HIDE DEF new
        <3> QED BY <2>3, <3>1 DEF Buffered
    <2> QED BY <2>1, <2>3, <2>4, <2>5
<1>6. topic' = topic /\ \A o : Record(o)' = Record(o)
    BY <1>2 DEF topic, Record
<1>7. ProcessorType'
    BY <1>1, <1>2, <1>3, <1>4, <1>5, <1>6 DEF ProcessorType, Derived, Offsets
<1>8. BufferInOrder'
    <2>1. Buffered \subseteq Nat /\ \A o \in Buffered : o < position
        BY <1>1, BufferedType DEF BufferInOrder
    <2>2. Last(buffer')[1] = position
        BY <1>5
    <2>3. ~ending
        BY <1>1, <1>2 DEF BufferInOrder
    <2>4. Covered(position)
        BY <1>1, <1>2, <2>3 DEF BufferInOrder
    <2>5. Covered(Last(buffer)[1] + 1)' /\ Covered(position)'
        BY <2>2, <2>4, <1>2, <1>4, <1>5, <1>6 DEF Covered
    <2>6. committed <= position
        BY <1>1 DEF ProcessorType
    <2>7. \A o \in Buffered' : o < position' /\ o <= Last(buffer')[1]
        BY <1>2, <1>4, <1>5, <2>1, <2>2
    <2>8. committed' <= Last(buffer')[1] + 1
        <3>1. committed \in Nat /\ committed <= position + 1
            BY <1>1, <1>4, <2>6 DEF ProcessorType
        <3> QED BY <1>2, <2>2, <3>1
    <2>9. ~ending'
        BY <1>2, <2>3
    <2> QED BY <2>5, <2>7, <2>8, <2>9 DEF BufferInOrder
<1>9. BatchInHand'
    <2>1. pc' \notin {"down", "insert", "commit"}
        BY <1>2
    <2>2. Batch' \subseteq queue' \cup delivered' \cup failed'
        BY <1>1, <1>2, <1>3, <1>5 DEF BatchInHand
    <2> QED BY <1>5, <2>1, <2>2 DEF BatchInHand
<1>10. CommittedIsProcessed'
    BY <1>1, <1>2, ProcessedKept DEF CommittedIsProcessed, Answered
<1> QED BY <1>7, <1>8, <1>9, <1>10 DEF RuntimeInv

LEMMA LoopInv ==
    ASSUME RuntimeInv, ProcessRaises \/ FlushIdle \/ Stop
    PROVE  RuntimeInv'
<1>1. ProcessorType /\ BatchInHand
    BY DEF RuntimeInv
<1>2. /\ pc = "poll"
      /\ UNCHANGED <<instance, committed, delivered, failed, stored, queue, buffer>>
    BY DEF ProcessRaises, FlushIdle, Stop, kafka
<1>3. CASE FlushIdle
    BY <1>1, <1>2, <1>3, SameBatch DEF FlushIdle, ProcessorType, BatchInHand
<1>4. CASE ProcessRaises \/ Stop
    <2>1. Finally(buffer) /\ (position' = position \/ (position' = position + 1 /\ position < Len(topic)))
        BY <1>4 DEF ProcessRaises, Stop
    <2>2. ending' = TRUE /\ pc' \in {"deliver", "close"} /\ (pc' = "deliver" => buffer # <<>>)
        BY <2>1 DEF Finally
    <2> QED BY <1>1, <1>2, <2>1, <2>2, SameBatch DEF ProcessorType, BatchInHand
<1> QED BY <1>3, <1>4

LEMMA FlushInv ==
    ASSUME RuntimeInv, EnsureDelivery \/ DeliveryIncomplete \/ InsertProcessed \/ InsertRejected
    PROVE  RuntimeInv'
<1>1. ProcessorType /\ BatchInHand
    BY DEF RuntimeInv
<1>2. /\ pc \in {"deliver", "insert"} /\ buffer # <<>>
      /\ UNCHANGED <<instance, committed, delivered, failed, position, queue, buffer>>
      /\ stored \subseteq stored'
    BY <1>1 DEF EnsureDelivery, DeliveryIncomplete, InsertProcessed, InsertRejected, kafka,
                BatchInHand, Insert
<1>3. CASE EnsureDelivery
    BY <1>1, <1>2, <1>3, SameBatch DEF EnsureDelivery, ProcessorType, BatchInHand
<1>4. CASE InsertProcessed
    <2>1. pc = "insert" /\ pc' = "commit" /\ ending' = ending /\ Batch \subseteq delivered \cup failed
        BY <1>1, <1>4 DEF InsertProcessed, BatchInHand
    <2>2. \A o \in Buffered : \E d \in stored' : d[1] = o
        <3> SUFFICES ASSUME NEW e \in Batch PROVE \E d \in stored' : d[1] = e[1]
            BY DEF Buffered
        <3> QED BY <1>4 DEF InsertProcessed, Insert
    <2> QED BY <1>1, <1>2, <2>1, <2>2, SameBatch DEF ProcessorType, BatchInHand
<1>5. CASE DeliveryIncomplete \/ InsertRejected
    <2>1. Raise
        BY <1>5 DEF DeliveryIncomplete, InsertRejected
    <2> QED BY <1>1, <1>2, <2>1, RaiseShape, SameBatch DEF ProcessorType, BatchInHand
<1> QED BY <1>3, <1>4, <1>5

\* The batch may be committed: all of it and all below it is processed.
LEMMA CommitShape ==
    ASSUME RuntimeInv, pc = "commit", NEW limit, limit = Last(buffer)[1] + 1
    PROVE  /\ limit \in Nat /\ limit <= position /\ committed <= limit
           /\ \A o \in Buffered : o < limit
           /\ \A o \in 0..limit - 1 :
                 Record(o).level # Poison => Answered(o) /\ (instance.persist => Stored(o))
<1>1. ProcessorType /\ BufferInOrder /\ BatchInHand /\ CommittedIsProcessed
    BY DEF RuntimeInv
<1>2. buffer # <<>>
    BY <1>1 DEF BatchInHand
<1>3. /\ Last(buffer)[1] \in Buffered /\ Last(buffer)[1] \in Nat
      /\ position \in Nat /\ committed \in Nat /\ Buffered \subseteq Nat
    BY <1>1, <1>2, LastOfBatch, BufferedType DEF ProcessorType
<1>4. /\ \A o \in Buffered : o < position /\ o <= Last(buffer)[1]
      /\ committed <= limit /\ Covered(limit)
    BY <1>1, <1>2 DEF BufferInOrder
<1>5. ASSUME NEW o \in 0..limit - 1, Record(o).level # Poison
      PROVE  Answered(o) /\ (instance.persist => Stored(o))
    <2>1. o < committed \/ o \in Buffered
        BY <1>4, <1>5 DEF Covered
    <2>2. CASE o < committed
        <3>1. o \in 0..committed - 1
            BY <1>3, <2>2
        <3> QED BY <1>1, <1>5, <3>1 DEF CommittedIsProcessed, Answered
    <2>3. CASE o \in Buffered
        <3>1. Answered(o)
            BY <1>1, <2>3 DEF BatchInHand, Buffered, Answered, Acknowledged, Refused
        <3>2. instance.persist => Stored(o)
            BY <1>1, <2>3 DEF BatchInHand
        <3> QED BY <3>1, <3>2
    <2> QED BY <2>1, <2>2, <2>3
<1> QED BY <1>3, <1>4, <1>5

LEMMA CommitOffsetsInv ==
    ASSUME RuntimeInv, CommitOffsets
    PROVE  RuntimeInv'
<1>1. ProcessorType /\ BufferInOrder /\ BatchInHand /\ CommittedIsProcessed
    BY DEF RuntimeInv
<1> DEFINE limit == Last(buffer)[1] + 1
<1>2. /\ pc = "commit" /\ committed' = limit /\ buffer' = <<>>
      /\ pc' = IF ending THEN "close" ELSE "poll"
      /\ UNCHANGED <<instance, delivered, failed, stored, ending, position, queue>>
    BY DEF CommitOffsets
<1>3. /\ limit \in Nat /\ limit <= position /\ committed <= limit
      /\ \A o \in Buffered : o < limit
      /\ \A o \in 0..limit - 1 :
            Record(o).level # Poison => Answered(o) /\ (instance.persist => Stored(o))
    BY <1>2, CommitShape
<1> HIDE DEF limit
<1>4. Batch' = {} /\ Buffered' = {} /\ topic' = topic /\ \A o : Record(o)' = Record(o)
    BY <1>2 DEF Batch, ToSet, Buffered, topic, Record
<1>5. position \in Nat /\ limit \in 0..position /\ committed \in Nat
    BY <1>1, <1>3, BufferedType DEF ProcessorType
<1>6. ProcessorType'
    BY <1>1, <1>2, <1>4, <1>5 DEF ProcessorType, Derived, Offsets
<1>7. ~ending => Covered(position)'
    <2> SUFFICES ASSUME ~ending PROVE Covered(position)'
        OBVIOUS
    <2>1. Covered(position)
        BY <1>1, <1>2 DEF BufferInOrder
    <2> QED BY <1>2, <1>3, <1>4, <1>5, <2>1 DEF Covered
<1>8. BufferInOrder' /\ BatchInHand'
    BY <1>1, <1>2, <1>4, <1>7 DEF BufferInOrder, BatchInHand, ProcessorType
<1>9. CommittedIsProcessed'
    BY <1>2, <1>3, ProcessedKept
<1> QED BY <1>6, <1>8, <1>9 DEF RuntimeInv

\* The broker may have taken the commit whose answer was lost.
LEMMA CommitFailsInv ==
    ASSUME RuntimeInv, CommitFails
    PROVE  RuntimeInv'
<1>1. ProcessorType /\ BufferInOrder /\ BatchInHand /\ CommittedIsProcessed
    BY DEF RuntimeInv
<1> DEFINE limit == Last(buffer)[1] + 1
<1>2. /\ pc = "commit" /\ committed' \in {committed, limit} /\ Raise
      /\ UNCHANGED <<instance, delivered, failed, stored, position, queue, buffer>>
    BY DEF CommitFails
<1>3. ending' = TRUE /\ pc' \in {"deliver", "close"} /\ (pc' = "deliver" => buffer # <<>>)
    BY <1>1, <1>2, RaiseShape
<1>4. CASE committed' = committed
    BY <1>1, <1>2, <1>3, <1>4, SameBatch DEF ProcessorType, BatchInHand
<1>5. CASE committed' = limit
    <2>1. /\ limit \in Nat /\ limit <= position /\ committed <= limit
          /\ \A o \in 0..limit - 1 :
                Record(o).level # Poison => Answered(o) /\ (instance.persist => Stored(o))
        BY <1>2, CommitShape
    <2>2. Batch' = Batch /\ Buffered' = Buffered /\ topic' = topic
        BY <1>2 DEF Batch, Buffered, topic
    <2>3. limit \in 0..position
        BY <1>1, <2>1, BufferedType DEF ProcessorType
    <2>4. ProcessorType'
        BY <1>1, <1>2, <1>3, <1>5, <2>2, <2>3 DEF ProcessorType, Derived, Offsets
    <2>5. Covered(Last(buffer)[1] + 1)'
        BY <1>2, <1>5, <2>1 DEF Covered
    <2>6. BufferInOrder'
        <3>1. buffer' # <<>> => \A o \in Buffered' : o <= Last(buffer')[1]
            BY <1>1, <1>2, <2>2 DEF BufferInOrder
        <3>2. \A o \in Buffered' : o < position'
            BY <1>1, <1>2, <2>2 DEF BufferInOrder
        <3> QED BY <1>2, <1>3, <1>5, <2>1, <2>5, <3>1, <3>2 DEF BufferInOrder
    <2>7. BatchInHand'
        BY <1>1, <1>2, <1>3, <2>2 DEF BatchInHand
    <2>8. CommittedIsProcessed'
        BY <1>2, <1>5, <2>1, ProcessedKept
    <2> QED BY <2>4, <2>6, <2>7, <2>8 DEF RuntimeInv
<1> QED BY <1>2, <1>4, <1>5

LEMMA ExitInv ==
    ASSUME RuntimeInv, Exit
    PROVE  RuntimeInv'
<1>1. ProcessorType /\ CommittedIsProcessed
    BY DEF RuntimeInv
<1>2. /\ pc' = "down" /\ ending' = FALSE /\ queue' = {} /\ buffer' = <<>>
      /\ UNCHANGED <<instance, committed, delivered, failed, stored, position>>
    BY DEF Exit, kafka
<1>3. Batch' = {} /\ Buffered' = {} /\ topic' = topic
    BY <1>2 DEF Batch, ToSet, Buffered, topic
<1>4. ProcessorType'
    <2>1. <<>> \in Seq(Derived)
        OBVIOUS
    <2> QED BY <1>1, <1>2, <1>3, <2>1 DEF ProcessorType, Derived, Offsets
<1>5. BufferInOrder' /\ BatchInHand'
    BY <1>2, <1>3 DEF BufferInOrder, BatchInHand
<1>6. CommittedIsProcessed'
    BY <1>1, <1>2, ProcessedKept DEF CommittedIsProcessed, Answered
<1> QED BY <1>4, <1>5, <1>6 DEF RuntimeInv

LEMMA DeliverInv ==
    ASSUME RuntimeInv, Deliver
    PROVE  RuntimeInv'
<1>1. ProcessorType /\ BatchInHand
    BY DEF RuntimeInv
<1>2. PICK d \in queue :
         /\ queue' = queue \ {d}
         /\ \/ delivered' = delivered \cup {d} /\ UNCHANGED failed
            \/ failed' = failed \cup {d} /\ UNCHANGED delivered
         /\ UNCHANGED <<instance, committed, stored, pc, ending, position, buffer>>
    BY DEF Deliver
<1>3. /\ delivered \subseteq delivered' /\ failed \subseteq failed' /\ queue' \subseteq Derived
      /\ Batch \subseteq queue' \cup delivered' \cup failed'
    BY <1>1, <1>2 DEF ProcessorType, BatchInHand
<1>4. CASE pc # "down"
    <2>1. RuntimeInv => (pc = "poll" => ~ending)
        BY DEF RuntimeInv, BufferInOrder
    <2> QED BY <1>1, <1>2, <1>3, <1>4, <2>1, SameBatch DEF ProcessorType, BatchInHand, Stored
<1>5. CASE pc = "down"
    <2>1. ProcessorType /\ BufferInOrder /\ CommittedIsProcessed /\ buffer = <<>>
        BY <1>1, <1>5 DEF RuntimeInv, BatchInHand
    <2>2. Batch' = Batch /\ Buffered' = Buffered /\ topic' = topic
        BY <1>2 DEF Batch, Buffered, topic
    <2>3. ProcessorType'
        BY <1>2, <1>3, <2>1, <2>2 DEF ProcessorType, Derived, Offsets
    <2>4. BufferInOrder' /\ BatchInHand'
        BY <1>2, <1>3, <1>5, <2>1, <2>2 DEF BufferInOrder, BatchInHand
    <2>5. CommittedIsProcessed'
        BY <1>2, <1>3, <2>1, ProcessedKept DEF CommittedIsProcessed, Answered
    <2> QED BY <2>3, <2>4, <2>5 DEF RuntimeInv
<1> QED BY <1>4, <1>5

LEMMA StutterInv ==
    ASSUME RuntimeInv, UNCHANGED vars
    PROVE  RuntimeInv'
BY DEF vars, kafka, RuntimeInv, ProcessorType, BufferInOrder, BatchInHand, CommittedIsProcessed,
       Covered, Buffered, Batch, Record, topic, Acknowledged, Refused, Stored, Derived, Offsets

LEMMA NextInv == RuntimeInv /\ [Next]_vars => RuntimeInv'
<1> SUFFICES ASSUME RuntimeInv, [Next]_vars PROVE RuntimeInv'
    OBVIOUS
<1>1. CASE UNCHANGED vars
    BY <1>1, StutterInv
<1>2. CASE Start \/ Process
    BY <1>2, StartInv, ProcessInv
<1>3. CASE ProcessRaises \/ FlushIdle \/ Stop
    BY <1>3, LoopInv
<1>4. CASE EnsureDelivery \/ DeliveryIncomplete \/ InsertProcessed \/ InsertRejected
    BY <1>4, FlushInv
<1>5. CASE CommitOffsets \/ CommitFails
    BY <1>5, CommitOffsetsInv, CommitFailsInv
<1>6. CASE Close \/ Crash
    BY <1>6, ExitInv DEF Close, Crash
<1>7. CASE Deliver
    BY <1>7, DeliverInv
<1> QED BY <1>1, <1>2, <1>3, <1>4, <1>5, <1>6, <1>7 DEF Next

-----------------------------------------------------------------------------
(* Every record below the committed offset has a derived event that Kafka  *)
(* has acknowledged, or refused unbeknown to the processor, and, when the  *)
(* processor persists, a row in the historian, whatever else fails in a    *)
(* flush and wherever the process ends.                                    *)
THEOREM CommittedIsProcessedAlways == Spec => []CommittedIsProcessed
<1>1. RuntimeInv => CommittedIsProcessed
    BY DEF RuntimeInv
<1> QED BY InitInv, NextInv, <1>1, PTL DEF Spec
-----------------------------------------------------------------------------
(* What is kept of each stream.  Between two records of a stream its       *)
(* threshold state says since when the value has been at a level it has    *)
(* not changed to yet, and a level the value has been at since some record *)
(* is its severity or the one that state waits for.                        *)

Entry == [offset : Nat, level : Levels, at : Nat, severity : Severities]
ThresholdState == [severity : Severities, candidate : Severities \cup {None}, since : Nat]

Before(t) == IF t = <<>> THEN "normal" ELSE t[Len(t)].severity

Follows(t, state) ==
    /\ state.severity = Before(t)
    /\ state.candidate # None =>
          \E i \in 1..Len(t) : /\ t[i].at = state.since
                               /\ \A j \in i..Len(t) : t[j].level = state.candidate
    /\ \A i \in 1..Len(t), v \in Severities :
          (\A j \in i..Len(t) : t[j].level = v) =>
              state.severity = v \/ (state.candidate = v /\ state.since <= t[i].at)

\* SeverityFollowsTheSignal and WindowIsRecent of one stream.
SignalFollowed(t) ==
    \A n \in DOMAIN t :
        LET before == IF n = 1 THEN "normal" ELSE t[n - 1].severity
        IN  /\ t[n].severity # before => \E i \in 1..n : Sustained(t, i, n, t[n].severity)
            /\ \A i \in 1..n, s \in Severities : Sustained(t, i, n, s) => t[n].severity = s

LastOnes(all) == SubSeq(all, IF Len(all) > WindowLimit THEN Len(all) - WindowLimit + 1 ELSE 1, Len(all))

StreamInv(k) ==
    /\ trace[k] \in Seq(Entry)
    /\ \A j \in 1..Len(trace[k]) : trace[k][j].at <= clock
    /\ runtime[k] \in ThresholdState /\ runtime[k].since <= clock
    /\ Follows(trace[k], runtime[k]) /\ SignalFollowed(trace[k])
    /\ windows[k] = LastOnes([i \in DOMAIN trace[k] |-> trace[k][i].offset])

StreamsInv ==
    /\ instance \in Instances /\ position \in Nat /\ clock \in Nat
    /\ DOMAIN windows = DOMAIN trace /\ DOMAIN runtime = DOMAIN trace /\ DOMAIN lastSeen = DOMAIN trace
    /\ \A k \in DOMAIN trace : StreamInv(k)

LEMMA Delays ==
    /\ OnDelay \in Nat /\ OffDelay \in Nat /\ WindowLimit \in Nat /\ WindowLimit > 0
    /\ None \notin Severities /\ \A v : Delay(v) \in Nat
BY ProcessorAssumption DEF Delay

\* A record lasts no longer than the deque: what a full window lets go of is its oldest record.
LEMMA AppendedWindow ==
    ASSUME NEW all \in Seq(Nat), NEW o \in Nat
    PROVE  Appended(LastOnes(all), o) = LastOnes(Append(all, o))
<1> DEFINE m == Len(all)
           first == IF m > WindowLimit THEN m - WindowLimit + 1 ELSE 1
           window == SubSeq(all, first, m)
           more == Append(all, o)
           next == IF m + 1 > WindowLimit THEN m + 1 - WindowLimit + 1 ELSE 1
           wanted == SubSeq(more, next, m + 1)
<1>1. m \in Nat /\ WindowLimit \in Nat /\ WindowLimit > 0
    BY Delays
<1>2. /\ more \in Seq(Nat) /\ Len(more) = m + 1
      /\ \A i \in 1..m : more[i] = all[i]
      /\ more[m + 1] = o
    BY AppendProperties
<1>3. /\ first \in Int /\ next \in Int /\ m \in Int /\ m + 1 \in Int /\ first >= 1 /\ next >= 1
      /\ first <= m + 1 /\ next <= m + 1
    BY <1>1
<1>4. LastOnes(all) = window /\ LastOnes(more) = wanted
    <2>1. LastOnes(more) = SubSeq(more, IF Len(more) > WindowLimit THEN Len(more) - WindowLimit + 1 ELSE 1, Len(more))
        BY DEF LastOnes
    <2> HIDE DEF more
    <2>2. LastOnes(more) = SubSeq(more, IF m + 1 > WindowLimit THEN m + 1 - WindowLimit + 1 ELSE 1, m + 1)
        <3>1. PICK n : n = Len(more)
            OBVIOUS
        <3>2. n = m + 1
            BY <1>2, <3>1
        <3>3. LastOnes(more) = SubSeq(more, IF n > WindowLimit THEN n - WindowLimit + 1 ELSE 1, n)
            BY <2>1, <3>1
        <3>4. n \in Nat /\ m \in Nat /\ WindowLimit \in Nat
            BY <1>1, <3>2
        <3> HIDE DEF m
        <3>5. CASE n > WindowLimit
            BY <3>2, <3>3, <3>4, <3>5
        <3>6. CASE ~(n > WindowLimit)
            BY <3>2, <3>3, <3>4, <3>6
        <3> QED BY <3>5, <3>6
    <2> QED BY <2>2 DEF LastOnes
<1>5. /\ window \in Seq(Nat) /\ Len(window) = m + 1 - first
      /\ \A i \in 1..m - first + 1 : window[i] = all[first + i - 1]
    <2>1. \A i \in first..m : all[i] \in Nat
        BY <1>1, <1>3
    <2> HIDE DEF first
    <2>2. /\ window \in Seq(Nat) /\ Len(window) = (IF first <= m THEN m - first + 1 ELSE 0)
          /\ \A i \in 1..m - first + 1 : window[i] = all[first + i - 1]
        BY <1>3, <2>1, SubSeqProperties
    <2> QED BY <1>1, <1>3, <2>2
<1>6. /\ wanted \in Seq(Nat) /\ Len(wanted) = m + 2 - next
      /\ \A i \in 1..m + 2 - next : wanted[i] = more[next + i - 1]
    <2>1. \A i \in next..m + 1 : more[i] \in Nat
        BY <1>1, <1>2, <1>3
    <2> HIDE DEF next, more, m
    <2>2. /\ wanted \in Seq(Nat) /\ Len(wanted) = (IF next <= m + 1 THEN m + 1 - next + 1 ELSE 0)
          /\ \A i \in 1..m + 1 - next + 1 : wanted[i] = more[next + i - 1]
        BY <1>3, <2>1, SubSeqProperties
    <2>3. m + 1 - next + 1 = m + 2 - next /\ m \in Nat
        BY <1>1, <1>3
    <2> QED BY <1>3, <2>2, <2>3
<1>7. CASE Len(window) >= WindowLimit
    <2>1. m >= WindowLimit /\ first = m - WindowLimit + 1 /\ next = first + 1 /\ Len(window) = WindowLimit
        BY <1>1, <1>5, <1>7
    <2> HIDE DEF first, next, window, wanted, more
    <2>2. window # <<>>
        BY <1>1, <1>5, <1>7
    <2> DEFINE shorter == Tail(window)
    <2>3. /\ shorter \in Seq(Nat) /\ Len(shorter) = Len(window) - 1
          /\ \A i \in 1..Len(window) - 1 : shorter[i] = window[i + 1]
        BY <1>5, <2>2
    <2>4. /\ Append(shorter, o) \in Seq(Nat) /\ Len(Append(shorter, o)) = Len(window)
          /\ \A i \in 1..Len(window) - 1 : Append(shorter, o)[i] = shorter[i]
          /\ Append(shorter, o)[Len(window)] = o
        BY <1>1, <2>1, <2>3
    <2> DEFINE got == Append(shorter, o)
    <2> HIDE DEF shorter
    <2>5. Len(got) = Len(wanted)
        BY <1>1, <1>3, <1>5, <1>6, <2>1, <2>4
    <2>6. ASSUME NEW i \in 1..Len(got) PROVE got[i] = wanted[i]
        <3>1. i \in 1..m + 2 - next /\ wanted[i] = more[next + i - 1]
            BY <1>6, <2>5
        <3>2. CASE i = Len(window)
            <4>1. next + i - 1 = m + 1
                BY <1>1, <1>3, <2>1, <3>2
            <4> QED BY <1>2, <2>4, <3>1, <3>2, <4>1
        <3>3. CASE i # Len(window)
            <4>1. i \in 1..Len(window) - 1 /\ i + 1 \in 1..m - first + 1 /\ next + i - 1 \in 1..m
                <5>1. i \in 1..WindowLimit /\ i # WindowLimit
                    BY <2>1, <2>4, <3>3
                <5> QED BY <1>1, <1>3, <2>1, <5>1
            <4>2. got[i] = window[i + 1] /\ window[i + 1] = all[first + (i + 1) - 1]
                BY <1>5, <2>3, <2>4, <4>1
            <4>3. first + (i + 1) - 1 = next + i - 1
                BY <1>3, <2>1, <4>1
            <4> QED BY <1>2, <3>1, <4>1, <4>2, <4>3
        <3> QED BY <3>2, <3>3
    <2>7. got = wanted
        <3> HIDE DEF got
        <3> QED BY <1>6, <2>4, <2>5, <2>6, SeqEqual DEF got
    <2> QED BY <1>4, <1>7, <2>7 DEF Appended, shorter, got, more
<1>8. CASE ~(Len(window) >= WindowLimit)
    <2>1. m < WindowLimit /\ first = 1 /\ next = 1 /\ Len(window) = m
        BY <1>1, <1>5, <1>8
    <2> HIDE DEF first, next, window, wanted
    <2> DEFINE got == Append(window, o)
    <2>2. /\ got \in Seq(Nat) /\ Len(got) = m + 1
          /\ \A i \in 1..m : got[i] = window[i]
          /\ got[m + 1] = o
        BY <1>5, <2>1, AppendProperties
    <2> HIDE DEF got, more
    <2>3. Len(got) = Len(wanted)
        BY <1>1, <1>6, <2>1, <2>2
    <2>4. ASSUME NEW i \in 1..Len(got) PROVE got[i] = wanted[i]
        <3>1. wanted[i] = more[i]
            <4>1. i \in 1..m + 2 - next /\ next + i - 1 = i
                BY <1>1, <2>1, <2>2
            <4> QED BY <1>6, <4>1
        <3>2. CASE i = m + 1
            BY <1>2, <2>2, <3>1, <3>2
        <3>3. CASE i # m + 1
            <4>1. i \in 1..m /\ i \in 1..m - first + 1 /\ first + i - 1 = i
                BY <1>1, <2>1, <2>2, <3>3
            <4> QED BY <1>2, <1>5, <2>2, <3>1, <4>1
        <3> QED BY <3>2, <3>3
    <2>5. got = wanted
        BY <1>6, <2>2, <2>3, <2>4, SeqEqual
    <2> QED BY <1>4, <1>8, <2>5 DEF Appended, got, more
<1> QED BY <1>7, <1>8

\* One value more, and the threshold state it leaves.
LEMMA TransitionFollows ==
    ASSUME NEW t \in Seq(Entry), NEW state \in ThresholdState, NEW e \in Entry,
           NEW next, next = TransitionThresholdState(state, e.level, e.at), e.severity = next.severity,
           \A j \in 1..Len(t) : t[j].at <= e.at, state.since <= e.at,
           Follows(t, state), SignalFollowed(t)
    PROVE  /\ next \in ThresholdState /\ next.since <= e.at
           /\ Follows(Append(t, e), next) /\ SignalFollowed(Append(t, e))
<1> DEFINE now == e.at
           level == e.level
           candidate == IF level = "near" THEN state.severity ELSE level
           since == IF state.candidate = Instant(level) THEN state.since ELSE now
           N == Len(t) + 1
           u == Append(t, e)
<1>1. /\ now \in Nat /\ level \in Levels /\ candidate \in Severities /\ since \in Nat /\ since <= now
      /\ state.severity \in Severities /\ state.candidate \in Severities \cup {None} /\ state.since \in Nat
    BY DEF Entry, ThresholdState, Levels, Severities, Instant
<1>2. next = IF candidate = state.severity THEN Quiet(state.severity)
             ELSE IF now - since < Delay(candidate)
             THEN [severity |-> state.severity, candidate |-> candidate, since |-> since]
             ELSE Quiet(candidate)
    BY DEF TransitionThresholdState, Instant
<1>3. level # "near" => candidate = level /\ Instant(level) = level
    BY DEF Instant
<1>4. \/ /\ candidate = state.severity
         /\ next.severity = candidate /\ next.candidate = None /\ next.since = 0
      \/ /\ candidate # state.severity /\ level # "near" /\ now - since < Delay(candidate)
         /\ next.severity = state.severity /\ next.candidate = candidate /\ next.since = since
      \/ /\ candidate # state.severity /\ level # "near" /\ now - since >= Delay(candidate)
         /\ next.severity = candidate /\ next.candidate = None /\ next.since = 0
    BY <1>1, <1>2, Delays DEF Quiet
<1>5. next \in ThresholdState /\ next.since <= now
    BY <1>1, <1>2 DEF Quiet, ThresholdState
<1>6. /\ u \in Seq(Entry) /\ Len(u) = N /\ u[N] = e /\ N \in Nat /\ N >= 1 /\ Len(t) = N - 1
      /\ \A j \in 1..N - 1 : u[j] = t[j]
    BY AppendProperties
<1>7. \A j \in 1..N - 1 : t[j] \in Entry /\ t[j].at \in Nat /\ t[j].at <= now
    <2>1. \A j \in 1..N - 1 : t[j] \in Entry
        BY <1>6
    <2> QED BY <1>6, <2>1 DEF Entry
<1> HIDE DEF now, level, candidate, since, u, N
<1>8. u[N].level = level /\ u[N].at = now /\ u[N].severity = next.severity
    BY <1>6 DEF level, now
\* A level that lasts from some record on has lasted since then already, or starts here.
<1>9. ASSUME NEW i \in 1..N, NEW v \in Severities, \A j \in i..N : u[j].level = v
      PROVE  /\ level = v /\ candidate = v
             /\ v # state.severity => since <= u[i].at
    <2>1. level = v /\ candidate = v /\ Instant(level) = v
        <3>1. level = v
            BY <1>6, <1>8, <1>9
        <3>2. level # "near"
            BY <3>1 DEF Severities
        <3> QED BY <1>3, <3>1, <3>2
    <2>2. ASSUME v # state.severity PROVE since <= u[i].at
        <3>1. CASE i = N
            BY <1>1, <1>8, <3>1
        <3>2. CASE i # N
            <4>1. i \in 1..N - 1 /\ \A j \in i..N - 1 : t[j].level = v
                BY <1>6, <1>9, <3>2
            <4>2. state.candidate = v /\ state.since <= t[i].at
                BY <1>6, <2>2, <4>1 DEF Follows
            <4>3. since = state.since
                BY <2>1, <4>2 DEF since
            <4> QED BY <1>6, <4>1, <4>2, <4>3
        <3> QED BY <3>1, <3>2
    <2> QED BY <2>1, <2>2
\* What is waited for has been there since a record.
<1>10. ASSUME candidate # state.severity, level # "near"
       PROVE  \E i \in 1..N : u[i].at = since /\ \A j \in i..N : u[j].level = candidate
    <2>1. candidate = level /\ Instant(level) = level
        BY <1>3, <1>10
    <2>2. CASE state.candidate = level
        <3>1. level # None
            BY <1>1, <2>1, Delays
        <3>2. PICK i \in 1..N - 1 : t[i].at = state.since /\ \A j \in i..N - 1 : t[j].level = state.candidate
            BY <1>6, <2>2, <3>1 DEF Follows
        <3>3. u[i].at = since
            BY <1>6, <2>1, <2>2, <3>2 DEF since
        <3>4. \A j \in i..N : u[j].level = candidate
            BY <1>6, <1>8, <2>1, <2>2, <3>2
        <3>5. i \in 1..N
            BY <1>6
        <3> QED BY <3>3, <3>4, <3>5
    <2>3. CASE state.candidate # level
        <3>1. since = now
            BY <2>1, <2>3 DEF since
        <3>2. u[N].at = since /\ \A j \in N..N : u[j].level = candidate
            BY <1>6, <1>8, <2>1, <3>1
        <3>3. N \in 1..N
            BY <1>6
        <3> QED BY <3>2, <3>3
    <2> QED BY <2>2, <2>3
<1>11. Follows(u, next)
    <2>1. next.severity = Before(u)
        BY <1>6, <1>8 DEF Before
    <2>2. ASSUME next.candidate # None
          PROVE  \E i \in 1..N : u[i].at = next.since /\ \A j \in i..N : u[j].level = next.candidate
        BY <1>4, <1>10, <2>2
    <2>3. ASSUME NEW i \in 1..N, NEW v \in Severities, \A j \in i..N : u[j].level = v
          PROVE  next.severity = v \/ (next.candidate = v /\ next.since <= u[i].at)
        BY <1>4, <1>9, <2>3
    <2> QED BY <1>6, <2>1, <2>2, <2>3 DEF Follows
<1>12. SignalFollowed(u)
    <2>1. \A s : \A n \in 1..N - 1, i \in 1..N - 1 : i <= n => (Sustained(u, i, n, s) <=> Sustained(t, i, n, s))
        BY <1>6 DEF Sustained
    <2>2. ASSUME NEW n \in 1..N - 1
          PROVE  LET before == IF n = 1 THEN "normal" ELSE u[n - 1].severity
                 IN  /\ u[n].severity # before => \E i \in 1..n : Sustained(u, i, n, u[n].severity)
                     /\ \A i \in 1..n, s \in Severities : Sustained(u, i, n, s) => u[n].severity = s
        <3>1. n \in DOMAIN t /\ u[n] = t[n] /\ (n # 1 => u[n - 1] = t[n - 1])
            BY <1>6
        <3>2. \A i \in 1..n : i \in 1..N - 1 /\ i <= n
            BY <1>6
        <3> QED BY <2>1, <3>1, <3>2 DEF SignalFollowed
    <2>3. state.severity = IF N = 1 THEN "normal" ELSE u[N - 1].severity
        <3>1. t = <<>> <=> N = 1
            BY <1>6
        <3>2. N # 1 => u[N - 1] = t[Len(t)]
            BY <1>6
        <3> QED BY <3>1, <3>2 DEF Follows, Before
    <2>4. ASSUME u[N].severity # state.severity
          PROVE  \E i \in 1..N : Sustained(u, i, N, u[N].severity)
        <3>1. /\ candidate # state.severity /\ level # "near" /\ now - since >= Delay(candidate)
              /\ u[N].severity = candidate
            BY <1>4, <1>8, <2>4
        <3>2. PICK i \in 1..N : u[i].at = since /\ \A j \in i..N : u[j].level = candidate
            BY <1>10, <3>1
        <3> QED BY <1>8, <3>1, <3>2 DEF Sustained
    <2>5. ASSUME NEW i \in 1..N, NEW s \in Severities, Sustained(u, i, N, s)
          PROVE  u[N].severity = s
        <3>1. candidate = s /\ (s # state.severity => since <= u[i].at) /\ now - u[i].at >= Delay(s)
            BY <1>8, <1>9, <2>5 DEF Sustained
        <3>2. u[i].at \in Nat
            <4>1. u[i] \in Entry
                BY <1>6
            <4> QED BY <4>1 DEF Entry
        <3>3. s # state.severity => now - since >= Delay(s)
            BY <1>1, <3>1, <3>2, Delays
        <3>4. ~(candidate # state.severity /\ now - since < Delay(candidate))
            BY <1>1, <3>1, <3>3, Delays
        <3> QED BY <1>4, <1>8, <3>1, <3>4
    <2>6. DOMAIN u = 1..N /\ \A n \in 1..N : n \in 1..N - 1 \/ n = N
        BY <1>6
    <2> QED BY <2>2, <2>3, <2>4, <2>5, <2>6 DEF SignalFollowed
<1> QED BY <1>5, <1>11, <1>12 DEF u, now

\* Any stream starts quiet.
LEMMA NoRecordYet ==
    /\ Quiet("normal") \in ThresholdState /\ Quiet("normal").since = 0
    /\ Follows(<<>>, Quiet("normal")) /\ SignalFollowed(<<>>) /\ <<>> \in Seq(Entry)
    /\ LastOnes(<<>>) = <<>>
<1>1. Quiet("normal") \in ThresholdState /\ Quiet("normal").since = 0
      /\ Quiet("normal").severity = "normal" /\ Quiet("normal").candidate = None
    BY DEF Quiet, ThresholdState, Severities
<1>2. Len(<<>>) = 0 /\ DOMAIN <<>> = {} /\ <<>> \in Seq(Entry)
    OBVIOUS
<1>3. Follows(<<>>, Quiet("normal"))
    BY <1>1, <1>2 DEF Follows, Before
<1>4. SignalFollowed(<<>>)
    BY <1>2 DEF SignalFollowed
<1>5. LastOnes(<<>>) = <<>>
    <2>1. LastOnes(<<>>) = SubSeq(<<>>, 1, 0)
        BY <1>2, Delays DEF LastOnes
    <2> QED BY <2>1, SubSeqEmpty
<1> QED BY <1>1, <1>2, <1>3, <1>4, <1>5

LEMMA ObservedInv ==
    ASSUME StreamsInv, Process
    PROVE  StreamsInv'
<1>1. PICK now \in {clock + gap : gap \in instance.gaps}, severity \in Severities : Observe(position, now, severity)
    BY DEF Process
<1>2. /\ position < Len(topic) /\ Record(position).level # Poison /\ position' = position + 1
      /\ instance' = instance
    BY DEF Process
<1>3. /\ instance \in Instances /\ position \in Nat /\ clock \in Nat
      /\ DOMAIN windows = DOMAIN trace /\ DOMAIN runtime = DOMAIN trace /\ DOMAIN lastSeen = DOMAIN trace
      /\ \A k \in DOMAIN trace : StreamInv(k)
    BY DEF StreamsInv
<1>4. now \in Nat /\ now >= clock
    <2>1. instance.gaps \subseteq Nat
        BY <1>3, ProcessorAssumption
    <2> QED BY <1>1, <1>3, <2>1
<1> DEFINE key == Record(position).stream
           level == Record(position).level
           old == At(runtime, key, Quiet("normal"))
           past == At(trace, key, <<>>)
           window == At(windows, key, <<>>)
           state == TransitionThresholdState(old, level, now)
           entry == [offset |-> position, level |-> level, at |-> now, severity |-> severity]
<1>5. level \in Levels
    <2>1. Record(position) \in [stream : Streams, level : Levels \cup {Poison}]
        <3> DEFINE R == [stream : Streams, level : Levels \cup {Poison}]
        <3>1. topic \in Seq(R) /\ Len(topic) \in Nat
            BY <1>3, TopicType
        <3> HIDE DEF R
        <3>2. position + 1 \in 1..Len(topic)
            BY <1>2, <1>3, <3>1
        <3>3. topic[position + 1] \in R
            BY <3>1, <3>2, ElementOfSeq
        <3> QED BY <3>3 DEF Record, R
    <2> QED BY <1>2, <2>1
<1>6. severity = state.severity /\ clock' = now
    BY <1>1 DEF Observe
<1>7. PICK keep :
         /\ windows' = Restrict(With(windows, key, Appended(window, position)), keep)
         /\ lastSeen' = Restrict(With(lastSeen, key, now), keep)
         /\ runtime' = Restrict(With(runtime, key, state), keep)
         /\ trace' = Restrict(With(trace, key, Append(past, entry)), keep)
         /\ keep \subseteq DOMAIN With(lastSeen, key, now)
    <2>1. PruneWindows(With(lastSeen, key, now), now) \subseteq SUBSET DOMAIN With(lastSeen, key, now)
        BY DEF PruneWindows
    <2> QED BY <1>1, <2>1 DEF Observe
<1> HIDE DEF key, level, old, past, window, state, entry
<1>8. keep \subseteq DOMAIN trace \cup {key}
    BY <1>3, <1>7 DEF With
<1>9. /\ DOMAIN windows' = keep /\ DOMAIN lastSeen' = keep /\ DOMAIN runtime' = keep /\ DOMAIN trace' = keep
      /\ \A k \in keep :
            /\ windows'[k] = IF k = key THEN Appended(window, position) ELSE windows[k]
            /\ runtime'[k] = IF k = key THEN state ELSE runtime[k]
            /\ trace'[k] = IF k = key THEN Append(past, entry) ELSE trace[k]
    BY <1>3, <1>7, <1>8 DEF Restrict, With
<1>10. /\ past \in Seq(Entry) /\ \A j \in 1..Len(past) : past[j].at <= clock
       /\ old \in ThresholdState /\ old.since <= clock
       /\ Follows(past, old) /\ SignalFollowed(past)
       /\ window = LastOnes([i \in DOMAIN past |-> past[i].offset])
    <2>1. CASE key \in DOMAIN trace
        BY <1>3, <2>1 DEF At, past, old, window, StreamInv
    <2>2. CASE key \notin DOMAIN trace
        <3>1. past = <<>> /\ old = Quiet("normal") /\ window = <<>>
            BY <1>3, <2>2 DEF At, past, old, window
        <3>2. [i \in DOMAIN past |-> past[i].offset] = <<>>
            BY <3>1
        <3> QED BY <1>3, <3>1, <3>2, NoRecordYet
    <2> QED BY <2>1, <2>2
<1>11. /\ entry \in Entry /\ entry.offset = position /\ entry.level = level /\ entry.at = now
       /\ entry.severity = severity
    BY <1>3, <1>4, <1>5 DEF entry, Entry
<1>12. /\ state \in ThresholdState /\ state.since <= now
       /\ Follows(Append(past, entry), state) /\ SignalFollowed(Append(past, entry))
    <2>1. \A j \in 1..Len(past) : past[j].at <= now
        <3>1. \A j \in 1..Len(past) : past[j].at \in Nat
            <4>1. \A j \in 1..Len(past) : past[j] \in Entry
                BY <1>10
            <4> QED BY <4>1 DEF Entry
        <3> QED BY <1>3, <1>4, <1>10, <3>1
    <2>2. old.since <= now
        BY <1>3, <1>4, <1>10 DEF ThresholdState
    <2>3. state = TransitionThresholdState(old, entry.level, entry.at)
        BY <1>11 DEF state
    <2> QED BY <1>6, <1>10, <1>11, <2>1, <2>2, <2>3, TransitionFollows
<1>13. Appended(window, position) = LastOnes([i \in DOMAIN Append(past, entry) |-> Append(past, entry)[i].offset])
    <2> DEFINE all == [i \in DOMAIN past |-> past[i].offset]
               more == [i \in DOMAIN Append(past, entry) |-> Append(past, entry)[i].offset]
    <2>1. /\ Append(past, entry) \in Seq(Entry) /\ Len(Append(past, entry)) = Len(past) + 1
          /\ \A i \in 1..Len(past) : Append(past, entry)[i] = past[i]
          /\ Append(past, entry)[Len(past) + 1] = entry /\ Len(past) \in Nat
        BY <1>10, <1>11, AppendProperties
    <2>2. all \in Seq(Nat) /\ Len(all) = Len(past)
        <3>1. \A i \in 1..Len(past) : past[i] \in Entry
            BY <1>10
        <3>2. \A i \in 1..Len(past) : past[i].offset \in Nat
            BY <3>1 DEF Entry
        <3>3. DOMAIN past = 1..Len(past)
            BY <1>10
        <3>4. all \in [1..Len(past) -> Nat]
            BY <3>2, <3>3
        <3> QED BY <2>1, <3>4, IsASeq
    <2>3. more \in Seq(Nat) /\ Len(more) = Len(past) + 1
        <3>1. \A i \in 1..Len(past) + 1 : Append(past, entry)[i] \in Entry
            BY <2>1
        <3>2. \A i \in 1..Len(past) + 1 : Append(past, entry)[i].offset \in Nat
            BY <3>1 DEF Entry
        <3>3. DOMAIN Append(past, entry) = 1..Len(past) + 1
            BY <2>1
        <3>4. more \in [1..Len(past) + 1 -> Nat] /\ Len(past) + 1 \in Nat
            BY <2>1, <3>2, <3>3
        <3> QED BY <3>4, IsASeq
    <2>4. /\ Append(all, position) \in Seq(Nat) /\ Len(Append(all, position)) = Len(past) + 1
          /\ \A i \in 1..Len(past) : Append(all, position)[i] = all[i]
          /\ Append(all, position)[Len(past) + 1] = position
        BY <1>3, <2>2, AppendProperties
    <2>5. \A i \in 1..Len(past) + 1 : Append(all, position)[i] = more[i]
        <3>1. DOMAIN past = 1..Len(past) /\ DOMAIN Append(past, entry) = 1..Len(past) + 1
            BY <1>10, <2>1
        <3>2. \A i \in 1..Len(past) : all[i] = past[i].offset
            BY <3>1
        <3>3. \A i \in 1..Len(past) + 1 : more[i] = Append(past, entry)[i].offset
            BY <3>1
        <3>4. \A i \in 1..Len(past) + 1 : i \in 1..Len(past) \/ i = Len(past) + 1
            BY <2>1
        <3> HIDE DEF all, more
        <3> QED BY <1>11, <2>1, <2>4, <3>2, <3>3, <3>4
    <2> HIDE DEF all, more
    <2>6. Append(all, position) = more
        BY <2>3, <2>4, <2>5, SeqEqual
    <2>7. window = LastOnes(all)
        BY <1>10 DEF all
    <2>8. Appended(window, position) = LastOnes(more)
        BY <1>3, <2>2, <2>6, <2>7, AppendedWindow
    <2> QED BY <2>8 DEF more
<1>14. ASSUME NEW k \in keep PROVE StreamInv(k)'
    <2>1. CASE k = key
        <3>1. /\ trace'[k] = Append(past, entry) /\ runtime'[k] = state
              /\ windows'[k] = Appended(window, position)
            BY <1>9, <2>1
        <3>2. Append(past, entry) \in Seq(Entry) /\ \A j \in 1..Len(Append(past, entry)) : Append(past, entry)[j].at <= now
            <4>1. /\ Append(past, entry) \in Seq(Entry) /\ Len(Append(past, entry)) = Len(past) + 1
                  /\ \A i \in 1..Len(past) : Append(past, entry)[i] = past[i]
                  /\ Append(past, entry)[Len(past) + 1] = entry /\ Len(past) \in Nat
                BY <1>10, <1>11, AppendProperties
            <4>2. ASSUME NEW j \in 1..Len(past) PROVE past[j].at <= now
                <5>1. past[j] \in Entry
                    BY <1>10
                <5> QED BY <1>3, <1>4, <1>10, <5>1 DEF Entry
            <4> QED BY <1>4, <1>11, <4>1, <4>2
        <3> QED BY <1>6, <1>12, <1>13, <3>1, <3>2 DEF StreamInv
    <2>2. CASE k # key
        <3>1. k \in DOMAIN trace /\ trace'[k] = trace[k] /\ runtime'[k] = runtime[k] /\ windows'[k] = windows[k]
            BY <1>8, <1>9, <2>2
        <3>2. StreamInv(k)
            BY <1>3, <3>1
        <3>3. \A j \in 1..Len(trace[k]) : trace[k][j].at <= now
            <4> SUFFICES ASSUME NEW j \in 1..Len(trace[k]) PROVE trace[k][j].at <= now
                OBVIOUS
            <4>1. trace[k][j] \in Entry /\ trace[k][j].at <= clock
                BY <3>2 DEF StreamInv
            <4> QED BY <1>3, <1>4, <4>1 DEF Entry
        <3>4. runtime[k].since <= now
            BY <1>3, <1>4, <3>2 DEF StreamInv, ThresholdState
        <3> QED BY <1>6, <3>1, <3>2, <3>3, <3>4 DEF StreamInv
    <2> QED BY <2>1, <2>2
<1> QED BY <1>2, <1>3, <1>4, <1>6, <1>9, <1>14 DEF StreamsInv

LEMMA StreamsInit == Init => StreamsInv
<1> SUFFICES ASSUME Init PROVE StreamsInv
    OBVIOUS
<1>1. DOMAIN Nothing = {}
    BY DEF Nothing
<1> QED BY <1>1 DEF Init, StreamsInv

\* Only records change what is kept of the streams; a process that starts keeps nothing.
LEMMA StreamsStep == RuntimeInv /\ StreamsInv /\ [Next]_vars => StreamsInv'
<1> SUFFICES ASSUME RuntimeInv, StreamsInv, [Next]_vars PROVE StreamsInv'
    OBVIOUS
<1>1. instance' \in Instances /\ position' \in Nat
    <2>1. ProcessorType'
        BY NextInv DEF RuntimeInv
    <2>2. Len(instance'.topic) \in Nat
        <3>1. instance'.topic \in Seq([stream : Streams, level : Levels \cup {Poison}])
            BY <2>1, ProcessorAssumption DEF ProcessorType
        <3> QED BY <3>1
    <2> QED BY <2>1, <2>2 DEF ProcessorType, topic
<1>2. CASE Process
    BY <1>2, ObservedInv
<1>3. CASE Start
    <2>1. DOMAIN Nothing = {}
        BY DEF Nothing
    <2> QED BY <1>1, <1>3, <2>1 DEF Start, StreamsInv
<1>4. CASE UNCHANGED streamState
    <2>1. UNCHANGED <<windows, lastSeen, runtime, clock, trace>>
        BY <1>4 DEF streamState
    <2>2. \A k : StreamInv(k) => StreamInv(k)'
        BY <2>1 DEF StreamInv
    <2> QED BY <1>1, <2>1, <2>2 DEF StreamsInv
<1> QED BY <1>2, <1>3, <1>4 DEF Next, vars, ProcessRaises, FlushIdle, Stop, EnsureDelivery,
            DeliveryIncomplete, InsertProcessed, InsertRejected, CommitOffsets, CommitFails, Close, Crash,
            Exit, Deliver

-----------------------------------------------------------------------------
(* What is kept of each stream is what its own records make it: its window *)
(* is the last of them, and its severity changes to no level that has not  *)
(* lasted its delay and follows every level that has, whatever pending     *)
(* transitions and values in the deadband came before.                     *)
THEOREM StreamsAreFollowedAlways == Spec => []StreamsAreFollowed
<1>1. StreamsInv => StreamsAreFollowed
    <2> SUFFICES ASSUME StreamsInv PROVE WindowIsRecent /\ SeverityFollowsTheSignal
        BY DEF StreamsAreFollowed
    <2>1. WindowIsRecent
        <3> SUFFICES ASSUME NEW k \in DOMAIN windows
                     PROVE  LET all == [i \in DOMAIN trace[k] |-> trace[k][i].offset]
                                first == IF Len(all) > WindowLimit THEN Len(all) - WindowLimit + 1 ELSE 1
                            IN  windows[k] = SubSeq(all, first, Len(all))
            BY DEF WindowIsRecent
        <3> QED BY DEF StreamsInv, StreamInv, LastOnes
    <2>2. SeverityFollowsTheSignal
        BY DEF StreamsInv, StreamInv, SignalFollowed, SeverityFollowsTheSignal
    <2> QED BY <2>1, <2>2
<1>2. RuntimeInv /\ StreamsInv /\ [Next]_vars => (RuntimeInv /\ StreamsInv)'
    BY NextInv, StreamsStep
<1> QED BY <1>1, <1>2, InitInv, StreamsInit, PTL DEF Spec

-----------------------------------------------------------------------------
(* Types of the replays: a thread publishes only while rows are left.      *)

ReplayTypes ==
    /\ ReplayTypeOK
    /\ \A n \in Replays : unacknowledged[n] <= emitted[n] /\ (thread[n] = "publish" => emitted[n] < Rows)

LEMMA ReplayTypesInit == ReplayInit => ReplayTypes
<1> SUFFICES ASSUME ReplayInit PROVE ReplayTypes
    OBVIOUS
<1>1. /\ thread \in [Replays -> {"none"}] /\ emitted \in [Replays -> {0}]
      /\ unacknowledged \in [Replays -> {0}] /\ {0} \subseteq 0..Rows
      BY ReplayAssumption DEF ReplayInit
<1>2. \A n \in Replays : thread[n] = "none" /\ emitted[n] = 0 /\ unacknowledged[n] = 0
      BY <1>1
<1>3. ReplayTypeOK
  <2>1. /\ thread \in [Replays -> {"none", "loop", "publish", "flush", "done"} \cup Verdicts]
        /\ emitted \in [Replays -> 0..Rows] /\ unacknowledged \in [Replays -> 0..Rows]
        BY <1>1
  <2>2. started \in 0..MaxReplays /\ replayFaults \in 0..MaxReplayFaults
        BY ReplayAssumption DEF ReplayInit
  <2> QED BY <2>1, <2>2 DEF ReplayInit, ReplayTypeOK
<1> QED BY <1>2, <1>3 DEF ReplayTypes

LEMMA ReplayTypesStep == ReplayTypes /\ [ReplayNext]_replayVars => ReplayTypes'
<1> SUFFICES ASSUME ReplayTypes, [ReplayNext]_replayVars PROVE ReplayTypes'
    OBVIOUS
<1> USE ReplayAssumption DEF ReplayTypes, ReplayTypeOK, Verdicts
<1>1. CASE StartReplay
  <2>1. started' \in Replays /\ started' \in 0..MaxReplays
        BY <1>1 DEF StartReplay, Replays
  <2>2. thread' \in [Replays -> {"none", "loop", "publish", "flush", "done"} \cup Verdicts]
        BY <1>1, <2>1 DEF StartReplay
  <2>3. \A n \in Replays : thread'[n] = "publish" => thread[n] = "publish"
        BY <1>1, <2>1 DEF StartReplay
  <2> QED BY <1>1, <2>1, <2>2, <2>3 DEF StartReplay
<1>2. CASE StopReplay
      BY <1>2 DEF StopReplay
<1>3. ASSUME NEW n \in Replays, TestLoop(n) PROVE ReplayTypes'
      BY <1>3 DEF TestLoop
<1>4. ASSUME NEW n \in Replays, PublishRow(n) PROVE ReplayTypes'
      BY <1>4 DEF PublishRow
<1>5. ASSUME NEW n \in Replays, Acknowledge(n) PROVE ReplayTypes'
      BY <1>5 DEF Acknowledge
<1>6. ASSUME NEW n \in Replays, Flush(n) \/ Finish(n) PROVE ReplayTypes'
  <2>1. PICK place \in {"done"} \cup Verdicts : thread' = [thread EXCEPT ![n] = place]
        BY <1>6 DEF Flush, Finish, Verdict
  <2>2. replayFaults' \in 0..MaxReplayFaults /\ UNCHANGED <<stopEvent, started, emitted, unacknowledged>>
        BY <1>6 DEF Flush, Finish
  <2>3. replayRunning' \in BOOLEAN /\ replayStatus' \in {"idle", "running"} \cup Verdicts
        BY <1>6 DEF Flush, Finish
  <2>4. thread' \in [Replays -> {"none", "loop", "publish", "flush", "done"} \cup Verdicts]
        BY <2>1
  <2>5. \A m \in Replays : thread'[m] = "publish" => thread[m] = "publish"
        BY <2>1
  <2> QED BY <2>2, <2>3, <2>4, <2>5
<1>7. CASE UNCHANGED replayVars
      BY <1>7 DEF replayVars
<1> QED BY <1>1, <1>2, <1>3, <1>4, <1>5, <1>6, <1>7 DEF ReplayNext, Step

-----------------------------------------------------------------------------
(* Types of the actions. *)

LEMMA MishapsStep == mishaps \in 0..MaxMishaps /\ [ActionsNext]_actionVars => mishaps' \in 0..MaxMishaps
<1> USE AssistantActionsAssumption
<1> QED BY DEF ActionsNext, actionVars, Preview, ConfirmAction, RejectAction, Claim, Perform, UpdateIntent, CallLost

-----------------------------------------------------------------------------
(* Types of the source connections. *)

\* A definition has the number of a request, and no more versions than there were requests.
Numbered(file, n) ==
    \A c \in Connections : file[c] # Absent => file[c].version \in 1..n /\ file[c].request \in 0..n

ConnectionTypes ==
    /\ ConnectionsTypeOK
    /\ Numbered(registry, requests)
    /\ apiMemory # Absent => Numbered(apiMemory, requests)
    /\ edgePc = "build" => running = {} /\ ended = {}

LEMMA ConnectionTypesInit == ConnectionsInit => ConnectionTypes
<1> SUFFICES ASSUME ConnectionsInit PROVE ConnectionTypes
    OBVIOUS
<1>1. registry \in Registries /\ \A c \in Connections : registry[c] = Absent
      BY DEF ConnectionsInit, Registries
<1>2. ConnectionsTypeOK
  <2>1. requests \in 0..MaxRequests /\ outages \in 0..MaxOutages
        BY SourceConnectionsAssumption DEF ConnectionsInit
  <2>2. {signature, seen} \subseteq SUBSET {<<s.id, s.version>> : s \in Sources}
        BY DEF ConnectionsInit
  <2> QED BY <1>1, <2>1, <2>2 DEF ConnectionsInit, ConnectionsTypeOK
<1> QED BY <1>1, <1>2 DEF ConnectionsInit, ConnectionTypes, Numbered

LEMMA ConfiguredTypes ==
    ASSUME ConnectionTypes
    PROVE  Configured \subseteq Sources /\ SignatureOf(Configured) \subseteq {<<s.id, s.version>> : s \in Sources}
<1>1. ASSUME NEW c \in Connections, registry[c] # Absent PROVE Source(c) \in Sources
  <2>1. registry[c].version \in 1..MaxRequests /\ registry[c].request \in 0..MaxRequests
        BY <1>1, SourceConnectionsAssumption DEF ConnectionTypes, ConnectionsTypeOK, Numbered
  <2> QED BY <2>1 DEF Source, Sources
<1>2. Legacy \in Sources
      BY DEF Sources
<1>3. Configured \subseteq Sources
      BY <1>1, <1>2 DEF Configured
<1> QED BY <1>3 DEF SignatureOf

\* A request changes the memory, and the file if it can.
LEMMA PersistTypes ==
    ASSUME ConnectionTypes, RegistryRequest, NEW changed \in Registries, Numbered(changed, requests + 1),
           Persist(changed), permitted' \subseteq Connections
    PROVE  ConnectionTypes'
<1>1. /\ apiMemory' = changed /\ requests' = requests + 1 /\ requests' \in 0..MaxRequests
      /\ registry' \in {changed, registry} /\ outages' \in 0..MaxOutages
      /\ UNCHANGED <<edgePc, signature, seen, running, ended, raced>>
      BY SourceConnectionsAssumption DEF Persist, RegistryRequest, ConnectionTypes, ConnectionsTypeOK, edgeVars
<1>2. Numbered(registry, requests + 1)
      BY SourceConnectionsAssumption DEF Numbered, ConnectionTypes, ConnectionsTypeOK
<1>3. Numbered(registry', requests') /\ Numbered(apiMemory', requests')
      BY <1>1, <1>2
<1> QED BY <1>1, <1>3 DEF ConnectionTypes, ConnectionsTypeOK, Numbered

\* The definition put is numbered by the request.
LEMMA ReplacedNumbered ==
    ASSUME ConnectionTypes, apiMemory # Absent, NEW c \in Connections, NEW new \in Definitions,
           new.version \in 1..requests + 1, new.request \in 0..requests + 1
    PROVE  [apiMemory EXCEPT ![c] = new] \in Registries /\ Numbered([apiMemory EXCEPT ![c] = new], requests + 1)
<1> DEFINE changed == [apiMemory EXCEPT ![c] = new]
<1>1. apiMemory \in Registries /\ requests \in Nat /\ Numbered(apiMemory, requests)
      BY SourceConnectionsAssumption DEF ConnectionTypes, ConnectionsTypeOK
<1>2. changed \in Registries /\ changed[c] = new /\ \A d \in Connections \ {c} : changed[d] = apiMemory[d]
      BY <1>1, Replaced
<1> HIDE DEF changed
<1>3. Numbered(changed, requests + 1)
      BY <1>1, <1>2 DEF Numbered
<1> QED BY <1>2, <1>3 DEF changed

LEMMA PutTypes ==
    ASSUME ConnectionTypes, RegistryRequest, NEW c \in Connections, NEW incoming \in Definitions,
           Put(c, incoming), incoming.version \in 1..requests + 1, incoming.request \in 0..requests + 1,
           permitted' \subseteq Connections
    PROVE  ConnectionTypes'
<1> DEFINE old == apiMemory[c]
           new == IF old = Absent THEN incoming
                  ELSE [incoming EXCEPT !.version = old.version + 1, !.state = old.state, !.enabled = old.enabled]
<1>1. apiMemory \in Registries /\ requests \in Nat /\ apiMemory # Absent
      BY SourceConnectionsAssumption DEF ConnectionTypes, ConnectionsTypeOK, RegistryRequest
<1>2. old # Absent => old \in Definitions /\ old.version \in 1..requests
      BY <1>1 DEF Registries, ConnectionTypes, Numbered
<1>3. new \in Definitions /\ new.version \in 1..requests + 1 /\ new.request \in 0..requests + 1
  <2>1. CASE old = Absent
        BY <2>1
  <2>2. CASE old # Absent
    <3> DEFINE next == old.version + 1
    <3>1. next \in 1..requests + 1 /\ next \in Nat /\ old.state \in States /\ old.enabled \in BOOLEAN
          BY <1>1, <1>2, <2>2 DEF Definitions
    <3>2. new = [incoming EXCEPT !.version = next, !.state = old.state, !.enabled = old.enabled]
          BY <2>2
    <3> HIDE DEF next, new
    <3>3. new \in Definitions
          BY <3>1, <3>2, Edited, Zenon
    <3>4. new.version = next /\ new.request = incoming.request
          BY <3>2 DEF Definitions
    <3> QED BY <3>1, <3>3, <3>4
  <2> QED BY <2>1, <2>2
<1>4. Persist([apiMemory EXCEPT ![c] = new])
      BY DEF Put
<1> HIDE DEF new
<1> QED BY <1>1, <1>3, <1>4, ReplacedNumbered, PersistTypes

LEMMA SwitchTypes ==
    ASSUME ConnectionTypes, RegistryRequest, NEW c \in Connections, apiMemory[c] # Absent,
           NEW enabled \in BOOLEAN, NEW state \in States, Persist(Switched(c, enabled, state)),
           permitted' \subseteq Connections
    PROVE  ConnectionTypes'
<1> DEFINE new == [apiMemory[c] EXCEPT !.enabled = enabled, !.state = state]
<1>1. apiMemory \in Registries /\ requests \in Nat /\ apiMemory # Absent
      BY SourceConnectionsAssumption DEF ConnectionTypes, ConnectionsTypeOK, RegistryRequest
<1>2. apiMemory[c] \in Definitions /\ apiMemory[c].version \in 1..requests /\ apiMemory[c].request \in 0..requests
      BY <1>1 DEF Registries, ConnectionTypes, Numbered
<1>3. new \in Definitions /\ new.version = apiMemory[c].version /\ new.request = apiMemory[c].request
      BY <1>2 DEF Definitions
<1>4. Switched(c, enabled, state) = [apiMemory EXCEPT ![c] = new]
      BY DEF Switched
<1> HIDE DEF new
<1>5. new.version \in 1..requests + 1 /\ new.request \in 0..requests + 1
      BY <1>1, <1>2, <1>3
<1> QED BY <1>1, <1>3, <1>4, <1>5, ReplacedNumbered, PersistTypes

LEMMA ConnectionTypesStep == ConnectionTypes /\ [ConnectionsNext]_connectionVars => ConnectionTypes'
<1> SUFFICES ASSUME ConnectionTypes, [ConnectionsNext]_connectionVars PROVE ConnectionTypes'
    OBVIOUS
<1>0. requests \in Nat /\ permitted \subseteq Connections /\ (apiMemory # Absent => apiMemory \in Registries)
      BY SourceConnectionsAssumption DEF ConnectionTypes, ConnectionsTypeOK
<1>1. ASSUME NEW c \in Connections, NEW complete \in BOOLEAN, NEW enabled \in BOOLEAN,
             CreateConnection(c, complete, enabled)
      PROVE  ConnectionTypes'
  <2> DEFINE incoming == [state |-> IF enabled THEN "enabled" ELSE "configured", enabled |-> enabled,
                          version |-> 1, complete |-> complete, request |-> requests + 1]
  <2>1. /\ incoming \in Definitions /\ incoming.version \in 1..requests + 1
        /\ incoming.request \in 0..requests + 1
        BY <1>0 DEF Definitions, States
  <2>2. RegistryRequest /\ Put(c, incoming) /\ permitted' \subseteq Connections
        BY <1>0, <1>1 DEF CreateConnection
  <2> HIDE DEF incoming
  <2> QED BY <2>1, <2>2, PutTypes
<1>2. ASSUME NEW c \in Connections, NEW complete \in BOOLEAN, UpdateConnection(c, complete)
      PROVE  ConnectionTypes'
  <2> DEFINE incoming == [apiMemory[c] EXCEPT !.complete = complete, !.request = requests + 1]
  <2>1. RegistryRequest /\ apiMemory # Absent /\ apiMemory[c] # Absent /\ Put(c, incoming) /\ permitted' \subseteq Connections
        BY <1>0, <1>2 DEF UpdateConnection, RegistryRequest
  <2>2. apiMemory[c] \in Definitions /\ apiMemory[c].version \in 1..requests
        BY <1>0, <2>1 DEF Registries, ConnectionTypes, Numbered
  <2>3. incoming \in Definitions
    <3>1. requests + 1 \in Nat
          BY <1>0
    <3> QED BY <2>2, <3>1, Edited DEF States
  <2>4. incoming.version \in 1..requests + 1 /\ incoming.request \in 0..requests + 1
        BY <1>0, <2>2 DEF Definitions
  <2> HIDE DEF incoming
  <2> QED BY <2>1, <2>3, <2>4, PutTypes
<1>3. ASSUME NEW c \in Connections, EnableConnection(c) PROVE ConnectionTypes'
      BY <1>0, <1>3, SwitchTypes DEF EnableConnection, States
<1>4. ASSUME NEW c \in Connections, NEW state \in States, Withdraw(c, state) PROVE ConnectionTypes'
      BY <1>0, <1>4, SwitchTypes DEF Withdraw
<1>5. ASSUME NEW c \in Connections, DisableConnection(c) \/ RetireConnection(c) \/ RestoreConnection(c)
      PROVE  ConnectionTypes'
      BY <1>4, <1>5 DEF DisableConnection, RetireConnection, RestoreConnection, States
<1>6. CASE RestartApi
      BY <1>6, SourceConnectionsAssumption
      DEF RestartApi, ConnectionTypes, ConnectionsTypeOK, Numbered, edgeVars
<1>7. ASSUME UNCHANGED <<registry, apiMemory, requests, permitted>>, outages' \in 0..MaxOutages,
             edgePc' \in {"read", "cancel", "build", "wait"},
             {signature', seen'} \subseteq SUBSET {<<s.id, s.version>> : s \in Sources},
             running' \subseteq Sources, ended' \subseteq Sources \ running', raced' \in BOOLEAN,
             edgePc' = "build" => running' = {} /\ ended' = {}
      PROVE  ConnectionTypes'
      BY <1>7 DEF ConnectionTypes, ConnectionsTypeOK, Numbered
<1>8. CASE ReadConfigured
      BY <1>7, <1>8, ConfiguredTypes DEF ReadConfigured, apiVars, ConnectionTypes, ConnectionsTypeOK
<1>9. CASE CancelTasks \/ Sleep
      BY <1>7, <1>9 DEF CancelTasks, Sleep, apiVars, ConnectionTypes, ConnectionsTypeOK
<1>10. CASE BuildTasks
      BY <1>7, <1>10, ConfiguredTypes DEF BuildTasks, apiVars, ConnectionTypes, ConnectionsTypeOK
<1>11. ASSUME NEW s \in running, ConnectorEnds(s) PROVE ConnectionTypes'
      BY <1>7, <1>11, SourceConnectionsAssumption
      DEF ConnectorEnds, apiVars, ConnectionTypes, ConnectionsTypeOK
<1>12. CASE RestartEdge
  <2>1. outages' \in 0..MaxOutages
        BY <1>12, SourceConnectionsAssumption DEF RestartEdge, ConnectionTypes, ConnectionsTypeOK
  <2> QED BY <1>7, <1>12, <2>1 DEF RestartEdge, apiVars
<1>13. CASE UNCHANGED connectionVars
      BY <1>7, <1>13 DEF connectionVars, apiVars, edgeVars, ConnectionTypes, ConnectionsTypeOK
<1> QED BY <1>1, <1>2, <1>3, <1>5, <1>6, <1>8, <1>9, <1>10, <1>11, <1>12, <1>13
        DEF ConnectionsNext, Reconcile

-----------------------------------------------------------------------------
(* Types of the historian's client: what is counted stays below its limit. *)

HistorianCounts ==
    /\ poolOpen \in BOOLEAN /\ cancelRequests \subseteq Conns
    /\ queries \in Nat /\ queries + Len(statements) <= MaxDbCalls
    /\ dbFaults \in 0..MaxDbFaults
    /\ \A t \in ApiThreads : apiThread[t].attempt <= WriteAttempts

LEMMA HistorianCountsInit == HistorianInit => HistorianCounts
<1> SUFFICES ASSUME HistorianInit PROVE HistorianCounts
    OBVIOUS
<1>1. \A t \in ApiThreads : apiThread[t].attempt = 0
      BY DEF HistorianInit, IdleThread
<1>2. {MaxDbCalls, MaxDbFaults, WriteAttempts} \subseteq Nat
      BY HistorianClientAssumption
<1>3. statements = <<>> /\ queries = 0
      BY DEF HistorianInit
<1>4. Len(statements) = 0
  <2>1. Len(<<>>) = 0
        OBVIOUS
  <2> QED BY <1>3, <2>1
<1>5. queries \in Nat /\ queries + Len(statements) <= MaxDbCalls /\ dbFaults \in 0..MaxDbFaults
  <2>1. dbFaults = 0
        BY DEF HistorianInit
  <2> QED BY <1>2, <1>3, <1>4, <2>1
<1>6. poolOpen \in BOOLEAN /\ cancelRequests \subseteq Conns
      BY DEF HistorianInit
<1>7. \A t \in ApiThreads : apiThread[t].attempt <= WriteAttempts
      BY <1>1, <1>2
<1> QED BY <1>5, <1>6, <1>7 DEF HistorianCounts

LEMMA HistorianCountsStep == HistorianInv /\ HistorianCounts /\ [HistorianNext]_historianVars => HistorianCounts'
<1> SUFFICES ASSUME HistorianInv, HistorianCounts, [HistorianNext]_historianVars PROVE HistorianCounts'
    OBVIOUS
<1>0. /\ HandlesInv /\ Through /\ statements \in Seq(Statements)
      /\ {MaxDbCalls, MaxDbFaults, WriteAttempts} \subseteq Nat /\ WriteAttempts >= 1
      BY HistorianClientAssumption DEF HistorianInv, Through
<1>1. apiThread \in [ApiThreads -> ThreadStates] /\ activeQueries \in [QueryIds -> Conns \cup {0}]
      BY <1>0 DEF HandlesInv
\* Nothing is counted in a step that begins nothing.
<1>2. ASSUME poolOpen' \in BOOLEAN, cancelRequests' \subseteq Conns, UNCHANGED queries,
             Len(statements') = Len(statements), dbFaults' = dbFaults \/ DbFault,
             \A t \in ApiThreads : apiThread'[t].attempt \in {0, apiThread[t].attempt}
      PROVE  HistorianCounts'
  <2>1. dbFaults' \in 0..MaxDbFaults
        BY <1>0, <1>2 DEF DbFault, HistorianCounts
  <2>2. \A t \in ApiThreads : apiThread'[t].attempt <= WriteAttempts
        BY <1>0, <1>2 DEF HistorianCounts
  <2> QED BY <1>2, <2>1, <2>2 DEF HistorianCounts
<1>3. ASSUME NEW t \in ApiThreads, NEW place, NEW error, ThreadGoesTo(t, place, error)
      PROVE  \A u \in ApiThreads : apiThread'[u].attempt = apiThread[u].attempt
      BY <1>0, <1>3, MovedThread
<1>4. ASSUME NEW t \in ApiThreads, OpenPool(t) PROVE HistorianCounts'
  <2>1. poolOpen' \in BOOLEAN /\ UNCHANGED <<cancelRequests, queries, statements>> /\ (dbFaults' = dbFaults \/ DbFault)
        BY <1>4 DEF OpenPool, HistorianCounts
  <2>2. \E place, error : ThreadGoesTo(t, place, error)
        BY <1>4 DEF OpenPool
  <2> QED BY <1>2, <1>3, <2>1, <2>2 DEF HistorianCounts
<1>5. ASSUME NEW t \in ApiThreads, GetConnection(t) PROVE HistorianCounts'
  <2>1. UNCHANGED <<poolOpen, cancelRequests, queries, statements>> /\ (dbFaults' = dbFaults \/ DbFault)
        BY <1>5 DEF GetConnection
  <2>2. (\E place, error : ThreadGoesTo(t, place, error)) \/ (\E c : TakeConnection(t, c))
        BY <1>5 DEF GetConnection
  <2>3. ASSUME NEW c, TakeConnection(t, c) PROVE \A u \in ApiThreads : apiThread'[u].attempt = apiThread[u].attempt
        BY <1>0, <2>3, TakenThread
  <2> QED BY <1>2, <1>3, <2>1, <2>2, <2>3 DEF HistorianCounts
<1>6. ASSUME NEW t \in ApiThreads, ExecuteStatement(t) PROVE HistorianCounts'
  <2>1. \E place, error : ThreadGoesTo(t, place, error)
        BY <1>6 DEF ExecuteStatement
  <2> QED BY <1>2, <1>3, <1>6, <2>1 DEF ExecuteStatement, HistorianCounts
<1>7. ASSUME NEW t \in ApiThreads, CommitWrite(t) PROVE HistorianCounts'
  <2>1. \E place, error : ThreadGoesTo(t, place, error)
        BY <1>7 DEF CommitWrite
  <2>2. UNCHANGED <<poolOpen, cancelRequests, queries>> /\ (dbFaults' = dbFaults \/ DbFault)
        BY <1>7 DEF CommitWrite
  <2>3. statements' = statements \/ \E r : statements' = [statements EXCEPT ![Len(statements)] = r]
        BY <1>7 DEF CommitWrite
  <2>4. Len(statements') = Len(statements)
        BY <1>0, <2>3
  <2> QED BY <1>2, <1>3, <2>1, <2>2, <2>4 DEF HistorianCounts
<1>8. ASSUME NEW t \in ApiThreads, ReleaseHandle(t) PROVE HistorianCounts'
      BY <1>2, <1>3, <1>8 DEF ReleaseHandle, HistorianCounts
<1>9. ASSUME NEW t \in ApiThreads, ReturnConnection(t) PROVE HistorianCounts'
      BY <1>0, <1>2, <1>9, ReturnedThread DEF ReturnConnection, HistorianCounts
<1>10. IdleThread.attempt = 0
       BY DEF IdleThread
<1>11. ASSUME NEW t \in QueryThreads, NEW q \in QueryIds, BeginQuery(t, q) PROVE HistorianCounts'
  <2>1. t \in ApiThreads
        BY DEF ApiThreads
  <2>2. PICK r : r = [IdleThread EXCEPT !.pc = "pool", !.query = q]
        OBVIOUS
  <2>3. r.attempt = 0
        BY <2>2 DEF IdleThread
  <2>4. \A u \in ApiThreads : apiThread'[u].attempt \in {0, apiThread[u].attempt}
        BY <1>1, <1>11, <2>1, <2>2, <2>3 DEF BeginQuery
  <2>5. \A u \in ApiThreads : apiThread'[u].attempt <= WriteAttempts
        BY <1>0, <2>4 DEF HistorianCounts
  <2>6. queries' \in Nat /\ queries' + Len(statements') <= MaxDbCalls
        BY <1>0, <1>11 DEF BeginQuery, HistorianCounts
  <2> QED BY <1>11, <2>5, <2>6 DEF BeginQuery, HistorianCounts
<1>12. ASSUME NEW t \in QueryThreads, EndQuery(t) PROVE HistorianCounts'
  <2>1. t \in ApiThreads
        BY DEF ApiThreads
  <2>2. \A u \in ApiThreads : apiThread'[u].attempt \in {0, apiThread[u].attempt}
        BY <1>1, <1>10, <1>12, <2>1 DEF EndQuery
  <2> QED BY <1>2, <1>12, <2>2 DEF EndQuery, HistorianCounts
<1>13. ASSUME NEW q \in QueryIds, LookUp(q) PROVE HistorianCounts'
  <2>1. cancelRequests' \subseteq Conns
        BY <1>1, <1>13 DEF LookUp, HistorianCounts
  <2> QED BY <1>2, <1>13, <2>1 DEF LookUp, HistorianCounts
<1>14. ASSUME NEW c \in cancelRequests, CancelConnection(c) PROVE HistorianCounts'
  <2>1. /\ UNCHANGED <<poolOpen, queries, statements>> /\ (dbFaults' = dbFaults \/ DbFault)
        /\ cancelRequests' \subseteq Conns
        BY <1>14 DEF CancelConnection, HistorianCounts
  <2>2. UNCHANGED apiThread \/ \E t \in ApiThreads : \E place, error : ThreadGoesTo(t, place, error)
        BY <1>14 DEF CancelConnection
  <2> QED BY <1>2, <1>3, <2>1, <2>2 DEF HistorianCounts
<1>15. ASSUME NEW kind \in {"write", "audit"}, BeginStatement(kind) PROVE HistorianCounts'
  <2>1. PICK r : r = [IdleThread EXCEPT !.pc = "pool", !.attempt = 1]
        OBVIOUS
  <2>2. r.attempt = 1
        BY <2>1 DEF IdleThread
  <2>3. \A u \in ApiThreads : apiThread'[u].attempt \in {1, apiThread[u].attempt}
        BY <1>1, <1>15, <2>1, <2>2, LoopIsThread DEF BeginStatement
  <2>4. \A u \in ApiThreads : apiThread'[u].attempt <= WriteAttempts
        BY <1>0, <2>3 DEF HistorianCounts
  <2>5. Len(statements') = Len(statements) + 1 /\ queries + Len(statements) < MaxDbCalls /\ queries' = queries
        BY <1>0, <1>15 DEF BeginStatement
  <2>6. queries' \in Nat /\ queries' + Len(statements') <= MaxDbCalls
        BY <1>0, <2>5 DEF HistorianCounts
  <2> QED BY <1>15, <2>4, <2>6 DEF BeginStatement, HistorianCounts
<1>16. CASE EndAttempt
  <2>1. UNCHANGED <<cancelRequests, queries, dbFaults>> /\ poolOpen' \in BOOLEAN
        BY <1>16 DEF EndAttempt, Reopen, HistorianCounts
  <2>2. Len(statements') = Len(statements)
    <3>1. statements' = statements \/ \E o : statements' = [statements EXCEPT ![Len(statements)].outcome = o]
          BY <1>16 DEF EndAttempt, EndStatement
    <3> QED BY <1>0, <3>1
  <2>3. ASSUME NEW t \in ApiThreads PROVE apiThread'[t].attempt <= WriteAttempts
    <3>1. apiThread[t] \in ThreadStates /\ apiThread[EventLoop] \in ThreadStates
          BY <1>1, LoopIsThread
    <3>2. CASE t = EventLoop
      <4>1. CASE /\ apiThread'[EventLoop] = [IdleThread EXCEPT !.pc = "pool", !.attempt = apiThread[EventLoop].attempt + 1]
                 /\ apiThread[EventLoop].attempt < WriteAttempts
        <5>1. apiThread'[EventLoop].attempt = apiThread[EventLoop].attempt + 1
              BY <4>1 DEF IdleThread
        <5> QED BY <1>0, <3>1, <3>2, <4>1, <5>1 DEF ThreadStates
      <4>2. CASE apiThread'[EventLoop] = IdleThread
            BY <1>0, <1>10, <3>2, <4>2
      <4>3. CASE apiThread' = NextAttempt /\ apiThread[EventLoop].attempt < WriteAttempts
            BY <4>1, <4>3, LoopIsThread DEF NextAttempt
      <4>4. CASE \E o : EndStatement(o, NextAttempt) \/ EndStatement(o, apiThread)
            BY <1>1, <4>2, <4>4, LoopIsThread DEF EndStatement, NextAttempt
      <4> QED BY <1>16, <4>3, <4>4 DEF EndAttempt
    <3>3. CASE t # EventLoop
      <4>1. apiThread'[t] = apiThread[t] \/ \E b : apiThread'[t] = [apiThread[t] EXCEPT !.stale = b]
            BY <1>0, <1>1, <1>16, <3>3, AttemptEnds, LoopIsThread
      <4>2. apiThread'[t].attempt = apiThread[t].attempt
            BY <3>1, <4>1 DEF ThreadStates
      <4> QED BY <4>2 DEF HistorianCounts
    <3> QED BY <3>2, <3>3
  <2> QED BY <2>1, <2>2, <2>3 DEF HistorianCounts
<1>17. CASE BreakConnections
      BY <1>2, <1>17 DEF BreakConnections, HistorianCounts
<1>18. CASE UNCHANGED historianVars
      BY <1>2, <1>18 DEF historianVars, HistorianCounts
<1> QED BY <1>4, <1>5, <1>6, <1>7, <1>8, <1>9, <1>11, <1>12, <1>13, <1>14, <1>15, <1>16, <1>17, <1>18
        DEF HistorianNext

LEMMA HistorianTyped == HistorianInv /\ HistorianCounts => HistorianTypeOK
<1> SUFFICES ASSUME HistorianInv, HistorianCounts PROVE HistorianTypeOK
    OBVIOUS
<1>1. queries \in 0..MaxDbCalls
      BY HistorianClientAssumption DEF HistorianInv, Through, HistorianCounts
<1> QED BY <1>1 DEF HistorianInv, HistorianCounts, HandlesInv, OnePlace, Through, Statements, HistorianTypeOK

-----------------------------------------------------------------------------
(* Types of the runtime processor: a window is of records of the topic and *)
(* never longer than its deque.                                            *)

ProcessorTypes ==
    /\ {delivered, failed, stored} \subseteq SUBSET Derived
    /\ DOMAIN windows \subseteq Streams
    /\ \A k \in DOMAIN windows : windows[k] \in Seq(Offsets) /\ Len(windows[k]) <= WindowLimit
    /\ processed \in 0..PruneEvery - 1

LEMMA ProcessorTypesInit == Init => ProcessorTypes
<1> SUFFICES ASSUME Init PROVE ProcessorTypes
    OBVIOUS
<1>1. DOMAIN Nothing = {} /\ windows = Nothing
      BY DEF Nothing, Init
<1>2. processed \in 0..PruneEvery - 1
      BY ProcessorAssumption DEF Init
<1> QED BY <1>1, <1>2 DEF Init, ProcessorTypes

LEMMA AppendedTyped ==
    ASSUME NEW S, NEW w \in Seq(S), Len(w) <= WindowLimit, NEW o \in S
    PROVE  Appended(w, o) \in Seq(S) /\ Len(Appended(w, o)) <= WindowLimit
<1>1. WindowLimit \in Nat /\ WindowLimit >= 1 /\ Len(w) \in Nat
      BY ProcessorAssumption
<1>2. CASE Len(w) >= WindowLimit
  <2>1. w # <<>>
        BY <1>1, <1>2
  <2>2. Tail(w) \in Seq(S) /\ Len(Tail(w)) = Len(w) - 1
        BY <2>1, HeadTailProperties
  <2>3. Append(Tail(w), o) \in Seq(S) /\ Len(Append(Tail(w), o)) = Len(w)
        BY <1>1, <2>2, AppendProperties
  <2> QED BY <1>2, <2>3 DEF Appended
<1>3. CASE ~(Len(w) >= WindowLimit)
  <2>1. Append(w, o) \in Seq(S) /\ Len(Append(w, o)) = Len(w) + 1
        BY AppendProperties
  <2> QED BY <1>1, <1>3, <2>1 DEF Appended
<1> QED BY <1>2, <1>3

LEMMA ProcessTypes ==
    ASSUME RuntimeInv, StreamsInv, ProcessorTypes, Process
    PROVE  ProcessorTypes'
<1>1. PICK now \in {clock + gap : gap \in instance.gaps}, severity \in Severities : Observe(position, now, severity)
      BY DEF Process
<1>2. /\ position < Len(topic) /\ UNCHANGED <<instance, delivered, failed, stored>>
      /\ topic' = topic /\ Offsets' = Offsets /\ Derived' = Derived
      BY DEF Process, kafka, topic, Offsets, Derived
<1>3. position \in Offsets /\ Record(position) \in [stream : Streams, level : Levels \cup {Poison}]
  <2> DEFINE R == [stream : Streams, level : Levels \cup {Poison}]
  <2>1. topic \in Seq(R) /\ Len(topic) \in Nat /\ position \in Nat
        BY TopicType DEF StreamsInv
  <2> HIDE DEF R
  <2>2. position \in Offsets /\ position + 1 \in 1..Len(topic)
        BY <1>2, <2>1 DEF Offsets
  <2>3. topic[position + 1] \in R
        BY <2>1, <2>2, ElementOfSeq
  <2> QED BY <2>2, <2>3 DEF Record, R
<1> DEFINE key == Record(position).stream
           window == At(windows, key, <<>>)
<1>4. key \in Streams /\ DOMAIN lastSeen = DOMAIN windows
      BY <1>3 DEF StreamsInv
<1>5. processed' \in 0..PruneEvery - 1
  <2>1. processed' = (processed + 1) % PruneEvery
        BY <1>1 DEF Observe
  <2>2. PruneEvery \in Nat \ {0} /\ processed + 1 \in Nat
        BY ProcessorAssumption DEF ProcessorTypes
  <2> QED BY <2>1, <2>2
<1>6. PICK keep : /\ windows' = Restrict(With(windows, key, Appended(window, position)), keep)
                  /\ keep \subseteq DOMAIN With(lastSeen, key, now)
  <2>1. PruneWindows(With(lastSeen, key, now), now) \subseteq SUBSET DOMAIN With(lastSeen, key, now)
        BY DEF PruneWindows
  <2> QED BY <1>1, <2>1 DEF Observe
<1>7. window \in Seq(Offsets) /\ Len(window) <= WindowLimit
  <2>1. CASE key \in DOMAIN windows
        BY <2>1 DEF At, ProcessorTypes
  <2>2. CASE key \notin DOMAIN windows
    <3>1. window = <<>>
          BY <2>2 DEF At
    <3>2. WindowLimit \in Nat /\ <<>> \in Seq(Offsets) /\ Len(<<>>) = 0
          BY ProcessorAssumption
    <3>3. Len(<<>>) <= WindowLimit
          BY <3>2
    <3> QED BY <3>1, <3>2, <3>3
  <2> QED BY <2>1, <2>2
<1>8. Appended(window, position) \in Seq(Offsets) /\ Len(Appended(window, position)) <= WindowLimit
      BY <1>3, <1>7, AppendedTyped
<1> HIDE DEF key, window
<1>9. DOMAIN windows' = keep /\ keep \subseteq DOMAIN windows \cup {key}
      BY <1>4, <1>6 DEF Restrict, With
<1>10. \A k \in keep : windows'[k] = IF k = key THEN Appended(window, position) ELSE windows[k]
      BY <1>6, <1>9 DEF Restrict, With
<1>11. \A k \in keep : windows'[k] \in Seq(Offsets) /\ Len(windows'[k]) <= WindowLimit
      BY <1>8, <1>9, <1>10 DEF ProcessorTypes
<1>12. keep \subseteq Streams
      BY <1>4, <1>9 DEF ProcessorTypes
<1> QED BY <1>2, <1>5, <1>9, <1>11, <1>12 DEF ProcessorTypes

LEMMA ProcessorTypesStep == RuntimeInv /\ StreamsInv /\ ProcessorTypes /\ [Next]_vars => ProcessorTypes'
<1> SUFFICES ASSUME RuntimeInv, StreamsInv, ProcessorTypes, [Next]_vars PROVE ProcessorTypes'
    OBVIOUS
<1>0. Batch \subseteq Derived /\ queue \subseteq Derived
  <2>1. ProcessorType
        BY DEF RuntimeInv
  <2> QED BY <2>1 DEF ProcessorType, Batch, ToSet
<1>1. UNCHANGED instance /\ topic' = topic /\ Offsets' = Offsets /\ Derived' = Derived
  <2>1. UNCHANGED instance
        BY DEF Next, vars, Start, Process, ProcessRaises, FlushIdle, Stop, EnsureDelivery, DeliveryIncomplete,
               InsertProcessed, InsertRejected, CommitOffsets, CommitFails, Close, Crash, Exit, Deliver
  <2> QED BY <2>1 DEF topic, Offsets, Derived
<1>2. CASE Process
      BY <1>2, ProcessTypes
<1>3. CASE Start
  <2>1. DOMAIN windows' = {} /\ processed' = 0 /\ UNCHANGED <<delivered, failed, stored>>
        BY <1>3 DEF Start, Nothing, kafka
  <2>2. processed' \in 0..PruneEvery - 1
        BY <2>1, ProcessorAssumption
  <2> QED BY <1>1, <2>1, <2>2 DEF ProcessorTypes
<1>4. ASSUME UNCHANGED streamState, {delivered', failed', stored'} \subseteq SUBSET Derived
      PROVE  ProcessorTypes'
      BY <1>1, <1>4 DEF streamState, ProcessorTypes
<1>5. CASE InsertProcessed \/ InsertRejected
  <2>1. stored' \subseteq stored \cup Batch
        BY <1>5 DEF InsertProcessed, InsertRejected, Insert
  <2> QED BY <1>0, <1>4, <1>5, <2>1 DEF InsertProcessed, InsertRejected, kafka, ProcessorTypes
<1>6. CASE Deliver
  <2>1. delivered' \subseteq delivered \cup queue /\ failed' \subseteq failed \cup queue
        BY <1>6 DEF Deliver
  <2> QED BY <1>0, <1>4, <1>6, <2>1 DEF Deliver, ProcessorTypes
<1>7. CASE ProcessRaises \/ FlushIdle \/ Stop \/ EnsureDelivery \/ DeliveryIncomplete \/ CommitOffsets
           \/ CommitFails \/ Close \/ Crash \/ UNCHANGED vars
  <2>1. UNCHANGED <<delivered, failed, stored, streamState>>
        BY <1>7 DEF ProcessRaises, FlushIdle, Stop, EnsureDelivery, DeliveryIncomplete, CommitOffsets,
                    CommitFails, Close, Crash, Exit, kafka, vars
  <2> QED BY <1>4, <2>1 DEF ProcessorTypes
<1> QED BY <1>2, <1>3, <1>5, <1>6, <1>7 DEF Next

LEMMA ProcessorTyped == RuntimeInv /\ StreamsInv /\ ProcessorTypes => TypeOK
<1> SUFFICES ASSUME RuntimeInv, StreamsInv, ProcessorTypes PROVE TypeOK
    OBVIOUS
<1>1. ProcessorType
      BY DEF RuntimeInv
<1>2. \A k \in DOMAIN runtime :
          runtime[k] \in [severity : Severities, candidate : Severities \cup {None}, since : 0..clock]
  <2> SUFFICES ASSUME NEW k \in DOMAIN runtime
               PROVE  runtime[k] \in [severity : Severities, candidate : Severities \cup {None}, since : 0..clock]
      OBVIOUS
  <2>1. runtime[k] \in ThresholdState /\ runtime[k].since <= clock /\ clock \in Nat
        BY DEF StreamsInv, StreamInv
  <2> QED BY <2>1 DEF ThresholdState
<1>3. {DOMAIN windows, DOMAIN lastSeen, DOMAIN runtime, DOMAIN trace} = {DOMAIN windows} /\ clock \in Nat
      BY DEF StreamsInv
<1> QED BY <1>1, <1>2, <1>3 DEF ProcessorType, ProcessorTypes, TypeOK

-----------------------------------------------------------------------------
(* Types of the assistant's turns, over either store.  A turn begins in a  *)
(* place that is free because each message that waits has one of its own.  *)

\* Messages whose turn has not begun.
Waiting == {m \in streams : \A t \in Turns : turn[t].message # m}

AssistantTypes ==
    /\ AssistantTypeOK
    /\ IsFiniteSet(streams) /\ jobs \in Seq(streams)
    /\ job \in [Workers -> streams \cup {NoJob}]
    /\ \A t \in Turns : t > begun => turn[t].message = NoJob
    /\ begun + Cardinality(Waiting) <= MaxTurns

LEMMA AssistantTypesInit == AssistantInit => AssistantTypes
<1> SUFFICES ASSUME AssistantInit PROVE AssistantTypes
    OBVIOUS
<1>1. TurnsType
      BY TurnsInvInit DEF TurnsInv
<1>2. {MaxTurns, MaxTitles, MaxKills} \subseteq Nat
      BY AssistantTurnsAssumption
<1>3. fileCopy \in [Processes -> Contents] /\ titling \in [by : Processes \cup {NoJob}, answered : SUBSET Turns]
  <2>1. Empty \in Contents
        BY DEF Empty, Contents, Statuses
  <2> QED BY <2>1 DEF AssistantInit, NotTitling
<1>4. AssistantTypeOK
      BY <1>1, <1>2, <1>3 DEF AssistantInit, TurnsType, AssistantTypeOK
<1>5. Waiting = {} /\ Cardinality({}) = 0 /\ IsFiniteSet({})
      BY FS_EmptySet DEF AssistantInit, Waiting
<1>6. begun + Cardinality(Waiting) <= MaxTurns
  <2>1. begun = 0 /\ Cardinality(Waiting) = 0
        BY <1>5 DEF AssistantInit
  <2> QED BY <1>2, <2>1
<1> QED BY <1>4, <1>5, <1>6 DEF AssistantInit, AssistantTypes

\* What a process reads has the type of what is stored, and so has what is saved.
LEMMA ViewTyped == AssistantTypeOK => \A p \in Processes : View(p) \in Contents
  BY DEF AssistantTypeOK, View

LEMMA SaveTyped ==
    ASSUME AssistantTypeOK, NEW p, NEW content \in Contents, Save(p, content)
    PROVE  store' \in Contents /\ fileCopy' \in [Processes -> Contents]
  BY DEF AssistantTypeOK, Save

\* A step that begins no turn, and streams no message.
LEMMA NoTurnBegins ==
    ASSUME AssistantTypes, UNCHANGED <<streams, begun>>,
           store' \in Contents /\ fileCopy' \in [Processes -> Contents],
           turn' \in [Turns -> Executions], \A t \in Turns : turn'[t].message = turn[t].message,
           jobs' \in Seq(streams), job' \in [Workers -> streams \cup {NoJob}],
           streamEnd' \in [Messages -> SUBSET {"complete", "error"}],
           cancelKeys' \subseteq Messages, cancelling' \subseteq Messages \X Turns,
           kills' = kills \/ Kill,
           titling' \in [by : Processes \cup {NoJob}, answered : SUBSET Turns],
           titles' \in 0..MaxTitles, overwritten' \subseteq Turns
    PROVE  AssistantTypes'
<1>1. Waiting' = Waiting
      BY DEF Waiting
<1>2. kills' \in 0..MaxKills
      BY AssistantTurnsAssumption DEF Kill, AssistantTypes, AssistantTypeOK
<1>3. jobs' \in Seq(Messages) /\ job' \in [Workers -> Messages \cup {NoJob}]
  <2>1. streams \subseteq Messages
        BY DEF AssistantTypes, AssistantTypeOK
  <2> QED BY <2>1
<1> QED BY <1>1, <1>2, <1>3 DEF AssistantTypes, AssistantTypeOK

\* A turn that begins, of a message that waits or of none.
LEMMA TurnBegins ==
    ASSUME AssistantTypes, NEW p \in Processes, NEW m \in streams \cup {NoJob},
           IF m = NoJob THEN Room ELSE m \in Waiting,
           StartTurn(p, m),
           UNCHANGED <<streams, jobs, job, cancelKeys, cancelling, streamEnd, kills, titleVars>>
    PROVE  AssistantTypes'
<1> DEFINE n == begun + 1
<1>0. AssistantTypeOK /\ streams \subseteq Messages /\ NoJob \notin Messages /\ MaxTurns \in Nat /\ begun \in Nat
      BY AssistantTurnsAssumption DEF AssistantTypes, AssistantTypeOK
<1>1. IsFiniteSet(Waiting) /\ Cardinality(Waiting) \in Nat
  <2>1. Waiting \subseteq streams
        BY DEF Waiting
  <2> QED BY <2>1, FS_Subset, FS_CardinalityType DEF AssistantTypes
<1>2. m \in Waiting => /\ IsFiniteSet(Waiting \ {m})
                       /\ Cardinality(Waiting \ {m}) = Cardinality(Waiting) - 1
      BY <1>1, FS_RemoveElement
<1>3. m \in Waiting => Cardinality(Waiting \ {m}) \in Nat
      BY <1>2, FS_CardinalityType
<1>4. n \in Turns /\ begun' = n /\ n \in Nat
  <2>1. CASE m = NoJob
    <3>1. begun + Cardinality(Waiting) < MaxTurns
          BY <2>1 DEF Room, Waiting
    <3> QED BY <1>0, <1>1, <3>1 DEF Turns, StartTurn
  <2>2. CASE m # NoJob
    <3>1. Cardinality(Waiting) >= 1
          BY <1>1, <1>2, <1>3, <2>2
    <3> QED BY <1>0, <1>1, <3>1 DEF Turns, StartTurn, AssistantTypes
  <2> QED BY <2>1, <2>2
<1>5. turn' = [turn EXCEPT ![n] = [pc |-> "started", host |-> p, message |-> m]]
      BY <1>4 DEF StartTurn
<1>6. store' \in Contents /\ fileCopy' \in [Processes -> Contents]
  <2> DEFINE no == FALSE
  <2>1. Save(p, SetStatus(View(p), n, "running", no)) /\ no \in BOOLEAN /\ "running" \in Statuses
        BY <1>4 DEF StartTurn, Statuses
  <2> HIDE DEF no, n
  <2>2. SetStatus(View(p), n, "running", no) \in Contents
        BY <1>0, <2>1, ViewTyped, SetStatusGives
  <2> QED BY <1>0, <2>1, <2>2, SaveTyped
<1>7. turn[n].message = NoJob /\ n > begun
      BY <1>0, <1>4 DEF AssistantTypes
<1> HIDE DEF n
<1>8. /\ turn' \in [Turns -> Executions] /\ turn'[n].message = m
      /\ \A t \in Turns \ {n} : turn'[t] = turn[t]
  <2>1. turn \in [Turns -> Executions] /\ m \in Messages \cup {NoJob}
        BY <1>0 DEF AssistantTypeOK
  <2> QED BY <1>4, <1>5, <2>1 DEF Executions
<1>9. \A t \in Turns : t > begun' => turn'[t].message = NoJob
  <2> SUFFICES ASSUME NEW t \in Turns, t > n PROVE turn'[t].message = NoJob
      BY <1>4
  <2>1. t # n /\ t > begun
        BY <1>0, <1>4, <1>7 DEF Turns
  <2> QED BY <1>8, <2>1 DEF AssistantTypes
<1>10. begun' + Cardinality(Waiting') <= MaxTurns
  <2>1. CASE m = NoJob
    <3>1. Waiting' = Waiting
          BY <1>0, <1>4, <1>7, <1>8, <2>1 DEF Waiting
    <3>2. begun + Cardinality(Waiting) < MaxTurns
          BY <2>1 DEF Room, Waiting
    <3> QED BY <1>0, <1>1, <1>4, <3>1, <3>2 DEF n
  <2>2. CASE m # NoJob
    <3>1. Waiting' = Waiting \ {m}
          BY <1>0, <1>4, <1>7, <1>8, <2>2 DEF Waiting
    <3>2. begun + Cardinality(Waiting) <= MaxTurns
          BY DEF AssistantTypes
    <3> QED BY <1>0, <1>1, <1>2, <1>4, <2>2, <3>1, <3>2 DEF n
  <2> QED BY <2>1, <2>2
<1>11. begun' \in 0..MaxTurns
       BY <1>0, <1>4 DEF Turns
<1> QED BY <1>6, <1>8, <1>9, <1>10, <1>11 DEF AssistantTypes, AssistantTypeOK, titleVars

\* One message more that waits.
LEMMA MessageStreamed ==
    ASSUME AssistantTypes, NEW m \in Messages, StreamMessage(m)
    PROVE  AssistantTypes'
<1>0. /\ AssistantTypeOK /\ streams \subseteq Messages /\ MaxTurns \in Nat /\ begun \in Nat
      /\ IsFiniteSet(streams) /\ jobs \in Seq(streams)
      BY AssistantTurnsAssumption DEF AssistantTypes, AssistantTypeOK
<1>1. /\ streams' = streams \cup {m} /\ jobs' = Append(jobs, m)
      /\ begun + Cardinality(Waiting) < MaxTurns
      /\ UNCHANGED <<job, turn, store, fileCopy, begun, cancelKeys, cancelling, streamEnd, kills, titleVars>>
      BY DEF StreamMessage, Room, Waiting
<1>2. IsFiniteSet(streams')
      BY <1>0, <1>1, FS_AddElement
<1>3. jobs' \in Seq(streams') /\ jobs' \in Seq(Messages)
  <2>1. jobs \in Seq(streams') /\ jobs \in Seq(Messages)
        BY <1>0, <1>1
  <2> QED BY <1>1, <2>1, AppendProperties
<1>4. IsFiniteSet(Waiting) /\ Cardinality(Waiting) \in Nat
  <2>1. Waiting \subseteq streams
        BY DEF Waiting
  <2> QED BY <1>0, <2>1, FS_Subset, FS_CardinalityType
<1>5. Cardinality(Waiting') \in Nat /\ Cardinality(Waiting') <= Cardinality(Waiting) + 1
  <2>1. Waiting' \subseteq Waiting \cup {m}
        BY <1>1 DEF Waiting
  <2>2. IsFiniteSet(Waiting \cup {m}) /\ Cardinality(Waiting \cup {m}) \in {Cardinality(Waiting), Cardinality(Waiting) + 1}
        BY <1>4, FS_AddElement
  <2>3. IsFiniteSet(Waiting') /\ Cardinality(Waiting') <= Cardinality(Waiting \cup {m})
        BY <2>1, <2>2, FS_Subset
  <2>4. Cardinality(Waiting') \in Nat
        BY <2>3, FS_CardinalityType
  <2> QED BY <1>4, <2>2, <2>3, <2>4
<1>6. begun' + Cardinality(Waiting') <= MaxTurns
      BY <1>0, <1>1, <1>4, <1>5
<1> QED BY <1>0, <1>1, <1>2, <1>3, <1>6 DEF AssistantTypes, AssistantTypeOK, titleVars

\* A worker is free again.
LEMMA FreesTyped ==
    ASSUME AssistantTypes, NEW t, FreeWorker(t)
    PROVE  job' \in [Workers -> streams \cup {NoJob}]
  BY DEF AssistantTypes, FreeWorker

LEMMA PublishesTyped ==
    ASSUME AssistantTypes, NEW event \in {"complete", "error"},
           (\E m : PublishEnd(m, event)) \/ (\E t : PublishFor(t, event))
    PROVE  streamEnd' \in [Messages -> SUBSET {"complete", "error"}]
  BY DEF AssistantTypes, AssistantTypeOK, PublishEnd, PublishFor

LEMMA AssistantTypesStep == AssistantTypes /\ [AssistantNext]_turnVars => AssistantTypes'
<1> SUFFICES ASSUME AssistantTypes, [AssistantNext]_turnVars PROVE AssistantTypes'
    OBVIOUS
<1>0. /\ AssistantTypeOK /\ TurnsType /\ streams \subseteq Messages
      /\ store \in Contents /\ fileCopy \in [Processes -> Contents] /\ turn \in [Turns -> Executions]
      /\ jobs \in Seq(streams) /\ job \in [Workers -> streams \cup {NoJob}]
      /\ streamEnd \in [Messages -> SUBSET {"complete", "error"}]
      /\ cancelKeys \subseteq Messages /\ cancelling \subseteq Messages \X Turns
      /\ titling \in [by : Processes \cup {NoJob}, answered : SUBSET Turns]
      /\ titles \in 0..MaxTitles /\ overwritten \subseteq Turns /\ begun \in Nat
      /\ NotTitling \in [by : Processes \cup {NoJob}, answered : SUBSET Turns]
      /\ Api \in Processes /\ Workers \subseteq Processes
      BY AssistantTurnsAssumption DEF AssistantTypes, AssistantTypeOK, TurnsType, NotTitling, Processes
<1>01. \A t \in Turns : turn[t].host \in Processes
       BY <1>0 DEF Executions
<1>02. ASSUME NEW p \in Processes, NEW t, NEW status \in Statuses, NEW retryable \in BOOLEAN,
              Save(p, SetStatus(View(p), t, status, retryable))
       PROVE  store' \in Contents /\ fileCopy' \in [Processes -> Contents]
  <2>1. SetStatus(View(p), t, status, retryable) \in Contents
        BY <1>0, ViewTyped, SetStatusGives
  <2> QED BY <1>0, <1>02, <2>1, SaveTyped
<1>1. ASSUME NEW m \in Messages, StreamMessage(m) PROVE AssistantTypes'
      BY <1>1, MessageStreamed
<1>2. ASSUME NEW m \in Messages, CancelStream(m) PROVE AssistantTypes'
  <2>1. streamEnd' \in [Messages -> SUBSET {"complete", "error"}]
        BY <1>0, <1>2, PublishesTyped DEF CancelStream
  <2>2. cancelKeys' \subseteq Messages /\ cancelling' \subseteq Messages \X Turns
        BY <1>0, <1>2 DEF CancelStream, Cancellable, UnderWay
  <2> QED BY <1>0, <1>2, <2>1, <2>2, NoTurnBegins DEF CancelStream, titleVars
<1>3. ASSUME NEW m \in Messages, NEW t \in Turns, CancelTurn(m, t) PROVE AssistantTypes'
  <2> DEFINE no == FALSE
  <2>1. Save(Api, SetStatus(View(Api), t, "failed", no)) /\ no \in BOOLEAN /\ "failed" \in Statuses
        BY <1>3 DEF CancelTurn, Statuses
  <2> HIDE DEF no
  <2>2. store' \in Contents /\ fileCopy' \in [Processes -> Contents]
        BY <1>0, <1>02, <2>1
  <2>3. streamEnd' \in [Messages -> SUBSET {"complete", "error"}]
        BY <1>3, PublishesTyped DEF CancelTurn
  <2>4. cancelling' \subseteq Messages \X Turns
        BY <1>0, <1>3 DEF CancelTurn
  <2> QED BY <1>0, <1>3, <2>2, <2>3, <2>4, NoTurnBegins DEF CancelTurn, titleVars
<1>4. ASSUME SendMessage \/ \E t \in Turns : RetryTurn(t) PROVE AssistantTypes'
      BY <1>0, <1>4, TurnBegins DEF SendMessage, RetryTurn
<1>5. ASSUME NEW t \in Turns, ClaimTurn(t) PROVE AssistantTypes'
  <2> DEFINE no == FALSE
  <2>1. /\ no \in BOOLEAN /\ "executing" \in Statuses
        /\ \/ UNCHANGED <<store, fileCopy>>
           \/ Save(turn[t].host, SetStatus(View(turn[t].host), t, "executing", no))
        BY <1>5 DEF ClaimTurn, Statuses
  <2> HIDE DEF no
  <2>2. store' \in Contents /\ fileCopy' \in [Processes -> Contents]
        BY <1>0, <1>01, <1>02, <2>1
  <2>3. turn' \in [Turns -> Executions] /\ \A u \in Turns : turn'[u].message = turn[u].message
        BY <1>0, <1>5, Goes DEF ClaimTurn
  <2> QED BY <1>0, <1>5, <2>2, <2>3, NoTurnBegins DEF ClaimTurn, titleVars
<1>6. ASSUME NEW t \in Turns, AppendAnswer(t) PROVE AssistantTypes'
  <2>1. [View(turn[t].host) EXCEPT !.answered = @ \cup {t}] \in Contents
    <3>1. View(turn[t].host) \in Contents
          BY <1>0, <1>01, ViewTyped
    <3> QED BY <3>1 DEF Contents
  <2>2. store' \in Contents /\ fileCopy' \in [Processes -> Contents]
        BY <1>0, <1>6, <2>1, SaveTyped DEF AppendAnswer
  <2>3. turn' \in [Turns -> Executions] /\ \A u \in Turns : turn'[u].message = turn[u].message
        BY <1>0, <1>6, Goes DEF AppendAnswer
  <2> QED BY <1>0, <1>6, <2>2, <2>3, NoTurnBegins DEF AppendAnswer, titleVars
<1>7. ASSUME NEW t \in Turns, UpdateTurn(t) PROVE AssistantTypes'
  <2>1. PICK retryable \in BOOLEAN, status \in Statuses :
            Save(turn[t].host, SetStatus(View(turn[t].host), t, status, retryable))
        BY <1>7 DEF UpdateTurn, Statuses
  <2>2. store' \in Contents /\ fileCopy' \in [Processes -> Contents]
        BY <1>01, <1>02, <2>1
  <2>3. turn' \in [Turns -> Executions] /\ \A u \in Turns : turn'[u].message = turn[u].message
    <3>1. TurnGoto(t, "settled") \/ TurnGoto(t, "done")
          BY <1>7 DEF UpdateTurn
    <3> QED BY <1>0, <3>1, Goes
  <2>4. job' \in [Workers -> streams \cup {NoJob}]
        BY <1>7, FreesTyped DEF UpdateTurn
  <2>5. streamEnd' \in [Messages -> SUBSET {"complete", "error"}]
        BY <1>7, PublishesTyped DEF UpdateTurn
  <2> QED BY <1>0, <1>7, <2>2, <2>3, <2>4, <2>5, NoTurnBegins DEF UpdateTurn, titleVars
<1>8. ASSUME NEW t \in Turns, Token(t) PROVE AssistantTypes'
  <2>1. CASE turn[t].message \in cancelKeys
    <3>1. turn' \in [Turns -> Executions] /\ \A u \in Turns : turn'[u].message = turn[u].message
          BY <1>0, <1>8, <2>1, Goes DEF Token
    <3>2. job' \in [Workers -> streams \cup {NoJob}] /\ streamEnd' \in [Messages -> SUBSET {"complete", "error"}]
          BY <1>8, <2>1, FreesTyped, PublishesTyped DEF Token
    <3>3. UNCHANGED <<streams, jobs, begun, cancelKeys, cancelling, kills, titling, titles, overwritten, store, fileCopy>>
          BY <1>8, <2>1 DEF Token, titleVars
    <3> QED BY <1>0, <3>1, <3>2, <3>3, NoTurnBegins
  <2>2. CASE turn[t].message \notin cancelKeys
    <3>1. store' \in Contents /\ fileCopy' \in [Processes -> Contents]
      <4>1. View(turn[t].host) \in Contents
            BY <1>0, <1>01, ViewTyped
      <4> QED BY <1>0, <1>8, <2>2, <4>1, SaveTyped DEF Token
    <3>2. UNCHANGED <<streams, jobs, job, turn, begun, cancelKeys, cancelling, streamEnd, kills, titling, titles, overwritten>>
          BY <1>8, <2>2 DEF Token, titleVars
    <3> QED BY <1>0, <3>1, <3>2, NoTurnBegins
  <2> QED BY <2>1, <2>2
<1>9. ASSUME NEW t \in Turns, GiveUp(t) PROVE AssistantTypes'
  <2>1. turn' \in [Turns -> Executions] /\ \A u \in Turns : turn'[u].message = turn[u].message
        BY <1>0, <1>9, Goes DEF GiveUp
  <2>2. job' \in [Workers -> streams \cup {NoJob}] /\ streamEnd' \in [Messages -> SUBSET {"complete", "error"}]
        BY <1>9, FreesTyped, PublishesTyped DEF GiveUp
  <2> QED BY <1>0, <1>9, <2>1, <2>2, NoTurnBegins DEF GiveUp, titleVars
<1>10. ASSUME NEW w \in Workers, Dequeue(w) PROVE AssistantTypes'
  <2>1. Head(jobs) \in streams /\ jobs' \in Seq(streams)
        BY <1>0, <1>10, HeadTailProperties DEF Dequeue
  <2>2. job' \in [Workers -> streams \cup {NoJob}]
        BY <1>0, <1>10, <2>1 DEF Dequeue
  <2>3. fileCopy' \in [Processes -> Contents]
        BY <1>0, <1>10 DEF Dequeue
  <2> QED BY <1>0, <1>10, <2>1, <2>2, <2>3, NoTurnBegins DEF Dequeue, titleVars
<1>11. ASSUME NEW w \in Workers, StartJob(w) PROVE AssistantTypes'
  <2>1. job[w] \in streams /\ job[w] # NoJob /\ job[w] \in Waiting
        BY <1>0, <1>11 DEF StartJob, Waiting
  <2> QED BY <1>0, <1>11, <2>1, TurnBegins DEF StartJob
<1>12. ASSUME NEW w \in Workers, StartJobFails(w) PROVE AssistantTypes'
  <2>1. job' \in [Workers -> streams \cup {NoJob}]
        BY <1>0, <1>12 DEF StartJobFails
  <2>2. streamEnd' \in [Messages -> SUBSET {"complete", "error"}]
        BY <1>12, PublishesTyped DEF StartJobFails
  <2> QED BY <1>0, <1>12, <2>1, <2>2, NoTurnBegins DEF StartJobFails, titleVars
<1>13. ASSUME NEW w \in Workers, NEW t \in Turns, ReapTurn(w, t) PROVE AssistantTypes'
  <2> DEFINE yes == TRUE
  <2>1. Save(w, SetStatus(View(w), t, "failed", yes)) /\ yes \in BOOLEAN /\ "failed" \in Statuses
        BY <1>13 DEF ReapTurn, Statuses
  <2> HIDE DEF yes
  <2>2. store' \in Contents /\ fileCopy' \in [Processes -> Contents]
        BY <1>0, <1>02, <2>1
  <2> QED BY <1>0, <1>13, <2>2, NoTurnBegins DEF ReapTurn, titleVars
<1>14. CASE OtherRequest
  <2>1. store' \in Contents /\ fileCopy' \in [Processes -> Contents]
        BY <1>0, <1>14, ViewTyped, SaveTyped DEF OtherRequest
  <2> QED BY <1>0, <1>14, <2>1, NoTurnBegins DEF OtherRequest, titleVars
<1>15. CASE WriteThread
  <2>1. titling.answered \subseteq Turns
        BY <1>0
  <2>2. store' \in Contents
        BY <1>0, <1>15, <2>1 DEF WriteThread, Contents
  <2>3. overwritten' \subseteq Turns
        BY <1>0, <1>15 DEF WriteThread, Contents
  <2> QED BY <1>0, <1>15, <2>2, <2>3, NoTurnBegins DEF WriteThread
<1>16. ASSUME NEW p \in Processes, ReadThread(p) PROVE AssistantTypes'
  <2>1. titling' \in [by : Processes \cup {NoJob}, answered : SUBSET Turns]
        BY <1>0, <1>16 DEF ReadThread, Contents
  <2>2. titles' \in 0..MaxTitles
        BY <1>0, <1>16, AssistantTurnsAssumption DEF ReadThread
  <2> QED BY <1>0, <1>16, <2>1, <2>2, NoTurnBegins DEF ReadThread
<1>17. ASSUME NEW p \in Processes, Killed(p) PROVE AssistantTypes'
  <2>1. turn' \in [Turns -> Executions] /\ \A u \in Turns : turn'[u].message = turn[u].message
        BY <1>0, <1>17 DEF Killed, Executions
  <2>2. job' \in [Workers -> streams \cup {NoJob}] /\ fileCopy' \in [Processes -> Contents]
        BY <1>0, <1>17 DEF Killed
  <2>3. cancelling' \subseteq Messages \X Turns /\ titling' \in [by : Processes \cup {NoJob}, answered : SUBSET Turns]
        BY <1>0, <1>17 DEF Killed
  <2> QED BY <1>0, <1>17, <2>1, <2>2, <2>3, NoTurnBegins DEF Killed
<1>18. CASE UNCHANGED turnVars
      BY <1>0, <1>18, NoTurnBegins DEF turnVars, titleVars
<1> QED BY <1>1, <1>2, <1>3, <1>4, <1>5, <1>6, <1>7, <1>8, <1>9, <1>10, <1>11, <1>12, <1>13, <1>14, <1>15,
           <1>16, <1>17, <1>18 DEF AssistantNext, Proceed

-----------------------------------------------------------------------------
(* The parts together: a step of one leaves the others as they were.       *)

LEMMA PartInits ==
    ASSUME ServicesInit
    PROVE  /\ Init /\ ConnectionsInit /\ PushInit /\ LifecycleInit /\ ReplayInit /\ AssistantInit
           /\ ActionsInit /\ HistorianInit
  BY DEF ServicesInit

LEMMA PartSteps ==
    ASSUME [ServicesNext]_allVars
    PROVE  /\ [Next]_vars /\ [ConnectionsNext]_connectionVars /\ [PushNext]_pushVars
           /\ [LifecycleNext]_lifecycleVars /\ [ReplayNext]_replayVars /\ [AssistantNext]_turnVars
           /\ [ActionsNext]_actionVars /\ [HistorianNext]_historianVars
<1>1. CASE UNCHANGED allVars
      BY <1>1 DEF allVars
<1>2. CASE RunProcessor \/ RunFanout \/ RunConnections
      BY <1>2 DEF RunProcessor, RunFanout, RunConnections, OthersIdle
<1>3. CASE RunPush \/ RunModels \/ RunReplay
      BY <1>3 DEF RunPush, RunModels, RunReplay, OthersIdle
<1>4. CASE RunTurns \/ RunActions \/ RunHistorian
      BY <1>4 DEF RunTurns, RunActions, RunHistorian, OthersIdle
<1> QED BY <1>1, <1>2, <1>3, <1>4 DEF ServicesNext

ActionsTypes == ActionsInv /\ mishaps \in 0..MaxMishaps

LEMMA ActionsTyped == ActionsTypes => ActionsTypeOK
<1> SUFFICES ASSUME ActionsTypes PROVE ActionsTypeOK
    OBVIOUS
<1>1. performed \in [Intents -> Nat]
      BY DEF ActionsTypes, ActionsInv
<1> QED BY <1>1 DEF ActionsTypes, ActionsInv, ActionsTypeOK

\* Every service keeps what it holds well typed, and within the bounds that make it so: no window is
\* longer than its deque, no request of HTTP Push makes more than one copy, no replay publishes a
\* row it does not have, no turn begins in a place that is taken, and no write makes more attempts
\* than WRITE_MAX_RETRIES allows, whatever fails, restarts or is killed.
THEOREM ServicesTypeCorrect == ServicesSpec => []ServicesTypeOK
<1> DEFINE Streaming == RuntimeInv /\ StreamsInv /\ ProcessorTypes
           Requests == PushIInv /\ LifecycleTypeOK /\ ReplayTypes /\ ConnectionTypes
           Sessions == AssistantTypes /\ ActionsTypes
           Historian == HistorianInv /\ HistorianCounts
           Inv == Streaming /\ Requests /\ Sessions /\ Historian
<1>1. ServicesInit => Inv
  <2> SUFFICES ASSUME ServicesInit PROVE Inv
      OBVIOUS
  <2>1. Streaming
        BY PartInits, InitInv, StreamsInit, ProcessorTypesInit
  <2>2. LifecycleTypeOK
        BY PartInits DEF LifecycleInit, LifecycleTypeOK, Records
  <2>3. Requests
        BY <2>2, PartInits, PushInitially, ReplayTypesInit, ConnectionTypesInit
  <2>4. mishaps \in 0..MaxMishaps
        BY PartInits, AssistantActionsAssumption DEF ActionsInit
  <2>5. Sessions
        BY <2>4, PartInits, AssistantTypesInit, ActionsInvInit DEF ActionsTypes
  <2>6. Historian
        BY PartInits, HistorianInvInit, HistorianCountsInit
  <2> QED BY <2>1, <2>3, <2>5, <2>6
<1>2. Inv /\ [ServicesNext]_allVars => Inv'
  <2> SUFFICES ASSUME Inv, [ServicesNext]_allVars PROVE Inv'
      OBVIOUS
  <2>1. Streaming'
        BY PartSteps, NextInv, StreamsStep, ProcessorTypesStep
  <2>2. Requests'
        BY PartSteps, PushStep, LifecycleTypeStep, ReplayTypesStep, ConnectionTypesStep
  <2>3. Sessions'
        BY PartSteps, AssistantTypesStep, ActionsInvStep, MishapsStep DEF ActionsTypes
  <2>4. Historian'
        BY PartSteps, HistorianInvStep, HistorianCountsStep
  <2> QED BY <2>1, <2>2, <2>3, <2>4
<1>3. Inv => ServicesTypeOK
  <2> SUFFICES ASSUME Inv PROVE ServicesTypeOK
      OBVIOUS
  <2>1. TypeOK /\ HttpPushTypeOK /\ LifecycleTypeOK
        BY ProcessorTyped, PushTyped
  <2>2. ReplayTypeOK /\ ConnectionsTypeOK /\ AssistantTypeOK
        BY DEF ReplayTypes, ConnectionTypes, AssistantTypes
  <2>3. ActionsTypeOK /\ HistorianTypeOK
        BY ActionsTyped, HistorianTyped
  <2> QED BY <2>1, <2>2, <2>3 DEF ServicesTypeOK
<1> HIDE DEF Inv
<1> QED BY <1>1, <1>2, <1>3, PTL DEF ServicesSpec
=============================================================================
