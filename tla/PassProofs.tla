----------------------------- MODULE PassProofs -----------------------------
(***************************************************************************)
(* Theorems of Pass for every set of processes, every number of rows and   *)
(* of rosters, and every ttl.  Where it is said, for one lane.             *)
(***************************************************************************)
EXTENDS Pass, FiniteSetTheorems, TLAPS

----------------------------------------------------------------------------
(* The sets of numbers that occur, and what Set does.                      *)
LEMMA Numbers ==
  /\ 1 \in Versions /\ Versions \subseteq Nat \ {0} /\ None \notin Versions
  /\ Again \notin Versions \cup {None} /\ Refused = None
  /\ Ttl \subseteq 1 .. MaxTtl /\ MaxTtl \in Nat /\ AgeBound \in Nat
BY PassAssumption DEF Versions, None, Again, Refused, Ttl, Coerced, AgeBound

(* Set changes the entry of one process.                                   *)
LEMMA SetIsTyped ==
  ASSUME NEW S, NEW f \in [Procs -> S], NEW p \in Procs, NEW value \in S
  PROVE  /\ Set(f, p, value) \in [Procs -> S]
         /\ Set(f, p, value)[p] = value
         /\ \A q \in Procs : q # p => Set(f, p, value)[q] = f[q]
BY DEF Set

(* A step of Next.                                                         *)
LEMMA Steps ==
  ASSUME Next
  PROVE  \/ Change \/ LoseCache \/ Tick
         \/ \E p \in Procs :
              \/ Sweep(p) \/ Enter(p) \/ Kill(p)
              \/ SyncSkips(p) \/ CacheHit(p) \/ Ask(p)
              \/ Answer(p) \/ Arrive(p) \/ Retry(p) \/ GiveUp(p)
              \/ LeftOut(p, "reconcile", "fold") \/ Reconcile(p)
              \/ LeftOut(p, "fold", "persist") \/ NothingToFold(p)
              \/ Validated(p) \/ FoldRow(p) \/ FoldRaises(p) \/ Folded(p)
              \/ LeftOut(p, "persist", "rest") \/ NothingToPersist(p)
              \/ WriteTemp(p) \/ Publish(p) \/ WriteFails(p) \/ Leave(p)
BY DEF Next, Advance, Sync, Fold, Persist

(* An answer that arrives sets outlived to a truth value.                  *)
LEMMA OutlivedIsTyped ==
  ASSUME NEW p \in Procs, Arrive(p) PROVE outlived' \in BOOLEAN
<1>1. outlived' = FALSE \/ outlived' = (cache.left > 0)
  BY Zenon DEF Arrive, Fill, FillFails
<1>2. (cache.left > 0) \in BOOLEAN
  BY SMT
<1>3. QED
  BY <1>1, <1>2, Zenon

----------------------------------------------------------------------------
(* Only an answer that is looked at says to come again.                    *)
OnlyAnswers == \A p \in Procs : profile[p] = Again => pc[p] = "answered"

TypeInv == TypeOK /\ OnlyAnswers

(* TypeOK with what keeps the roster of a state from being no roster.       *)
THEOREM TypedInv == Spec => []TypeInv
<1> USE DEF Locations, InPass, Computing
<1>1. ASSUME Init PROVE TypeInv
  <2>1. version \in Versions /\ oldFor \in [Versions -> 0 .. AgeBound]
    BY <1>1, Numbers DEF Init
  <2>2. cache \in [roster : Versions \cup {None}, left : 0 .. MaxTtl]
    BY <1>1, Numbers DEF Init
  <2>3. snap \in [roster : Versions \cup {None}, rows : 0 .. Rows, dated : BOOLEAN]
    BY <1>1, PassAssumption DEF Init, NoSnapshot
  <2>4. misread \subseteq Procs /\ outlived \in BOOLEAN
    BY <1>1 DEF Init
  <2>5. QED
    BY <1>1, <2>1, <2>2, <2>3, <2>4, PassAssumption, Numbers
    DEF Init, TypeOK, TypeInv, OnlyAnswers
<1>2. ASSUME TypeInv, [Next]_vars PROVE TypeOK'
  <2> USE <1>2 DEF TypeInv, TypeOK, Set, service, cached, context, request, files
  <2>1. CASE UNCHANGED vars
    BY <2>1 DEF vars
  <2>2. CASE Change
    BY <2>2, PassAssumption DEF Change, Versions
  <2>3. CASE LoseCache
    BY <2>3, Numbers DEF LoseCache
  <2>4. CASE Tick
    <3>1. oldFor' \in [Versions -> 0 .. AgeBound]
      BY <2>4, Numbers DEF Tick, Older
    <3>2. cache' \in [roster : Versions \cup {None}, left : 0 .. MaxTtl]
      BY <2>4, Numbers DEF Tick
    <3>3. flight' \in [Procs -> 0 .. Timeout]
      BY <2>4, PassAssumption DEF Tick
    <3>4. QED
      BY <2>4, <3>1, <3>2, <3>3 DEF Tick
  <2>5. ASSUME NEW p \in Procs,
               Sweep(p) \/ Enter(p) \/ SyncSkips(p) \/ Ask(p)
        PROVE  TypeOK'
    BY <2>5 DEF Sweep, Enter, SyncSkips, Ask
  <2>6. ASSUME NEW p \in Procs,
               \/ LeftOut(p, "reconcile", "fold") \/ LeftOut(p, "fold", "persist")
               \/ LeftOut(p, "persist", "rest") \/ NothingToFold(p)
               \/ Validated(p) \/ Folded(p) \/ NothingToPersist(p)
        PROVE  TypeOK'
    BY <2>6 DEF LeftOut, NothingToFold, Validated, Folded, NothingToPersist
  <2>7. ASSUME NEW p \in Procs, Kill(p) PROVE TypeOK'
    <3>1. life' \in [Procs -> 0 .. MaxKills]
      BY <2>7, PassAssumption DEF Kill
    <3>2. QED
      BY <2>7, <3>1, PassAssumption DEF Kill
  <2>8. ASSUME NEW p \in Procs, CacheHit(p) PROVE TypeOK'
    BY <2>8 DEF CacheHit
  <2>9. ASSUME NEW p \in Procs, Answer(p) PROVE TypeOK'
    BY <2>9, PassAssumption DEF Answer, Refused, None
  <2>10. ASSUME NEW p \in Procs, Arrive(p) PROVE TypeOK'
    <3>1. cache' \in [roster : Versions \cup {None}, left : 0 .. MaxTtl]
      BY <2>10, Numbers DEF Arrive, Fill, FillFails
    <3>2. outlived' \in BOOLEAN
      BY <2>10, OutlivedIsTyped
    <3>3. QED
      BY <2>10, <3>1, <3>2, PassAssumption DEF Arrive
  <2>11. ASSUME NEW p \in Procs, Retry(p) PROVE TypeOK'
    <3>1. tries' \in [Procs -> 0 .. MaxRetries]
      BY <2>11, PassAssumption DEF Retry
    <3>2. QED
      BY <2>11, <3>1, PassAssumption DEF Retry
  <2>12. ASSUME NEW p \in Procs, GiveUp(p) PROVE TypeOK'
    BY <2>12, PassAssumption DEF GiveUp
  <2>13. ASSUME NEW p \in Procs, Reconcile(p) PROVE TypeOK'
    <3>1. profile[p] \in Versions \cup {None}
      BY <2>13 DEF Reconcile, OnlyAnswers
    <3>2. QED
      BY <2>13, <3>1, PassAssumption DEF Reconcile
  <2>14. ASSUME NEW p \in Procs, FoldRow(p) \/ FoldRaises(p) PROVE TypeOK'
    <3>1. ledger' \in [Procs -> 0 .. Rows]
      BY <2>14, PassAssumption DEF FoldRow, FoldRaises
    <3>2. QED
      BY <2>14, <3>1 DEF FoldRow, FoldRaises
  <2>15. ASSUME NEW p \in Procs, Leave(p) PROVE TypeOK'
    BY <2>15, PassAssumption DEF Leave
  <2>16. ASSUME NEW p \in Procs, WriteTemp(p) \/ WriteFails(p) PROVE TypeOK'
    <3>1. Fresh(p) \in Temps /\ Left(p) \in Temps
      BY DEF Fresh, Left, Temps
    <3>2. temps' \subseteq Temps
      BY <2>16, <3>1 DEF WriteTemp, WriteFails
    <3>3. QED
      BY <2>16, <3>2 DEF WriteTemp, WriteFails
  <2>17. ASSUME NEW p \in Procs, Publish(p) PROVE TypeOK'
    <3>1. snap' \in [roster : Versions \cup {None}, rows : 0 .. Rows, dated : BOOLEAN]
      BY <2>17 DEF Publish, Document, Stamped
    <3>2. QED
      BY <2>17, <3>1 DEF Publish
  <2>18. QED
    BY Steps, <2>1, <2>2, <2>3, <2>4, <2>5, <2>6, <2>7, <2>8, <2>9, <2>10,
       <2>11, <2>12, <2>13, <2>14, <2>15, <2>16, <2>17
<1>3. ASSUME TypeInv, [Next]_vars PROVE OnlyAnswers'
  <2> USE <1>3 DEF TypeInv, TypeOK, OnlyAnswers, Set, service, cached, context, request, files
  <2>1. CASE UNCHANGED vars \/ Change \/ LoseCache \/ Tick
    BY <2>1 DEF vars, Change, LoseCache, Tick
  <2>2. ASSUME NEW p \in Procs,
               Sweep(p) \/ Enter(p) \/ SyncSkips(p) \/ Ask(p) \/ Answer(p)
        PROVE  OnlyAnswers'
    BY <2>2 DEF Sweep, Enter, SyncSkips, Ask, Answer
  <2>3. ASSUME NEW p \in Procs,
               \/ LeftOut(p, "reconcile", "fold") \/ LeftOut(p, "fold", "persist")
               \/ LeftOut(p, "persist", "rest") \/ NothingToFold(p)
               \/ Validated(p) \/ Folded(p) \/ NothingToPersist(p)
        PROVE  OnlyAnswers'
    BY <2>3 DEF LeftOut, NothingToFold, Validated, Folded, NothingToPersist
  <2>4. ASSUME NEW p \in Procs, CacheHit(p) PROVE OnlyAnswers'
    BY <2>4, Numbers DEF CacheHit
  <2>5. ASSUME NEW p \in Procs, Arrive(p) PROVE OnlyAnswers'
    BY <2>5, Numbers DEF Arrive
  <2>6. ASSUME NEW p \in Procs, Retry(p) \/ GiveUp(p) \/ Leave(p) \/ Kill(p)
        PROVE  OnlyAnswers'
    BY <2>6, Numbers DEF Retry, GiveUp, Leave, Kill
  <2>7. ASSUME NEW p \in Procs,
               \/ Reconcile(p) \/ FoldRow(p) \/ FoldRaises(p)
               \/ WriteTemp(p) \/ Publish(p) \/ WriteFails(p)
        PROVE  OnlyAnswers'
    BY <2>7 DEF Reconcile, FoldRow, FoldRaises, WriteTemp, Publish, WriteFails
  <2>8. QED
    BY Steps, <2>1, <2>2, <2>3, <2>4, <2>5, <2>6, <2>7
<1>4. QED
  BY <1>1, <1>2, <1>3, PTL DEF Spec, TypeInv

(* Every variable keeps its type.                                          *)
THEOREM Typed == Spec => []TypeOK
BY TypedInv, PTL DEF TypeInv

----------------------------------------------------------------------------
(* Before it folds, and once the fold was taken back, a ledger is empty;   *)
(* only while it folds it may hold some rows and not the others.           *)
WholeInv ==
  /\ LedgerWhole
  /\ \A p \in Procs : pc[p] \notin {"folding", "persist", "publish", "rest"} => ledger[p] = 0
  /\ \A p \in Procs : pc[p] # "folding" => ledger[p] \in {0, Rows}

(* Whatever is killed or fails, the snapshot holds all rows or none.       *)
THEOREM SnapshotIsWhole == Spec => []LedgerWhole
<1> USE DEF LedgerWhole, Locations, InPass, Computing
<1>1. ASSUME Init PROVE WholeInv
  BY <1>1, PassAssumption DEF Init, WholeInv, NoSnapshot
<1>2. ASSUME WholeInv, TypeInv, [Next]_vars PROVE WholeInv'
  <2> USE <1>2 DEF WholeInv, TypeInv, TypeOK, Set, service, cached, context, request, files
  <2>1. CASE UNCHANGED vars \/ Change \/ LoseCache \/ Tick
    BY <2>1 DEF vars, Change, LoseCache, Tick
  <2>2. ASSUME NEW p \in Procs,
               Sweep(p) \/ Enter(p) \/ SyncSkips(p) \/ CacheHit(p) \/ Ask(p)
        PROVE  WholeInv'
    BY <2>2 DEF Sweep, Enter, SyncSkips, CacheHit, Ask
  <2>3. ASSUME NEW p \in Procs,
               Answer(p) \/ Arrive(p) \/ Retry(p) \/ GiveUp(p)
        PROVE  WholeInv'
    BY <2>3 DEF Answer, Arrive, Retry, GiveUp
  <2>4. ASSUME NEW p \in Procs,
               \/ LeftOut(p, "reconcile", "fold") \/ LeftOut(p, "fold", "persist")
               \/ LeftOut(p, "persist", "rest") \/ NothingToFold(p)
               \/ Validated(p) \/ Folded(p) \/ NothingToPersist(p)
        PROVE  WholeInv'
    BY <2>4 DEF LeftOut, NothingToFold, Validated, Folded, NothingToPersist
  <2>5. ASSUME NEW p \in Procs,
               Reconcile(p) \/ FoldRaises(p) \/ Leave(p) \/ Kill(p)
        PROVE  WholeInv'
    BY <2>5 DEF Reconcile, FoldRaises, Leave, Kill
  <2>6. ASSUME NEW p \in Procs, FoldRow(p) PROVE WholeInv'
    BY <2>6 DEF FoldRow
  <2>7. ASSUME NEW p \in Procs, WriteTemp(p) \/ WriteFails(p) PROVE WholeInv'
    BY <2>7 DEF WriteTemp, WriteFails
  <2>8. ASSUME NEW p \in Procs, Publish(p) PROVE WholeInv'
    BY <2>8 DEF Publish, Document
  <2>9. QED
    BY Steps, <2>1, <2>2, <2>3, <2>4, <2>5, <2>6, <2>7, <2>8
<1>3. WholeInv => LedgerWhole
  BY DEF WholeInv
<1>4. QED
  BY <1>1, <1>2, <1>3, TypedInv, PTL DEF Spec

----------------------------------------------------------------------------
(* A write under way is never swept: its process lives its current life,   *)
(* and nobody else's temporary file has its name.                          *)
THEOREM WritesAreSpared == Spec => []WriteSpared
<1> USE DEF WriteSpared, Fresh, Locations, InPass, Computing
<1>1. ASSUME Init PROVE WriteSpared
  BY <1>1 DEF Init
<1>2. ASSUME WriteSpared, TypeOK, [Next]_vars PROVE WriteSpared'
  <2> USE <1>2 DEF TypeOK, Set, service, cached, context, request, files
  <2>1. CASE UNCHANGED vars \/ Change \/ LoseCache \/ Tick
    BY <2>1 DEF vars, Change, LoseCache, Tick
  <2>2. ASSUME NEW p \in Procs, Sweep(p) PROVE WriteSpared'
    <3>1. \A q \in Procs : pc[q] = "publish" => ~Orphan(Fresh(q))
      BY DEF Orphan
    <3>2. QED
      BY <2>2, <3>1 DEF Sweep
  <2>3. ASSUME NEW p \in Procs,
               \/ Enter(p) \/ SyncSkips(p) \/ CacheHit(p) \/ Ask(p)
               \/ Answer(p) \/ Arrive(p) \/ Retry(p) \/ GiveUp(p)
        PROVE  WriteSpared'
    BY <2>3 DEF Enter, SyncSkips, CacheHit, Ask, Answer, Arrive, Retry, GiveUp
  <2>4. ASSUME NEW p \in Procs,
               \/ LeftOut(p, "reconcile", "fold") \/ LeftOut(p, "fold", "persist")
               \/ LeftOut(p, "persist", "rest") \/ NothingToFold(p)
               \/ Validated(p) \/ Folded(p) \/ NothingToPersist(p)
               \/ Reconcile(p) \/ FoldRow(p) \/ FoldRaises(p) \/ Leave(p)
        PROVE  WriteSpared'
    BY <2>4 DEF LeftOut, NothingToFold, Validated, Folded, NothingToPersist,
                Reconcile, FoldRow, FoldRaises, Leave
  <2>5. ASSUME NEW p \in Procs, Kill(p) PROVE WriteSpared'
    BY <2>5 DEF Kill
  <2>6. ASSUME NEW p \in Procs, WriteTemp(p) PROVE WriteSpared'
    BY <2>6 DEF WriteTemp
  <2>7. ASSUME NEW p \in Procs, Publish(p) \/ WriteFails(p) PROVE WriteSpared'
    <3>1. \A q \in Procs : q # p => Fresh(q) # Fresh(p)
      OBVIOUS
    <3>2. QED
      BY <2>7, <3>1 DEF Publish, WriteFails
  <2>8. QED
    BY Steps, <2>1, <2>2, <2>3, <2>4, <2>5, <2>6, <2>7
<1>3. QED
  BY <1>1, <1>2, Typed, PTL DEF Spec

----------------------------------------------------------------------------
(* The locations where a job may have a profile or a state at hand.        *)
Equipped == Computing \cup {"rest"}

(* A state is the profile of its pass; outside there is none.              *)
Carried ==
  \A p \in Procs :
    /\ state[p] \in {None, profile[p]}
    /\ pc[p] \notin Equipped => state[p] = None
    /\ pc[p] \notin Equipped \cup {"answered"} => profile[p] = None

(* A pass has a profile from its answer on, and a state from its profile.  *)
LEMMA CarriedHolds == Spec => []Carried
<1> USE DEF Carried, Equipped, Computing
<1>1. ASSUME Init PROVE Carried
  BY <1>1 DEF Init
<1>2. ASSUME Carried, TypeInv, [Next]_vars PROVE Carried'
  <2> USE <1>2 DEF TypeInv, TypeOK, Set, service, cached, context, request, files
  <2>1. CASE UNCHANGED vars \/ Change \/ LoseCache \/ Tick
    BY <2>1 DEF vars, Change, LoseCache, Tick
  <2>2. ASSUME NEW p \in Procs,
               Sweep(p) \/ Enter(p) \/ SyncSkips(p) \/ CacheHit(p) \/ Ask(p)
        PROVE  Carried'
    BY <2>2 DEF Sweep, Enter, SyncSkips, CacheHit, Ask
  <2>3. ASSUME NEW p \in Procs,
               Answer(p) \/ Arrive(p) \/ Retry(p) \/ GiveUp(p)
        PROVE  Carried'
    BY <2>3 DEF Answer, Arrive, Retry, GiveUp
  <2>4. ASSUME NEW p \in Procs,
               \/ LeftOut(p, "reconcile", "fold") \/ LeftOut(p, "fold", "persist")
               \/ LeftOut(p, "persist", "rest") \/ NothingToFold(p)
               \/ Validated(p) \/ Folded(p) \/ NothingToPersist(p)
        PROVE  Carried'
    BY <2>4 DEF LeftOut, NothingToFold, Validated, Folded, NothingToPersist
  <2>5. ASSUME NEW p \in Procs, Reconcile(p) \/ Leave(p) \/ Kill(p)
        PROVE  Carried'
    BY <2>5 DEF Reconcile, Leave, Kill
  <2>6. ASSUME NEW p \in Procs,
               \/ FoldRow(p) \/ FoldRaises(p)
               \/ WriteTemp(p) \/ Publish(p) \/ WriteFails(p)
        PROVE  Carried'
    BY <2>6 DEF FoldRow, FoldRaises, WriteTemp, Publish, WriteFails
  <2>7. QED
    BY Steps, <2>1, <2>2, <2>3, <2>4, <2>5, <2>6
<1>3. QED
  BY <1>1, <1>2, TypedInv, PTL DEF Spec

----------------------------------------------------------------------------
(* How old a roster is: an answer has been out of date for no longer than  *)
(* it is under way, a cached one for no longer than that and what its ttl  *)
(* has used up.                                                            *)
AgeInv ==
  /\ \A v \in Versions : v >= version => oldFor[v] = 0
  /\ \A p \in Procs : pc[p] = "answered" /\ profile[p] \in Versions =>
                         oldFor[profile[p]] <= flight[p]
  /\ cache.left > 0 => /\ cache.roster \in Versions
                        /\ oldFor[cache.roster] + cache.left <= MaxTtl + Timeout
  /\ \A p \in Procs : pc[p] \in Computing /\ profile[p] \in Versions =>
                         oldFor[profile[p]] <= MaxTtl + Timeout

(* The numbers the ages are made of.                                       *)
LEMMA AgesAreNumbers ==
  ASSUME TypeOK
  PROVE  /\ \A v \in Versions : oldFor[v] \in Nat
         /\ \A p \in Procs : flight[p] \in Nat /\ flight[p] <= Timeout
         /\ cache.left \in Nat /\ version \in Nat
         /\ MaxTtl \in Nat /\ Timeout \in Nat
<1>1. \A v \in Versions : oldFor[v] \in Nat
  BY Numbers DEF TypeOK
<1>2. \A p \in Procs : flight[p] \in Nat /\ flight[p] <= Timeout
  BY PassAssumption DEF TypeOK
<1>3. QED
  BY <1>1, <1>2, Numbers, PassAssumption DEF TypeOK

(* The clock makes nothing older than it may be.                           *)
LEMMA TickKeepsAges == ASSUME TypeInv, AgeInv, Tick PROVE AgeInv'
<1>1. \A v \in Versions : oldFor'[v] = oldFor[v] \/ oldFor'[v] = oldFor[v] + 1
  BY DEF Tick, Older
<1>2. \A v \in Versions : v >= version' => oldFor'[v] = 0
  <2>1. \A v \in Versions : oldFor'[v] = Older(v) /\ version' = version
    BY DEF Tick
  <2>2. \A v \in Versions : v >= version => ~(v < version)
    BY AgesAreNumbers, Numbers DEF TypeInv
  <2>3. QED
    BY <2>1, <2>2 DEF Older, AgeInv
<1>3. ASSUME NEW p \in Procs, pc'[p] = "answered", profile'[p] \in Versions
      PROVE  oldFor'[profile'[p]] <= flight'[p]
  <2>1. pc[p] = "answered" /\ profile'[p] = profile[p] /\ profile[p] \in Versions
    BY <1>3 DEF Tick, context
  <2>2. flight'[p] = flight[p] + 1
    BY <2>1 DEF Tick
  <2>3. oldFor[profile[p]] <= flight[p]
    BY <2>1 DEF AgeInv
  <2>4. QED
    BY <1>1, <2>1, <2>2, <2>3, AgesAreNumbers DEF TypeInv
<1>4. ASSUME cache'.left > 0
      PROVE  /\ cache'.roster \in Versions
             /\ oldFor'[cache'.roster] + cache'.left <= MaxTtl + Timeout
  <2>1. /\ cache'.roster = cache.roster
        /\ cache'.left = IF cache.left > 0 THEN cache.left - 1 ELSE 0
    BY DEF Tick
  <2>2. cache.left > 0 /\ cache'.left = cache.left - 1
    BY <1>4, <2>1
  <2>3. cache.roster \in Versions /\ oldFor[cache.roster] + cache.left <= MaxTtl + Timeout
    BY <2>2 DEF AgeInv
  <2>4. QED
    BY <1>1, <2>1, <2>2, <2>3, AgesAreNumbers DEF TypeInv
<1>5. \A p \in Procs : pc'[p] \notin Computing
  BY DEF Tick
<1>6. QED
  BY <1>2, <1>3, <1>4, <1>5 DEF AgeInv

(* A valid response is young enough to be used.                            *)
LEMMA CacheHitKeepsAges ==
  ASSUME TypeInv, AgeInv, NEW p \in Procs, CacheHit(p) PROVE AgeInv'
<1>1. /\ cache.left > 0 /\ profile' = [profile EXCEPT ![p] = cache.roster]
      /\ pc' = [pc EXCEPT ![p] = "reconcile"]
      /\ UNCHANGED <<version, oldFor, cache, flight>>
  BY DEF CacheHit, Set, service, cached, request
<1>2. /\ pc \in [Procs -> Locations]
      /\ profile \in [Procs -> Versions \cup {None, Again}]
  BY DEF TypeInv, TypeOK
<1>3. oldFor[cache.roster] <= MaxTtl + Timeout /\ cache.roster \in Versions
  BY <1>1, AgesAreNumbers DEF AgeInv, TypeInv
<1>4. \A q \in Procs : q # p => pc'[q] = pc[q] /\ profile'[q] = profile[q]
  BY <1>1, <1>2
<1>5. pc'[p] = "reconcile" /\ profile'[p] = cache.roster
  BY <1>1, <1>2
<1>6. QED
  BY <1>1, <1>3, <1>4, <1>5 DEF AgeInv

(* An answer is no older than its request.                                 *)
LEMMA ArriveKeepsAges ==
  ASSUME TypeInv, AgeInv, NEW p \in Procs, Arrive(p) PROVE AgeInv'
<1>1. /\ pc[p] = "answered" /\ profile[p] \in Versions
      /\ flight' = [flight EXCEPT ![p] = 0]
      /\ pc' = [pc EXCEPT ![p] = "reconcile"]
      /\ UNCHANGED <<version, oldFor, profile>>
  BY DEF Arrive, Set, service, context
<1>2. \/ cache' = cache
      \/ \E ttl \in Ttl : cache' = [roster |-> profile[p], left |-> ttl]
  BY DEF Arrive, Fill, FillFails
<1>3. pc \in [Procs -> Locations] /\ flight \in [Procs -> 0 .. Timeout]
  BY DEF TypeInv, TypeOK
<1>4. oldFor[profile[p]] <= flight[p]
  BY <1>1 DEF AgeInv
<1>5. oldFor[profile[p]] <= Timeout /\ oldFor[profile[p]] \in Nat
  BY <1>1, <1>4, AgesAreNumbers DEF TypeInv
<1>6. \A ttl \in Ttl : ttl \in Nat /\ oldFor[profile[p]] + ttl <= MaxTtl + Timeout
  BY <1>5, Numbers, PassAssumption
<1>7. cache'.left > 0 => /\ cache'.roster \in Versions
                         /\ oldFor[cache'.roster] + cache'.left <= MaxTtl + Timeout
  BY <1>1, <1>2, <1>6 DEF AgeInv
<1>8. \A q \in Procs : q # p => pc'[q] = pc[q] /\ flight'[q] = flight[q]
  BY <1>1, <1>3
<1>9. pc'[p] = "reconcile" /\ oldFor[profile[p]] <= MaxTtl + Timeout
  BY <1>1, <1>3, <1>5, AgesAreNumbers DEF TypeInv
<1>10. QED
  BY <1>1, <1>7, <1>8, <1>9 DEF AgeInv

(* Live state first: what a pass reconciles and writes down is a roster    *)
(* that the service showed within the longest ttl and one request.         *)
THEOREM LiveStateFirst == Spec => []LiveFirst
<1> USE DEF Computing
<1>1. ASSUME Init PROVE AgeInv
  BY <1>1, Numbers DEF Init, AgeInv
<1>2. ASSUME AgeInv, TypeInv, Carried, [Next]_vars PROVE AgeInv'
  <2> USE <1>2, Numbers
      DEF AgeInv, TypeInv, TypeOK, Set, service, cached, context, request, files
  <2>1. CASE UNCHANGED vars \/ LoseCache
    BY <2>1 DEF vars, LoseCache
  <2>2. CASE Change
    BY <2>2, PassAssumption DEF Change, Versions
  <2>3. CASE Tick
    BY <2>3, TickKeepsAges
  <2>4. ASSUME NEW p \in Procs, Sweep(p) \/ Enter(p) \/ Ask(p) PROVE AgeInv'
    BY <2>4 DEF Sweep, Enter, Ask
  <2>5. ASSUME NEW p \in Procs, SyncSkips(p) PROVE AgeInv'
    BY <2>5 DEF SyncSkips, Carried, Equipped
  <2>6. ASSUME NEW p \in Procs, CacheHit(p) PROVE AgeInv'
    BY <2>6, CacheHitKeepsAges
  <2>7. ASSUME NEW p \in Procs, Answer(p) PROVE AgeInv'
    BY <2>7 DEF Answer
  <2>8. ASSUME NEW p \in Procs, Arrive(p) PROVE AgeInv'
    BY <2>8, ArriveKeepsAges
  <2>9. ASSUME NEW p \in Procs, Retry(p) \/ GiveUp(p) \/ Leave(p) \/ Kill(p)
        PROVE  AgeInv'
    BY <2>9 DEF Retry, GiveUp, Leave, Kill
  <2>10. ASSUME NEW p \in Procs,
               \/ LeftOut(p, "reconcile", "fold") \/ LeftOut(p, "fold", "persist")
               \/ LeftOut(p, "persist", "rest") \/ NothingToFold(p)
               \/ Validated(p) \/ Folded(p) \/ NothingToPersist(p)
        PROVE  AgeInv'
    BY <2>10 DEF LeftOut, NothingToFold, Validated, Folded, NothingToPersist
  <2>11. ASSUME NEW p \in Procs,
               \/ Reconcile(p) \/ FoldRow(p) \/ FoldRaises(p)
               \/ WriteTemp(p) \/ Publish(p) \/ WriteFails(p)
        PROVE  AgeInv'
    BY <2>11 DEF Reconcile, FoldRow, FoldRaises, WriteTemp, Publish, WriteFails
  <2>12. QED
    BY Steps, <2>1, <2>2, <2>3, <2>4, <2>5, <2>6, <2>7, <2>8, <2>9, <2>10, <2>11
<1>3. AgeInv /\ Carried /\ TypeInv => LiveFirst
  BY DEF AgeInv, Carried, TypeInv, TypeOK, LiveFirst
<1>4. QED
  BY <1>1, <1>2, <1>3, TypedInv, CarriedHolds, PTL DEF Spec

----------------------------------------------------------------------------
(* One lane: no two passes run at once.                                    *)
Alone == \A p, q \in Procs : pc[p] \in InPass /\ pc[q] \in InPass => p = q

(* A finite set of fewer than one elements is empty.                       *)
LEMMA FewerThanOne ==
  ASSUME NEW S, IsFiniteSet(S), Cardinality(S) < 1 PROVE S = {}
BY FS_EmptySet, FS_CardinalityType

(* With one lane passes run one after another.                             *)
LEMMA OneLane == ASSUME Width = 1 PROVE Spec => []Alone
<1> USE DEF Alone, InPass, Computing
<1>1. ASSUME Init PROVE Alone
  BY <1>1 DEF Init
<1>2. ASSUME Alone, TypeOK, [Next]_vars PROVE Alone'
  <2> USE <1>2 DEF TypeOK, Set, service, cached, context, request, files
  <2>1. CASE UNCHANGED vars \/ Change \/ LoseCache \/ Tick
    BY <2>1 DEF vars, Change, LoseCache, Tick
  <2>2. ASSUME NEW p \in Procs, Enter(p) PROVE Alone'
    <3> DEFINE Running == {q \in Procs : pc[q] \in InPass}
    <3>1. IsFiniteSet(Running)
      BY PassAssumption, FS_Subset
    <3>2. Cardinality(Running) < 1
      BY <2>2 DEF Enter
    <3>3. Running = {}
      BY <3>1, <3>2, FewerThanOne
    <3>4. \A q \in Procs : pc[q] \notin InPass
      BY <3>3
    <3>5. \A q \in Procs : q # p => pc'[q] = pc[q]
      BY <2>2 DEF Enter
    <3>6. QED
      BY <3>4, <3>5
  <2>3. ASSUME NEW p \in Procs, Sweep(p) \/ Leave(p) \/ Kill(p) PROVE Alone'
    BY <2>3 DEF Sweep, Leave, Kill
  <2>4. ASSUME NEW p \in Procs,
               \/ SyncSkips(p) \/ CacheHit(p) \/ Ask(p)
               \/ Answer(p) \/ Arrive(p) \/ Retry(p) \/ GiveUp(p)
        PROVE  Alone'
    BY <2>4 DEF SyncSkips, CacheHit, Ask, Answer, Arrive, Retry, GiveUp
  <2>5. ASSUME NEW p \in Procs,
               \/ LeftOut(p, "reconcile", "fold") \/ LeftOut(p, "fold", "persist")
               \/ LeftOut(p, "persist", "rest") \/ NothingToFold(p)
               \/ Validated(p) \/ Folded(p) \/ NothingToPersist(p)
        PROVE  Alone'
    BY <2>5 DEF LeftOut, NothingToFold, Validated, Folded, NothingToPersist
  <2>6. ASSUME NEW p \in Procs,
               \/ Reconcile(p) \/ FoldRow(p) \/ FoldRaises(p)
               \/ WriteTemp(p) \/ Publish(p) \/ WriteFails(p)
        PROVE  Alone'
    BY <2>6 DEF Reconcile, FoldRow, FoldRaises, WriteTemp, Publish, WriteFails
  <2>7. QED
    BY Steps, <2>1, <2>2, <2>3, <2>4, <2>5, <2>6
<1>3. QED
  BY <1>1, <1>2, Typed, PTL DEF Spec

(* A request is out only while there is no valid response, or while its    *)
(* process could not read it.                                              *)
Needed ==
  \A p \in Procs : pc[p] \in {"asking", "answered"} => cache.left = 0 \/ p \in misread

(* With one lane a request is out only while it is needed.                 *)
LEMMA RequestsAreNeeded == ASSUME Width = 1 PROVE Spec => []Needed
<1> USE DEF Needed, InPass, Computing
<1>1. ASSUME Init PROVE Needed
  BY <1>1 DEF Init
<1>2. ASSUME Needed, Alone, TypeOK, [Next]_vars PROVE Needed'
  <2> USE <1>2 DEF TypeOK, Set, service, cached, context, request, files
  <2>1. CASE UNCHANGED vars \/ Change \/ LoseCache
    BY <2>1 DEF vars, Change, LoseCache
  <2>2. CASE Tick
    <3>1. cache.left = 0 => cache'.left = 0
      BY <2>2 DEF Tick
    <3>2. QED
      BY <2>2, <3>1 DEF Tick
  <2>3. ASSUME NEW p \in Procs,
               \/ Sweep(p) \/ Enter(p) \/ Kill(p)
               \/ SyncSkips(p) \/ CacheHit(p) \/ Ask(p)
        PROVE  Needed'
    BY <2>3 DEF Sweep, Enter, Kill, SyncSkips, CacheHit, Ask
  <2>4. ASSUME NEW p \in Procs, Answer(p) \/ Retry(p) \/ GiveUp(p) PROVE Needed'
    BY <2>4 DEF Answer, Retry, GiveUp
  <2>5. ASSUME NEW p \in Procs, Arrive(p) PROVE Needed'
    <3>1. \A q \in Procs : q # p => pc[q] \notin InPass
      BY <2>5 DEF Arrive, Alone
    <3>2. \A q \in Procs : pc'[q] \notin {"asking", "answered"}
      BY <2>5, <3>1 DEF Arrive
    <3>3. QED
      BY <3>2
  <2>6. ASSUME NEW p \in Procs,
               \/ LeftOut(p, "reconcile", "fold") \/ LeftOut(p, "fold", "persist")
               \/ LeftOut(p, "persist", "rest") \/ NothingToFold(p)
               \/ Validated(p) \/ Folded(p) \/ NothingToPersist(p)
        PROVE  Needed'
    BY <2>6 DEF LeftOut, NothingToFold, Validated, Folded, NothingToPersist
  <2>7. ASSUME NEW p \in Procs,
               \/ Reconcile(p) \/ FoldRow(p) \/ FoldRaises(p) \/ Leave(p)
               \/ WriteTemp(p) \/ Publish(p) \/ WriteFails(p)
        PROVE  Needed'
    BY <2>7
    DEF Reconcile, FoldRow, FoldRaises, Leave, WriteTemp, Publish, WriteFails
  <2>8. QED
    BY Steps, <2>1, <2>2, <2>3, <2>4, <2>5, <2>6, <2>7
<1>3. QED
  BY <1>1, <1>2, Typed, OneLane, PTL DEF Spec

(* Under one lane, no request and no retry of one is out while a cached    *)
(* response is valid, but for a process that could not read it.            *)
THEOREM RequestsAreSuppressed == ASSUME Width = 1 PROVE Spec => []Suppressed
<1>1. Needed => Suppressed
  BY DEF Needed, Suppressed
<1>2. QED
  BY <1>1, RequestsAreNeeded, PTL

----------------------------------------------------------------------------
(* An answer is no older than the snapshot.  Unless a valid response has   *)
(* outlived a later one, what a pass has at hand and a valid response,     *)
(* which may be used after it, are no older than the snapshot either, and  *)
(* the response is no older than what the pass has at hand.                *)
Forward ==
  /\ snap.roster <= version
  /\ cache.left > 0 =>
       /\ cache.roster \in Versions /\ cache.roster <= version
       /\ outlived \/ snap.roster <= cache.roster
  /\ \A p \in Procs : profile[p] \in Versions => profile[p] <= version
  /\ \A p \in Procs :
       pc[p] = "answered" /\ profile[p] \in Versions => snap.roster <= profile[p]
  /\ \A p \in Procs : pc[p] \in Computing /\ profile[p] \in Versions =>
       \/ outlived
       \/ snap.roster <= profile[p] /\ (cache.left > 0 => profile[p] <= cache.roster)
  /\ \A p \in Procs : pc[p] = "publish" => state[p] # None

(* Rosters are numbers, to be compared.                                    *)
LEMMA RostersAreNumbers ==
  ASSUME TypeOK
  PROVE  /\ snap.roster \in Nat /\ version \in Versions /\ version \in Nat
         /\ cache.left \in Nat /\ \A v \in Versions : v \in Nat
<1>1. snap.roster \in Versions \cup {None}
  BY DEF TypeOK
<1>2. \A v \in Versions : v \in Nat
  BY Numbers
<1>3. cache.left \in 0 .. MaxTtl /\ version \in Versions
  BY DEF TypeOK
<1>4. snap.roster \in Nat
  BY <1>1, <1>2 DEF None
<1>5. cache.left \in Nat
  BY <1>3, PassAssumption
<1>6. QED
  BY <1>2, <1>3, <1>4, <1>5

(* What p publishes is its profile.                                        *)
LEMMA PublishesTheProfile ==
  ASSUME TypeInv, Carried, Forward, NEW p \in Procs, Publish(p)
  PROVE  /\ snap'.roster = profile[p] /\ profile[p] \in Versions
         /\ outlived \/ snap.roster <= snap'.roster
<1>1. snap'.roster = state[p] /\ pc[p] = "publish"
  BY DEF Publish, Document
<1>2. state[p] = profile[p] /\ state[p] \in Versions
  BY <1>1 DEF Carried, Forward, TypeInv, TypeOK
<1>3. QED
  BY <1>1, <1>2 DEF Forward, Computing

(* A publication goes forward.                                             *)
LEMMA PublishGoesForward ==
  ASSUME TypeInv, Carried, Alone, Forward, NEW p \in Procs, Publish(p)
  PROVE  Forward'
<1>1. /\ pc[p] = "publish" /\ pc' = [pc EXCEPT ![p] = "rest"]
      /\ UNCHANGED <<version, cache, outlived, profile, state>>
  BY DEF Publish, Set, service, cached, context
<1>2. snap'.roster = profile[p] /\ profile[p] \in Versions /\ profile[p] <= version
  BY PublishesTheProfile DEF Forward
<1>3. \A q \in Procs : q # p => profile[q] = None \/ profile[q] \notin Versions
  BY <1>1 DEF Alone, InPass, Computing, Equipped, Carried
<1>4. \A q \in Procs : q # p => pc'[q] = pc[q]
  BY <1>1 DEF TypeInv, TypeOK
<1>5. pc'[p] = "rest"
  BY <1>1 DEF TypeInv, TypeOK
<1>6. cache.left > 0 => /\ cache.roster \in Versions /\ cache.roster <= version
                        /\ outlived \/ profile[p] <= cache.roster
  BY <1>1, <1>2 DEF Forward, Computing
<1>7. QED
  BY <1>1, <1>2, <1>3, <1>4, <1>5, <1>6, Numbers DEF Forward, Computing

(* An answer goes forward.                                                 *)
LEMMA ArriveGoesForward ==
  ASSUME TypeInv, Carried, Alone, Forward, NEW p \in Procs, Arrive(p)
  PROVE  Forward'
<1>1. /\ pc[p] = "answered" /\ profile[p] \in Versions
      /\ pc' = [pc EXCEPT ![p] = "reconcile"]
      /\ UNCHANGED <<version, profile, state, snap>>
  BY DEF Arrive, Set, service, context, files
<1>2. \/ cache' = cache /\ (outlived' \/ ~(cache.left > 0))
      \/ \E ttl \in Ttl : cache' = [roster |-> profile[p], left |-> ttl]
  BY DEF Arrive, Fill, FillFails
<1>3. \A q \in Procs : q # p => profile[q] \notin Versions
  BY <1>1, Numbers DEF Alone, InPass, Computing, Equipped, Carried
<1>4. \A q \in Procs : q # p => pc'[q] = pc[q]
  BY <1>1 DEF TypeInv, TypeOK
<1>5. pc'[p] = "reconcile"
  BY <1>1 DEF TypeInv, TypeOK
<1>6. profile[p] <= profile[p] /\ snap.roster <= profile[p] /\ profile[p] <= version
  BY <1>1, RostersAreNumbers DEF TypeInv, Forward
<1>7. cache'.left > 0 =>
        /\ cache'.roster \in Versions /\ cache'.roster <= version
        /\ outlived' \/ cache'.roster = profile[p]
  BY <1>1, <1>2, <1>6 DEF Forward
<1>8. QED
  BY <1>1, <1>3, <1>4, <1>5, <1>6, <1>7 DEF Forward, Computing

(* A response from the cache goes forward.                                 *)
LEMMA CacheHitGoesForward ==
  ASSUME TypeInv, Forward, NEW p \in Procs, CacheHit(p) PROVE Forward'
<1>1. /\ cache.left > 0 /\ profile' = [profile EXCEPT ![p] = cache.roster]
      /\ pc' = [pc EXCEPT ![p] = "reconcile"]
      /\ UNCHANGED <<version, cache, outlived, state, snap>>
  BY DEF CacheHit, Set, service, cached, files
<1>2. /\ cache.roster \in Versions
      /\ outlived \/ snap.roster <= cache.roster
      /\ cache.roster <= version /\ cache.roster <= cache.roster
  BY <1>1, RostersAreNumbers DEF Forward, TypeInv
<1>3. \A q \in Procs : q # p => pc'[q] = pc[q] /\ profile'[q] = profile[q]
  BY <1>1 DEF TypeInv, TypeOK
<1>4. pc'[p] = "reconcile" /\ profile'[p] = cache.roster
  BY <1>1 DEF TypeInv, TypeOK
<1>5. QED
  BY <1>1, <1>2, <1>3, <1>4 DEF Forward

(* With one lane the rosters go forward.                                   *)
LEMMA ForwardHolds == ASSUME Width = 1 PROVE Spec => []Forward
<1> USE DEF Equipped, Computing
<1>1. ASSUME Init PROVE Forward
  BY <1>1, Numbers DEF Init, Forward, NoSnapshot, None
<1>2. ASSUME Forward, TypeInv, Carried, Alone, [Next]_vars PROVE Forward'
  <2> USE <1>2 DEF Forward, TypeInv, TypeOK, Set, service, cached, context, request, files
  <2>1. CASE UNCHANGED vars \/ LoseCache
    BY <2>1 DEF vars, LoseCache
  <2>2. CASE Change
    <3>1. \A n \in Nat : n <= version => n <= version'
      BY <2>2, RostersAreNumbers DEF Change
    <3>2. QED
      BY <2>2, <3>1, RostersAreNumbers DEF Change
  <2>3. CASE Tick
    <3>1. cache'.left > 0 =>
            cache.left > 0 /\ cache'.roster = cache.roster /\ outlived' = outlived
      BY <2>3 DEF Tick
    <3>2. QED
      BY <2>3, <3>1 DEF Tick
  <2>4. ASSUME NEW p \in Procs,
               Sweep(p) \/ Enter(p) \/ SyncSkips(p) \/ Ask(p)
        PROVE  Forward'
    BY <2>4, Numbers DEF Sweep, Enter, SyncSkips, Ask, Carried
  <2>5. ASSUME NEW p \in Procs, CacheHit(p) PROVE Forward'
    BY <2>5, CacheHitGoesForward
  <2>6. ASSUME NEW p \in Procs, Answer(p) PROVE Forward'
    BY <2>6, Numbers, RostersAreNumbers DEF Answer
  <2>7. ASSUME NEW p \in Procs, Arrive(p) PROVE Forward'
    BY <2>7, ArriveGoesForward
  <2>8. ASSUME NEW p \in Procs, Retry(p) \/ GiveUp(p) \/ Leave(p) \/ Kill(p)
        PROVE  Forward'
    BY <2>8, Numbers DEF Retry, GiveUp, Leave, Kill
  <2>9. ASSUME NEW p \in Procs,
               \/ LeftOut(p, "reconcile", "fold") \/ LeftOut(p, "fold", "persist")
               \/ LeftOut(p, "persist", "rest") \/ NothingToFold(p)
               \/ Validated(p) \/ Folded(p) \/ NothingToPersist(p)
        PROVE  Forward'
    BY <2>9 DEF LeftOut, NothingToFold, Validated, Folded, NothingToPersist
  <2>10. ASSUME NEW p \in Procs,
               \/ Reconcile(p) \/ FoldRow(p) \/ FoldRaises(p)
               \/ WriteTemp(p) \/ WriteFails(p)
        PROVE  Forward'
    BY <2>10 DEF Reconcile, FoldRow, FoldRaises, WriteTemp, WriteFails
  <2>11. ASSUME NEW p \in Procs, Publish(p) PROVE Forward'
    BY <2>11, PublishGoesForward
  <2>12. QED
    BY Steps, <2>1, <2>2, <2>3, <2>4, <2>5, <2>6, <2>7, <2>8, <2>9, <2>10, <2>11
<1>3. QED
  BY <1>1, <1>2, TypedInv, CarriedHolds, OneLane, PTL DEF Spec

(* Under one lane, the snapshot never goes back to an earlier roster, nor  *)
(* to none, while no valid response has outlived a later one.              *)
THEOREM SnapshotGoesForward == ASSUME Width = 1 PROVE Spec => NeverBack
<1>1. ASSUME TypeInv, Carried, Forward, [Next]_vars
      PROVE  [~outlived => snap'.roster >= snap.roster]_vars
  <2> USE <1>1 DEF files
  <2>1. snap'.roster >= snap'.roster \/ snap' # snap
    BY RostersAreNumbers DEF TypeInv
  <2>2. ASSUME NEW p \in Procs, Publish(p) PROVE ~outlived => snap'.roster >= snap.roster
    BY <2>2, PublishesTheProfile, RostersAreNumbers DEF TypeInv
  <2>3. CASE snap' = snap
    BY <2>1, <2>3
  <2>4. CASE UNCHANGED vars
    BY <2>4 DEF vars
  <2>5. ASSUME Next, ~\E p \in Procs : Publish(p) PROVE snap' = snap
    BY <2>5, Steps
    DEF Change, LoseCache, Tick, Sweep, Enter, Kill, SyncSkips, CacheHit, Ask,
        Answer, Arrive, Retry, GiveUp, LeftOut, Reconcile, NothingToFold,
        Validated, FoldRow, FoldRaises, Folded, NothingToPersist, WriteTemp,
        WriteFails, Leave
  <2>6. QED
    BY <2>2, <2>3, <2>4, <2>5
<1>2. QED
  BY <1>1, TypedInv, CarriedHolds, ForwardHolds, PTL DEF Spec, NeverBack
=============================================================================
