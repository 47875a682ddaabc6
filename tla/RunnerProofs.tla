---------------------------- MODULE RunnerProofs ----------------------------
(***************************************************************************)
(* Theorems of Runner for every set of processes, every job registry and   *)
(* every lane width.                                                       *)
(***************************************************************************)
EXTENDS Runner, FiniteSetTheorems, SequenceTheorems, TLAPS

(* The job at hand is a registered job, and folding gives an entry.        *)
LEMMA CurrentIsAJob ==
  ASSUME NEW p \in Procs, idx[p] \in 1 .. Len(JobOrder) PROVE Current(p) \in Jobs
BY RunnerAssumption DEF Current

(* Folding a result gives an entry of the record again.                    *)
LEMMA FoldGivesAnEntry ==
  ASSUME NEW e \in Entries, NEW s, NEW h PROVE Fold(e, s, h) \in Entries
BY DEF Entries, Fold, Quarantined, QuarantineAfter

(* The empty record is a record.                                           *)
LEMMA NoEntriesIsARecord == NoEntries \in [Jobs -> Entries]
BY DEF NoEntries, Entries, QuarantineAfter

(* The registry has a length, and a pass starts at its first job.          *)
LEMMA Indexes == Len(JobOrder) \in Nat /\ 1 \in 1 .. Len(JobOrder) + 1
BY RunnerAssumption, LenProperties

(* What the start of a pass leaves.                                        *)
LEMMA StartPassIsTyped ==
  ASSUME TypeOK, NEW p \in Procs, StartPass(p)
  PROVE  /\ pc' \in [Procs -> Locations] /\ idx' \in [Procs -> 1 .. Len(JobOrder) + 1]
         /\ overran' \in [Procs -> BOOLEAN] /\ record' \in [Procs -> [Jobs -> Entries]]
         /\ torn' \in BOOLEAN
<1>1. pc' \in [Procs -> Locations] /\ overran' \in [Procs -> BOOLEAN]
  BY DEF StartPass, Goto, TypeOK, Locations
<1>2. idx' \in [Procs -> 1 .. Len(JobOrder) + 1]
  BY Indexes DEF StartPass, TypeOK
<1>3. record' \in [Procs -> [Jobs -> Entries]]
  BY NoEntriesIsARecord DEF StartPass, TypeOK
<1>4. torn' \in BOOLEAN
  BY DEF StartPass, TypeOK
<1>5. QED
  BY <1>1, <1>2, <1>3, <1>4

(* What a note leaves of the records.                                      *)
LEMMA NoteIsTyped ==
  ASSUME TypeOK, NEW p \in Procs, NEW j \in Jobs, NEW s, NEW h,
         Note(p, j, s, h)
  PROVE  /\ record' \in [Procs -> [Jobs -> Entries]] /\ disk' \in [Jobs -> Entries]
         /\ torn' \in BOOLEAN
<1> DEFINE e == Fold(record[p][j], s, h)
<1>1. record[p] \in [Jobs -> Entries] /\ e \in Entries
  BY FoldGivesAnEntry DEF TypeOK
<1>2. [record[p] EXCEPT ![j] = e] \in [Jobs -> Entries]
  BY <1>1
<1>3. record' \in [Procs -> [Jobs -> Entries]] /\ disk' \in [Jobs -> Entries]
  BY <1>1, <1>2 DEF Note, TypeOK, notes
<1>4. torn' \in BOOLEAN
  BY DEF Note, TypeOK, notes
<1>5. QED
  BY <1>3, <1>4

(* A lane given, taken back, or lost.                                      *)
LEMMA Standing ==
  ASSUME holders \subseteq Procs
  PROVE  /\ Cardinality(InGoodStanding) \in Nat
         /\ \A p \in Procs \ holders :
              Cardinality(InGoodStanding \cup {p}) = Cardinality(InGoodStanding) + 1
         /\ \A p \in InGoodStanding :
              Cardinality(InGoodStanding \ {p}) = Cardinality(InGoodStanding) - 1
         /\ \A S \in SUBSET InGoodStanding :
              Cardinality(S) \in Nat /\ Cardinality(S) <= Cardinality(InGoodStanding)
<1>1. IsFiniteSet(InGoodStanding) /\ InGoodStanding \subseteq holders
  BY RunnerAssumption, FS_Subset DEF InGoodStanding
<1>2. \A p \in Procs \ holders : p \notin InGoodStanding
  BY <1>1
<1>3. \A S \in SUBSET InGoodStanding : Cardinality(S) \in Nat
  BY <1>1, FS_Subset, FS_CardinalityType
<1>4. \A S \in SUBSET InGoodStanding : Cardinality(S) <= Cardinality(InGoodStanding)
  BY <1>1, FS_Subset
<1>5. QED
  BY <1>1, <1>2, <1>3, <1>4, FS_CardinalityType, FS_AddElement, FS_RemoveElement

(* p is given a lane.                                                      *)
Given(p) ==
  /\ p \notin holders /\ Taken < Width
  /\ holders' = holders \cup {p} /\ UNCHANGED <<robbed, orphans>>

(* p takes back its lane, or another's; it is robbed; or it ends, and what *)
(* was its own stays taken.                                                *)
Returned(p) ==
  /\ holders' = holders \ {p} /\ robbed \ {p} \subseteq robbed' /\ p \notin robbed'
  /\ robbed' \subseteq holders'
  /\ orphans' \in 0 .. Width
  /\ \/ orphans' <= orphans
     \/ p \in InGoodStanding /\ orphans' = orphans + 1

(* A lane is lost.                                                         *)
Lost == holders' = holders /\ robbed \subseteq robbed' /\ robbed' \subseteq holders /\ UNCHANGED orphans

(* How the lanes stay counted when p is given one, gives its own back,     *)
(* loses it or ends.                                                       *)
LEMMA LanesCounted ==
  ASSUME holders \subseteq Procs, robbed \subseteq holders, orphans \in 0 .. Width, WithinWidth,
         NEW p \in Procs, Given(p) \/ Returned(p) \/ Lost
  PROVE  /\ holders' \subseteq Procs /\ robbed' \subseteq holders'
         /\ orphans' \in 0 .. Width /\ WithinWidth'
<1> DEFINE G == InGoodStanding
<1>0. Width \in Nat /\ orphans \in Nat /\ Cardinality(G) \in Nat
      /\ Cardinality(G) + orphans <= Width
  <2>1. Width \in Nat
    BY RunnerAssumption
  <2>2. QED
    BY <2>1, Standing DEF WithinWidth, Taken
<1>1. CASE Given(p)
  <2>1. G' = G \cup {p} /\ p \notin holders
    BY <1>1 DEF Given, InGoodStanding
  <2>2. Cardinality(G') = Cardinality(G) + 1
    BY <2>1, Standing
  <2>3. Cardinality(G) + orphans < Width /\ orphans' = orphans
    BY <1>1 DEF Given, Taken
  <2>4. WithinWidth'
    BY <1>0, <2>2, <2>3 DEF WithinWidth, Taken
  <2>5. QED
    BY <1>1, <2>4 DEF Given
<1>2. CASE Returned(p)
  <2>1. G' \subseteq G \ {p} /\ orphans' \in 0 .. Width
    BY <1>2 DEF Returned, InGoodStanding
  <2>2. G' \in SUBSET G /\ G \ {p} \in SUBSET G
    BY <2>1
  <2>3. Cardinality(G') \in Nat /\ Cardinality(G') <= Cardinality(G)
    BY <2>2, Standing
  <2>4. p \in G => Cardinality(G') <= Cardinality(G) - 1
    <3>1. SUFFICES ASSUME p \in G PROVE Cardinality(G') <= Cardinality(G) - 1
      OBVIOUS
    <3>2. IsFiniteSet(G \ {p})
      BY RunnerAssumption, FS_Subset DEF InGoodStanding
    <3>3. Cardinality(G') <= Cardinality(G \ {p})
      BY <2>1, <3>2, FS_Subset
    <3>4. Cardinality(G \ {p}) = Cardinality(G) - 1
      BY <3>1, Standing
    <3>5. QED
      BY <3>3, <3>4
  <2>5. orphans' <= orphans \/ (p \in G /\ orphans' = orphans + 1)
    BY <1>2 DEF Returned
  <2>6. orphans' \in Nat
    BY <1>0, <2>1
  <2>7. Cardinality(G') + orphans' <= Width
    BY <1>0, <2>3, <2>4, <2>5, <2>6
  <2>8. QED
    BY <1>2, <2>1, <2>7 DEF Returned, WithinWidth, Taken
<1>3. CASE Lost
  <2>1. G' \in SUBSET G
    BY <1>3 DEF Lost, InGoodStanding
  <2>2. Cardinality(G') \in Nat /\ Cardinality(G') <= Cardinality(G) /\ orphans' = orphans
    BY <1>3, <2>1, Standing DEF Lost
  <2>3. QED
    BY <1>0, <1>3, <2>2 DEF Lost, WithinWidth, Taken
<1>4. QED
  BY <1>1, <1>2, <1>3

(* Who vanishes leaves the lane that is its own.                           *)
LEMMA VanishReturns ==
  ASSUME holders \subseteq Procs, robbed \subseteq holders, orphans \in 0 .. Width, WithinWidth,
         NEW p \in Procs, Vanish(p)
  PROVE  Returned(p)
<1>0. Width \in Nat
  BY RunnerAssumption
<1>1. /\ holders' = holders \ {p} /\ robbed' = robbed \ {p}
      /\ orphans' = IF p \in InGoodStanding THEN orphans + 1 ELSE orphans
  BY DEF Vanish
<1>2. p \in InGoodStanding => orphans + 1 \in 0 .. Width
  <2>1. SUFFICES ASSUME p \in InGoodStanding PROVE orphans + 1 \in 0 .. Width
    OBVIOUS
  <2>2. Cardinality(InGoodStanding \ {p}) = Cardinality(InGoodStanding) - 1
    BY <2>1, Standing
  <2>3. Cardinality(InGoodStanding \ {p}) \in Nat /\ Cardinality(InGoodStanding) \in Nat
    BY Standing
  <2>4. Cardinality(InGoodStanding) + orphans <= Width /\ orphans \in Nat
    BY <1>0 DEF WithinWidth, Taken
  <2>5. QED
    BY <1>0, <2>2, <2>3, <2>4
<1>3. orphans' \in 0 .. Width
  BY <1>1, <1>2
<1>4. orphans' <= orphans \/ (p \in InGoodStanding /\ orphans' = orphans + 1)
  <2>1. orphans <= orphans
    BY <1>0
  <2>2. QED
    BY <1>1, <2>1
<1>5. QED
  BY <1>1, <1>3, <1>4 DEF Returned

(* Who leaves hold() returns a lane, its own or another.                   *)
LEMMA LeaveReturns ==
  ASSUME holders \subseteq Procs, robbed \subseteq holders, orphans \in 0 .. Width,
         NEW p \in Procs, Leave(p)
  PROVE  Returned(p)
<1>0. Width \in Nat /\ orphans \in Nat
  BY RunnerAssumption
<1>1. /\ holders' = holders \ {p} /\ robbed \ {p} \subseteq robbed' /\ p \notin robbed'
      /\ robbed' \subseteq holders'
  BY DEF Leave, InGoodStanding
<1>2. orphans' = orphans \/ (orphans > 0 /\ orphans' = orphans - 1)
  BY DEF Leave
<1>3. orphans' \in 0 .. Width /\ orphans' <= orphans
  BY <1>0, <1>2
<1>4. QED
  BY <1>1, <1>3 DEF Returned

(* The locations between a grant and the release of its lane.              *)
Holds == InPass \cup {"leave"}

(* How the lane, the workers and the location of a process fit together.   *)
Sound(p) ==
  /\ p \in holders <=> Live(p) /\ pc[p] \in Holds
  /\ pc[p] = "lane" => Live(p)
  /\ pc[p] \in {"run", "grace"} => idx[p] <= Len(JobOrder)
  /\ Live(p) =>
       /\ pc[p] \in {"off", "gate", "lane", "rest"} => worker[p] = {}
       /\ pc[p] \in {"leave", "exit"} /\ (p \notin cut \/ p \in Daemons)
            => worker[p] = {}
       /\ pc[p] \in {"job", "summary", "check", "dying"}
            => worker[p] \subseteq abandoned[p]
       /\ pc[p] = "job" => overran[p] \/ worker[p] = {}
       /\ pc[p] \in {"run", "grace"}
            => ~overran[p] /\ worker[p] \subseteq {Current(p)}
       /\ \A j, k \in worker[p] : j = k

Inv == TypeOK /\ WithinWidth /\ \A p \in Procs : Sound(p)

(* Only p moves.                                                           *)
Only(p) ==
  \A q \in Procs \ {p} :
    /\ pc'[q] = pc[q] /\ idx'[q] = idx[q] /\ worker'[q] = worker[q]
    /\ abandoned'[q] = abandoned[q] /\ overran'[q] = overran[q]
    /\ q \in holders' <=> q \in holders
    /\ q \in cut' <=> q \in cut

(* Who does not move stays sound.                                          *)
LEMMA OthersStaySound ==
  ASSUME NEW p \in Procs, Only(p), \A q \in Procs : Sound(q), Sound(p)'
  PROVE  \A q \in Procs : Sound(q)'
<1> SUFFICES ASSUME NEW q \in Procs, q # p PROVE Sound(q)'
  OBVIOUS
<1>1. QED
  BY DEF Only, Sound, Current, Live

(* A machine on which nothing runs yet is sound.                           *)
LEMMA InvInit == Init => Inv
<1>1. Init => TypeOK
  <2>1. 1 \in 1 .. Len(JobOrder) + 1
    BY RunnerAssumption, LenProperties
  <2>2. 0 \in 0 .. Width /\ 0 \in 0 .. MaxKills /\ 0 \in 0 .. MaxThefts /\ 0 \in 0 .. LateBound
    BY RunnerAssumption
  <2> SUFFICES ASSUME Init PROVE TypeOK
    OBVIOUS
  <2> USE DEF Init
  <2>3. pc \in [Procs -> Locations] /\ idx \in [Procs -> 1 .. Len(JobOrder) + 1]
    BY <2>1 DEF Locations
  <2>4. /\ worker \in [Procs -> SUBSET Jobs] /\ abandoned \in [Procs -> SUBSET Jobs]
        /\ overran \in [Procs -> BOOLEAN] /\ stop \in [Procs -> BOOLEAN]
    OBVIOUS
  <2>5. record \in [Procs -> [Jobs -> Entries]] /\ disk \in [Jobs -> Entries]
    BY NoEntriesIsARecord
  <2>6. holders \subseteq Procs /\ robbed \subseteq holders /\ orphans \in 0 .. Width
    BY <2>2
  <2>7. /\ halt \in BOOLEAN /\ alive \in BOOLEAN /\ torn \in BOOLEAN /\ cut \subseteq Procs
        /\ kills \in 0 .. MaxKills /\ thefts \in 0 .. MaxThefts
        /\ late \in [Procs -> 0 .. LateBound]
    BY <2>2
  <2>8. QED
    BY <2>3, <2>4, <2>5, <2>6, <2>7 DEF TypeOK
<1>2. Init => WithinWidth
  BY RunnerAssumption, FS_EmptySet DEF Init, WithinWidth, Taken, InGoodStanding
<1>3. Init => \A p \in Procs : Sound(p)
  BY DEF Init, Sound, Holds, InPass, Live
<1>4. QED
  BY <1>1, <1>2, <1>3 DEF Inv

(* A live process between two passes, that is where no lane is held, stays *)
(* sound as it moves on to another such place.                             *)
LEMMA BetweenPasses ==
  ASSUME NEW p \in Procs, Sound(p), Live(p), pc[p] \in {"gate", "lane"},
         pc'[p] \in {"lane", "rest", "exit"}, worker' = worker, holders' = holders
  PROVE  Sound(p)'
<1>1. worker[p] = {} /\ p \notin holders
  BY DEF Sound, Holds, InPass
<1>2. pc'[p] \notin Holds \cup {"run", "grace", "job", "summary", "check", "dying"}
  BY DEF Holds, InPass
<1>3. Live(p)' <=> Live(p)
  BY DEF Live
<1>4. QED
  BY <1>1, <1>2, <1>3 DEF Sound

(* The steps of a cycle, from the head of the loop to the grant.           *)
LEMMA InvCycle ==
  ASSUME Inv, NEW p \in Procs, Cycle(p) PROVE Inv'
<1> USE DEF Inv, TypeOK, WithinWidth, Taken, InGoodStanding, pass, shared, lanes, notes, flags, Locations, InPass, Holds
<1>0. \A q \in Procs : Sound(q)
  OBVIOUS
<1>1. CASE BeginDry(p)
  <2>1. TypeOK' /\ WithinWidth'
    BY <1>1, StartPassIsTyped DEF BeginDry
  <2>2. Sound(p)' /\ Only(p)
    <3>1. Sound(p)'
      BY <1>1, <1>0, RunnerAssumption, NoEntriesIsARecord DEF BeginDry, StartPass, Goto, Sound, Live, Current
    <3>2. Only(p)
      BY <1>1 DEF BeginDry, StartPass, Goto, Only
    <3>3. QED
      BY <3>1, <3>2
  <2>3. QED
    BY <2>1, <2>2, <1>0, OthersStaySound
<1>2. CASE Halted(p)
  <2>1. TypeOK' /\ WithinWidth'
    BY <1>2, <1>0 DEF Halted, Goto, Sound
  <2>2. Sound(p)' /\ Only(p)
    <3>1. Sound(p)'
      <4>1. /\ Live(p) /\ pc[p] \in {"gate", "lane"} /\ pc'[p] \in {"lane", "rest", "exit"}
            /\ worker' = worker /\ holders' = holders
        BY <1>2, <1>0 DEF Halted, Goto
      <4>2. QED
        BY <1>0, <4>1, BetweenPasses
    <3>2. Only(p)
      BY <1>2 DEF Halted, Goto, Only
    <3>3. QED
      BY <3>1, <3>2
  <2>3. QED
    BY <2>1, <2>2, <1>0, OthersStaySound
<1>3. CASE Starved(p)
  <2>1. TypeOK' /\ WithinWidth'
    BY <1>3, <1>0 DEF Starved, Conclude, Goto, StillRunning, Sound
  <2>2. Sound(p)' /\ Only(p)
    <3>1. Sound(p)'
      <4>1. /\ Live(p) /\ pc[p] \in {"gate", "lane"} /\ pc'[p] \in {"lane", "rest", "exit"}
            /\ worker' = worker /\ holders' = holders
        BY <1>3, <1>0 DEF Starved, Conclude, Goto
      <4>2. QED
        BY <1>0, <4>1, BetweenPasses
    <3>2. Only(p)
      BY <1>3 DEF Starved, Conclude, Goto, Only
    <3>3. QED
      BY <3>1, <3>2
  <2>3. QED
    BY <2>1, <2>2, <1>0, OthersStaySound
<1>4. CASE Ask(p)
  <2>1. TypeOK' /\ WithinWidth'
    BY <1>4, <1>0 DEF Ask, Goto, StillRunning, Sound
  <2>2. Sound(p)' /\ Only(p)
    <3>1. Sound(p)'
      <4>1. /\ Live(p) /\ pc[p] \in {"gate", "lane"} /\ pc'[p] \in {"lane", "rest", "exit"}
            /\ worker' = worker /\ holders' = holders
        BY <1>4, <1>0 DEF Ask, Goto
      <4>2. QED
        BY <1>0, <4>1, BetweenPasses
    <3>2. Only(p)
      BY <1>4 DEF Ask, Goto, Only
    <3>3. QED
      BY <3>1, <3>2
  <2>3. QED
    BY <2>1, <2>2, <1>0, OthersStaySound
<1>5. CASE NoLane(p)
  <2>1. TypeOK' /\ WithinWidth'
    BY <1>5, <1>0 DEF NoLane, Conclude, Goto, Sound
  <2>2. Sound(p)' /\ Only(p)
    <3>1. Sound(p)'
      <4>1. /\ Live(p) /\ pc[p] \in {"gate", "lane"} /\ pc'[p] \in {"lane", "rest", "exit"}
            /\ worker' = worker /\ holders' = holders
        BY <1>5, <1>0 DEF NoLane, Conclude, Goto, Sound
      <4>2. QED
        BY <1>0, <4>1, BetweenPasses
    <3>2. Only(p)
      BY <1>5 DEF NoLane, Conclude, Goto, Only
    <3>3. QED
      BY <3>1, <3>2
  <2>3. QED
    BY <2>1, <2>2, <1>0, OthersStaySound
<1>6. CASE Begin(p)
  <2>1. TypeOK' /\ WithinWidth'
    <3>1. /\ holders' \subseteq Procs /\ robbed' \subseteq holders'
          /\ orphans' \in 0 .. Width /\ WithinWidth'
      BY <1>6, <1>0, LanesCounted DEF Begin, Sound, Given
    <3>2. late' \in [Procs -> 0 .. LateBound]
      BY <1>6, RunnerAssumption DEF Begin
    <3>3. QED
      BY <1>6, <3>1, <3>2, StartPassIsTyped DEF Begin
  <2>2. Sound(p)' /\ Only(p)
    <3>1. Live(p) /\ worker[p] = {}
      BY <1>6, <1>0 DEF Begin, Sound
    <3>2. QED
      BY <1>6, <1>0, <3>1 DEF Begin, StartPass, Goto, Sound, Only, Live
  <2>3. QED
    BY <2>1, <2>2, <1>0, OthersStaySound
<1>7. QED
  BY <1>1, <1>2, <1>3, <1>4, <1>5, <1>6 DEF Cycle

(* The steps of the jobs of a pass.                                        *)
LEMMA InvWorking ==
  ASSUME Inv, NEW p \in Procs, Working(p) PROVE Inv'
<1> USE DEF Inv, TypeOK, WithinWidth, Taken, InGoodStanding, pass, shared, lanes, notes, flags, Locations, InPass, Holds
<1>0. \A q \in Procs : Sound(q)
  OBVIOUS
<1>1. CASE SkipJob(p)
  <2>1. TypeOK' /\ WithinWidth'
    BY <1>1, <1>0, RunnerAssumption DEF SkipJob, NextJob, Skipped, Sound
  <2>2. Sound(p)' /\ Only(p)
    BY <1>1, <1>0, RunnerAssumption DEF SkipJob, NextJob, Skipped, Sound, Only, Live, Current
  <2>3. QED
    BY <2>1, <2>2, <1>0, OthersStaySound
<1>2. CASE SkipRest(p)
  <2>1. TypeOK' /\ WithinWidth'
    BY <1>2, <1>0, RunnerAssumption DEF SkipRest, Sound
  <2>2. Sound(p)' /\ Only(p)
    BY <1>2, <1>0, RunnerAssumption DEF SkipRest, Sound, Only, Live, Current
  <2>3. QED
    BY <2>1, <2>2, <1>0, OthersStaySound
<1>3. CASE StartJob(p)
  <2>1. TypeOK' /\ WithinWidth'
    BY <1>3, <1>0, RunnerAssumption, CurrentIsAJob DEF StartJob, Goto, Skipped, Sound
  <2>2. Sound(p)' /\ Only(p)
    BY <1>3, <1>0, RunnerAssumption, CurrentIsAJob DEF StartJob, Goto, Skipped, Sound, Only, Live, Current
  <2>3. QED
    BY <2>1, <2>2, <1>0, OthersStaySound
<1>4. CASE Overrun(p)
  <2>1. TypeOK' /\ WithinWidth'
    BY <1>4, <1>0, RunnerAssumption DEF Overrun, Goto, Sound
  <2>2. Sound(p)' /\ Only(p)
    BY <1>4, <1>0, RunnerAssumption DEF Overrun, Goto, Sound, Only, Live, Current
  <2>3. QED
    BY <2>1, <2>2, <1>0, OthersStaySound
<1>5. CASE GraceOver(p)
  <2>1. TypeOK' /\ WithinWidth'
    <3>1. idx[p] \in 1 .. Len(JobOrder) /\ Len(JobOrder) \in Nat
      BY <1>5, <1>0, RunnerAssumption, LenProperties DEF GraceOver, Sound
    <3>2. Current(p) \in Jobs
      BY <3>1, CurrentIsAJob
    <3>3. /\ record' \in [Procs -> [Jobs -> Entries]] /\ disk' \in [Jobs -> Entries]
          /\ torn' \in BOOLEAN
      <4>1. Note(p, Current(p), "FAIL", Current(p) \in worker[p])
        BY <1>5 DEF GraceOver
      <4>2. QED
        BY <3>2, <4>1, NoteIsTyped, Zenon
    <3>4. QED
      <4>1. idx' \in [Procs -> 1 .. Len(JobOrder) + 1]
        BY <1>5, <3>1 DEF GraceOver, NextJob
      <4>2. QED
        BY <1>5, <3>2, <3>3, <4>1 DEF GraceOver, Goto
  <2>2. Sound(p)' /\ Only(p)
    BY <1>5, <1>0, RunnerAssumption, CurrentIsAJob, NoteIsTyped DEF GraceOver, Goto, NextJob, Sound, Only, Live, Current
  <2>3. QED
    BY <2>1, <2>2, <1>0, OthersStaySound
<1>6. CASE \E s \in Statuses : JobDone(p, s)
  <2>1. TypeOK' /\ WithinWidth'
    <3>1. idx[p] \in 1 .. Len(JobOrder) /\ Len(JobOrder) \in Nat
      BY <1>6, <1>0, RunnerAssumption, LenProperties DEF JobDone, Sound
    <3>2. Current(p) \in Jobs
      BY <3>1, CurrentIsAJob
    <3>3. /\ record' \in [Procs -> [Jobs -> Entries]] /\ disk' \in [Jobs -> Entries]
          /\ torn' \in BOOLEAN
      BY <1>6, <3>2, NoteIsTyped DEF JobDone
    <3>4. QED
      <4>1. idx' \in [Procs -> 1 .. Len(JobOrder) + 1]
        BY <1>6, <3>1 DEF JobDone, NextJob
      <4>2. QED
        BY <1>6, <3>2, <3>3, <4>1 DEF JobDone, Goto
  <2>2. Sound(p)' /\ Only(p)
    BY <1>6, <1>0, RunnerAssumption, CurrentIsAJob, NoteIsTyped DEF JobDone, Goto, NextJob, Sound, Only, Live, Current
  <2>3. QED
    BY <2>1, <2>2, <1>0, OthersStaySound
<1>7. QED
  BY <1>1, <1>2, <1>3, <1>4, <1>5, <1>6 DEF Working

(* The end of a pass, of a cycle and of a process.                         *)
LEMMA InvEnding ==
  ASSUME Inv, NEW p \in Procs, Ending(p) PROVE Inv'
<1> USE DEF Inv, TypeOK, WithinWidth, Taken, InGoodStanding, pass, shared, lanes, notes, flags, Locations, InPass, Holds
<1>0. \A q \in Procs : Sound(q)
  OBVIOUS
<1>1. CASE PassOver(p)
  <2>1. TypeOK' /\ WithinWidth'
    BY <1>1, <1>0 DEF PassOver, Goto, Sound
  <2>2. Sound(p)' /\ Only(p)
    BY <1>1, <1>0 DEF PassOver, Goto, Sound, Only, Live, Current
  <2>3. QED
    BY <2>1, <2>2, <1>0, OthersStaySound
<1>2. CASE EndDry(p)
  <2>1. TypeOK' /\ WithinWidth'
    BY <1>2, <1>0 DEF EndDry, Conclude, Goto, Sound
  <2>2. Sound(p)' /\ Only(p)
    BY <1>2, <1>0 DEF EndDry, Conclude, Goto, Sound, Only, Live, Current
  <2>3. QED
    BY <2>1, <2>2, <1>0, OthersStaySound
<1>3. CASE WriteSummary(p)
  <2>1. TypeOK' /\ WithinWidth'
    BY <1>3, <1>0 DEF WriteSummary, Report, Goto, Sound
  <2>2. Sound(p)' /\ Only(p)
    BY <1>3, <1>0 DEF WriteSummary, Report, Goto, Sound, Only, Live, Current
  <2>3. QED
    BY <2>1, <2>2, <1>0, OthersStaySound
<1>4. CASE FoundAbandoned(p)
  <2>1. TypeOK' /\ WithinWidth'
    BY <1>4, <1>0 DEF FoundAbandoned, Goto, Sound
  <2>2. Sound(p)' /\ Only(p)
    BY <1>4, <1>0 DEF FoundAbandoned, Goto, Sound, Only, Live, Current
  <2>3. QED
    BY <2>1, <2>2, <1>0, OthersStaySound
<1>5. CASE FoundNone(p)
  <2>1. TypeOK' /\ WithinWidth'
    BY <1>5, <1>0 DEF FoundNone, Goto, StillRunning, Sound
  <2>2. Sound(p)' /\ Only(p)
    BY <1>5, <1>0 DEF FoundNone, Goto, StillRunning, Sound, Only, Live, Current
  <2>3. QED
    BY <2>1, <2>2, <1>0, OthersStaySound
<1>6. CASE Leave(p)
  <2>1. TypeOK' /\ WithinWidth'
    <3>1. /\ holders' \subseteq Procs /\ robbed' \subseteq holders'
          /\ orphans' \in 0 .. Width /\ WithinWidth'
      BY <1>6, LeaveReturns, LanesCounted
    <3>2. pc' \in [Procs -> Locations] /\ alive' \in BOOLEAN
      BY <1>6 DEF Leave, Conclude, Goto
    <3>3. QED
      BY <1>6, <3>1, <3>2 DEF Leave
  <2>2. Sound(p)' /\ Only(p)
    <3>1. pc'[p] \in {"rest", "exit"} /\ p \notin holders'
      BY <1>6 DEF Leave, Conclude, Goto
    <3>2. Live(p) /\ (p \notin cut \/ p \in Daemons) => worker[p] = {}
      BY <1>6, <1>0 DEF Leave, Sound
    <3>3. QED
      BY <1>6, <1>0, <3>1, <3>2 DEF Leave, Conclude, Goto, Sound, Only, Live, Current
  <2>3. QED
    BY <2>1, <2>2, <1>0, OthersStaySound
<1>7. CASE DieHolding(p)
  <2>1. TypeOK' /\ WithinWidth'
    <3>1. /\ holders' \subseteq Procs /\ robbed' \subseteq holders'
          /\ orphans' \in 0 .. Width /\ WithinWidth'
      BY <1>7, VanishReturns, LanesCounted DEF DieHolding
    <3>2. QED
      BY <1>7, <3>1 DEF DieHolding, Vanish, Report, Goto
  <2>2. Sound(p)' /\ Only(p)
    BY <1>7, <1>0, RunnerAssumption DEF DieHolding, Vanish, Report, Goto, Sound, Only, Live, Current
  <2>3. QED
    BY <2>1, <2>2, <1>0, OthersStaySound
<1>8. CASE Tick(p)
  <2>1. TypeOK' /\ WithinWidth'
    BY <1>8, <1>0 DEF Tick, Goto, Sound
  <2>2. Sound(p)' /\ Only(p)
    BY <1>8, <1>0 DEF Tick, Goto, Sound, Only, Live, Current
  <2>3. QED
    BY <2>1, <2>2, <1>0, OthersStaySound
<1>9. CASE Exit(p)
  <2>1. TypeOK' /\ WithinWidth'
    <3>1. /\ holders' \subseteq Procs /\ robbed' \subseteq holders'
          /\ orphans' \in 0 .. Width /\ WithinWidth'
      BY <1>9, VanishReturns, LanesCounted DEF Exit
    <3>2. QED
      BY <1>9, <3>1 DEF Exit, Vanish, Report, Goto
  <2>2. Sound(p)' /\ Only(p)
    BY <1>9, <1>0, RunnerAssumption DEF Exit, Vanish, Report, Goto, Sound, Only, Live, Current
  <2>3. QED
    BY <2>1, <2>2, <1>0, OthersStaySound
<1>10. QED
  BY <1>1, <1>2, <1>3, <1>4, <1>5, <1>6, <1>7, <1>8, <1>9 DEF Ending

(* What the operator, the system and the workers do to a process.          *)
LEMMA InvEnvironment ==
  ASSUME Inv, NEW p \in Procs, Environment(p) PROVE Inv'
<1> USE DEF Inv, TypeOK, WithinWidth, Taken, InGoodStanding, pass, shared, lanes, notes, flags, Locations, InPass, Holds
<1>0. \A q \in Procs : Sound(q)
  OBVIOUS
<1>1. CASE Start(p)
  <2>1. TypeOK' /\ WithinWidth'
    BY <1>1, <1>0 DEF Start, Goto, Sound
  <2>2. Sound(p)' /\ Only(p)
    <3>1. Sound(p)'
      <4>1. pc[p] = "off" /\ pc'[p] \in {"rest", "gate"} /\ worker' = worker /\ holders' = holders
        BY <1>1 DEF Start, Goto
      <4>2. p \notin holders /\ (Live(p) => worker[p] = {})
        BY <1>0, <4>1 DEF Sound
      <4>3. Live(p)' <=> Live(p)
        BY DEF Live
      <4>4. QED
        BY <4>1, <4>2, <4>3 DEF Sound
    <3>2. Only(p)
      BY <1>1 DEF Start, Goto, Only
    <3>3. QED
      BY <3>1, <3>2
  <2>3. QED
    BY <2>1, <2>2, <1>0, OthersStaySound
<1>2. CASE Request(p)
  <2>1. TypeOK' /\ WithinWidth'
    BY <1>2, <1>0 DEF Request, Sound
  <2>2. Sound(p)' /\ Only(p)
    BY <1>2, <1>0 DEF Request, Sound, Only, Live, Current
  <2>3. QED
    BY <2>1, <2>2, <1>0, OthersStaySound
<1>3. CASE Interrupt(p)
  <2>1. TypeOK' /\ WithinWidth'
    BY <1>3, <1>0 DEF Interrupt, Goto, Sound
  <2>2. Sound(p)' /\ Only(p)
    BY <1>3, <1>0 DEF Interrupt, Goto, Sound, Only, Live, Current
  <2>3. QED
    BY <2>1, <2>2, <1>0, OthersStaySound
<1>4. CASE Kill(p)
  <2>1. TypeOK' /\ WithinWidth'
    <3>1. /\ holders' \subseteq Procs /\ robbed' \subseteq holders'
          /\ orphans' \in 0 .. Width /\ WithinWidth'
      BY <1>4, VanishReturns, LanesCounted DEF Kill
    <3>2. QED
      BY <1>4, <3>1, RunnerAssumption DEF Kill, Vanish, Goto
  <2>2. Sound(p)' /\ Only(p)
    BY <1>4, <1>0, RunnerAssumption DEF Kill, Vanish, Goto, Sound, Only, Live, Current
  <2>3. QED
    BY <2>1, <2>2, <1>0, OthersStaySound
<1>5. CASE \E j \in Jobs : WorkerEnds(p, j)
  <2>1. TypeOK' /\ WithinWidth'
    BY <1>5, <1>0 DEF WorkerEnds, Sound
  <2>2. Sound(p)' /\ Only(p)
    BY <1>5, <1>0 DEF WorkerEnds, Sound, Only, Live, Current
  <2>3. QED
    BY <2>1, <2>2, <1>0, OthersStaySound
<1>6. CASE Rob(p)
  <2>1. TypeOK' /\ WithinWidth'
    <3>1. Lost /\ thefts' \in 0 .. MaxThefts
      BY <1>6, RunnerAssumption DEF Rob, Lost
    <3>2. /\ holders' \subseteq Procs /\ robbed' \subseteq holders'
          /\ orphans' \in 0 .. Width /\ WithinWidth'
      BY <3>1, LanesCounted
    <3>3. QED
      BY <1>6, <3>1, <3>2 DEF Rob
  <2>2. Sound(p)' /\ Only(p)
    BY <1>6, <1>0 DEF Rob, Sound, Only, Live, Current
  <2>3. QED
    BY <2>1, <2>2, <1>0, OthersStaySound
<1>7. QED
  BY <1>1, <1>2, <1>3, <1>4, <1>5, <1>6 DEF Environment

(* The whole of it.                                                        *)
LEMMA InvNext == Inv /\ [Next]_vars => Inv'
<1> SUFFICES ASSUME Inv, [Next]_vars PROVE Inv'
  OBVIOUS
<1>1. CASE Reclaim
  <2>1. TypeOK' /\ WithinWidth'
    <3>1. Width \in Nat /\ Cardinality(InGoodStanding) \in Nat
      BY RunnerAssumption, Standing DEF Inv, TypeOK
    <3>2. orphans' \in 0 .. Width /\ Taken' <= Width
      BY <1>1, <3>1 DEF Reclaim, Inv, TypeOK, WithinWidth, Taken, InGoodStanding
    <3>3. QED
      BY <1>1, <3>2 DEF Reclaim, Inv, TypeOK, WithinWidth, pass, flags, notes
  <2>2. \A p \in Procs : Sound(p)'
    BY <1>1 DEF Reclaim, Inv, Sound, Current, Live, pass, flags, notes
  <2>3. QED
    BY <2>1, <2>2 DEF Inv
<1>2. CASE SetHalt
  <2>1. TypeOK' /\ WithinWidth'
    BY <1>2, RunnerAssumption DEF SetHalt, Inv, TypeOK, WithinWidth, Taken, InGoodStanding, pass, lanes, flags, notes
  <2>2. \A p \in Procs : Sound(p)'
    BY <1>2 DEF SetHalt, Inv, Sound, Current, Live, pass, lanes, flags, notes
  <2>3. QED
    BY <2>1, <2>2 DEF Inv
<1>3. CASE UNCHANGED vars
  BY <1>3 DEF vars, Inv, TypeOK, WithinWidth, Taken, InGoodStanding, Sound, Current, Live
<1>4. ASSUME NEW p \in Procs, Advance(p) PROVE Inv'
  BY <1>4, InvCycle, InvWorking, InvEnding DEF Advance
<1>5. QED
  BY <1>1, <1>2, <1>3, <1>4, InvEnvironment DEF Next

(* The inductive invariant: types, lanes counted, every process sound.     *)
THEOREM Invariance == Spec => []Inv
<1>1. QED
  BY InvInit, InvNext, PTL DEF Spec

(* A job of a live process runs only under a lane, unless Ctrl-C struck    *)
(* that process.                                                           *)
THEOREM NoWorkWithoutLane == Spec => []WorkUnderLane
<1>1. Inv => WorkUnderLane
  <2> SUFFICES ASSUME Inv, NEW p \in Procs \ cut, Live(p), worker[p] # {}
               PROVE  p \in holders
    BY DEF WorkUnderLane
  <2>1. pc[p] \in Locations /\ Sound(p)
    BY DEF Inv, TypeOK
  <2>2. QED
    BY <2>1 DEF Sound, Locations, Holds, InPass
<1>2. QED
  BY <1>1, Invariance, PTL

(* The jobs at work are of holders in good standing, at most one of each.  *)
LEMMA WorkersHoldLanes ==
  ASSUME Inv, WorkUnderLane
  PROVE  Cardinality(AtWork) <= Width
<1> DEFINE Holder == [w \in AtWork |-> w[1]]
<1>1. \A w \in AtWork : w[1] \in InGoodStanding
  BY DEF AtWork, WorkUnderLane, InGoodStanding
<1>2. \A w, x \in AtWork : w[1] = x[1] => w = x
  <2> SUFFICES ASSUME NEW w \in AtWork, NEW x \in AtWork, w[1] = x[1] PROVE w = x
    OBVIOUS
  <2>1. w \in Procs \X Jobs /\ x \in Procs \X Jobs
    BY DEF AtWork
  <2>2. w[2] \in worker[w[1]] /\ x[2] \in worker[w[1]] /\ Live(w[1]) /\ w[1] \in Procs
    BY <2>1 DEF AtWork
  <2>3. w[2] = x[2]
    BY <2>2 DEF Inv, Sound
  <2>4. QED
    BY <2>1, <2>3
<1>3. Holder \in Injection(AtWork, InGoodStanding)
  BY <1>1, <1>2 DEF Injection, IsInjective
<1>4. IsFiniteSet(InGoodStanding) /\ holders \subseteq Procs
  BY RunnerAssumption, FS_Subset DEF Inv, TypeOK, InGoodStanding
<1>5. IsFiniteSet(AtWork) /\ Cardinality(AtWork) <= Cardinality(InGoodStanding)
  BY <1>3, <1>4, FS_Injection
<1>6. Cardinality(InGoodStanding) + orphans <= Width /\ orphans \in Nat /\ Width \in Nat
  BY RunnerAssumption DEF Inv, TypeOK, WithinWidth, Taken
<1>7. Cardinality(InGoodStanding) \in Nat /\ Cardinality(AtWork) \in Nat
  BY <1>4, <1>5, FS_CardinalityType
<1>8. QED
  BY <1>5, <1>6, <1>7

(* The jobs of a live process never overlap, and no more jobs run than     *)
(* there are lanes but for those of robbed and interrupted processes.      *)
THEOREM JobsNeverOverlap == Spec => []OneWorker
<1>1. Inv /\ WorkUnderLane => OneWorker
  BY WorkersHoldLanes DEF Inv, Sound, OneWorker
<1>2. QED
  BY <1>1, Invariance, NoWorkWithoutLane, PTL

(* Every value stays in its set.                                           *)
THEOREM TypeCorrect == Spec => []TypeOK
<1>1. Inv => TypeOK
  BY DEF Inv
<1>2. QED
  BY <1>1, Invariance, PTL

-----------------------------------------------------------------------------
(* With one lane, a live process in a pass is alone in it, and its copy of *)
(* the record is the record on disk until a read or a save of it fails, or *)
(* a holder is robbed.                                                     *)
Alone == robbed = {} /\ \A p, q \in holders : p = q
Copied(p) == Live(p) /\ pc[p] \in InPass => record[p] = disk
RecordInv == Alone /\ (torn \/ \A p \in Procs : Copied(p))

(* The steps that leave the records alone, and start no pass.              *)
Quiet(p) ==
  /\ UNCHANGED <<record, torn, disk>>
  /\ pc'[p] \in InPass => pc[p] \in InPass
  /\ \A q \in Procs \ {p} : pc'[q] = pc[q]
  /\ holders' \subseteq holders /\ robbed' \subseteq robbed

(* A quiet step keeps what the copies of the record say.                   *)
LEMMA QuietKeepsRecordInv ==
  ASSUME RecordInv, NEW p \in Procs, Quiet(p) PROVE RecordInv'
BY DEF RecordInv, Alone, Copied, Quiet, Live

(* With one lane, the guard of a grant means that nobody holds it.         *)
LEMMA GrantIsExclusive ==
  ASSUME Inv, Alone, Width = 1, Taken < Width PROVE holders = {}
<1>0. InGoodStanding = holders
  BY DEF Alone, InGoodStanding
<1>1. IsFiniteSet(holders)
  BY RunnerAssumption, FS_Subset DEF Inv, TypeOK
<1>2. Cardinality(holders) \in Nat /\ orphans \in 0 .. 1
  BY <1>1, FS_CardinalityType DEF Inv, TypeOK
<1>3. QED
  BY <1>0, <1>1, <1>2, FS_EmptySet DEF Taken

(* A note of the only holder keeps every copy equal to the record.         *)
LEMMA NoteKeepsCopies ==
  ASSUME Inv, RecordInv, NEW p \in Procs, pc[p] \in InPass,
         NEW j, NEW s, NEW h, Note(p, j, s, h), Goto(p, "job"), UNCHANGED lanes
  PROVE  RecordInv'
<1> SUFFICES ASSUME ~torn' PROVE \A q \in Procs : Copied(q)'
  BY DEF RecordInv, Alone, lanes
<1>0. ~torn /\ \A q \in Procs : Copied(q)
  BY DEF Note, RecordInv, notes
<1>1. CASE UNCHANGED <<record, disk>>
  BY <1>0, <1>1 DEF Copied, Live, Goto, InPass, Inv, TypeOK
<1>2. CASE ~UNCHANGED <<record, disk>>
  <2>1. Live(p) /\ record' = [record EXCEPT ![p] = disk']
    BY <1>2 DEF Note, notes
  <2>2. ASSUME NEW q \in Procs, Copied(q) PROVE Copied(q)'
    <3>1. CASE q = p
      BY <2>1, <3>1 DEF Copied, Inv, TypeOK
    <3>2. CASE q # p
      <4>1. p \in holders
        BY <2>1 DEF Inv, Sound, Holds
      <4>2. q \notin holders
        BY <3>2, <4>1 DEF RecordInv, Alone
      <4>3. ~(Live(q) /\ pc[q] \in InPass)
        BY <4>2 DEF Inv, Sound, Holds
      <4>4. pc'[q] = pc[q]
        BY <3>2 DEF Goto, Inv, TypeOK
      <4>5. QED
        BY <4>3, <4>4 DEF Copied, Live
    <3>3. QED
      BY <3>1, <3>2
  <2>3. QED
    BY <1>0, <2>2
<1>3. QED
  BY <1>1, <1>2

(* Every step but a theft keeps the copies of the record equal to it.      *)
LEMMA RecordInvNext ==
  ASSUME Width = 1, Inv, RecordInv, [Next]_vars, thefts' = thefts PROVE RecordInv'
<1>0. pc \in [Procs -> Locations]
  BY DEF Inv, TypeOK
<1> USE DEF pass, shared, lanes, notes, flags
<1>1. ASSUME NEW p \in Procs, Cycle(p) PROVE RecordInv'
  <2>1. CASE Begin(p)
    <3>0. holders' = {p}
      BY <2>1, GrantIsExclusive DEF Begin, RecordInv
    <3>1. torn' \/ (~torn /\ record' = [record EXCEPT ![p] = disk]) \/ torn
      BY <2>1 DEF Begin, StartPass
    <3>2. ASSUME NEW q \in Procs, q # p PROVE Copied(q)'
      <4>1. ~(Live(q) /\ pc[q] \in InPass)
        BY <2>1, GrantIsExclusive DEF Begin, RecordInv, Inv, Sound, Holds
      <4>2. pc'[q] = pc[q]
        BY <1>0, <2>1, <3>2 DEF Begin, StartPass, Goto
      <4>3. QED
        BY <4>1, <4>2 DEF Copied, Live
    <3>3. torn => torn'
      BY <2>1 DEF Begin, StartPass
    <3>4. torn' \/ Copied(p)'
      BY <2>1, <3>1, <3>3 DEF Begin, Copied, Inv, TypeOK
    <3>5. robbed' = {}
      BY <2>1 DEF Begin, RecordInv, Alone
    <3>6. QED
      BY <3>0, <3>2, <3>4, <3>5 DEF RecordInv, Alone
  <2>2. CASE BeginDry(p)
    <3>1. ~Live(p) /\ UNCHANGED <<disk, holders, robbed>>
      BY <2>2 DEF BeginDry
    <3>2. torn => torn'
      BY <2>2 DEF BeginDry, StartPass
    <3>3. \A q \in Procs \ {p} : pc'[q] = pc[q] /\ record'[q] = record[q]
      BY <1>0, <2>2 DEF BeginDry, StartPass, Goto, Inv, TypeOK
    <3>4. QED
      BY <3>1, <3>2, <3>3 DEF RecordInv, Alone, Copied, Live
  <2>3. CASE Halted(p) \/ Starved(p) \/ Ask(p) \/ NoLane(p)
    <3>1. Quiet(p)
      BY <1>0, <2>3 DEF Halted, Starved, Ask, NoLane, Conclude, Goto, Quiet, InPass
    <3>2. QED
      BY <3>1, QuietKeepsRecordInv
  <2>4. QED
    BY <1>1, <2>1, <2>2, <2>3 DEF Cycle
<1>2. ASSUME NEW p \in Procs, Working(p) PROVE RecordInv'
  <2>1. CASE GraceOver(p)
    <3>1. /\ Note(p, Current(p), "FAIL", Current(p) \in worker[p])
          /\ pc[p] \in InPass /\ Goto(p, "job") /\ UNCHANGED lanes
      BY <2>1 DEF GraceOver, InPass
    <3>2. QED
      BY <3>1, NoteKeepsCopies
  <2>2. ASSUME NEW s \in Statuses, JobDone(p, s) PROVE RecordInv'
    <3>1. /\ Note(p, Current(p), s, FALSE)
          /\ pc[p] \in InPass /\ Goto(p, "job") /\ UNCHANGED lanes
      BY <2>2 DEF JobDone, InPass
    <3>2. QED
      BY <3>1, NoteKeepsCopies
  <2>3. CASE SkipJob(p) \/ SkipRest(p) \/ StartJob(p) \/ Overrun(p)
    <3>1. Quiet(p)
      BY <1>0, <2>3 DEF SkipJob, SkipRest, StartJob, Overrun, Goto, Quiet, InPass
    <3>2. QED
      BY <3>1, QuietKeepsRecordInv
  <2>4. QED
    BY <1>2, <2>1, <2>2, <2>3 DEF Working
<1>3. ASSUME NEW p \in Procs, Ending(p) PROVE RecordInv'
  <2>1. UNCHANGED <<record, torn, disk>> /\ holders' \subseteq holders
    BY <1>3
       DEF Ending, PassOver, EndDry, WriteSummary, FoundAbandoned, FoundNone, Leave,
           DieHolding, Tick, Exit, Vanish
  <2>2. robbed' \subseteq robbed
    BY <1>3
       DEF RecordInv, Alone, Ending, PassOver, EndDry, WriteSummary, FoundAbandoned, FoundNone,
           Leave, DieHolding, Tick, Exit, Vanish
  <2>3. /\ pc'[p] \in InPass => pc[p] \in InPass
        /\ \A q \in Procs \ {p} : pc'[q] = pc[q]
    BY <1>0, <1>3
       DEF Ending, PassOver, EndDry, WriteSummary, FoundAbandoned, FoundNone, Leave,
           DieHolding, Tick, Exit, Vanish, Conclude, Goto, InPass
  <2>4. QED
    BY <2>1, <2>2, <2>3, QuietKeepsRecordInv DEF Quiet
<1>4. ASSUME NEW p \in Procs, Environment(p) PROVE RecordInv'
  <2>0. ~Rob(p)
    <3>1. thefts \in Nat
      BY RunnerAssumption DEF Inv, TypeOK
    <3>2. QED
      BY <3>1 DEF Rob
  <2>1. Quiet(p)
    BY <1>0, <1>4, <2>0
       DEF Environment, Start, Request, Interrupt, Kill, Rob, WorkerEnds, Vanish, Goto,
           Quiet, InPass
  <2>2. QED
    BY <2>1, QuietKeepsRecordInv
<1>5. CASE Reclaim \/ SetHalt \/ UNCHANGED vars
  BY <1>5 DEF Reclaim, SetHalt, vars, RecordInv, Alone, Copied, Live
<1>6. QED
  BY <1>1, <1>2, <1>3, <1>4, <1>5 DEF Next, Advance

(* A step robs a holder, or the count of thefts stays.                     *)
LEMMA TheftsAreCounted ==
  ASSUME Inv, [Next]_vars PROVE thefts \in Nat /\ (thefts' = thefts \/ thefts' = thefts + 1)
<1>1. thefts \in Nat
  BY RunnerAssumption DEF Inv, TypeOK
<1> USE DEF pass, shared, lanes, notes, flags
<1>2. ASSUME NEW p \in Procs, Cycle(p) \/ Working(p) PROVE thefts' = thefts
  BY <1>2
     DEF Cycle, BeginDry, Halted, Starved, Ask, NoLane, Begin, Working,
         SkipJob, SkipRest, StartJob, Overrun, GraceOver, JobDone
<1>3. ASSUME NEW p \in Procs, Ending(p) PROVE thefts' = thefts
  BY <1>3
     DEF Ending, PassOver, EndDry, WriteSummary, FoundAbandoned, FoundNone, Leave,
         DieHolding, Tick, Exit, Vanish
<1>4. ASSUME NEW p \in Procs, Environment(p) PROVE thefts' = thefts \/ thefts' = thefts + 1
  <2>1. CASE Rob(p)
    BY <2>1 DEF Rob
  <2>2. CASE ~Rob(p)
    BY <1>4, <2>2 DEF Environment, Start, Request, Interrupt, Kill, WorkerEnds, Vanish
  <2>3. QED
    BY <2>1, <2>2
<1>5. Reclaim \/ SetHalt \/ UNCHANGED vars => thefts' = thefts
  BY DEF Reclaim, SetHalt, vars
<1>6. QED
  BY <1>1, <1>2, <1>3, <1>4, <1>5 DEF Next, Advance

(* While there is one lane and nobody was robbed, who is in a pass has the *)
(* record of the disk.                                                     *)
LEMMA RecordInvariance ==
  ASSUME Width = 1 PROVE Spec => [](thefts = 0 => RecordInv)
<1>1. Init => RecordInv
  BY DEF Init, RecordInv, Alone, Copied, InPass
<1>2. Inv /\ (thefts = 0 => RecordInv) /\ [Next]_vars => (thefts = 0 => RecordInv)'
  <2> SUFFICES ASSUME Inv, thefts = 0 => RecordInv, [Next]_vars, thefts' = 0 PROVE RecordInv'
    OBVIOUS
  <2>1. thefts = 0 /\ thefts' = thefts
    BY TheftsAreCounted
  <2>2. QED
    BY <2>1, RecordInvNext
<1>3. QED
  BY <1>1, <1>2, Invariance, PTL DEF Spec

(* With one lane, a full pass obeys the quarantine of the record on disk.  *)
THEOREM QuarantineIsObeyed ==
  ASSUME Width = 1 PROVE Spec => QuarantineHolds
<1>1. Inv /\ (thefts = 0 => RecordInv) =>
        \A p \in Procs : Intact /\ StartJob(p) /\ Live(p) /\ Asked[p] = {}
                           => ~Quarantined(disk[Current(p)])
  BY DEF Intact, RecordInv, Copied, InPass, StartJob, Skipped
<1>2. QED
  BY <1>1, Invariance, RecordInvariance, PTL DEF QuarantineHolds, Spec

(* With one lane, only a PASS of the job lifts its quarantine on disk.     *)
THEOREM OnlyAPassLifts ==
  ASSUME Width = 1 PROVE Spec => QuarantineLifts
<1> DEFINE Lifted(j) == Intact /\ Quarantined(disk[j]) /\ ~Quarantined(disk'[j])
           Passed(j) == \E p \in Procs : JobDone(p, "PASS") /\ Current(p) = j
<1>1. Inv /\ (thefts = 0 => RecordInv) /\ [Next]_vars => \A j \in Jobs : Lifted(j) => Passed(j)
  <2> SUFFICES ASSUME Inv, RecordInv, [Next]_vars, ~torn, NEW j \in Jobs, Lifted(j)
               PROVE  Passed(j)
    BY DEF Intact
  <2>0. disk' # disk
    OBVIOUS
  <2>1. ASSUME NEW p \in Procs, NEW s, NEW h, Live(p), pc[p] \in InPass,
               Note(p, Current(p), s, h)
        PROVE  Current(p) = j /\ ~h /\ s = "PASS"
    <3>1. record[p] = disk /\ disk \in [Jobs -> Entries]
      BY <2>1 DEF RecordInv, Copied, Inv, TypeOK
    <3>2. disk' = [disk EXCEPT ![Current(p)] = Fold(disk[Current(p)], s, h)]
      BY <2>0, <2>1, <3>1 DEF Note
    <3>3. Current(p) = j
      BY <3>1, <3>2
    <3>4. Quarantined(disk[j]) /\ ~Quarantined(Fold(disk[j], s, h))
      BY <3>1, <3>2, <3>3
    <3>5. QED
      BY <3>3, <3>4 DEF Fold
  <2>2. ASSUME NEW p \in Procs, GraceOver(p) PROVE FALSE
    <3>1. Note(p, Current(p), "FAIL", Current(p) \in worker[p]) /\ pc[p] \in InPass
      BY <2>2 DEF GraceOver, InPass
    <3>2. Live(p)
      BY <2>0, <3>1 DEF Note
    <3>3. QED
      BY <2>1, <3>1, <3>2
  <2>3. ASSUME NEW p \in Procs, NEW s \in Statuses, JobDone(p, s) PROVE Passed(j)
    <3>1. Note(p, Current(p), s, FALSE) /\ pc[p] \in InPass
      BY <2>3 DEF JobDone, InPass
    <3>2. Live(p)
      BY <2>0, <3>1 DEF Note
    <3>3. QED
      BY <2>1, <2>3, <3>1, <3>2
  <2>4. ASSUME NEW p \in Procs, Cycle(p) \/ Ending(p) \/ Environment(p) PROVE FALSE
    BY <2>0, <2>4
       DEF Cycle, BeginDry, Halted, Starved, Ask, NoLane, Begin, Ending, PassOver,
           EndDry, WriteSummary, FoundAbandoned, FoundNone, Leave, DieHolding, Tick,
           Exit, Environment, Start, Request, Interrupt, Kill, Rob, WorkerEnds, Vanish, shared, notes
  <2>5. ASSUME NEW p \in Procs, SkipJob(p) \/ SkipRest(p) \/ StartJob(p) \/ Overrun(p)
        PROVE  FALSE
    BY <2>0, <2>5 DEF SkipJob, SkipRest, StartJob, Overrun, shared, notes
  <2>6. ~(Reclaim \/ SetHalt \/ UNCHANGED vars)
    BY <2>0 DEF Reclaim, SetHalt, vars
  <2>7. QED
    BY <2>2, <2>3, <2>4, <2>5, <2>6 DEF Next, Advance, Working
<1>2. QED
  BY <1>1, Invariance, RecordInvariance, PTL DEF QuarantineLifts, Spec

-----------------------------------------------------------------------------
(* A process counts no pass before HALT, and has begun none since while it *)
(* still waits for its lane.                                               *)
Counted(p) ==
  /\ late[p] \in {0, 1}
  /\ ~halt \/ pc[p] = "lane" => late[p] = 0
CountInv == \A p \in Procs : Counted(p)

(* Every step keeps the count of late passes.                              *)
LEMMA CountedNext == Inv /\ CountInv /\ [Next]_vars => CountInv'
<1> SUFFICES ASSUME Inv, \A p \in Procs : Counted(p), [Next]_vars
             PROVE  \A p \in Procs : Counted(p)'
  BY DEF CountInv
<1>0. pc \in [Procs -> Locations] /\ late \in [Procs -> 0 .. LateBound]
  BY DEF Inv, TypeOK
<1> USE DEF pass, shared, lanes, notes, flags
<1>1. ASSUME NEW p \in Procs, UNCHANGED <<halt, late>>,
             \A q \in Procs : pc'[q] = "lane" => pc[q] = "lane" \/ ~halt
      PROVE  \A q \in Procs : Counted(q)'
  BY <1>1 DEF Counted
<1>2. ASSUME NEW p \in Procs, Cycle(p) PROVE \A q \in Procs : Counted(q)'
  <2>1. CASE Begin(p)
    BY <1>0, <2>1 DEF Begin, StartPass, Goto, Counted
  <2>2. CASE BeginDry(p) \/ Halted(p) \/ Starved(p) \/ Ask(p) \/ NoLane(p)
    BY <1>0, <1>1, <2>2
       DEF BeginDry, StartPass, Halted, Starved, Ask, NoLane, Conclude, Goto
  <2>3. QED
    BY <1>2, <2>1, <2>2 DEF Cycle
<1>3. ASSUME NEW p \in Procs, Working(p) PROVE \A q \in Procs : Counted(q)'
  BY <1>0, <1>1, <1>3
     DEF Working, SkipJob, SkipRest, StartJob, Overrun, GraceOver, JobDone, Goto
<1>4. ASSUME NEW p \in Procs, Ending(p) PROVE \A q \in Procs : Counted(q)'
  BY <1>0, <1>1, <1>4
     DEF Ending, PassOver, EndDry, WriteSummary, FoundAbandoned, FoundNone, Leave,
         DieHolding, Tick, Exit, Vanish, Conclude, Goto
<1>5. ASSUME NEW p \in Procs, Environment(p) PROVE \A q \in Procs : Counted(q)'
  BY <1>0, <1>1, <1>5
     DEF Environment, Start, Request, Interrupt, Kill, Rob, WorkerEnds, Vanish, Goto
<1>6. CASE Reclaim \/ SetHalt \/ UNCHANGED vars
  BY <1>0, <1>6 DEF Reclaim, SetHalt, vars, Counted
<1>7. QED
  BY <1>2, <1>3, <1>4, <1>5, <1>6 DEF Next, Advance

(* Once HALT is there a process begins at most one pass, across restarts.  *)
THEOREM HaltStopsThePasses == Spec => []HaltStops
<1>1. Init => CountInv
  BY DEF Init, CountInv, Counted
<1>2. CountInv => HaltStops
  BY DEF CountInv, Counted, HaltStops
<1>3. QED
  BY <1>1, <1>2, CountedNext, Invariance, PTL DEF Spec

-----------------------------------------------------------------------------
(* What a step does to the health file, and to who runs: only the end of a *)
(* process takes it off, and that of a live daemon is reported.            *)
LEMMA EndsAreReported ==
  ASSUME Inv, [Next]_vars, ~FileFaults
  PROVE  /\ kills' # kills => kills' > 0
         /\ alive' /\ ~alive => \E p \in Procs : Live(p) /\ pc'[p] # "off"
         /\ \A p \in Daemons : Live(p) /\ pc[p] # "off" /\ pc'[p] = "off"
               => ~alive' \/ kills' > 0
<1> USE DEF pass, shared, lanes, notes, flags
<1>0. pc \in [Procs -> Locations] /\ kills \in 0 .. MaxKills /\ MaxKills \in Nat /\ Daemons \subseteq Procs
  BY RunnerAssumption DEF Inv, TypeOK
<1>1. ASSUME NEW p \in Procs, UNCHANGED <<alive, kills>>, \A q \in Procs : pc[q] # "off" => pc'[q] # "off"
      PROVE  /\ kills' # kills => kills' > 0
             /\ alive' /\ ~alive => \E q \in Procs : Live(q) /\ pc'[q] # "off"
             /\ \A q \in Daemons : Live(q) /\ pc[q] # "off" /\ pc'[q] = "off"
                   => ~alive' \/ kills' > 0
  BY <1>0, <1>1
<1>2. ASSUME NEW p \in Procs, Cycle(p) \/ Working(p)
      PROVE  UNCHANGED <<alive, kills>> /\ \A q \in Procs : pc[q] # "off" => pc'[q] # "off"
  BY <1>0, <1>2
     DEF Cycle, BeginDry, StartPass, Halted, Starved, Ask, NoLane, Begin, Conclude, Goto, Working,
         SkipJob, SkipRest, StartJob, Overrun, GraceOver, JobDone
<1>3. ASSUME NEW p \in Procs, Ending(p), ~WriteSummary(p), ~DieHolding(p), ~Exit(p)
      PROVE  UNCHANGED <<alive, kills>> /\ \A q \in Procs : pc[q] # "off" => pc'[q] # "off"
  BY <1>0, <1>3
     DEF Ending, PassOver, EndDry, FoundAbandoned, FoundNone, Leave, Tick, Conclude, Goto
<1>4. ASSUME NEW p \in Procs, Environment(p), ~Kill(p)
      PROVE  UNCHANGED <<alive, kills>> /\ \A q \in Procs : pc[q] # "off" => pc'[q] # "off"
  BY <1>0, <1>4 DEF Environment, Start, Request, Interrupt, Rob, WorkerEnds, Goto
<1>5. Reclaim \/ SetHalt \/ UNCHANGED vars => UNCHANGED <<pc, alive, kills>>
  BY DEF Reclaim, SetHalt, vars
<1>6. ASSUME NEW p \in Procs, WriteSummary(p)
      PROVE  UNCHANGED kills /\ Live(p) /\ \A q \in Procs : pc[q] # "off" => pc'[q] # "off"
  BY <1>0, <1>6 DEF WriteSummary, Goto
<1>7. ASSUME NEW p \in Procs, DieHolding(p) \/ Exit(p)
      PROVE  /\ UNCHANGED kills /\ (alive' => alive)
             /\ p \in Daemons /\ Live(p) => ~alive'
             /\ \A q \in Procs \ {p} : pc'[q] = pc[q]
  BY <1>0, <1>7 DEF DieHolding, Exit, Vanish, Report, Goto
<1>8. ASSUME NEW p \in Procs, Kill(p)
      PROVE  kills' > 0 /\ UNCHANGED alive
  BY <1>0, <1>8 DEF Kill
<1>9. ASSUME NEW p \in Procs, Advance(p) \/ Environment(p)
      PROVE  /\ kills' # kills => kills' > 0
             /\ alive' /\ ~alive => \E q \in Procs : Live(q) /\ pc'[q] # "off"
             /\ \A q \in Daemons : Live(q) /\ pc[q] # "off" /\ pc'[q] = "off"
                   => ~alive' \/ kills' > 0
  <2>1. CASE WriteSummary(p)
    <3>1. pc'[p] # "off"
      BY <1>0, <2>1 DEF WriteSummary, Goto
    <3>2. QED
      BY <1>0, <1>6, <2>1, <3>1
  <2>2. CASE DieHolding(p) \/ Exit(p)
    <3>1. UNCHANGED kills /\ (alive' => alive)
      BY <1>7, <2>2
    <3>2. ASSUME NEW q \in Daemons, Live(q), pc[q] # "off", pc'[q] = "off" PROVE ~alive'
      BY <1>0, <1>7, <2>2, <3>2
    <3>3. QED
      BY <3>1, <3>2, Zenon
  <2>3. CASE Kill(p)
    BY <1>0, <1>8, <2>3
  <2>4. CASE ~WriteSummary(p) /\ ~DieHolding(p) /\ ~Exit(p) /\ ~Kill(p)
    BY <1>1, <1>2, <1>3, <1>4, <1>9, <2>4 DEF Advance
  <2>5. QED
    BY <2>1, <2>2, <2>3, <2>4
<1>10. CASE Reclaim \/ SetHalt \/ UNCHANGED vars
  BY <1>0, <1>5, <1>10
<1>11. QED
  BY <1>9, <1>10 DEF Next

(* When the health file says "alive", a process runs that is not dry, but  *)
(* for the kills, failing writes and --once processes named there.         *)
THEOREM AliveIsTakenBack == Spec => []AliveMeansRunning
<1>1. Init => AliveMeansRunning
  BY DEF Init, AliveMeansRunning
<1>2. ASSUME Inv, AliveMeansRunning, [Next]_vars PROVE AliveMeansRunning'
  <2> SUFFICES ASSUME alive', kills' = 0, ~FileFaults
               PROVE  \E p \in Procs : Live(p) /\ (pc'[p] # "off" \/ p \notin Daemons)
    BY DEF AliveMeansRunning, Live
  <2>1. kills = 0
    BY <1>2, EndsAreReported
  <2>2. CASE ~alive
    BY <1>2, <2>2, EndsAreReported
  <2>3. CASE alive
    <3>1. PICK p \in Procs : Live(p) /\ (pc[p] # "off" \/ p \notin Daemons)
      BY <1>2, <2>1, <2>3 DEF AliveMeansRunning
    <3>2. p \in Daemons => pc'[p] # "off"
      BY <1>2, <3>1, EndsAreReported
    <3>3. QED
      BY <3>1, <3>2
  <2>4. QED
    BY <2>2, <2>3
<1>3. QED
  BY <1>1, <1>2, Invariance, PTL DEF Spec

(* A dry run takes no part in the end of a governed pass.                  *)
DryInv == \A p \in Procs : ~Live(p) => pc[p] \notin {"check", "dying"}

(* Every step keeps a dry run out of the end of a governed pass.           *)
LEMMA DryInvNext == Inv /\ DryInv /\ [Next]_vars => DryInv'
<1> SUFFICES ASSUME Inv, DryInv, [Next]_vars PROVE DryInv'
  OBVIOUS
<1> USE DEF pass, shared, lanes, notes, flags, DryInv, Live
<1>0. pc \in [Procs -> Locations]
  BY DEF Inv, TypeOK
<1>1. ASSUME NEW p \in Procs, Cycle(p) \/ Working(p) PROVE DryInv'
  BY <1>0, <1>1
     DEF Cycle, BeginDry, StartPass, Halted, Starved, Ask, NoLane, Begin, Conclude, Goto, Working,
         SkipJob, SkipRest, StartJob, Overrun, GraceOver, JobDone
<1>2. ASSUME NEW p \in Procs, Ending(p) PROVE DryInv'
  BY <1>0, <1>2
     DEF Ending, PassOver, EndDry, WriteSummary, FoundAbandoned, FoundNone, Leave, DieHolding, Tick,
         Exit, Vanish, Conclude, Goto
<1>3. ASSUME NEW p \in Procs, Environment(p) PROVE DryInv'
  BY <1>0, <1>3 DEF Environment, Start, Request, Interrupt, Kill, Rob, Vanish, WorkerEnds, Goto
<1>4. CASE Reclaim \/ SetHalt \/ UNCHANGED vars
  BY <1>4 DEF Reclaim, SetHalt, vars
<1>5. QED
  BY <1>1, <1>2, <1>3, <1>4 DEF Next, Advance

(* A dry run leaves the record, the lanes and the health file alone.       *)
THEOREM DryRunsWriteNothing == Spec => DryWritesNothing
<1>1. ASSUME Inv, DryInv, NEW p \in Dry, Advance(p) PROVE UNCHANGED <<disk, lanes, alive>>
  <2> USE DEF pass, shared, lanes, notes, flags
  <2>0. p \in Procs
    BY RunnerAssumption
  <2>1. ~Live(p) /\ p \notin holders \cup robbed /\ pc[p] \notin {"lane", "check", "dying"}
    BY <1>1, <2>0 DEF Live, Inv, TypeOK, Sound, DryInv
  <2>2. CASE Cycle(p)
    BY <2>1, <2>2 DEF Cycle, BeginDry, Halted, Starved, Ask, NoLane, Begin
  <2>3. CASE Working(p)
    BY <2>1, <2>3 DEF Working, SkipJob, SkipRest, StartJob, Overrun, GraceOver, JobDone, Note
  <2>4. CASE Ending(p)
    <3>1. holders \ {p} = holders /\ robbed \ {p} = robbed
      BY <2>1
    <3>2. UNCHANGED lanes
      BY <2>1, <2>4, <3>1
         DEF Ending, PassOver, EndDry, WriteSummary, FoundAbandoned, FoundNone, Leave, DieHolding,
             Tick, Exit, Vanish, InGoodStanding
    <3>3. UNCHANGED <<disk, alive>>
      BY <2>1, <2>4
         DEF Ending, PassOver, EndDry, WriteSummary, FoundAbandoned, FoundNone, Leave, DieHolding,
             Tick, Exit, Vanish
    <3>4. QED
      BY <3>2, <3>3
  <2>5. QED
    BY <1>1, <2>2, <2>3, <2>4 DEF Advance
<1>2. Inv /\ DryInv => [\A p \in Dry : Advance(p) => UNCHANGED <<disk, lanes, alive>>]_vars
  BY <1>1
<1>3. Init => DryInv
  BY DEF Init, DryInv
<1>4. QED
  BY <1>2, <1>3, DryInvNext, Invariance, PTL DEF DryWritesNothing, Spec

-----------------------------------------------------------------------------
(* What a step does to the lanes: it takes a free one, gives one back,     *)
(* robs a holder, or changes none.                                         *)
LEMMA LanesMove ==
  ASSUME Inv, [Next]_vars
  PROVE  \/ UNCHANGED <<holders, robbed>>
         \/ \E p \in Procs : Bucket!Acquire(p)
         \/ \E p \in Procs : \E victims \in SUBSET holders :
              Bucket!Leave(p, victims) \/ Bucket!Rob(p, victims)
<1> USE DEF pass, shared, lanes, notes, flags
<1>1. /\ holders \subseteq Procs /\ robbed \subseteq holders
      /\ orphans \in Nat /\ Cardinality(InGoodStanding) \in Nat /\ Width \in Nat
      /\ \A p \in Procs : pc[p] = "lane" => p \notin holders
  <2>1. holders \subseteq Procs /\ robbed \subseteq holders /\ orphans \in 0 .. Width
    BY DEF Inv, TypeOK
  <2>2. Cardinality(InGoodStanding) \in Nat /\ Width \in Nat
    BY <2>1, RunnerAssumption, Standing
  <2>3. \A p \in Procs : pc[p] = "lane" => p \notin holders
    BY DEF Inv, Sound, Holds, InPass
  <2>4. QED
    BY <2>1, <2>2, <2>3
<1>2. ASSUME NEW p \in Procs, Begin(p) PROVE Bucket!Acquire(p)
  <2>1. Cardinality(holders \ robbed) < Width
    BY <1>1, <1>2 DEF Begin, Taken, InGoodStanding
  <2>2. QED
    BY <1>1, <1>2, <2>1
    DEF Begin, Bucket!Acquire, Bucket!InGoodStanding, Bucket!Cardinality, Cardinality
<1>3. ASSUME NEW p \in Procs, NEW victims \in SUBSET holders,
             victims \subseteq holders \ {p}, p \notin robbed => victims = {},
             holders' = holders \ {p}, robbed' = (robbed \cup victims) \ {p}
      PROVE  UNCHANGED <<holders, robbed>> \/ Bucket!Leave(p, victims)
  BY <1>1, <1>3 DEF Bucket!Leave
<1>4. ASSUME NEW p \in Procs, Leave(p)
      PROVE  UNCHANGED <<holders, robbed>>
               \/ \E victims \in SUBSET holders : Bucket!Leave(p, victims)
  <2>1. CASE robbed' = robbed \ {p}
    <3>1. holders' = holders \ {p} /\ robbed' = (robbed \cup {}) \ {p}
      BY <1>4, <2>1 DEF Leave
    <3>2. UNCHANGED <<holders, robbed>> \/ Bucket!Leave(p, {})
      BY <1>3, <3>1
    <3>3. {} \in SUBSET holders
      OBVIOUS
    <3>4. QED
      BY <3>2, <3>3
  <2>2. CASE p \in robbed /\ \E victim \in InGoodStanding : robbed' = (robbed \cup {victim}) \ {p}
    <3>1. PICK victim \in InGoodStanding : robbed' = (robbed \cup {victim}) \ {p}
      BY <2>2
    <3>2. holders' = holders \ {p} /\ {victim} \in SUBSET holders /\ {victim} \subseteq holders \ {p}
      BY <1>4, <2>2, <3>1 DEF Leave, InGoodStanding
    <3>3. QED
      BY <1>3, <2>2, <3>1, <3>2
  <2>3. QED
    BY <1>4, <2>1, <2>2 DEF Leave
<1>5. ASSUME NEW p \in Procs, DieHolding(p) \/ Exit(p) \/ Kill(p)
      PROVE  UNCHANGED <<holders, robbed>>
               \/ \E victims \in SUBSET holders : Bucket!Leave(p, victims)
  <2>1. holders' = holders \ {p} /\ robbed' = (robbed \cup {}) \ {p}
    BY <1>5 DEF DieHolding, Exit, Kill, Vanish
  <2>2. UNCHANGED <<holders, robbed>> \/ Bucket!Leave(p, {})
    BY <1>3, <2>1
  <2>3. {} \in SUBSET holders
    OBVIOUS
  <2>4. QED
    BY <2>2, <2>3
<1>6. ASSUME NEW p \in Procs, Rob(p)
      PROVE  \E victims \in SUBSET holders : Bucket!Rob(p, victims)
  <2>1. PICK victim \in InGoodStanding : robbed' = robbed \cup {victim}
    BY <1>6 DEF Rob
  <2>2. {victim} \in SUBSET holders
    BY DEF InGoodStanding
  <2>3. Bucket!Rob(p, {victim})
    BY <1>1, <1>6, <2>1, <2>2 DEF Rob, Bucket!Rob
  <2>4. QED
    BY <2>2, <2>3
<1>7. ASSUME NEW p \in Procs, Advance(p) \/ Environment(p),
             ~Begin(p), ~Leave(p), ~DieHolding(p), ~Exit(p), ~Kill(p), ~Rob(p)
      PROVE  UNCHANGED <<holders, robbed>>
  BY <1>7
     DEF Advance, Environment, Cycle, Working, Ending, BeginDry, Halted, Starved, Ask, NoLane, SkipJob,
         SkipRest, StartJob, Overrun, GraceOver, JobDone, PassOver, EndDry, WriteSummary,
         FoundAbandoned, FoundNone, Tick, Start, Request, Interrupt, WorkerEnds
<1>8. Reclaim \/ SetHalt \/ UNCHANGED vars => UNCHANGED <<holders, robbed>>
  BY DEF Reclaim, SetHalt, vars
<1>9. QED
  BY <1>2, <1>4, <1>5, <1>6, <1>7, <1>8 DEF Next

(* The lanes of the runner are the bucket that slots.hold() promises,      *)
(* thefts included.                                                        *)
THEOREM RunnerUsesABucket == Spec => UsesABucket
<1>1. Init => Bucket!BucketInit
  BY DEF Init, Bucket!BucketInit
<1>2. Inv /\ [Next]_vars => [Bucket!BucketNext]_(Bucket!bucket)
  <2> SUFFICES ASSUME Inv, [Next]_vars PROVE [Bucket!BucketNext]_(Bucket!bucket)
    OBVIOUS
  <2>1. CASE UNCHANGED <<holders, robbed>>
    BY <2>1 DEF Bucket!bucket
  <2>2. QED
    BY <2>1, LanesMove DEF Bucket!BucketNext
<1>3. QED
  BY <1>1, <1>2, Invariance, PTL DEF Spec, UsesABucket, Bucket!BucketSpec
=============================================================================
