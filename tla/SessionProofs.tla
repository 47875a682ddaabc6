----------------------------- MODULE SessionProofs -----------------------------
(***************************************************************************)
(* Theorems of what an agent's session meets, for every number of agents,  *)
(* calls, readers, runs, trees, files and notes and however often          *)
(* something fails.                                                        *)
(*                                                                         *)
(* Of Claims: a file has one live owner, and a claim lasts as long as its  *)
(* agent and no longer.  Of Inbox: nothing is taken as read that was not   *)
(* told, and a withdrawal is carried until it was reported.  Of SuiteGate: *)
(* a suite keeps the slot it took, and the queue is served in its order.   *)
(***************************************************************************)
EXTENDS Claims, Inbox, SuiteGate, FiniteSetTheorems, SequenceTheorems, WellFoundedInduction, TLAPS

----------------------------------------------------------------------------
(* The file claims.  The types, in parts.                                  *)
RegOK == reg \in [Trees -> [Agents -> Doc]]
MutexFilesOK == mutex \in [Trees -> MutexFiles]
CallStatesOK == call \in [Calls -> CallStates]
AgentsOK ==
  /\ index \in [Agents -> SUBSET Trees] /\ entitled \in [Agents -> SUBSET Paths]
  /\ up \in [Agents -> BOOLEAN] /\ working \in [Agents -> BOOLEAN]
  /\ left \in [Agents -> SUBSET Trees] /\ stray \in [Agents -> SUBSET Trees]
CountsOK ==
  /\ dirty \in SUBSET Paths
  /\ hit \in SUBSET {"revived", "crossed", "forced"}
  /\ made \in 0 .. MaxCalls /\ faults \in 0 .. MaxFaults
ClaimsTyped == RegOK /\ MutexFilesOK /\ CallStatesOK /\ AgentsOK /\ CountsOK

(* Where a call may be, and the fields of its record, of an owner file and *)
(* of a mutex.                                                             *)
LEMMA CallPlaces ==
  {"idle", "lock", "reap", "unlink", "check", "keep", "write", "index", "unlock", "beat",
   "refresh", "screen", "act"} \subseteq Locations
BY DEF Locations

(* The fields of the record of a call.                                     *)
LEMMA CallDomain ==
  \A x \in CallStates :
    DOMAIN x = {"at", "kind", "files", "tree", "seen", "kept", "judged", "holds"}
BY DEF CallStates

(* What the record of a call says.                                         *)
LEMMA CallFields ==
  \A x \in CallStates :
    /\ x.at \in Locations /\ x.kind \in Kinds /\ x.files \in SUBSET Paths /\ x.tree \in Trees
    /\ x.seen \in Doc /\ x.kept \in SUBSET Paths /\ x.judged \in SUBSET Agents
    /\ x.holds \in BOOLEAN
BY DEF CallStates

(* The fields of an owner file.                                            *)
LEMMA DocDomain == \A d \in Doc : DOMAIN d = {"there", "paths", "fresh", "named"}
BY DEF Doc

(* What an owner file says.                                                *)
LEMMA DocFields ==
  /\ \A d \in Doc :
         /\ d.there \in BOOLEAN /\ d.paths \in SUBSET Paths
         /\ d.fresh \in BOOLEAN /\ d.named \in BOOLEAN
         /\ \A b \in BOOLEAN : [d EXCEPT !.fresh = b] \in Doc
  /\ NoDoc \in Doc
BY DEF Doc, NoDoc

(* What the steps make of a mutex is one.                                  *)
LEMMA MutexFilesAre ==
  /\ NoMutex \in MutexFiles
  /\ \A x \in MutexFiles :
         /\ \A c \in Calls : [x EXCEPT !.by = c] \in MutexFiles
         /\ [x EXCEPT !.stale = TRUE] \in MutexFiles
BY DEF MutexFiles, NoMutex

(* What the steps make of the record of a call is one.                     *)
LEMMA CallsBecome ==
  ASSUME NEW x \in CallStates, NEW p \in Locations
  PROVE  /\ Idle \in CallStates
         /\ [x EXCEPT !.at = p] \in CallStates
         /\ \A b \in BOOLEAN : [x EXCEPT !.at = p, !.holds = b] \in CallStates
         /\ \A d \in Doc : [x EXCEPT !.at = p, !.seen = d] \in CallStates
         /\ \A d \in Doc, k \in SUBSET Paths :
                [x EXCEPT !.at = p, !.seen = d, !.kept = k] \in CallStates
         /\ \A j \in SUBSET Agents : [x EXCEPT !.at = p, !.judged = j] \in CallStates
         /\ \A k \in Kinds, f \in SUBSET Paths, t \in Trees :
                [Idle EXCEPT !.kind = k, !.files = f, !.tree = t, !.at = p] \in CallStates
<1>1. NoDoc \in Doc /\ Project \in Trees
  BY DocFields, ClaimsAssumption
<1>2. QED
  BY <1>1, CallPlaces DEF CallStates, Idle, Kinds

(* The record of c is replaced, and no other.                              *)
OwnCall(c) == \E x \in CallStates : call' = [call EXCEPT ![c] = x]

(* A step of one call replaces its record alone.                           *)
LEMMA OwnCallStep ==
  ASSUME ClaimsTyped, NEW c \in Calls, CallStep(c)
  PROVE  OwnCall(c) \/ UNCHANGED call
<1> USE CallPlaces DEF ClaimsTyped
<1>a. call[c] \in CallStates /\ Idle \in CallStates
  BY CallsBecome DEF CallStatesOK
<1>b. \A p \in Locations : Go(c, p) => OwnCall(c)
  BY <1>a, CallsBecome DEF Go, OwnCall, CallStatesOK
<1>c. Ends(c) => OwnCall(c)
  BY <1>a DEF Ends, OwnCall
<1>d. \A p \in Locations, d \in Doc : GoReading(c, p, d) => OwnCall(c)
  BY <1>a, CallsBecome DEF GoReading, OwnCall, CallStatesOK
<1>e. Mine(c) \in Doc /\ reg[Project][Me(c)] \in Doc
  BY <1>a, CallFields, ClaimsAssumption DEF Mine, Me, Tree, RegOK
<1>1. CASE Begin(c)
  <2>1. PICK k \in Kinds, t \in Trees : \E f \in Targets(k, t) :
          call' = [call EXCEPT ![c] =
            [Idle EXCEPT !.kind = k, !.files = f, !.tree = t,
                         !.at = IF k = "edit" THEN "lock" ELSE "beat"]]
    BY <1>1 DEF Begin
  <2>2. PICK f \in Targets(k, t) :
          call' = [call EXCEPT ![c] =
            [Idle EXCEPT !.kind = k, !.files = f, !.tree = t,
                         !.at = IF k = "edit" THEN "lock" ELSE "beat"]]
    BY <2>1
  <2>3. f \in SUBSET Paths
    BY <2>2 DEF Targets, FilesOf, Kinds
  <2>4. QED
    BY <1>a, <2>2, <2>3, CallsBecome DEF OwnCall
<1>2. CASE Beat(c)
  BY <1>2, <1>d, <1>e DEF Beat
<1>3. CASE Screen(c) \/ Act(c) \/ Refresh(c) \/ GiveUp(c) \/ Unlink(c) \/ Write(c) \/ Index(c)
  BY <1>3, <1>b, <1>c DEF Screen, Act, Refresh, GiveUp, Unlink, Write, Index, Inside
<1>4. CASE Lock(c)
  <2>1. Inside(c) \in Locations
    BY DEF Inside
  <2>2. QED
    BY <1>4, <1>a, <2>1, CallsBecome DEF Lock, OwnCall, CallStatesOK
<1>5. CASE BreakMutex(c)
  BY <1>5 DEF BreakMutex
<1>6. CASE Reap(c)
  <2> DEFINE j == {a \in Agents : reg[Tree(c)][a].there /\ ~Live(a, reg[Tree(c)][a])}
  <2>1. [call[c] EXCEPT !.at = "unlink", !.judged = j] \in CallStates
    BY <1>a, CallsBecome
  <2>2. QED
    BY <1>6, <2>1 DEF Reap, OwnCall, CallStatesOK
<1>7. CASE Check(c)
  <2> DEFINE free == Holders(Tree(c), call[c].files, Me(c)) = {}
             x == [call[c] EXCEPT !.at = IF free THEN "write" ELSE "unlock", !.seen = Mine(c),
                                  !.kept = IF free THEN call[c].files ELSE {}]
  <2>1. x \in CallStates
    BY <1>a, <1>e, CallFields, CallsBecome
  <2>2. call' = [call EXCEPT ![c] = x]
    BY <1>7 DEF Check
  <2>3. QED
    BY <2>1, <2>2 DEF OwnCall
<1>8. CASE Keep(c)
  <2> DEFINE wanted == IF call[c].kind = "sweep" THEN call[c].files \cap dirty ELSE call[c].files
             keep == wanted \ Holders(Tree(c), wanted, Me(c))
             x == [call[c] EXCEPT !.at = IF keep = {} THEN "unlock" ELSE "write",
                                  !.seen = Mine(c), !.kept = keep]
  <2>1. keep \in SUBSET Paths
    BY <1>a, CallFields
  <2>2. x \in CallStates
    BY <1>a, <1>e, <2>1, CallsBecome
  <2>3. call' = [call EXCEPT ![c] = x]
    BY <1>8 DEF Keep
  <2>4. QED
    BY <2>2, <2>3 DEF OwnCall
<1>9. CASE Unlock(c)
  <2>1. \A p \in Locations : [call[c] EXCEPT !.at = p, !.holds = FALSE] \in CallStates
    BY <1>a, CallsBecome
  <2>2. QED
    BY <1>9, <1>c, <2>1 DEF Unlock, OwnCall, CallStatesOK
<1>10. CASE HookLost(c)
  <2>1. [call[c] EXCEPT !.at = "act", !.holds = FALSE] \in CallStates
    BY <1>a, CallsBecome
  <2>2. QED
    BY <1>10, <2>1 DEF HookLost, OwnCall, CallStatesOK
<1>11. QED
  BY <1>1, <1>2, <1>3, <1>4, <1>5, <1>6, <1>7, <1>8, <1>9, <1>10 DEF CallStep

(* An owner file that is replaced is one file of one agent.                *)
LEMMA DocWritten ==
  ASSUME RegOK, NEW t \in Trees, NEW o \in Agents, NEW d \in Doc,
         reg' = [reg EXCEPT ![t][o] = d]
  PROVE  /\ RegOK' /\ reg'[t][o] = d
         /\ \A u \in Trees, w \in Agents : u # t \/ w # o => reg'[u][w] = reg[u][w]
BY DEF RegOK

(* Every step keeps the types.                                             *)
LEMMA ClaimsTypedStep ==
  ASSUME ClaimsTyped, [ClaimsNext]_claimVars
  PROVE  ClaimsTyped'
<1> USE ClaimsAssumption DEF ClaimsTyped
<1>c. ASSUME NEW c \in Calls, CallStep(c)
      PROVE  CallStatesOK'
  BY <1>c, OwnCallStep DEF OwnCall, CallStatesOK
<1>d. ASSUME NEW c \in Calls
      PROVE  /\ call[c] \in CallStates /\ Tree(c) \in Trees /\ Me(c) \in Agents /\ Mine(c) \in Doc
             /\ call[c].seen \in Doc /\ call[c].kept \in SUBSET Paths
             /\ call[c].files \in SUBSET Paths
  BY CallFields DEF CallStatesOK, Me, Tree, Mine, RegOK
<1>f. ASSUME Fault PROVE faults' \in 0 .. MaxFaults
  BY <1>f DEF Fault, CountsOK
<1>g. ASSUME NEW o \in Agents, NEW S \in SUBSET Trees, Strays(o, S)
      PROVE  stray' \in [Agents -> SUBSET Trees]
  BY <1>g DEF Strays, AgentsOK
<1>1. ASSUME NEW c \in Calls, Begin(c) PROVE ClaimsTyped'
  <2>1. CallStatesOK'
    BY <1>1, <1>c DEF CallStep
  <2>2. /\ made < MaxCalls /\ made' = made + 1
        /\ UNCHANGED <<reg, mutex, index, up, working, dirty, left, entitled, stray, hit, faults>>
    BY <1>1 DEF Begin
  <2>3. QED
    BY <2>1, <2>2 DEF RegOK, MutexFilesOK, AgentsOK, CountsOK
<1>2. ASSUME NEW c \in Calls, Beat(c) PROVE ClaimsTyped'
  BY <1>2, <1>c DEF Beat, CallStep, RegOK, MutexFilesOK, AgentsOK, CountsOK
<1>3. ASSUME NEW c \in Calls, Refresh(c) PROVE ClaimsTyped'
  <2>1. [call[c].seen EXCEPT !.fresh = TRUE] \in Doc
    BY <1>d, DocFields
  <2>2. RegOK'
    BY <1>3, <1>d, <2>1, DocWritten DEF Refresh
  <2>3. QED
    BY <1>3, <1>c, <2>2 DEF Refresh, CallStep, MutexFilesOK, AgentsOK, CountsOK
<1>4. ASSUME NEW c \in Calls, Screen(c) PROVE ClaimsTyped'
  BY <1>4, <1>c DEF Screen, CallStep, RegOK, MutexFilesOK, AgentsOK, CountsOK
<1>5. ASSUME NEW c \in Calls, Lock(c) PROVE ClaimsTyped'
  BY <1>5, <1>c, <1>d, MutexFilesAre
     DEF Lock, Note, CallStep, RegOK, MutexFilesOK, AgentsOK, CountsOK
<1>6. ASSUME NEW c \in Calls, BreakMutex(c) PROVE ClaimsTyped'
  BY <1>6, <1>d, MutexFilesAre
     DEF BreakMutex, CallStatesOK, RegOK, MutexFilesOK, AgentsOK, CountsOK
<1>7. ASSUME NEW c \in Calls, GiveUp(c) PROVE ClaimsTyped'
  BY <1>7, <1>c, <1>f DEF GiveUp, Note, CallStep, RegOK, MutexFilesOK, AgentsOK, CountsOK
<1>8. ASSUME NEW c \in Calls, Reap(c) PROVE ClaimsTyped'
  BY <1>8, <1>c DEF Reap, CallStep, RegOK, MutexFilesOK, AgentsOK, CountsOK
<1>9. ASSUME NEW c \in Calls, Unlink(c) PROVE ClaimsTyped'
  <2>1. RegOK'
    BY <1>9, <1>d, DocFields DEF Unlink, RegOK
  <2>2. QED
    BY <1>9, <1>c, <2>1 DEF Unlink, Note, CallStep, MutexFilesOK, AgentsOK, CountsOK
<1>10. ASSUME NEW c \in Calls, Check(c) PROVE ClaimsTyped'
  BY <1>10, <1>c DEF Check, CallStep, RegOK, MutexFilesOK, AgentsOK, CountsOK
<1>11. ASSUME NEW c \in Calls, Keep(c) PROVE ClaimsTyped'
  BY <1>11, <1>c DEF Keep, CallStep, RegOK, MutexFilesOK, AgentsOK, CountsOK
<1>12. ASSUME NEW c \in Calls, Write(c) PROVE ClaimsTyped'
  <2>1. PICK n \in BOOLEAN :
          reg' = [reg EXCEPT ![Tree(c)][Me(c)] =
            [there |-> TRUE, paths |-> call[c].seen.paths \cup call[c].kept,
             fresh |-> TRUE, named |-> n]]
    BY <1>12, <1>d, DocFields DEF Write
  <2>2. [there |-> TRUE, paths |-> call[c].seen.paths \cup call[c].kept,
         fresh |-> TRUE, named |-> n] \in Doc
    BY <1>d DEF Doc
  <2>3. RegOK'
    BY <1>d, <2>1, <2>2, DocWritten
  <2>4. AgentsOK'
    BY <1>12, <1>d DEF Write, AgentsOK
  <2>5. QED
    BY <1>12, <1>c, <2>3, <2>4 DEF Write, CallStep, MutexFilesOK, CountsOK
<1>13. ASSUME NEW c \in Calls, Index(c) PROVE ClaimsTyped'
  <2>1. CallStatesOK'
    BY <1>13, <1>c DEF CallStep
  <2>2. AgentsOK'
    <3>1. index[Me(c)] \cup ({Tree(c)} \ {Project}) \in SUBSET Trees
      BY <1>d DEF AgentsOK
    <3>2. \/ UNCHANGED index
          \/ index' = [index EXCEPT ![Me(c)] = index[Me(c)] \cup ({Tree(c)} \ {Project})]
      BY <1>13 DEF Index
    <3>3. index' \in [Agents -> SUBSET Trees]
      BY <3>1, <3>2 DEF AgentsOK
    <3>4. stray' \in [Agents -> SUBSET Trees]
      BY <1>13, <1>d, <1>g DEF Index, AgentsOK
    <3>5. QED
      BY <1>13, <3>3, <3>4 DEF Index, AgentsOK
  <2>3. QED
    BY <1>13, <1>f, <2>1, <2>2 DEF Index, RegOK, MutexFilesOK, CountsOK
<1>14. ASSUME NEW c \in Calls, Unlock(c) PROVE ClaimsTyped'
  BY <1>14, <1>c, <1>d, MutexFilesAre
     DEF Unlock, CallStep, RegOK, MutexFilesOK, AgentsOK, CountsOK
<1>15. ASSUME NEW c \in Calls, Act(c) PROVE ClaimsTyped'
  BY <1>15, <1>c, <1>d DEF Act, CallStep, RegOK, MutexFilesOK, AgentsOK, CountsOK
<1>16. ASSUME NEW c \in Calls, HookLost(c) PROVE ClaimsTyped'
  <2>1. stray' \in [Agents -> SUBSET Trees]
    BY <1>16, <1>d, <1>g DEF HookLost
  <2>2. AgentsOK'
    BY <1>16, <2>1 DEF HookLost, AgentsOK
  <2>3. QED
    BY <1>16, <1>c, <1>f, <2>2 DEF HookLost, CallStep, RegOK, MutexFilesOK, CountsOK
<1>17. ASSUME NEW o \in Agents, Pop(o) PROVE ClaimsTyped'
  <2>1. index[o] \in SUBSET Trees /\ Project \in Trees
    BY DEF AgentsOK
  <2>2. stray' \in [Agents -> SUBSET Trees]
    BY <1>17, <1>g, <2>1 DEF Pop, AgentsOK
  <2>3. left' \in [Agents -> SUBSET Trees] /\ index' \in [Agents -> SUBSET Trees]
    BY <1>17, <2>1 DEF Pop, AgentsOK
  <2>4. AgentsOK'
    BY <1>17, <2>2, <2>3 DEF Pop, AgentsOK
  <2>5. faults' \in 0 .. MaxFaults
    BY <1>17, <1>f DEF Pop, CountsOK
  <2>6. QED
    BY <1>17, <2>4, <2>5 DEF Pop, RegOK, CallStatesOK, MutexFilesOK, CountsOK
<1>17a. ASSUME NEW o \in Agents, NEW t \in Trees, LetGo(o, t) PROVE ClaimsTyped'
  <2>1. RegOK'
    BY <1>17a, DocFields, DocWritten DEF LetGo, RegOK
  <2>2. stray' \in [Agents -> SUBSET Trees]
    BY <1>17a, <1>g DEF LetGo, AgentsOK
  <2>3. left' \in [Agents -> SUBSET Trees]
    BY <1>17a DEF LetGo, AgentsOK
  <2>4. faults' \in 0 .. MaxFaults
    BY <1>17a, <1>f DEF LetGo, CountsOK
  <2>5. QED
    BY <1>17a, <2>1, <2>2, <2>3, <2>4 DEF LetGo, CallStatesOK, MutexFilesOK, AgentsOK, CountsOK
<1>17b. ASSUME NEW o \in Agents, ReleaseLost(o) PROVE ClaimsTyped'
  <2>1. left[o] \in SUBSET Trees
    BY DEF AgentsOK
  <2>2. stray' \in [Agents -> SUBSET Trees] /\ left' \in [Agents -> SUBSET Trees]
    BY <1>17b, <1>g, <2>1 DEF ReleaseLost, AgentsOK
  <2>3. QED
    BY <1>17b, <1>f, <2>2
       DEF ReleaseLost, RegOK, CallStatesOK, MutexFilesOK, AgentsOK, CountsOK
<1>18. ASSUME NEW o \in Agents, SessionEnds(o) PROVE ClaimsTyped'
  <2>1. \A c \in Calls : call[c] \in CallStates /\ Idle \in CallStates
    BY CallsBecome, CallPlaces DEF CallStatesOK
  <2>2. CallStatesOK'
    BY <1>18, <2>1 DEF SessionEnds, CallStatesOK
  <2>3. left[o] \in SUBSET Trees
    BY DEF AgentsOK
  <2>4. stray' \in [Agents -> SUBSET Trees] /\ left' \in [Agents -> SUBSET Trees]
    BY <1>18, <1>g, <2>3 DEF SessionEnds, AgentsOK
  <2>5. QED
    BY <1>18, <1>f, <2>2, <2>4 DEF SessionEnds, RegOK, MutexFilesOK, AgentsOK, CountsOK
<1>19. ASSUME NEW t \in Trees, NEW o \in Agents, Age(t, o) PROVE ClaimsTyped'
  <2>1. reg[t][o] \in Doc
    BY DEF RegOK
  <2>2. reg' = [reg EXCEPT ![t][o] = [reg[t][o] EXCEPT !.fresh = FALSE]]
    BY <1>19 DEF Age
  <2>3. [reg[t][o] EXCEPT !.fresh = FALSE] \in Doc
    BY <2>1, DocFields
  <2>4. RegOK'
    BY <2>2, <2>3, DocWritten
  <2>5. QED
    BY <1>19, <1>f, <2>4 DEF Age, CallStatesOK, MutexFilesOK, AgentsOK, CountsOK
<1>20. ASSUME NEW t \in Trees, AgeMutex(t) PROVE ClaimsTyped'
  BY <1>20, <1>f, MutexFilesAre DEF AgeMutex, CallStatesOK, RegOK, MutexFilesOK, AgentsOK, CountsOK
<1>21. CASE UNCHANGED claimVars
  BY <1>21 DEF claimVars, CallStatesOK, RegOK, MutexFilesOK, AgentsOK, CountsOK
<1>22. QED
  BY <1>1, <1>2, <1>3, <1>4, <1>5, <1>6, <1>7, <1>8, <1>9, <1>10, <1>11, <1>12, <1>13, <1>14,
     <1>15, <1>16, <1>17, <1>17a, <1>17b, <1>18, <1>19, <1>20, <1>21 DEF ClaimsNext, CallStep

----------------------------------------------------------------------------
(* A call works only for an agent that is at work, on files of its tree;   *)
(* what it has read of an owner file is a whole file or none.              *)
CallOK(c) ==
  /\ call[c].at # "idle" => working[Me(c)] /\ up[Me(c)] /\ call[c].files # {}
  /\ call[c].kept \subseteq FilesOf(Tree(c)) /\ call[c].files \subseteq FilesOf(Tree(c))
  /\ call[c].at = "write" => call[c].kept # {}
  /\ call[c].at = "refresh" => call[c].seen.there
  /\ ~call[c].seen.there => call[c].seen = NoDoc
CallsOK == \A c \in Calls : CallOK(c)
DocsWhole == \A t \in Trees, o \in Agents : ~reg[t][o].there => reg[t][o] = NoDoc

(* One call at a time works under a mutex that nobody forced.              *)
MutexOne ==
  Spared({"forced"}) =>
    \A c, d \in Calls :
      c # d /\ call[c].at \in Critical /\ call[d].at \in Critical => Tree(c) # Tree(d)

(* What a call is about to claim is still free.                            *)
KeptFree ==
  Spared({"forced", "revived", "crossed"}) =>
    \A c \in Calls : call[c].at = "write" => Holders(Tree(c), call[c].kept, Me(c)) = {}

(* An owner file is where its agent will look for it at the end, a call is *)
(* about to note its tree, its release is still to come, or a fault has    *)
(* lost it.                                                                *)
Noting(o, t) ==
  \E c \in Calls :
    /\ Owner[c] = o /\ Tree(c) = t
    /\ call[c].at = "index" \/ (call[c].at = "unlock" /\ IsEdit(c) /\ call[c].kept # {})
Findable(o, t) ==
  \/ t \in stray[o]
  \/ working[o] /\ (up[o] => t \in index[o] \cup {Project} \/ Noting(o, t))
  \/ ~working[o] /\ t \in left[o]
DocsFound == \A o \in Agents, t \in Trees : reg[t][o].there => Findable(o, t)

(* A release that is still to come is of an agent that has finished; one   *)
(* that has finished is granted nothing and has no call under way.         *)
Quiet ==
  \A o \in Agents :
    /\ left[o] # {} => ~working[o]
    /\ ~working[o] => entitled[o] = {} /\ \A c \in Calls : Owner[c] = o => call[c].at = "idle"

Granted ==
  Spared({"crossed"}) =>
    \A o \in Agents : \A f \in entitled[o] :
      Live(o, reg[TreeOf[f]][o]) /\ f \in reg[TreeOf[f]][o].paths

ClaimsInv ==
  /\ ClaimsTyped /\ CallsOK /\ DocsWhole /\ MutexOne /\ KeptFree /\ OneOwner
  /\ Quiet /\ DocsFound /\ Granted

(* What a call that is not running remembers.                              *)
LEMMA IdleIs ==
  /\ Idle.at = "idle" /\ Idle.files = {} /\ Idle.kept = {} /\ Idle.seen = NoDoc
  /\ Idle.tree = Project
  /\ DOMAIN Idle = {"at", "kind", "files", "tree", "seen", "kept", "judged", "holds"}
BY DEF Idle

(* What a command names are files of its tree, and some.                   *)
LEMMA TargetsAre ==
  ASSUME NEW k \in Kinds, NEW t \in Trees, NEW f \in Targets(k, t)
  PROVE  f \subseteq FilesOf(t) /\ f # {} /\ f \in SUBSET Paths
BY DEF Targets, Kinds, FilesOf

(* A step of a call leaves the other calls, and the agents, alone.         *)
LEMMA OthersStay ==
  ASSUME ClaimsTyped, NEW c \in Calls, CallStep(c)
  PROVE  /\ \A d \in Calls : d # c => call'[d] = call[d]
         /\ UNCHANGED <<working, up>>
<1>1. \A d \in Calls : d # c => call'[d] = call[d]
  BY OwnCallStep DEF OwnCall, ClaimsTyped, CallStatesOK
<1>2. UNCHANGED <<working, up>>
  BY DEF CallStep, Begin, Beat, Refresh, Screen, Lock, BreakMutex, GiveUp, Reap, Unlink, Check,
         Keep, Write, Index, Unlock, Act, HookLost
<1>3. QED
  BY <1>1, <1>2

(* What is noted as gone wrong stays noted.                                *)
LEMMA NotedStays == ASSUME [ClaimsNext]_claimVars PROVE hit \subseteq hit'
BY ZenonT(40)
   DEF ClaimsNext, claimVars, CallStep, Begin, Beat, Refresh, Screen, Lock, BreakMutex, GiveUp,
       Reap, Unlink, Check, Keep, Write, Index, Unlock, Act, HookLost, Pop, LetGo, ReleaseLost,
       SessionEnds, Age, AgeMutex, Note

(* A call starts with what its command names.                              *)
Started(c, k, t, f) ==
  call' = [call EXCEPT ![c] =
    [Idle EXCEPT !.kind = k, !.files = f, !.tree = t,
                 !.at = IF k = "edit" THEN "lock" ELSE "beat"]]

(* The call of an agent that works begins at its first read.               *)
LEMMA BeginIs ==
  ASSUME NEW c \in Calls, Begin(c)
  PROVE  /\ working[Me(c)] /\ up[Me(c)] /\ call[c].at = "idle"
         /\ \E k \in Kinds, t \in Trees : \E f \in Targets(k, t) : Started(c, k, t, f)
BY DEF Begin, Started

(* A call's own step keeps it sound.                                       *)
LEMMA CallOKStep ==
  ASSUME ClaimsTyped, DocsWhole, NEW c \in Calls, CallOK(c), CallStep(c)
  PROVE  CallOK(c)'
<1> USE CallDomain, IdleIs DEF ClaimsTyped, CallStatesOK, CallOK, Me, Tree
<1>a. call[c] \in CallStates /\ UNCHANGED <<working, up>>
  BY OthersStay
<1>b. /\ Tree(c) \in Trees /\ Me(c) \in Agents /\ Project \in Trees
      /\ (~Mine(c).there => Mine(c) = NoDoc)
      /\ (~reg[Project][Me(c)].there => reg[Project][Me(c)] = NoDoc)
  BY <1>a, CallFields, ClaimsAssumption DEF DocsWhole, Mine
<1>1. CASE Begin(c)
  <2>1. PICK k \in Kinds, t \in Trees : \E f \in Targets(k, t) : Started(c, k, t, f)
    BY <1>1, BeginIs
  <2>2. PICK f \in Targets(k, t) : Started(c, k, t, f)
    BY <2>1
  <2>3. working[Me(c)] /\ up[Me(c)]
    BY <1>1, BeginIs
  <2>4. QED
    BY <1>a, <2>2, <2>3, TargetsAre DEF Started
<1>2. CASE Beat(c)
  BY <1>2, <1>a, <1>b DEF Beat, GoReading
<1>3. CASE Refresh(c)
  BY <1>3, <1>a DEF Refresh, Go
<1>4. CASE Screen(c)
  BY <1>4, <1>a DEF Screen, Go, Ends
<1>5. CASE Lock(c)
  BY <1>5, <1>a DEF Lock, Inside
<1>6. CASE BreakMutex(c)
  BY <1>6, <1>a DEF BreakMutex
<1>7. CASE GiveUp(c)
  BY <1>7, <1>a DEF GiveUp, Inside, Go
<1>8. CASE Reap(c)
  BY <1>8, <1>a DEF Reap
<1>9. CASE Unlink(c)
  BY <1>9, <1>a DEF Unlink, Go
<1>10. CASE Check(c)
  BY <1>10, <1>a, <1>b DEF Check
<1>11. CASE Keep(c)
  <2> DEFINE wanted == IF call[c].kind = "sweep" THEN call[c].files \cap dirty ELSE call[c].files
             keep == wanted \ Holders(Tree(c), wanted, Me(c))
  <2>1. /\ call' = [call EXCEPT ![c] =
              [call[c] EXCEPT !.at = IF keep = {} THEN "unlock" ELSE "write", !.seen = Mine(c),
                              !.kept = keep]]
        /\ call[c].at = "keep"
    BY <1>11 DEF Keep
  <2>2. keep \subseteq FilesOf(Tree(c))
    OBVIOUS
  <2> HIDE DEF keep
  <2>3. QED
    BY <1>a, <1>b, <2>1, <2>2
<1>12. CASE Write(c)
  BY <1>12, <1>a DEF Write, Go
<1>13. CASE Index(c)
  BY <1>13, <1>a DEF Index, Go
<1>14. CASE Unlock(c)
  <2>1. CASE call' = [call EXCEPT ![c] = Idle]
    BY <2>1, <1>a
  <2>2. CASE call' = [call EXCEPT ![c] =
          [call[c] EXCEPT !.at = IF IsEdit(c) THEN "index" ELSE "act", !.holds = FALSE]]
    BY <2>2, <1>14, <1>a DEF Unlock
  <2>3. QED
    BY <1>14, <2>1, <2>2 DEF Unlock, Ends
<1>15. CASE Act(c)
  BY <1>15, <1>a DEF Act, Ends
<1>16. CASE HookLost(c)
  BY <1>16, <1>a DEF HookLost
<1>17. QED
  BY <1>1, <1>2, <1>3, <1>4, <1>5, <1>6, <1>7, <1>8, <1>9, <1>10, <1>11, <1>12, <1>13, <1>14,
     <1>15, <1>16 DEF CallStep

(* Every step keeps the calls sound.                                       *)
LEMMA CallsOKStep ==
  ASSUME ClaimsTyped, CallsOK, DocsWhole, [ClaimsNext]_claimVars
  PROVE  CallsOK'
<1> USE DEF CallsOK
<1>1. ASSUME NEW c \in Calls, CallStep(c) PROVE CallsOK'
  <2>1. CallOK(c)'
    BY <1>1, CallOKStep
  <2>2. \A d \in Calls : d # c => CallOK(d)'
    BY <1>1, OthersStay DEF CallOK, Me, Tree
  <2>3. QED
    BY <2>1, <2>2
<1>2. ASSUME NEW o \in Agents, Pop(o) PROVE CallsOK'
  BY <1>2, ClaimsAssumption DEF Pop, CallOK, Me, Tree, ClaimsTyped, AgentsOK
<1>3. ASSUME NEW o \in Agents, SessionEnds(o) PROVE CallsOK'
  BY <1>3, IdleIs, ClaimsAssumption DEF SessionEnds, CallOK, Me, Tree, ClaimsTyped, AgentsOK
<1>4. ASSUME UNCHANGED <<call, working, up>> PROVE CallsOK'
  BY <1>4 DEF CallOK, Me, Tree
<1>5. QED
  BY <1>1, <1>2, <1>3, <1>4 DEF ClaimsNext, LetGo, ReleaseLost, Age, AgeMutex, claimVars

(* Every step leaves an owner file whole or not there.                     *)
LEMMA DocsWholeStep ==
  ASSUME ClaimsTyped, CallsOK, DocsWhole, [ClaimsNext]_claimVars
  PROVE  DocsWhole'
<1> USE DEF ClaimsTyped
<1>a. ASSUME UNCHANGED reg PROVE DocsWhole'
  BY <1>a DEF DocsWhole
<1>b. ASSUME NEW c \in Calls
      PROVE  /\ Tree(c) \in Trees /\ Me(c) \in Agents /\ Project \in Trees
             /\ call[c].seen \in Doc /\ call[c].kept \in SUBSET Paths
  BY CallFields, ClaimsAssumption DEF CallStatesOK, Me, Tree
<1>1. ASSUME NEW c \in Calls, Refresh(c) PROVE DocsWhole'
  <2>1. /\ reg' = [reg EXCEPT ![Project][Me(c)] = [call[c].seen EXCEPT !.fresh = TRUE]]
        /\ [call[c].seen EXCEPT !.fresh = TRUE] \in Doc
        /\ [call[c].seen EXCEPT !.fresh = TRUE].there
    BY <1>1, <1>b, DocDomain, DocFields DEF Refresh, CallsOK, CallOK
  <2>2. QED
    BY <2>1, <1>b, DocWritten DEF DocsWhole
<1>2. ASSUME NEW c \in Calls, Unlink(c) PROVE DocsWhole'
  BY <1>2, <1>b DEF Unlink, DocsWhole, RegOK
<1>3. ASSUME NEW c \in Calls, Write(c) PROVE DocsWhole'
  <2>1. PICK n \in BOOLEAN :
          reg' = [reg EXCEPT ![Tree(c)][Me(c)] =
            [there |-> TRUE, paths |-> call[c].seen.paths \cup call[c].kept,
             fresh |-> TRUE, named |-> n]]
    BY <1>3, <1>b, DocFields DEF Write
  <2>2. [there |-> TRUE, paths |-> call[c].seen.paths \cup call[c].kept,
         fresh |-> TRUE, named |-> n] \in Doc
    BY <1>b, DocFields DEF Doc
  <2>3. QED
    BY <1>b, <2>1, <2>2, DocWritten DEF DocsWhole
<1>4. ASSUME NEW o \in Agents, NEW t \in Trees, LetGo(o, t) PROVE DocsWhole'
  <2>1. UNCHANGED reg \/ reg' = [reg EXCEPT ![t][o] = NoDoc]
    BY <1>4 DEF LetGo
  <2>2. QED
    BY <1>a, <2>1, DocFields, DocWritten DEF DocsWhole
<1>5. ASSUME NEW t \in Trees, NEW o \in Agents, Age(t, o) PROVE DocsWhole'
  <2>1. reg[t][o] \in Doc /\ reg[t][o].there
    BY <1>5 DEF Age, DocsWhole, NoDoc, RegOK
  <2>2. reg' = [reg EXCEPT ![t][o] = [reg[t][o] EXCEPT !.fresh = FALSE]]
    BY <1>5 DEF Age
  <2>3. [reg[t][o] EXCEPT !.fresh = FALSE] \in Doc /\ [reg[t][o] EXCEPT !.fresh = FALSE].there
    BY <2>1, DocFields, DocDomain
  <2>4. QED
    BY <2>2, <2>3, DocWritten DEF DocsWhole
<1>6. QED
  BY <1>a, <1>1, <1>2, <1>3, <1>4, <1>5
     DEF ClaimsNext, claimVars, CallStep, Begin, Beat, Screen, Lock, BreakMutex, GiveUp, Reap,
         Check, Keep, Index, Unlock, Act, HookLost, Pop, ReleaseLost, SessionEnds, AgeMutex

(* What a call writes into the owner file of its agent.                    *)
LEMMA WriteIs ==
  ASSUME ClaimsTyped, NEW c \in Calls, Write(c)
  PROVE  LET d == reg'[Tree(c)][Me(c)]
         IN  /\ d \in Doc /\ d.there /\ d.fresh
             /\ d.paths = call[c].seen.paths \cup call[c].kept
             /\ \A t \in Trees, o \in Agents :
                    t # Tree(c) \/ o # Me(c) => reg'[t][o] = reg[t][o]
<1> USE ClaimsAssumption DEF ClaimsTyped
<1>1. /\ Tree(c) \in Trees /\ Me(c) \in Agents
      /\ call[c].seen \in Doc /\ call[c].kept \in SUBSET Paths
  BY CallFields DEF CallStatesOK, Me, Tree
<1> DEFINE d(n) == [there |-> TRUE, paths |-> call[c].seen.paths \cup call[c].kept,
                   fresh |-> TRUE, named |-> n]
<1>2. PICK n \in BOOLEAN : reg' = [reg EXCEPT ![Tree(c)][Me(c)] = d(n)]
  BY <1>1, DocFields DEF Write
<1>3. d(n) \in Doc
  BY <1>1, DocFields DEF Doc
<1>4. d(n).there /\ d(n).fresh /\ d(n).paths = call[c].seen.paths \cup call[c].kept
  OBVIOUS
<1> HIDE DEF d
<1>5. /\ reg'[Tree(c)][Me(c)] = d(n)
      /\ \A t \in Trees, o \in Agents :
             t # Tree(c) \/ o # Me(c) => reg'[t][o] = reg[t][o]
  BY <1>1, <1>2 DEF RegOK
<1>6. QED
  BY <1>3, <1>4, <1>5

(* A refresh that meets the file it has read, still live, changes nothing. *)
LEMMA RefreshIs ==
  ASSUME ClaimsTyped, NEW c \in Calls, Refresh(c), "crossed" \notin hit'
  PROVE  LET d == reg[Project][Me(c)]
         IN  /\ call[c].seen = d /\ d \in Doc
             /\ reg'[Project][Me(c)] = [d EXCEPT !.fresh = TRUE]
             /\ \A t \in Trees, o \in Agents :
                    t # Project \/ o # Me(c) => reg'[t][o] = reg[t][o]
             /\ "revived" \notin hit' => Live(Me(c), d) /\ UNCHANGED reg
<1> USE ClaimsAssumption DEF ClaimsTyped
<1>1. Project \in Trees /\ Me(c) \in Agents /\ reg[Project][Me(c)] \in Doc
  BY DEF Me, RegOK
<1>2. /\ call[c].seen = reg[Project][Me(c)]
      /\ reg' = [reg EXCEPT ![Project][Me(c)] = [call[c].seen EXCEPT !.fresh = TRUE]]
      /\ "revived" \notin hit' => Live(Me(c), call[c].seen)
  BY DEF Refresh
<1>3. [reg[Project][Me(c)] EXCEPT !.fresh = TRUE] \in Doc
  BY <1>1, DocFields
<1>4. ASSUME "revived" \notin hit' PROVE Live(Me(c), reg[Project][Me(c)]) /\ UNCHANGED reg
  <2>1. Live(Me(c), reg[Project][Me(c)])
    BY <1>2, <1>4
  <2>2. [reg[Project][Me(c)] EXCEPT !.fresh = TRUE] = reg[Project][Me(c)]
    BY <1>1, <2>1 DEF Live, Doc
  <2>3. QED
    BY <1>1, <1>2, <2>1, <2>2 DEF RegOK
<1> DEFINE d == [reg[Project][Me(c)] EXCEPT !.fresh = TRUE]
<1>d. reg' = [reg EXCEPT ![Project][Me(c)] = d] /\ d \in Doc
  BY <1>2, <1>3
<1> HIDE DEF d
<1>5. /\ reg'[Project][Me(c)] = d
      /\ \A t \in Trees, o \in Agents :
             t # Project \/ o # Me(c) => reg'[t][o] = reg[t][o]
  BY <1>1, <1>d DEF RegOK
<1>6. QED
  BY <1>1, <1>2, <1>4, <1>5 DEF d

(* The steps that only take claims away: all but a write, unless a refresh *)
(* revives a claim or crosses another.                                     *)
Shrinks ==
  \A t \in Trees, o \in Agents :
    Live(o, reg[t][o])' => Live(o, reg[t][o]) /\ reg'[t][o].paths \subseteq reg[t][o].paths

(* No other step lets a live claim name more.                              *)
LEMMA ShrinkStep ==
  ASSUME ClaimsTyped, [ClaimsNext]_claimVars, \A c \in Calls : ~Write(c),
         "revived" \notin hit', "crossed" \notin hit'
  PROVE  Shrinks
<1> USE DEF Shrinks, ClaimsTyped
<1>1. ASSUME UNCHANGED <<reg, up>> PROVE Shrinks
  BY <1>1 DEF Live
<1>2. ASSUME NEW c \in Calls, Refresh(c) PROVE Shrinks
  BY <1>1, <1>2, RefreshIs DEF Refresh
<1>3. ASSUME NEW c \in Calls, Unlink(c) PROVE Shrinks
  <2>1. Tree(c) \in Trees
    BY CallFields DEF CallStatesOK, Tree
  <2>2. \A t \in Trees, o \in Agents : reg'[t][o] = reg[t][o] \/ reg'[t][o] = NoDoc
    BY <1>3, <2>1 DEF Unlink, RegOK
  <2>3. UNCHANGED up
    BY <1>3 DEF Unlink
  <2>4. QED
    BY <2>2, <2>3 DEF Live, NoDoc
<1>4. ASSUME NEW o \in Agents, NEW u \in Trees, LetGo(o, u) PROVE Shrinks
  <2>1. \A t \in Trees, w \in Agents : reg'[t][w] = reg[t][w] \/ reg'[t][w] = NoDoc
    BY <1>4, DocFields, DocWritten DEF LetGo
  <2>2. UNCHANGED up
    BY <1>4 DEF LetGo
  <2>3. QED
    BY <2>1, <2>2 DEF Live, NoDoc
<1>5. ASSUME NEW o \in Agents, SessionEnds(o) PROVE Shrinks
  BY <1>5 DEF SessionEnds, Live, AgentsOK
<1>6. ASSUME NEW t \in Trees, NEW o \in Agents, Age(t, o) PROVE Shrinks
  <2>1. reg[t][o] \in Doc
    BY DEF RegOK
  <2>2. reg' = [reg EXCEPT ![t][o] = [reg[t][o] EXCEPT !.fresh = FALSE]] /\ UNCHANGED up
    BY <1>6 DEF Age
  <2>3. [reg[t][o] EXCEPT !.fresh = FALSE] \in Doc /\ ~[reg[t][o] EXCEPT !.fresh = FALSE].fresh
    BY <2>1, DocFields, DocDomain
  <2>4. QED
    BY <2>2, <2>3, DocWritten DEF Live
<1>7. QED
  BY <1>1, <1>2, <1>3, <1>4, <1>5, <1>6
     DEF ClaimsNext, claimVars, CallStep, Begin, Beat, Screen, Lock, BreakMutex, GiveUp, Reap,
         Check, Keep, Index, Unlock, Act, HookLost, Pop, ReleaseLost, AgeMutex

(* A call enters under a mutex only where nobody works, or it is noted.    *)
LEMMA Entering ==
  ASSUME ClaimsTyped, NEW c \in Calls, CallStep(c), call'[c].at \in Critical
  PROVE  /\ call'[c].tree = call[c].tree
         /\ call[c].at \in Critical \/ "forced" \in hit' \/ ~Occupied(c)
<1> USE CallDomain, IdleIs DEF ClaimsTyped, CallStatesOK, Critical
<1>a. call[c] \in CallStates
  OBVIOUS
<1>1. CASE Begin(c)
  <2>1. PICK k \in Kinds, t \in Trees : \E f \in Targets(k, t) : Started(c, k, t, f)
    BY <1>1, BeginIs
  <2>2. call'[c].at \in {"lock", "beat"}
    BY <2>1, <1>a DEF Started
  <2>3. QED
    BY <2>2
<1>2. CASE Lock(c)
  BY <1>2, <1>a DEF Lock, Note
<1>3. CASE GiveUp(c)
  BY <1>3, <1>a DEF GiveUp, Note, Go
<1>4. CASE Beat(c) \/ Screen(c) \/ Write(c) \/ Index(c) \/ Act(c) \/ Refresh(c)
  <2>1. ASSUME NEW p \in Locations \ Critical, Go(c, p) PROVE call'[c].at \notin Critical
    BY <1>a, <2>1 DEF Go
  <2>2. ASSUME Ends(c) PROVE call'[c].at \notin Critical
    BY <1>a, <2>2 DEF Ends
  <2>3. CASE Beat(c)
    BY <1>a, <2>3 DEF Beat, GoReading
  <2>4. QED
    BY <1>4, <2>1, <2>2, <2>3, CallPlaces DEF Screen, Write, Index, Act, Refresh
<1>5. CASE BreakMutex(c)
  BY <1>5 DEF BreakMutex
<1>6. CASE Reap(c) \/ Unlink(c) \/ Check(c)
  BY <1>6, <1>a, ZenonT(40) DEF Reap, Unlink, Check, Go
<1>7. CASE Keep(c)
  BY <1>7, <1>a DEF Keep
<1>8. CASE Unlock(c)
  <2>1. CASE call' = [call EXCEPT ![c] = Idle]
    BY <2>1, <1>a
  <2>2. CASE call' = [call EXCEPT ![c] =
          [call[c] EXCEPT !.at = IF IsEdit(c) THEN "index" ELSE "act", !.holds = FALSE]]
    BY <2>2, <1>a
  <2>3. QED
    BY <1>8, <2>1, <2>2 DEF Unlock, Ends
<1>9. CASE HookLost(c)
  BY <1>9, <1>a DEF HookLost
<1>10. QED
  BY <1>1, <1>2, <1>3, <1>4, <1>5, <1>6, <1>7, <1>8, <1>9 DEF CallStep

(* One call works under a mutex.                                           *)
LEMMA MutexOneStep ==
  ASSUME ClaimsTyped, MutexOne, [ClaimsNext]_claimVars
  PROVE  MutexOne'
<1> SUFFICES ASSUME "forced" \notin hit'
             PROVE  (\A c, d \in Calls :
                       c # d /\ call[c].at \in Critical /\ call[d].at \in Critical
                         => Tree(c) # Tree(d))'
  BY DEF MutexOne, Spared
<1>1. \A c, d \in Calls :
        c # d /\ call[c].at \in Critical /\ call[d].at \in Critical => call[c].tree # call[d].tree
  BY NotedStays DEF MutexOne, Spared, Tree
<1>2. ASSUME NEW c \in Calls, CallStep(c), NEW d \in Calls, c # d,
             call'[c].at \in Critical, call'[d].at \in Critical
      PROVE  call'[c].tree # call'[d].tree
  <2>1. call'[d] = call[d]
    BY <1>2, OthersStay
  <2>2. QED
    BY <1>1, <1>2, <2>1, Entering DEF Occupied, Tree
<1>3. CASE \E c \in Calls : CallStep(c)
  <2>1. PICK c \in Calls : CallStep(c)
    BY <1>3
  <2>2. \A d \in Calls : d # c => call'[d] = call[d]
    BY <2>1, OthersStay
  <2>3. QED
    BY <1>1, <1>2, <2>1, <2>2 DEF Tree
<1>4. ASSUME NEW o \in Agents, SessionEnds(o) PROVE MutexOne'
  BY <1>1, <1>4, IdleIs DEF SessionEnds, Tree, Critical, MutexOne
<1>5. CASE UNCHANGED call
  BY <1>1, <1>5 DEF Tree
<1>6. QED
  BY <1>3, <1>4, <1>5 DEF ClaimsNext, claimVars, Pop, LetGo, ReleaseLost, Age, AgeMutex, MutexOne,
     Spared

(* No live owner but me holds what is about to be claimed: at a write.     *)
LEMMA WriteTakesFree ==
  ASSUME ClaimsTyped, CallsOK, DocsWhole, MutexOne, KeptFree, OneOwner, NEW c \in Calls, Write(c),
         hit' \cap {"forced", "revived", "crossed"} = {}
  PROVE  KeptFree' /\ OneOwner'
<1> USE ClaimsAssumption DEF ClaimsTyped
<1>1. /\ Tree(c) \in Trees /\ Me(c) \in Agents /\ call[c] \in CallStates
      /\ call[c].at = "write" /\ UNCHANGED up /\ hit \subseteq hit'
      /\ call[c].seen = Mine(c) /\ (Mine(c).there => Live(Me(c), Mine(c)))
  BY CallFields DEF CallStatesOK, Tree, Me, Write
<1>2. call'[c].at # "write" /\ \A d \in Calls : d # c => call'[d] = call[d]
  BY <1>1, CallDomain, OthersStay DEF Write, Go, CallStatesOK, CallStep
<1>3. /\ Spared({"forced", "revived", "crossed"})
      /\ Spared({"forced"})
  BY <1>1 DEF Spared
<1>4. ASSUME NEW d \in Calls, call'[d].at = "write"
      PROVE  d # c /\ call'[d] = call[d] /\ Tree(d) # Tree(c) /\ Tree(d) \in Trees
  BY <1>1, <1>2, <1>3, <1>4, CallFields DEF MutexOne, Critical, CallStatesOK, Tree
<1>5. KeptFree'
  <2> SUFFICES ASSUME NEW d \in Calls, call'[d].at = "write"
               PROVE  Holders(Tree(d), call[d].kept, Me(d))' = {}
    BY DEF KeptFree
  <2>1. Holders(Tree(d), call[d].kept, Me(d)) = {}
    BY <1>3, <1>4 DEF KeptFree
  <2>2. \A o \in Agents : reg'[Tree(d)][o] = reg[Tree(d)][o]
    BY <1>4, WriteIs
  <2>3. QED
    BY <1>1, <1>4, <2>1, <2>2 DEF Holders, Live, Tree, Me
<1>6. OneOwner'
  <2>1. Holders(Tree(c), call[c].kept, Me(c)) = {}
    BY <1>1, <1>3 DEF KeptFree
  <2>2. ASSUME NEW o \in Agents \ {Me(c)}, Live(o, reg[Tree(c)][o])
        PROVE  reg[Tree(c)][o].paths \cap reg'[Tree(c)][Me(c)].paths = {}
    <3>1. reg[Tree(c)][o].paths \cap call[c].kept = {}
      BY <2>1, <2>2 DEF Holders
    <3>2. reg[Tree(c)][o].paths \cap call[c].seen.paths = {}
      <4>1. CASE Mine(c).there
        BY <1>1, <1>3, <2>2, <4>1 DEF OneOwner, Mine
      <4>2. CASE ~Mine(c).there
        BY <1>1, <4>2 DEF DocsWhole, Mine, NoDoc
      <4>3. QED
        BY <4>1, <4>2
    <3>3. QED
      BY <3>1, <3>2, WriteIs
  <2>3. SUFFICES ASSUME NEW o \in Agents, NEW w \in Agents, NEW t \in Trees, o # w,
                        Live(o, reg[t][o])', Live(w, reg[t][w])'
                 PROVE  reg'[t][o].paths \cap reg'[t][w].paths = {}
    BY DEF OneOwner
  <2>4. CASE t = Tree(c) /\ w = Me(c)
    <3>1. reg'[t][o] = reg[t][o]
      BY <2>3, <2>4, WriteIs
    <3>2. QED
      BY <1>1, <2>2, <2>3, <2>4, <3>1 DEF Live
  <2>5. CASE t = Tree(c) /\ o = Me(c)
    <3>1. reg'[t][w] = reg[t][w]
      BY <2>3, <2>5, WriteIs
    <3>2. QED
      BY <1>1, <2>2, <2>3, <2>5, <3>1 DEF Live
  <2>6. CASE t # Tree(c) \/ (w # Me(c) /\ o # Me(c))
    <3>1. reg'[t][o] = reg[t][o] /\ reg'[t][w] = reg[t][w]
      BY <2>6, WriteIs
    <3>2. QED
      BY <1>1, <1>3, <2>3, <3>1 DEF OneOwner, Live
  <2>7. QED
    BY <2>4, <2>5, <2>6
<1>7. QED
  BY <1>5, <1>6

(* Every other step leaves what it found: nobody gains a claim.            *)
LEMMA OwnersKept ==
  ASSUME ClaimsTyped, KeptFree, OneOwner, Shrinks, [ClaimsNext]_claimVars,
         \A c \in Calls : ~Write(c), hit' \cap {"forced", "revived", "crossed"} = {}
  PROVE  KeptFree' /\ OneOwner'
<1> USE ClaimsAssumption DEF ClaimsTyped
<1>1. Spared({"forced", "revived", "crossed"})
  BY NotedStays DEF Spared
<1>2. OneOwner'
  BY <1>1 DEF OneOwner, Shrinks, RegOK
<1>3. \A c \in Calls : Tree(c) \in Trees /\ Me(c) \in Agents /\ call[c].kept \in SUBSET Paths
  BY CallFields DEF CallStatesOK, Tree, Me
<1>4. ASSUME NEW c \in Calls, call'[c] = call[c], call[c].at = "write"
      PROVE  Holders(Tree(c), call[c].kept, Me(c))' = {}
  <2>1. Holders(Tree(c), call[c].kept, Me(c)) = {}
    BY <1>1, <1>4 DEF KeptFree
  <2>2. QED
    BY <1>3, <1>4, <2>1 DEF Holders, Shrinks, Tree, Me
<1>5. ASSUME NEW c \in Calls, CallStep(c), call'[c].at = "write"
      PROVE  Holders(Tree(c), call[c].kept, Me(c))' = {}
  <2> USE CallDomain, IdleIs DEF CallStatesOK
  <2>a. call[c] \in CallStates
    OBVIOUS
  <2>1. CASE Check(c)
    <3> DEFINE free == Holders(Tree(c), call[c].files, Me(c)) = {}
    <3>1. call'[c] = [call[c] EXCEPT !.at = IF free THEN "write" ELSE "unlock",
                        !.seen = Mine(c), !.kept = IF free THEN call[c].files ELSE {}]
      BY <2>1, <2>a DEF Check
    <3>2. free /\ call'[c].kept = call[c].files /\ call'[c].tree = call[c].tree
      BY <1>5, <2>a, <3>1
    <3>3. UNCHANGED <<reg, up>>
      BY <2>1 DEF Check
    <3>4. QED
      BY <3>2, <3>3 DEF Holders, Live, Tree, Me
  <2>2. CASE Keep(c)
    <3> DEFINE wanted == IF call[c].kind = "sweep" THEN call[c].files \cap dirty ELSE call[c].files
               keep == wanted \ Holders(Tree(c), wanted, Me(c))
    <3>1. call'[c] = [call[c] EXCEPT !.at = IF keep = {} THEN "unlock" ELSE "write",
                        !.seen = Mine(c), !.kept = keep]
      BY <2>2, <2>a DEF Keep
    <3>2. Holders(Tree(c), keep, Me(c)) = {}
      BY DEF Holders
    <3> HIDE DEF keep
    <3>3. call'[c].kept = keep /\ call'[c].tree = call[c].tree
      BY <2>a, <3>1
    <3>4. UNCHANGED <<reg, up>>
      BY <2>2 DEF Keep
    <3>5. QED
      BY <3>2, <3>3, <3>4 DEF Holders, Live, Tree, Me
  <2>3. CASE BreakMutex(c)
    BY <1>4, <1>5, <2>3 DEF BreakMutex
  <2>4. CASE Begin(c)
    <3>1. PICK k \in Kinds, t \in Trees : \E f \in Targets(k, t) : Started(c, k, t, f)
      BY <2>4, BeginIs
    <3>2. call'[c].at \in {"lock", "beat"}
      BY <2>a, <3>1 DEF Started
    <3>3. QED
      BY <1>5, <3>2
  <2>5. CASE \E p \in Locations \ {"write"} : Go(c, p)
    BY <1>5, <2>5, <2>a DEF Go
  <2>6. CASE Ends(c) \/ Beat(c) \/ Lock(c) \/ Reap(c) \/ HookLost(c)
    <3>1. CASE Ends(c)
      BY <1>5, <3>1, <2>a DEF Ends
    <3>2. CASE Beat(c)
      BY <1>5, <3>2, <2>a DEF Beat, GoReading
    <3>3. CASE Lock(c)
      BY <1>5, <3>3, <2>a DEF Lock, Inside
    <3>4. CASE Reap(c)
      BY <1>5, <3>4, <2>a DEF Reap
    <3>5. CASE HookLost(c)
      BY <1>5, <3>5, <2>a DEF HookLost
    <3>6. QED
      BY <2>6, <3>1, <3>2, <3>3, <3>4, <3>5
  <2>7. CASE Unlock(c)
    <3>1. CASE call' = [call EXCEPT ![c] = Idle]
      BY <1>5, <3>1, <2>a
    <3>2. CASE call' = [call EXCEPT ![c] =
            [call[c] EXCEPT !.at = IF IsEdit(c) THEN "index" ELSE "act", !.holds = FALSE]]
      BY <1>5, <3>2, <2>a
    <3>3. QED
      BY <2>7, <3>1, <3>2 DEF Unlock, Ends
  <2>8. Refresh(c) \/ Screen(c) \/ GiveUp(c) \/ Unlink(c) \/ Index(c) \/ Act(c) =>
          Ends(c) \/ \E p \in Locations \ {"write"} : Go(c, p)
    <3> HIDE DEF Go, Ends
    <3>1. {"screen", "lock", "reap", "keep", "check", "act", "unlock"}
            \subseteq Locations \ {"write"}
      BY CallPlaces
    <3>2. QED
      BY <3>1 DEF Refresh, Screen, GiveUp, Inside, Unlink, Index, Act
  <2>9. QED
    BY <1>5, <2>1, <2>2, <2>3, <2>4, <2>5, <2>6, <2>7, <2>8 DEF CallStep
<1>6. KeptFree'
  <2> SUFFICES ASSUME NEW c \in Calls, call'[c].at = "write"
               PROVE  Holders(Tree(c), call[c].kept, Me(c))' = {}
    BY DEF KeptFree
  <2>1. CASE \E d \in Calls : CallStep(d)
    BY <1>4, <1>5, <2>1, OthersStay
  <2>2. CASE \E o \in Agents : SessionEnds(o)
    BY <1>4, <2>2, IdleIs DEF SessionEnds
  <2>3. CASE UNCHANGED call
    BY <1>4, <2>3
  <2>4. QED
    BY <2>1, <2>2, <2>3 DEF ClaimsNext, claimVars, Pop, LetGo, ReleaseLost, Age, AgeMutex
<1>7. QED
  BY <1>2, <1>6

(* One owner a file, and what is about to be claimed is free.              *)
LEMMA OwnersStep ==
  ASSUME ClaimsTyped, CallsOK, DocsWhole, MutexOne, KeptFree, OneOwner, [ClaimsNext]_claimVars
  PROVE  KeptFree' /\ OneOwner'
<1>1. CASE hit' \cap {"forced", "revived", "crossed"} # {}
  BY <1>1 DEF KeptFree, OneOwner, Spared
<1>2. ASSUME hit' \cap {"forced", "revived", "crossed"} = {}, NEW c \in Calls, Write(c)
      PROVE  KeptFree' /\ OneOwner'
  BY <1>2, WriteTakesFree
<1>3. ASSUME hit' \cap {"forced", "revived", "crossed"} = {}, \A c \in Calls : ~Write(c)
      PROVE  KeptFree' /\ OneOwner'
  BY <1>3, ShrinkStep, OwnersKept
<1>4. QED
  BY <1>1, <1>2, <1>3

(* What was granted stays in its owner file.                               *)
LEMMA GrantedStep ==
  ASSUME ClaimsTyped, CallsOK, Quiet, Granted, [ClaimsNext]_claimVars
  PROVE  Granted'
<1> USE ClaimsAssumption DEF ClaimsTyped
<1> SUFFICES ASSUME "crossed" \notin hit', NEW o \in Agents, NEW f \in entitled'[o]
             PROVE  Live(o, reg[TreeOf[f]][o])' /\ f \in reg'[TreeOf[f]][o].paths
  BY DEF Granted, Spared
<1>a. \A w \in Agents : \A g \in entitled[w] :
        Live(w, reg[TreeOf[g]][w]) /\ g \in reg[TreeOf[g]][w].paths
  BY NotedStays DEF Granted, Spared
<1>b. /\ \A w \in Agents : entitled[w] \subseteq Paths
      /\ \A g \in Paths : TreeOf[g] \in Trees
      /\ entitled' \in [Agents -> SUBSET Paths]
  BY ClaimsTypedStep DEF AgentsOK
<1>c. f \in Paths /\ TreeOf[f] \in Trees
  BY <1>b
<1>1. CASE UNCHANGED <<reg, up, entitled>>
  BY <1>1, <1>a, <1>c DEF Live
<1>2. ASSUME NEW c \in Calls, Refresh(c)
      PROVE  Live(o, reg[TreeOf[f]][o])' /\ f \in reg'[TreeOf[f]][o].paths
  <2>1. UNCHANGED <<up, entitled>>
    BY <1>2 DEF Refresh
  <2>2. CASE TreeOf[f] = Project /\ o = Me(c)
    <3>1. /\ reg[Project][Me(c)] \in Doc
          /\ reg'[Project][Me(c)] = [reg[Project][Me(c)] EXCEPT !.fresh = TRUE]
      BY <1>2, RefreshIs
    <3>2. Live(o, reg[Project][o]) /\ f \in reg[Project][o].paths
      BY <1>a, <2>1, <2>2
    <3>3. QED
      BY <2>1, <2>2, <3>1, <3>2, DocDomain DEF Live
  <2>3. CASE TreeOf[f] # Project \/ o # Me(c)
    <3>1. \A t \in Trees, w \in Agents :
            t # Project \/ w # Me(c) => reg'[t][w] = reg[t][w]
      BY <1>2, RefreshIs, Zenon
    <3>2. reg'[TreeOf[f]][o] = reg[TreeOf[f]][o]
      BY <1>c, <2>3, <3>1, Zenon
    <3>3. QED
      BY <1>a, <2>1, <3>2 DEF Live
  <2>4. QED
    BY <2>2, <2>3
<1>3. ASSUME NEW c \in Calls, Unlink(c)
      PROVE  Live(o, reg[TreeOf[f]][o])' /\ f \in reg'[TreeOf[f]][o].paths
  <2>1. UNCHANGED <<up, entitled>> /\ Tree(c) \in Trees
    BY <1>3, CallFields DEF Unlink, CallStatesOK, Tree
  <2>2. Live(o, reg[TreeOf[f]][o]) /\ f \in reg[TreeOf[f]][o].paths
    BY <1>a, <2>1
  <2>3. reg'[TreeOf[f]][o] = reg[TreeOf[f]][o]
    <3>1. CASE TreeOf[f] = Tree(c)
      <4>1. o \notin call[c].judged
        BY <1>3, <2>2, <3>1 DEF Unlink, Note
      <4>2. QED
        BY <1>3, <1>c, <2>1, <3>1, <4>1 DEF Unlink, RegOK
    <3>2. CASE TreeOf[f] # Tree(c)
      BY <1>3, <1>c, <2>1, <3>2 DEF Unlink, RegOK
    <3>3. QED
      BY <3>1, <3>2
  <2>4. QED
    BY <2>1, <2>2, <2>3 DEF Live
<1>4. ASSUME NEW c \in Calls, Write(c)
      PROVE  Live(o, reg[TreeOf[f]][o])' /\ f \in reg'[TreeOf[f]][o].paths
  <2>1. /\ UNCHANGED up /\ up[Me(c)]
        /\ call[c].seen = Mine(c)
        /\ entitled' = [entitled EXCEPT ![Me(c)] = @ \cup call[c].kept]
    BY <1>4 DEF Write, CallsOK, CallOK
  <2>2. call[c].kept \subseteq FilesOf(Tree(c)) /\ Me(c) \in Agents /\ Tree(c) \in Trees
    BY CallFields DEF CallsOK, CallOK, CallStatesOK, Me, Tree
  <2>3. CASE o = Me(c) /\ TreeOf[f] = Tree(c)
    <3>1. f \in reg[Tree(c)][Me(c)].paths \/ f \in call[c].kept
      BY <1>a, <2>1, <2>2, <2>3 DEF AgentsOK
    <3>2. /\ f \in reg'[Tree(c)][Me(c)].paths
          /\ reg'[Tree(c)][Me(c)].there /\ reg'[Tree(c)][Me(c)].fresh
      BY <1>4, <2>1, <3>1, WriteIs DEF Mine
    <3>3. QED
      BY <2>1, <2>3, <3>2 DEF Live
  <2>4. CASE o # Me(c) \/ TreeOf[f] # Tree(c)
    <3>1. f \in entitled[o]
      BY <2>1, <2>2, <2>4 DEF AgentsOK, FilesOf
    <3>2. reg'[TreeOf[f]][o] = reg[TreeOf[f]][o]
      BY <1>4, <1>c, <2>4, WriteIs
    <3>3. QED
      BY <1>a, <2>1, <3>1, <3>2 DEF Live
  <2>5. QED
    BY <2>3, <2>4
<1>5. ASSUME NEW w \in Agents, Pop(w)
      PROVE  Live(o, reg[TreeOf[f]][o])' /\ f \in reg'[TreeOf[f]][o].paths
  <2>1. o # w /\ f \in entitled[o] /\ UNCHANGED <<up, reg>>
    BY <1>5 DEF Pop, AgentsOK
  <2>2. QED
    BY <1>a, <2>1 DEF Live
<1>5a. ASSUME NEW w \in Agents, NEW t \in Trees, LetGo(w, t)
      PROVE  Live(o, reg[TreeOf[f]][o])' /\ f \in reg'[TreeOf[f]][o].paths
  <2>1. f \in entitled[o] /\ UNCHANGED up
    BY <1>5a DEF LetGo
  <2>2. o # w
    BY <1>5a, <2>1 DEF LetGo, Quiet
  <2>3. reg'[TreeOf[f]][o] = reg[TreeOf[f]][o]
    BY <1>5a, <1>c, <2>2, DocFields, DocWritten DEF LetGo
  <2>4. QED
    BY <1>a, <2>1, <2>3 DEF Live
<1>6. ASSUME NEW w \in Agents, SessionEnds(w)
      PROVE  Live(o, reg[TreeOf[f]][o])' /\ f \in reg'[TreeOf[f]][o].paths
  <2>1. o # w /\ f \in entitled[o] /\ UNCHANGED reg /\ up'[o] = up[o]
    BY <1>6 DEF SessionEnds, AgentsOK
  <2>2. QED
    BY <1>a, <2>1 DEF Live
<1>7. ASSUME NEW t \in Trees, NEW w \in Agents, Age(t, w)
      PROVE  Live(o, reg[TreeOf[f]][o])' /\ f \in reg'[TreeOf[f]][o].paths
  <2>1. f \in entitled[o] /\ (o # w \/ TreeOf[f] # t) /\ UNCHANGED up
    BY <1>7, <1>b DEF Age, AgentsOK, FilesOf
  <2>2. reg'[TreeOf[f]][o] = reg[TreeOf[f]][o]
    BY <1>7, <1>c, <2>1 DEF Age, RegOK
  <2>3. QED
    BY <1>a, <2>1, <2>2 DEF Live
<1>8. QED
  BY <1>1, <1>2, <1>3, <1>4, <1>5, <1>5a, <1>6, <1>7
     DEF ClaimsNext, claimVars, CallStep, Begin, Beat, Screen, Lock, BreakMutex, GiveUp, Reap,
         Check, Keep, Index, Unlock, Act, HookLost, ReleaseLost, AgeMutex

(* A call that has still to note its tree goes on doing so, or has done.   *)
LEMMA NotingStep ==
  ASSUME ClaimsTyped, CallsOK, NEW c \in Calls, CallStep(c),
         NEW o \in Agents, NEW t \in Trees, Noting(o, t)
  PROVE  Noting(o, t)' \/ t \in index'[o] \cup {Project} \/ t \in stray'[o]
<1> USE CallDomain DEF ClaimsTyped, CallStatesOK
<1>1. PICK d \in Calls :
        /\ Owner[d] = o /\ Tree(d) = t
        /\ call[d].at = "index" \/ (call[d].at = "unlock" /\ IsEdit(d) /\ call[d].kept # {})
  BY DEF Noting
<1>2. CASE d # c
  <2>1. call'[d] = call[d]
    BY <1>2, OthersStay
  <2>2. QED
    BY <1>1, <2>1 DEF Noting, Tree, IsEdit
<1>3. CASE d = c /\ HookLost(c)
  <2>1. stray' = [stray EXCEPT ![Me(c)] = @ \cup ({Tree(c)} \ {Project})]
    BY <1>1, <1>3 DEF HookLost, Strays
  <2>2. QED
    BY <1>1, <1>3, <2>1 DEF Me, AgentsOK
<1>4. CASE d = c /\ call[c].at = "index" /\ ~HookLost(c)
  <2>1. Index(c)
    BY <1>4 DEF CallStep, Begin, Beat, Refresh, Screen, Lock, BreakMutex, GiveUp, Reap, Unlink,
                Check, Keep, Write, Unlock, Act
  <2>2. \/ index' = [index EXCEPT ![Me(c)] = @ \cup ({Tree(c)} \ {Project})]
        \/ stray' = [stray EXCEPT ![Me(c)] = @ \cup {Tree(c)}]
    BY <2>1 DEF Index, Strays
  <2>3. QED
    BY <1>1, <1>4, <2>2 DEF Me, AgentsOK
<1>5. CASE d = c /\ call[c].at = "unlock" /\ ~HookLost(c)
  <2>1. Unlock(c)
    BY <1>5 DEF CallStep, Begin, Beat, Refresh, Screen, Lock, BreakMutex, GiveUp, Reap, Unlink,
                Check, Keep, Write, Index, Act
  <2>2. call' = [call EXCEPT ![c] = [call[c] EXCEPT !.at = "index", !.holds = FALSE]]
    BY <1>1, <1>5, <2>1 DEF Unlock
  <2>3. call'[c].at = "index" /\ call'[c].tree = call[c].tree
    BY <2>2
  <2>4. QED
    BY <1>1, <1>5, <2>3 DEF Noting, Tree
<1>6. QED
  BY <1>1, <1>2, <1>3, <1>4, <1>5

(* What a step makes stray stays so.                                       *)
LEMMA StraysStay ==
  ASSUME ClaimsTyped, [ClaimsNext]_claimVars
  PROVE  \A o \in Agents : stray[o] \subseteq stray'[o]
<1> USE DEF ClaimsTyped, AgentsOK
<1>1. ASSUME NEW w, NEW S, Strays(w, S) PROVE \A o \in Agents : stray[o] \subseteq stray'[o]
  BY <1>1 DEF Strays
<1>2. UNCHANGED stray \/ \E w, S : Strays(w, S)
  <2>1. CASE \E c \in Calls : HookLost(c)
    BY <2>1, Zenon DEF HookLost
  <2>2. CASE \E c \in Calls : Index(c)
    BY <2>2, Zenon DEF Index
  <2>3. CASE \E w \in Agents : Pop(w) \/ ReleaseLost(w) \/ SessionEnds(w)
    BY <2>3, Zenon DEF Pop, ReleaseLost, SessionEnds
  <2>4. CASE \E w \in Agents, t \in Trees : LetGo(w, t)
    BY <2>4, Zenon DEF LetGo
  <2>5. QED
    BY <2>1, <2>2, <2>3, <2>4
       DEF ClaimsNext, claimVars, CallStep, Begin, Beat, Refresh, Screen, Lock, BreakMutex,
           GiveUp, Reap, Unlink, Check, Keep, Write, Unlock, Act, Age, AgeMutex
<1>3. QED
  BY <1>1, <1>2

(* Every step keeps a finished agent quiet.                                *)
LEMMA QuietStep ==
  ASSUME ClaimsTyped, CallsOK, Quiet, [ClaimsNext]_claimVars
  PROVE  Quiet'
<1> USE DEF ClaimsTyped, AgentsOK, CallStatesOK
<1>1. ASSUME NEW c \in Calls, CallStep(c) PROVE Quiet'
  <2>1. UNCHANGED <<working, left>> /\ \A d \in Calls : d # c => call'[d] = call[d]
    <3>1. UNCHANGED left
      BY <1>1 DEF CallStep, Begin, Beat, Refresh, Screen, Lock, BreakMutex, GiveUp, Reap, Unlink,
                  Check, Keep, Write, Index, Unlock, Act, HookLost
    <3>2. QED
      BY <1>1, <3>1, OthersStay
  <2>2. working[Me(c)] /\ Me(c) \in Agents
    <3>1. CASE Begin(c)
      BY <3>1, ClaimsAssumption DEF Begin, Me
    <3>2. CASE call[c].at # "idle"
      BY <3>2, ClaimsAssumption DEF Quiet, Me
    <3>3. QED
      BY <1>1, <3>1, <3>2
         DEF CallStep, Beat, Refresh, Screen, Lock, BreakMutex, GiveUp, Reap, Unlink, Check,
             Keep, Write, Index, Unlock, Act, HookLost
  <2>3. \A o \in Agents : o # Me(c) => entitled'[o] = entitled[o]
    BY <1>1 DEF CallStep, Begin, Beat, Refresh, Screen, Lock, BreakMutex, GiveUp, Reap, Unlink,
                Check, Keep, Write, Index, Unlock, Act, HookLost
  <2>4. QED
    BY <2>1, <2>2, <2>3 DEF Quiet, Me
<1>2. ASSUME NEW w \in Agents, Pop(w) PROVE Quiet'
  BY <1>2 DEF Pop, Quiet
<1>3. ASSUME NEW w \in Agents, NEW t \in Trees, LetGo(w, t) PROVE Quiet'
  BY <1>3 DEF LetGo, Quiet
<1>4. ASSUME NEW w \in Agents, ReleaseLost(w) PROVE Quiet'
  BY <1>4 DEF ReleaseLost, Quiet
<1>5. ASSUME NEW w \in Agents, SessionEnds(w) PROVE Quiet'
  BY <1>5, IdleIs DEF SessionEnds, Quiet
<1>6. ASSUME NEW t \in Trees, NEW w \in Agents, Age(t, w) PROVE Quiet'
  BY <1>6 DEF Age, Quiet
<1>7. ASSUME UNCHANGED <<left, working, entitled, call>> PROVE Quiet'
  BY <1>7 DEF Quiet
<1>8. QED
  BY <1>1, <1>2, <1>3, <1>4, <1>5, <1>6, <1>7 DEF ClaimsNext, claimVars, AgeMutex

(* An owner file is where it will be looked for.                           *)
LEMMA DocsFoundStep ==
  ASSUME ClaimsTyped, CallsOK, DocsWhole, Quiet, DocsFound, [ClaimsNext]_claimVars
  PROVE  DocsFound'
<1> USE ClaimsAssumption DEF ClaimsTyped
<1> SUFFICES ASSUME NEW o \in Agents, NEW t \in Trees, reg'[t][o].there
             PROVE  Findable(o, t)'
  BY DEF DocsFound
<1>a. reg[t][o].there => Findable(o, t)
  BY DEF DocsFound
<1>c. t \in stray[o] => Findable(o, t)'
  BY StraysStay DEF Findable
<1>b. ASSUME NEW c \in Calls
      PROVE  /\ call[c] \in CallStates /\ Tree(c) \in Trees /\ Me(c) \in Agents
             /\ call[c].seen \in Doc
  BY CallFields DEF CallStatesOK, Me, Tree
<1>1. ASSUME NEW c \in Calls, CallStep(c), reg[t][o].there PROVE Findable(o, t)'
  <2>1. UNCHANGED <<working, up, left>>
    <3>1. UNCHANGED left
      BY <1>1 DEF CallStep, Begin, Beat, Refresh, Screen, Lock, BreakMutex, GiveUp, Reap, Unlink,
                  Check, Keep, Write, Index, Unlock, Act, HookLost
    <3>2. QED
      BY <1>1, <3>1, OthersStay
  <2>2. index[o] \subseteq index'[o]
    <3>1. UNCHANGED index \/ index' = [index EXCEPT ![Me(c)] = @ \cup ({Tree(c)} \ {Project})]
      BY <1>1 DEF CallStep, Begin, Beat, Refresh, Screen, Lock, BreakMutex, GiveUp, Reap, Unlink,
                  Check, Keep, Write, Index, Unlock, Act, HookLost
    <3>2. QED
      BY <1>b, <3>1 DEF AgentsOK
  <2>3. QED
    BY <1>a, <1>c, <1>1, <2>1, <2>2, NotingStep DEF Findable
<1>2. ASSUME NEW c \in Calls, CallStep(c), ~reg[t][o].there PROVE Findable(o, t)'
  <2>1. UNCHANGED <<working, up>>
    BY <1>2, OthersStay
  <2>2. CASE Refresh(c)
    <3>1. /\ reg' = [reg EXCEPT ![Project][Me(c)] = [call[c].seen EXCEPT !.fresh = TRUE]]
          /\ working[Me(c)]
      BY <2>2 DEF Refresh, CallsOK, CallOK
    <3>2. t = Project /\ o = Me(c)
      BY <1>2, <1>b, <3>1 DEF RegOK
    <3>3. QED
      BY <2>1, <3>1, <3>2 DEF Findable
  <2>3. CASE Write(c)
    <3>1. t = Tree(c) /\ o = Me(c) /\ working[Me(c)]
      BY <1>2, <2>3, WriteIs DEF Write, CallsOK, CallOK
    <3>2. /\ call' = [call EXCEPT ![c].at = IF IsEdit(c) THEN "unlock" ELSE "index"]
          /\ call[c].kept # {}
      BY <2>3 DEF Write, Go, CallsOK, CallOK
    <3>3. /\ call'[c].tree = call[c].tree /\ call'[c].kept = call[c].kept
          /\ call'[c].kind = call[c].kind
          /\ call'[c].at = IF IsEdit(c) THEN "unlock" ELSE "index"
      BY <1>b, <3>2, CallDomain DEF CallStatesOK
    <3>4. Noting(o, t)'
      BY <3>1, <3>2, <3>3 DEF Noting, Tree, Me, IsEdit
    <3>5. QED
      BY <2>1, <3>1, <3>4 DEF Findable
  <2>4. CASE Unlink(c)
    <3>1. reg'[t][o] = reg[t][o] \/ reg'[t][o] = NoDoc
      BY <2>4, <1>b DEF Unlink, RegOK
    <3>2. QED
      BY <1>2, <3>1 DEF NoDoc
  <2>5. CASE UNCHANGED reg
    BY <1>2, <2>5
  <2>6. QED
    BY <1>2, <2>2, <2>3, <2>4, <2>5
       DEF CallStep, Begin, Beat, Screen, Lock, BreakMutex, GiveUp, Reap, Check, Keep, Index,
           Unlock, Act, HookLost
<1>3. ASSUME NEW w \in Agents, Pop(w) PROVE Findable(o, t)'
  <2>1. reg[t][o].there /\ UNCHANGED <<reg, up, call>> /\ working[w] /\ up[w]
    BY <1>3 DEF Pop
  <2>2. CASE o = w
    <3>1. ~Noting(o, t)
      BY <1>3, <2>2 DEF Pop, Noting
    <3>2. ~working'[o]
      BY <1>3, <2>2 DEF Pop, AgentsOK
    <3>3. t \in stray[o] \/ t \in index[o] \cup {Project}
      BY <1>a, <2>1, <2>2, <3>1 DEF Findable
    <3>4. CASE left' = [left EXCEPT ![w] = index[w] \cup {Project}]
      BY <1>c, <2>2, <3>2, <3>3, <3>4 DEF Findable, AgentsOK
    <3>5. CASE left' = [left EXCEPT ![w] = {Project}] /\ Strays(w, index[w])
      BY <1>c, <2>2, <3>2, <3>3, <3>5 DEF Findable, AgentsOK, Strays
    <3>6. QED
      BY <1>3, <3>4, <3>5 DEF Pop
  <2>3. CASE o # w
    <3>1. working'[o] = working[o] /\ index'[o] = index[o] /\ left'[o] = left[o]
      BY <1>3, <2>3 DEF Pop, AgentsOK
    <3>2. Noting(o, t) => Noting(o, t)'
      BY <2>1 DEF Noting, Tree, IsEdit
    <3>3. QED
      BY <1>a, <1>c, <2>1, <3>1, <3>2 DEF Findable
  <2>4. QED
    BY <2>2, <2>3
<1>3a. ASSUME NEW w \in Agents, NEW u \in Trees, LetGo(w, u) PROVE Findable(o, t)'
  <2>1. UNCHANGED <<working, up, index, call>> /\ left' = [left EXCEPT ![w] = @ \ {u}]
    BY <1>3a DEF LetGo
  <2>2. Noting(o, t) => Noting(o, t)'
    BY <2>1 DEF Noting, Tree, IsEdit
  <2>3. CASE o = w /\ t = u
    <3>1. ~(reg' = [reg EXCEPT ![u][w] = NoDoc])
      BY <2>3, DocFields, DocWritten DEF NoDoc
    <3>2. Strays(w, {u})
      BY <1>3a, <3>1 DEF LetGo
    <3>3. QED
      BY <2>3, <3>2 DEF Strays, Findable, AgentsOK
  <2>4. CASE o # w \/ t # u
    <3>1. reg[t][o].there
      BY <1>3a, <2>4, DocFields, DocWritten DEF LetGo
    <3>2. t \in left[o] => t \in left'[o]
      BY <2>1, <2>4 DEF AgentsOK
    <3>3. QED
      BY <1>a, <1>c, <2>1, <2>2, <3>1, <3>2 DEF Findable
  <2>5. QED
    BY <2>3, <2>4
<1>3b. ASSUME NEW w \in Agents, ReleaseLost(w) PROVE Findable(o, t)'
  <2>1. /\ UNCHANGED <<reg, working, up, index, call>> /\ reg[t][o].there
        /\ left' = [left EXCEPT ![w] = {}] /\ Strays(w, left[w])
    BY <1>3b DEF ReleaseLost
  <2>2. Noting(o, t) => Noting(o, t)'
    BY <2>1 DEF Noting, Tree, IsEdit
  <2>3. t \in left[o] => t \in left'[o] \/ t \in stray'[o]
    BY <2>1 DEF AgentsOK, Strays
  <2>4. QED
    BY <1>a, <1>c, <2>1, <2>2, <2>3 DEF Findable
<1>4. ASSUME NEW w \in Agents, SessionEnds(w) PROVE Findable(o, t)'
  <2>1. reg[t][o].there /\ UNCHANGED <<working, index>> /\ (o # w => up'[o] = up[o]) /\ ~up'[w]
    BY <1>4 DEF SessionEnds, AgentsOK
  <2>2. ASSUME o # w, Noting(o, t) PROVE Noting(o, t)'
    <3>1. \A c \in Calls : Owner[c] = o => call'[c] = call[c]
      BY <1>4, <2>2 DEF SessionEnds
    <3>2. QED
      BY <2>2, <3>1 DEF Noting, Tree, IsEdit
  <2>3. t \in left[o] => t \in left'[o] \/ t \in stray'[o]
    BY <1>4 DEF SessionEnds, AgentsOK, Strays
  <2>4. QED
    BY <1>a, <1>c, <2>1, <2>2, <2>3 DEF Findable
<1>5. ASSUME NEW u \in Trees, NEW w \in Agents, Age(u, w) PROVE Findable(o, t)'
  <2>1. reg[u][w] \in Doc /\ UNCHANGED <<working, up, index, call, left, stray>>
        /\ reg' = [reg EXCEPT ![u][w] = [reg[u][w] EXCEPT !.fresh = FALSE]]
    BY <1>5 DEF Age, RegOK
  <2>2. \/ reg'[t][o] = reg[t][o]
        \/ t = u /\ o = w /\ reg'[t][o] = [reg[u][w] EXCEPT !.fresh = FALSE]
    BY <2>1 DEF RegOK
  <2>3. reg[t][o].there
    BY <2>1, <2>2, DocDomain
  <2>4. QED
    BY <1>a, <2>1, <2>3 DEF Findable, Noting, Tree, IsEdit
<1>6. ASSUME UNCHANGED <<reg, working, up, index, call, left, stray>> PROVE Findable(o, t)'
  BY <1>a, <1>6 DEF Findable, Noting, Tree, IsEdit
<1>7. QED
  BY <1>1, <1>2, <1>3, <1>3a, <1>3b, <1>4, <1>5, <1>6 DEF ClaimsNext, claimVars, AgeMutex

(* The inductive invariant of the claims holds.                            *)
LEMMA ClaimsInvInit == ClaimsInit => ClaimsInv
<1> SUFFICES ASSUME ClaimsInit PROVE ClaimsInv
  OBVIOUS
<1> USE ClaimsAssumption DEF ClaimsInit
<1>1. ClaimsTyped
  <2>1. NoDoc \in Doc /\ NoMutex \in MutexFiles /\ Idle \in CallStates
    BY DocFields, MutexFilesAre, CallPlaces DEF CallStates, Idle, Kinds
  <2>2. RegOK /\ MutexFilesOK /\ CallStatesOK /\ AgentsOK
    BY <2>1 DEF RegOK, MutexFilesOK, CallStatesOK, AgentsOK
  <2>3. CountsOK
    BY DEF CountsOK
  <2>4. QED
    BY <2>2, <2>3 DEF ClaimsTyped
<1>2. \A t \in Trees, o \in Agents : reg[t][o] = NoDoc
  OBVIOUS
<1>3. CallsOK
  BY IdleIs DEF CallsOK, CallOK, Tree
<1>4. DocsWhole
  BY <1>2 DEF DocsWhole
<1>5. MutexOne /\ KeptFree
  BY IdleIs DEF MutexOne, KeptFree, Critical
<1>6. OneOwner /\ DocsFound
  BY <1>2 DEF OneOwner, DocsFound, Live, NoDoc
<1>7. Quiet /\ Granted
  BY DEF Quiet, Granted
<1>8. QED
  BY <1>1, <1>3, <1>4, <1>5, <1>6, <1>7 DEF ClaimsInv

(* Every step keeps the invariant.                                         *)
LEMMA ClaimsInvStep == ClaimsInv /\ [ClaimsNext]_claimVars => ClaimsInv'
BY ClaimsTypedStep, CallsOKStep, DocsWholeStep, MutexOneStep, OwnersStep, QuietStep,
   DocsFoundStep, GrantedStep DEF ClaimsInv

(* fleet_claims.py: what every call at every place knows of the owner      *)
(* files and of the mutex of their tree.                                   *)
THEOREM ClaimsInvariant == ClaimsSpec => []ClaimsInv
BY ClaimsInvInit, ClaimsInvStep, PTL DEF ClaimsSpec

(* Every variable keeps its type.                                          *)
THEOREM ClaimsTypeCorrect == ClaimsSpec => []ClaimsTypeOK
<1>1. ClaimsInv => ClaimsTypeOK
  BY DEF ClaimsInv, ClaimsTyped, RegOK, MutexFilesOK, CallStatesOK, AgentsOK, CountsOK,
         ClaimsTypeOK
<1>2. QED
  BY <1>1, ClaimsInvariant, PTL

(* fleet_claims.py:decide_edit, claim_shell: no file has two live owners.  *)
THEOREM FilesHaveOneOwner == ClaimsSpec => []OneOwner
<1>1. ClaimsInv => OneOwner
  BY DEF ClaimsInv
<1>2. QED
  BY <1>1, ClaimsInvariant, PTL

(* fleet_claims.py:claim, run_release_hook: a granted claim stays until    *)
(* its time, its session or its agent ends; a finished agent leaves one    *)
(* only where its release is still to come or was lost by a fault.         *)
THEOREM ClaimsLastAsTheirAgents == ClaimsSpec => []ClaimsLast
<1>1. ClaimsInv => ClaimsLast
  BY DEF ClaimsInv, ClaimsLast, DocsFound, Findable, Granted
<1>2. QED
  BY <1>1, ClaimsInvariant, PTL

----------------------------------------------------------------------------
(* The inbox reader.  The types, in parts.                                 *)
NotesOK ==
  /\ notes \in [Names -> Versions \cup {Absent}] /\ seen \in [Names -> Versions \cup {Absent}]
  /\ listable \in BOOLEAN
ReportedOK == reported \in [keys : SUBSET Names, usable : BOOLEAN]
RowsOK == rows \in Seq(Rows) /\ Len(rows) <= MaxTracked
ReadersOK == reader \in [Readers -> ReaderStates]
ToldOK ==
  /\ told \in SUBSET (Names \X Versions) /\ printed \in [Sessions -> SUBSET Events]
  /\ owed \in SUBSET Names /\ mishap \in SUBSET {"crossed", "raced", "blind", "unmarked"}
  /\ changes \in 0 .. MaxChanges /\ mishaps \in 0 .. MaxMishaps
InboxTyped == NotesOK /\ ReportedOK /\ RowsOK /\ ReadersOK /\ ToldOK

(* Where a reader may be, and the fields of its record.                    *)
LEMMA ReaderPlaces ==
  {"off", "list", "blind", "gone", "print", "record", "add", "cache", "mark", "prune", "drop"}
    \subseteq Places
BY DEF Places

(* The fields of the record of a reader.                                   *)
LEMMA ReaderDomain ==
  \A x \in ReaderStates :
    DOMAIN x = {"at", "mode", "entries", "gone", "usable", "shown", "known", "keys"}
BY DEF ReaderStates

(* What the record of a reader says.                                       *)
LEMMA ReaderFields ==
  \A x \in ReaderStates :
    /\ x.at \in Places /\ x.mode \in {"quiet", "report", "mark"}
    /\ x.entries \in SUBSET (Names \X Versions) /\ x.gone \in SUBSET Names
    /\ x.usable \in BOOLEAN /\ x.shown \in SUBSET Names /\ x.known \in SUBSET Names
    /\ x.keys \in SUBSET Events
BY DEF ReaderStates

(* The record of a reader that is not running, and of one that opens.      *)
LEMMA OffIs ==
  /\ Off \in ReaderStates /\ Off.at = "off" /\ Off.keys = {}
  /\ \A m \in {"quiet", "report", "mark"} :
         LET x == [Off EXCEPT !.at = "list", !.mode = m]
         IN  x \in ReaderStates /\ x.at = "list" /\ x.keys = {}
BY ReaderPlaces DEF Off, ReaderStates

(* What the steps make of the record of a reader is one.                   *)
LEMMA ReadersBecome ==
  ASSUME NEW x \in ReaderStates, NEW p \in Places
  PROVE  /\ [x EXCEPT !.at = p] \in ReaderStates
         /\ \A e \in SUBSET (Names \X Versions) :
                [x EXCEPT !.at = p, !.entries = e] \in ReaderStates
         /\ \A k \in SUBSET Events : [x EXCEPT !.at = p, !.keys = k] \in ReaderStates
         /\ \A k \in SUBSET Names : [x EXCEPT !.known = k, !.at = p] \in ReaderStates
         /\ \A k \in SUBSET Names : [x EXCEPT !.at = p, !.known = k] \in ReaderStates
         /\ [x EXCEPT !.at = p, !.known = {}, !.shown = {}] \in ReaderStates
         /\ [x EXCEPT !.at = p, !.shown = {}] \in ReaderStates
         /\ [x EXCEPT !.at = p, !.gone = {}] \in ReaderStates
BY DEF ReaderStates

(* What is cached of a report is an event.                                 *)
LEMMA EventsAre ==
  /\ \A e \in Names \X Versions : UnreadKey(e) \in Events
  /\ \A n \in Names : GoneKey(n) \in Events
  /\ BlindKey \in Events
BY DEF UnreadKey, GoneKey, BlindKey, Events

(* A report names or counts what the reader has found; what it names is    *)
(* what counts as shown.                                                   *)
ReportsAs(r, shown) ==
  LET keys == {UnreadKey(e) : e \in shown} \cup {GoneKey(n) : n \in reader[r].gone}
  IN  /\ Prints(r, keys)
      /\ Turn(r, [reader[r] EXCEPT
           !.entries = {}, !.shown = NamesOf(shown),
           !.keys = IF Suppresses(r) THEN keys ELSE {},
           !.gone = IF reader[r].mode = "mark" THEN @ ELSE {},
           !.at = IF shown # {} THEN "record" ELSE "cache"])

(* A report is one of a choice of what is shown.                           *)
LEMMA ReportIs ==
  ASSUME NEW r \in Readers, Report(r)
  PROVE  \E shown \in SUBSET reader[r].entries : ReportsAs(r, shown)
<1>1. PICK listed \in SUBSET reader[r].entries, written \in BOOLEAN :
        ReportsAs(r, ShownNow(listed, reader[r].entries, written))
  BY ZenonT(40) DEF Report, ReportsAs
<1>2. ShownNow(listed, reader[r].entries, written) \in SUBSET reader[r].entries
  BY DEF ShownNow
<1>3. QED
  BY <1>1, <1>2

(* What a report makes of the record of its reader.                        *)
LEMMA ReportedReader ==
  ASSUME InboxTyped, NEW r \in Readers, NEW shown \in SUBSET reader[r].entries,
         ReportsAs(r, shown)
  PROVE  LET keys == {UnreadKey(e) : e \in shown} \cup {GoneKey(n) : n \in reader[r].gone}
             x == reader'[r]
         IN  /\ reader' = [reader EXCEPT ![r] = x] /\ x \in ReaderStates
             /\ keys \in SUBSET Events
             /\ x.mode = reader[r].mode /\ x.at \in {"record", "cache"} /\ x.entries = {}
             /\ x.shown = NamesOf(shown) /\ x.keys \in {keys, {}}
             /\ (x.keys # {} => Suppresses(r))
             /\ x.gone \in {reader[r].gone, {}} /\ x.usable = reader[r].usable
             /\ (x.mode = "mark" => x.gone = reader[r].gone)
<1> DEFINE keys == {UnreadKey(e) : e \in shown} \cup {GoneKey(n) : n \in reader[r].gone}
           k == IF Suppresses(r) THEN keys ELSE {}
           g == IF reader[r].mode = "mark" THEN reader[r].gone ELSE {}
           p == IF shown # {} THEN "record" ELSE "cache"
           x == [reader[r] EXCEPT !.entries = {}, !.shown = NamesOf(shown), !.keys = k,
                                  !.gone = g, !.at = p]
<1>1. reader[r] \in ReaderStates
  BY DEF InboxTyped, ReadersOK
<1>2. keys \in SUBSET Events
  BY <1>1, ReaderFields, EventsAre
<1>3. NamesOf(shown) \in SUBSET Names
  <2>1. \A e \in shown : e \in Names \X Versions
    BY <1>1, ReaderFields
  <2>2. \A e \in shown : e[1] \in Names
    BY <2>1
  <2>3. QED
    BY <2>2 DEF NamesOf
<1>4. reader' = [reader EXCEPT ![r] = x]
  BY DEF ReportsAs, Turn
<1>5. k \in SUBSET Events /\ k \in {keys, {}} /\ (k # {} => Suppresses(r))
  BY <1>2
<1>6. p \in Places /\ p \in {"record", "cache"}
  BY ReaderPlaces
<1>7. /\ g \in SUBSET Names /\ g \in {reader[r].gone, {}}
      /\ reader[r].mode = "mark" => g = reader[r].gone
  BY <1>1, ReaderFields
<1> HIDE DEF k, g, p, keys
<1>8. x \in ReaderStates
  BY <1>1, <1>3, <1>5, <1>6, <1>7 DEF ReaderStates
<1>9. reader'[r] = x
  BY <1>4 DEF InboxTyped, ReadersOK
<1>10. /\ x.mode = reader[r].mode /\ x.at = p /\ x.entries = {} /\ x.shown = NamesOf(shown)
       /\ x.keys = k /\ x.gone = g /\ x.usable = reader[r].usable
  BY <1>1, ReaderDomain
<1> HIDE DEF x
<1>11. QED
  BY <1>2, <1>4, <1>5, <1>6, <1>7, <1>8, <1>9, <1>10 DEF keys

----------------------------------------------------------------------------
(* The inbox reader.  Which reader marks, and what it carries.             *)
MarkMode ==
  \A r \in Readers : reader[r].at \in {"mark", "prune", "drop"} => reader[r].mode = "mark"
Working(r, places) == reader[r].mode = "mark" /\ reader[r].at \in places

(* What the watermark holds has been told, and what a --mark will add has  *)
(* been, or is among what it is about to tell.                             *)
Telling(r) ==
  /\ Working(r, {"gone", "print"}) =>
       \A n \in Here : <<n, notes[n]>> \in told \cup reader[r].entries
  /\ Working(r, {"record", "add", "cache", "mark"}) => \A n \in Here : <<n, notes[n]>> \in told
SeenTold ==
  "raced" \notin mishap =>
    /\ \A n \in Marked : <<n, seen[n]>> \in told
    /\ \A r \in Readers : Telling(r)

(* Only what the session was shown is, or is about to be, in its row; and  *)
(* a session has one row.                                                  *)
RowsShown ==
  /\ \A i \in DOMAIN rows : rows[i].shown \subseteq printed[rows[i].id]
  /\ \A i, j \in DOMAIN rows : rows[i].id = rows[j].id => i = j
KeysShown ==
  \A r \in Readers :
    reader[r].keys # {} =>
      SessionOf[r] # NoSession /\ reader[r].keys \subseteq printed[SessionOf[r]]

(* A --mark knows of every withdrawal that it ends, and shows only what is *)
(* there; once it has marked, nothing is owed but what is there.           *)
Carrying(r) ==
  /\ Working(r, {"gone", "print"}) => NamesOf(reader[r].entries) \subseteq Here
  /\ Working(r, {"record", "add"}) => reader[r].shown \subseteq Here
  /\ Working(r, {"print", "record", "add", "cache", "mark"}) =>
       /\ Marked \ Here \subseteq reader[r].gone
       /\ reader[r].usable => reported.keys \ Here \subseteq reader[r].gone
  /\ Working(r, {"prune", "drop"}) => Marked = Here /\ owed \subseteq Here
Carried == mishap = {} => \A r \in Readers : Carrying(r)

InboxInv == InboxTyped /\ MarkMode /\ SeenTold /\ RowsShown /\ KeysShown /\ Carried /\ GoneCarried

(* A sequence without one of its places, and the end of a sequence.        *)
LEMMA WithoutIs ==
  ASSUME NEW S, NEW w \in Seq(S), NEW i \in DOMAIN w
  PROVE  /\ Without(w, i) \in Seq(S) /\ Len(Without(w, i)) = Len(w) - 1
         /\ \A k \in 1 .. Len(w) - 1 : Without(w, i)[k] = IF k < i THEN w[k] ELSE w[k + 1]
<1> DEFINE u == SubSeq(w, 1, i - 1)
           v == SubSeq(w, i + 1, Len(w))
<1>1. i \in 1 .. Len(w) /\ Len(w) \in Nat
  OBVIOUS
<1>2. /\ u \in Seq(S) /\ Len(u) = i - 1 /\ \A k \in 1 .. i - 1 : u[k] = w[k]
  BY <1>1
<1>3. /\ v \in Seq(S) /\ Len(v) = Len(w) - i /\ \A k \in 1 .. Len(w) - i : v[k] = w[k + i]
  BY <1>1
<1> HIDE DEF u, v
<1>4. /\ u \o v \in Seq(S) /\ Len(u \o v) = Len(w) - 1
      /\ \A k \in 1 .. Len(w) - 1 : (u \o v)[k] = IF k <= Len(u) THEN u[k] ELSE v[k - Len(u)]
  BY <1>1, <1>2, <1>3, SMTT(20)
<1>5. ASSUME NEW k \in 1 .. Len(w) - 1
      PROVE  (u \o v)[k] = IF k < i THEN w[k] ELSE w[k + 1]
  <2>1. CASE k < i
    BY <1>1, <1>2, <1>4, <1>5, <2>1
  <2>2. CASE ~(k < i)
    <3>1. k - (i - 1) \in 1 .. Len(w) - i
      BY <1>1, <1>5, <2>2
    <3>2. v[k - (i - 1)] = w[k - (i - 1) + i]
      BY <1>3, <3>1
    <3>3. k - (i - 1) + i = k + 1
      BY <1>1, <1>5
    <3>4. QED
      BY <1>1, <1>2, <1>4, <1>5, <2>2, <3>2, <3>3
  <2>3. QED
    BY <2>1, <2>2
<1>6. QED
  BY <1>4, <1>5 DEF Without, u, v

(* How many are left out in front of the end of a sequence.                *)
LeftOut(w, n) == IF Len(w) <= n THEN 0 ELSE Len(w) - n

(* The end of a sequence, of no more than n places.                        *)
LEMMA LastIs ==
  ASSUME NEW S, NEW w \in Seq(S), NEW n \in Nat, n > 0
  PROVE  /\ Last(w, n) \in Seq(S) /\ Len(Last(w, n)) <= n
         /\ LeftOut(w, n) \in Nat /\ Len(Last(w, n)) + LeftOut(w, n) = Len(w)
         /\ \A k \in 1 .. Len(Last(w, n)) : Last(w, n)[k] = w[k + LeftOut(w, n)]
<1>1. CASE Len(w) <= n
  <2>1. Last(w, n) = w /\ LeftOut(w, n) = 0
    BY <1>1 DEF Last, LeftOut
  <2>2. Len(w) + 0 = Len(w) /\ \A k \in 1 .. Len(w) : w[k] = w[k + 0]
    OBVIOUS
  <2>3. QED
    BY <1>1, <2>1, <2>2
<1>2. CASE ~(Len(w) <= n)
  <2> DEFINE d == Len(w) - n
  <2>1. Last(w, n) = SubSeq(w, d + 1, Len(w)) /\ LeftOut(w, n) = d
    BY <1>2 DEF Last, LeftOut
  <2>2. d \in Nat /\ d + 1 \in 1 .. Len(w)
    BY <1>2
  <2>3. /\ SubSeq(w, d + 1, Len(w)) \in Seq(S) /\ Len(SubSeq(w, d + 1, Len(w))) = n
        /\ \A k \in 1 .. n : SubSeq(w, d + 1, Len(w))[k] = w[k + d]
    BY <1>2, <2>2
  <2>4. n + d = Len(w)
    BY <2>2
  <2> HIDE DEF d
  <2>5. QED
    BY <2>1, <2>2, <2>3, <2>4
<1>3. QED
  BY <1>1, <1>2

(* record_shown: the new rows are old ones of other sessions, in order,    *)
(* and last the row of the session.                                        *)
LEMMA RenewedIs ==
  ASSUME InboxTyped, NEW r \in Readers, SessionOf[r] # NoSession, NEW keys \in SUBSET Events,
         \A i, j \in DOMAIN rows : rows[i].id = rows[j].id => i = j
  PROVE  LET new == Renewed(r, keys)
         IN  /\ new \in Seq(Rows) /\ Len(new) <= MaxTracked
             /\ \A k \in DOMAIN new :
                    \/ /\ new[k].id = SessionOf[r] /\ new[k].shown = Shown(r) \cup keys
                    \/ /\ new[k].id # SessionOf[r]
                       /\ \E i \in DOMAIN rows : new[k] = rows[i]
             /\ \A k, l \in DOMAIN new : new[k].id = new[l].id => k = l
<1> DEFINE mine == RowOf(SessionOf[r])
           i0 == CHOOSE i \in mine : TRUE
           other == IF mine = {} THEN rows ELSE Without(rows, i0)
           own == [id |-> SessionOf[r], shown |-> Shown(r) \cup keys]
           new == Last(Append(other, own), MaxTracked)
<1>1. rows \in Seq(Rows) /\ SessionOf[r] \in Sessions /\ MaxTracked \in Nat /\ MaxTracked > 0
  BY InboxAssumption DEF InboxTyped, RowsOK
<1>2. own \in Rows
  <2>1. \A i \in DOMAIN rows : rows[i].shown \in SUBSET Events
    <3>1. \A i \in DOMAIN rows : rows[i] \in Rows
      BY <1>1
    <3>2. QED
      BY <3>1 DEF Rows
  <2>2. Shown(r) \in SUBSET Events
    BY <2>1 DEF Shown, RowOf
  <2>3. QED
    BY <1>1, <2>2 DEF Rows
<1>3. /\ other \in Seq(Rows)
      /\ \A k \in DOMAIN other : other[k].id # SessionOf[r]
      /\ \A k \in DOMAIN other : \E i \in DOMAIN rows : other[k] = rows[i]
      /\ \A k, l \in DOMAIN other : other[k].id = other[l].id => k = l
  <2>1. CASE mine = {}
    BY <1>1, <2>1 DEF RowOf
  <2>2. CASE mine # {}
    <3>1. i0 \in DOMAIN rows /\ rows[i0].id = SessionOf[r]
      BY <2>2 DEF RowOf
    <3> HIDE DEF i0
    <3>2. /\ other = Without(rows, i0) /\ other \in Seq(Rows) /\ Len(other) = Len(rows) - 1
          /\ \A k \in 1 .. Len(rows) - 1 :
                 other[k] = IF k < i0 THEN rows[k] ELSE rows[k + 1]
      BY <1>1, <2>2, <3>1, WithoutIs
    <3> HIDE DEF other, mine
    <3>3. DOMAIN rows = 1 .. Len(rows) /\ DOMAIN other = 1 .. Len(rows) - 1 /\ Len(rows) \in Nat
      BY <1>1, <3>2
    <3> DEFINE from(k) == IF k < i0 THEN k ELSE k + 1
    <3>4. \A k \in DOMAIN other : /\ from(k) \in DOMAIN rows /\ from(k) # i0
                                  /\ other[k] = rows[from(k)]
      BY <3>1, <3>2, <3>3
    <3>5. \A k, l \in DOMAIN other : from(k) = from(l) => k = l
      BY <3>1, <3>3
    <3> HIDE DEF from
    <3>6. QED
      BY <3>1, <3>2, <3>4, <3>5
  <2>3. QED
    BY <2>1, <2>2
<1> HIDE DEF mine, i0, other
<1> DEFINE all == Append(other, own)
<1>4. /\ all \in Seq(Rows) /\ Len(all) = Len(other) + 1
      /\ \A k \in 1 .. Len(other) : all[k] = other[k]
      /\ all[Len(all)] = own
  BY <1>2, <1>3
<1>5. own.id = SessionOf[r] /\ own.shown = Shown(r) \cup keys
  OBVIOUS
<1> HIDE DEF own, all
<1>6. /\ \A k \in 1 .. Len(all) :
             \/ all[k].id = SessionOf[r] /\ all[k].shown = Shown(r) \cup keys
             \/ all[k].id # SessionOf[r] /\ \E i \in DOMAIN rows : all[k] = rows[i]
      /\ \A k, l \in 1 .. Len(all) : all[k].id = all[l].id => k = l
  <2>1. \A k \in 1 .. Len(all) : k = Len(all) \/ k \in DOMAIN other
    BY <1>3, <1>4
  <2>2. DOMAIN other = 1 .. Len(other)
    BY <1>3
  <2>3. QED
    BY <1>3, <1>4, <1>5, <2>1, <2>2
<1>7. new = Last(all, MaxTracked)
  BY DEF all
<1> HIDE DEF new
<1>8. new \in Seq(Rows) /\ Len(new) <= MaxTracked
  <2>1. Last(all, MaxTracked) \in Seq(Rows) /\ Len(Last(all, MaxTracked)) <= MaxTracked
    BY <1>1, <1>4, LastIs
  <2>2. QED
    BY <1>7, <2>1
<1> DEFINE d == LeftOut(all, MaxTracked)
<1>9. d \in Nat /\ Len(new) + d = Len(all) /\ \A k \in 1 .. Len(new) : new[k] = all[k + d]
  BY <1>1, <1>4, <1>7, LastIs
<1> HIDE DEF d
<1>10. DOMAIN new = 1 .. Len(new) /\ Len(new) \in Nat
  BY <1>8
<1>11. \A k \in DOMAIN new : k + d \in 1 .. Len(all) /\ new[k] = all[k + d] /\ k \in Nat
  BY <1>9, <1>10
<1>12. \A k, l \in DOMAIN new : new[k].id = new[l].id => k = l
  <2> SUFFICES ASSUME NEW k \in DOMAIN new, NEW l \in DOMAIN new, new[k].id = new[l].id
               PROVE  k = l
    OBVIOUS
  <2>1. k + d = l + d
    BY <1>6, <1>11
  <2>2. QED
    BY <1>9, <1>11, <2>1
<1>13. Renewed(r, keys) = new
  BY DEF Renewed, new, own, other, mine, i0
<1>14. QED
  BY <1>6, <1>8, <1>11, <1>12, <1>13

(* A step of one reader replaces its record alone, and not the notes.      *)
LEMMA ReaderStep ==
  ASSUME InboxTyped, NEW r \in Readers, Run(r)
  PROVE  /\ \E x \in ReaderStates : reader' = [reader EXCEPT ![r] = x]
         /\ UNCHANGED <<notes, listable>>
<1> USE ReaderPlaces
<1>a. reader[r] \in ReaderStates /\ Off \in ReaderStates
  BY OffIs DEF InboxTyped, ReadersOK
<1>b. UNCHANGED <<notes, listable>>
  BY DEF Run, Open, List, SayBlind, Withdrawn, Report, RecordRead, RecordAdd, Cache, MarkSeen,
         PruneRead, PruneDrop, Killed
<1>c. Exit(r) => \E x \in ReaderStates : reader' = [reader EXCEPT ![r] = x]
  BY <1>a DEF Exit, Turn
<1>d. ASSUME NEW x \in ReaderStates, Turn(r, x)
      PROVE  \E z \in ReaderStates : reader' = [reader EXCEPT ![r] = z]
  BY <1>d DEF Turn
<1>1. CASE Open(r)
  <2>1. \A m \in Modes[r] : [Off EXCEPT !.at = "list", !.mode = m] \in ReaderStates
    BY InboxAssumption, OffIs
  <2>2. QED
    BY <1>1, <1>b, <1>d, <2>1 DEF Open
<1>2. CASE List(r)
  <2> DEFINE e == {<<n, notes[n]>> : n \in {m \in Here : ~IsSeen(m)}}
  <2>1. e \in SUBSET (Names \X Versions)
    BY DEF Here, InboxTyped, NotesOK
  <2>2. /\ [reader[r] EXCEPT !.at = "gone", !.entries = e] \in ReaderStates
        /\ [reader[r] EXCEPT !.at = "blind"] \in ReaderStates
    BY <1>a, <2>1, ReadersBecome
  <2>3. QED
    BY <1>2, <1>b, <1>c, <1>d, <2>2 DEF List
<1>3. CASE SayBlind(r)
  <2>1. [reader[r] EXCEPT !.at = "cache", !.keys = {BlindKey}] \in ReaderStates
    BY <1>a, ReadersBecome, EventsAre
  <2>2. QED
    BY <1>3, <1>b, <1>c, <1>d, <2>1 DEF SayBlind
<1>4. CASE Withdrawn(r)
  <2> DEFINE base == Marked \cup (IF reported.usable THEN reported.keys ELSE {})
             gone == IF listable THEN base \ Here ELSE {}
             e == {z \in reader[r].entries : UnreadKey(z) \notin Already(r)}
             g == {n \in gone : GoneKey(n) \notin Already(r)}
  <2>1. e \in SUBSET (Names \X Versions) /\ g \in SUBSET Names /\ reported.usable \in BOOLEAN
    BY <1>a, ReaderFields DEF Marked, InboxTyped, ReportedOK
  <2>2. Turn(r, [reader[r] EXCEPT !.at = "print", !.usable = reported.usable, !.entries = e,
                                  !.gone = g])
    BY <1>4 DEF Withdrawn
  <2> HIDE DEF e, g
  <2>3. [reader[r] EXCEPT !.at = "print", !.usable = reported.usable, !.entries = e, !.gone = g]
          \in ReaderStates
    BY <1>a, <2>1 DEF ReaderStates
  <2>4. QED
    BY <1>b, <1>d, <2>2, <2>3
<1>5. CASE Report(r)
  BY <1>5, <1>b, ReportIs, ReportedReader
<1>6. CASE RecordRead(r)
  <2>1. reported.keys \in SUBSET Names
    BY DEF InboxTyped, ReportedOK
  <2>2. \A p \in {"add", "cache"} :
          [reader[r] EXCEPT !.known = reported.keys, !.at = p] \in ReaderStates
    BY <1>a, <2>1, ReadersBecome
  <2>3. QED
    BY <1>6, <1>b, <1>d, <2>2 DEF RecordRead
<1>7. CASE RecordAdd(r)
  <2>1. [reader[r] EXCEPT !.at = "cache", !.known = {}, !.shown = {}] \in ReaderStates
    BY <1>a, ReadersBecome
  <2>2. QED
    BY <1>7, <1>b, <1>d, <2>1 DEF RecordAdd
<1>8. CASE Cache(r)
  <2>1. [reader[r] EXCEPT !.at = "mark", !.shown = {}] \in ReaderStates
    BY <1>a, ReadersBecome
  <2>2. QED
    BY <1>8, <1>b, <1>c, <1>d, <2>1 DEF Cache
<1>9. CASE MarkSeen(r)
  <2>1. [reader[r] EXCEPT !.at = "prune", !.gone = {}] \in ReaderStates
    BY <1>a, ReadersBecome
  <2>2. QED
    BY <1>9, <1>b, <1>c, <1>d, <2>1 DEF MarkSeen
<1>10. CASE PruneRead(r)
  <2>1. [reader[r] EXCEPT !.at = "drop", !.known = reported.keys] \in ReaderStates
    BY <1>a, ReadersBecome DEF InboxTyped, ReportedOK
  <2>2. QED
    BY <1>10, <1>b, <1>c, <1>d, <2>1 DEF PruneRead
<1>11. CASE PruneDrop(r) \/ Killed(r)
  BY <1>11, <1>b, <1>c DEF PruneDrop, Killed
<1>12. QED
  BY <1>1, <1>2, <1>3, <1>4, <1>5, <1>6, <1>7, <1>8, <1>9, <1>10, <1>11 DEF Run

(* The others' records stay as they are.                                   *)
LEMMA OtherReaders ==
  ASSUME InboxTyped, NEW r \in Readers, Run(r)
  PROVE  ReadersOK' /\ UNCHANGED <<notes, listable>>
         /\ \A q \in Readers : q # r => reader'[q] = reader[q]
BY ReaderStep DEF InboxTyped, ReadersOK

(* What is noted as gone wrong stays noted.                                *)
LEMMA MishapsStay == ASSUME [InboxNext]_inboxVars PROVE mishap \subseteq mishap'
BY DEF InboxNext, inboxVars, Run, Open, List, SayBlind, Withdrawn, Report, RecordRead, RecordAdd,
       Crosses, Cache, MarkSeen, PruneRead, PruneDrop, Killed, Change, Damage, Repair, Access

(* What is printed is what the session has seen, and stays seen.           *)
LEMMA PrintsIs ==
  ASSUME InboxTyped, NEW r \in Readers, NEW keys \in SUBSET Events, Prints(r, keys)
  PROVE  /\ printed' \in [Sessions -> SUBSET Events]
         /\ \A s \in Sessions : printed[s] \subseteq printed'[s]
         /\ SessionOf[r] # NoSession => keys \subseteq printed'[SessionOf[r]]
BY InboxAssumption DEF Prints, InboxTyped, ToldOK

(* Every step keeps the types.                                             *)
LEMMA InboxTypedStep ==
  ASSUME InboxTyped, RowsShown, KeysShown, [InboxNext]_inboxVars
  PROVE  InboxTyped'
<1> USE DEF InboxTyped
<1>a. ASSUME NEW r \in Readers, Run(r)
      PROVE  /\ ReadersOK' /\ UNCHANGED <<notes, listable>>
             /\ reader[r] \in ReaderStates /\ reader[r].shown \in SUBSET Names
             /\ reader[r].known \in SUBSET Names /\ reader[r].gone \in SUBSET Names
             /\ reader[r].entries \in SUBSET (Names \X Versions)
             /\ reader[r].keys \in SUBSET Events
  BY <1>a, OtherReaders, ReaderFields DEF ReadersOK
<1>b. ASSUME NEW fails \in BOOLEAN, MayFail(fails) PROVE mishaps' \in 0 .. MaxMishaps
  BY <1>b, InboxAssumption DEF MayFail, Mishap, ToldOK
<1>c. ASSUME Mishap PROVE mishaps' \in 0 .. MaxMishaps
  BY <1>c, InboxAssumption DEF Mishap, ToldOK
<1>1. ASSUME NEW r \in Readers, Open(r) \/ List(r) \/ RecordRead(r) PROVE InboxTyped'
  BY <1>1, <1>a DEF Run, Open, List, RecordRead, NotesOK, ReportedOK, RowsOK, ToldOK
<1>2. ASSUME NEW r \in Readers, SayBlind(r) PROVE InboxTyped'
  BY <1>2, <1>a, PrintsIs, EventsAre DEF Run, SayBlind, NotesOK, ReportedOK, RowsOK, ToldOK
<1>3. ASSUME NEW r \in Readers, Withdrawn(r) PROVE InboxTyped'
  BY <1>3, <1>a DEF Run, Withdrawn, NotesOK, ReportedOK, RowsOK, ToldOK
<1>4. ASSUME NEW r \in Readers, Report(r) PROVE InboxTyped'
  <2>1. PICK shown \in SUBSET reader[r].entries : ReportsAs(r, shown)
    BY <1>4, ReportIs
  <2>2. printed' \in [Sessions -> SUBSET Events]
    BY <2>1, ReportedReader, PrintsIs DEF ReportsAs
  <2>3. mishaps' \in 0 .. MaxMishaps
    <3>1. PICK listed \in SUBSET reader[r].entries, written \in BOOLEAN :
            MayFail(/\ Cardinality(reader[r].entries) > MaxListed
                    /\ SessionOf[r] # NoSession /\ ~written)
      BY <1>4 DEF Report
    <3>2. QED
      BY <3>1, <1>b
  <2>4. told' \in SUBSET (Names \X Versions)
    BY <1>4, <1>a DEF Report, Run, ToldOK
  <2>5. UNCHANGED <<notes, listable, seen, reported, rows, owed, mishap, changes>>
    BY <1>4 DEF Report
  <2>6. QED
    BY <1>4, <1>a, <2>2, <2>3, <2>4, <2>5 DEF Run, NotesOK, ReportedOK, RowsOK, ToldOK
<1>5. ASSUME NEW r \in Readers, RecordAdd(r) PROVE InboxTyped'
  <2>1. Run(r)
    BY <1>5 DEF Run
  <2>2. reported' \in [keys : SUBSET Names, usable : BOOLEAN]
    <3>1. Merged(r) \in SUBSET Names
      BY <1>a, <2>1 DEF Merged
    <3>2. [keys |-> Merged(r), usable |-> TRUE] \in [keys : SUBSET Names, usable : BOOLEAN]
      BY <3>1
    <3>3. reported' = [keys |-> Merged(r), usable |-> TRUE] \/ reported' = reported
      BY <1>5 DEF RecordAdd
    <3>4. QED
      BY <3>2, <3>3 DEF ReportedOK
  <2>3. owed' \in SUBSET Names /\ mishaps' \in 0 .. MaxMishaps
    BY <1>5, <1>a, <1>c, <2>1 DEF RecordAdd, Owed, ToldOK
  <2>4. mishap' \in SUBSET {"crossed", "raced", "blind", "unmarked"}
    BY <1>5 DEF RecordAdd, Crosses, ToldOK
  <2>5. UNCHANGED <<notes, listable, seen, rows, told, printed, changes>>
    BY <1>5 DEF RecordAdd
  <2>6. QED
    BY <1>a, <2>1, <2>2, <2>3, <2>4, <2>5 DEF NotesOK, ReportedOK, RowsOK, ToldOK
<1>6. ASSUME NEW r \in Readers, Cache(r) PROVE InboxTyped'
  <2>1. RowsOK'
    BY <1>6, <1>a, RenewedIs DEF Cache, Run, RowsOK, RowsShown, KeysShown
  <2>2. QED
    BY <1>6, <1>a, <2>1 DEF Cache, Run, NotesOK, ReportedOK, ToldOK
<1>7. ASSUME NEW r \in Readers, MarkSeen(r) PROVE InboxTyped'
  <2>1. Run(r)
    BY <1>7 DEF Run
  <2>2. /\ seen' \in [Names -> Versions \cup {Absent}] /\ owed' \in SUBSET Names
        /\ UNCHANGED <<notes, listable, reported, rows, told, printed, mishap, changes>>
    BY <1>7, <1>a, <2>1 DEF MarkSeen, Owed, Here, NotesOK, ToldOK
  <2>3. mishaps' \in 0 .. MaxMishaps
    BY <1>7, <1>b DEF MarkSeen, ToldOK
  <2>4. QED
    BY <1>a, <2>1, <2>2, <2>3 DEF NotesOK, ReportedOK, RowsOK, ToldOK
<1>8. ASSUME NEW r \in Readers, PruneRead(r) PROVE InboxTyped'
  <2>1. mishaps' \in 0 .. MaxMishaps
    BY <1>8, <1>b DEF PruneRead, ToldOK
  <2>2. QED
    BY <1>8, <1>a, <2>1 DEF Run, PruneRead, NotesOK, ReportedOK, RowsOK, ToldOK
<1>9. ASSUME NEW r \in Readers, PruneDrop(r) PROVE InboxTyped'
  <2>1. Run(r)
    BY <1>9 DEF Run
  <2>2. reported' \in [keys : SUBSET Names, usable : BOOLEAN]
    <3>1. Kept(r) \in SUBSET Names
      BY <1>a, <2>1 DEF Kept
    <3>2. [keys |-> Kept(r), usable |-> TRUE] \in [keys : SUBSET Names, usable : BOOLEAN]
      BY <3>1
    <3>3. reported' = [keys |-> Kept(r), usable |-> TRUE] \/ reported' = reported
      BY <1>9 DEF PruneDrop
    <3>4. QED
      BY <3>2, <3>3 DEF ReportedOK
  <2>3. /\ mishaps' \in 0 .. MaxMishaps
        /\ mishap' \in SUBSET {"crossed", "raced", "blind", "unmarked"}
    BY <1>9, <1>c DEF PruneDrop, Crosses, ToldOK
  <2>4. QED
    BY <1>9, <1>a, <2>1, <2>2, <2>3 DEF PruneDrop, NotesOK, ReportedOK, RowsOK, ToldOK
<1>10. ASSUME NEW r \in Readers, Killed(r) PROVE InboxTyped'
  BY <1>10, <1>a, <1>c DEF Run, Killed, NotesOK, ReportedOK, RowsOK, ToldOK
<1>11. ASSUME NEW n \in Names, Change(n) PROVE InboxTyped'
  BY <1>11, InboxAssumption DEF Change, NotesOK, ReportedOK, RowsOK, ReadersOK, ToldOK
<1>12. CASE Damage
  <2>1. mishaps' \in 0 .. MaxMishaps
    BY <1>12, <1>c DEF Damage
  <2>2. reported' \in [keys : SUBSET Names, usable : BOOLEAN]
    BY <1>12 DEF Damage, ReportedOK
  <2>3. RowsOK'
    <3>1. rows' = <<>> \/ rows' = rows
      BY <1>12 DEF Damage
    <3>2. <<>> \in Seq(Rows) /\ Len(<<>>) = 0 /\ 0 <= MaxTracked
      BY InboxAssumption
    <3>3. QED
      BY <3>1, <3>2 DEF RowsOK
  <2>4. /\ seen' \in [Names -> Versions \cup {Absent}]
        /\ mishap' \in SUBSET {"crossed", "raced", "blind", "unmarked"}
    BY <1>12 DEF Damage, NotesOK, ToldOK
  <2>5. QED
    BY <1>12, <2>1, <2>2, <2>3, <2>4 DEF Damage, NotesOK, ReportedOK, ReadersOK, ToldOK
<1>13. CASE Repair
  BY <1>13 DEF Repair, NotesOK, ReportedOK, RowsOK, ReadersOK, ToldOK
<1>14. CASE Access
  BY <1>14, <1>c DEF Access, NotesOK, ReportedOK, RowsOK, ReadersOK, ToldOK
<1>15. CASE UNCHANGED inboxVars
  BY <1>15 DEF inboxVars, NotesOK, ReportedOK, RowsOK, ReadersOK, ToldOK
<1>16. QED
  BY <1>1, <1>2, <1>3, <1>4, <1>5, <1>6, <1>7, <1>8, <1>9, <1>10, <1>11, <1>12, <1>13, <1>14,
     <1>15 DEF InboxNext, Run

----------------------------------------------------------------------------
(* What a step makes of the record of its reader.                          *)
LEMMA TurnIs ==
  ASSUME InboxTyped, NEW r \in Readers, NEW x, Turn(r, x)
  PROVE  reader'[r] = x
BY DEF Turn, InboxTyped, ReadersOK

(* A run ends.                                                             *)
LEMMA ExitIs ==
  ASSUME InboxTyped, NEW r \in Readers, Exit(r)
  PROVE  reader'[r].at = "off" /\ reader'[r].keys = {}
BY TurnIs, OffIs DEF Exit

(* A run begins.                                                           *)
LEMMA OpenIs ==
  ASSUME InboxTyped, NEW r \in Readers, Open(r)
  PROVE  reader'[r].at = "list" /\ reader'[r].keys = {}
<1>1. PICK m \in Modes[r] : Turn(r, [Off EXCEPT !.at = "list", !.mode = m])
  BY DEF Open
<1>2. m \in {"quiet", "report", "mark"}
  BY InboxAssumption
<1>3. QED
  BY <1>1, <1>2, TurnIs, OffIs

(* The survey finds what is not read at its version, or is blind.          *)
LEMMA ListIs ==
  ASSUME InboxTyped, NEW r \in Readers, List(r)
  PROVE  /\ reader'[r].keys \in {reader[r].keys, {}}
         /\ \/ reader'[r].at \in {"off", "blind"}
            \/ /\ reader'[r].at = "gone" /\ reader'[r].mode = reader[r].mode
               /\ reader'[r].entries = {<<n, notes[n]>> : n \in {m \in Here : ~IsSeen(m)}}
<1> DEFINE e == {<<n, notes[n]>> : n \in {m \in Here : ~IsSeen(m)}}
<1>1. reader[r] \in ReaderStates
  BY DEF InboxTyped, ReadersOK
<1>2. \/ Turn(r, [reader[r] EXCEPT !.at = "gone", !.entries = e])
      \/ Exit(r) \/ Turn(r, [reader[r] EXCEPT !.at = "blind"])
  BY DEF List
<1> HIDE DEF e
<1>3. CASE Turn(r, [reader[r] EXCEPT !.at = "gone", !.entries = e])
  BY <1>1, <1>3, TurnIs, ReaderDomain DEF e
<1>4. CASE Turn(r, [reader[r] EXCEPT !.at = "blind"])
  BY <1>1, <1>4, TurnIs, ReaderDomain
<1>5. QED
  BY <1>2, <1>3, <1>4, ExitIs

(* An inbox that cannot be listed is said, and cached by the quiet hook    *)
(* alone.                                                                  *)
LEMMA SayBlindIs ==
  ASSUME InboxTyped, NEW r \in Readers, SayBlind(r)
  PROVE  \/ reader'[r].at = "off" /\ reader'[r].keys = {}
         \/ /\ reader'[r].at = "cache" /\ reader'[r].mode = "quiet"
            /\ reader'[r].keys = {BlindKey} /\ SessionOf[r] # NoSession
<1>1. reader[r] \in ReaderStates
  BY DEF InboxTyped, ReadersOK
<1>2. \/ Exit(r)
      \/ Suppresses(r) /\ Turn(r, [reader[r] EXCEPT !.at = "cache", !.keys = {BlindKey}])
  BY DEF SayBlind
<1>3. CASE Suppresses(r) /\ Turn(r, [reader[r] EXCEPT !.at = "cache", !.keys = {BlindKey}])
  BY <1>1, <1>3, TurnIs, ReaderDomain, ZenonT(40) DEF Suppresses
<1>4. QED
  BY <1>2, <1>3, ExitIs

(* What is gone: a --mark leaves nothing out.                              *)
LEMMA WithdrawnIs ==
  ASSUME InboxTyped, NEW r \in Readers, Withdrawn(r)
  PROVE  LET base == Marked \cup (IF reported.usable THEN reported.keys ELSE {})
         IN  /\ reader'[r].at = "print" /\ reader'[r].mode = reader[r].mode
             /\ reader'[r].keys = reader[r].keys /\ reader'[r].usable = reported.usable
             /\ reader[r].mode = "mark" => /\ reader'[r].entries = reader[r].entries
                                           /\ listable => reader'[r].gone = base \ Here
<1> DEFINE base == Marked \cup (IF reported.usable THEN reported.keys ELSE {})
           gone == IF listable THEN base \ Here ELSE {}
           e == {z \in reader[r].entries : UnreadKey(z) \notin Already(r)}
           g == {n \in gone : GoneKey(n) \notin Already(r)}
<1>1. reader[r] \in ReaderStates
  BY DEF InboxTyped, ReadersOK
<1>2. Turn(r, [reader[r] EXCEPT !.at = "print", !.usable = reported.usable, !.entries = e,
                                !.gone = g])
  BY DEF Withdrawn
<1>3. ASSUME reader[r].mode = "mark" PROVE e = reader[r].entries /\ g = gone
  BY <1>3 DEF Already, Suppresses
<1> HIDE DEF e, g
<1>4. reader'[r] = [reader[r] EXCEPT !.at = "print", !.usable = reported.usable, !.entries = e,
                                     !.gone = g]
  BY <1>2, TurnIs
<1>5. /\ reader'[r].at = "print" /\ reader'[r].mode = reader[r].mode
      /\ reader'[r].keys = reader[r].keys /\ reader'[r].usable = reported.usable
      /\ reader'[r].entries = e /\ reader'[r].gone = g
  BY <1>1, <1>4, ReaderDomain
<1>6. QED
  BY <1>3, <1>5

(* The record is read, to be added to.                                     *)
LEMMA RecordReadIs ==
  ASSUME InboxTyped, NEW r \in Readers, RecordRead(r)
  PROVE  /\ reader'[r].at \in {"add", "cache"} /\ reader'[r].mode = reader[r].mode
         /\ reader'[r].keys = reader[r].keys /\ reader'[r].usable = reader[r].usable
         /\ reader'[r].gone = reader[r].gone /\ reader'[r].shown = reader[r].shown
<1> DEFINE p == IF reported.usable THEN "add" ELSE "cache"
<1>1. reader[r] \in ReaderStates
  BY DEF InboxTyped, ReadersOK
<1>2. reader'[r] = [reader[r] EXCEPT !.known = reported.keys, !.at = p]
  BY TurnIs DEF RecordRead
<1>3. p \in {"add", "cache"}
  OBVIOUS
<1> HIDE DEF p
<1>4. QED
  BY <1>1, <1>2, <1>3, ReaderDomain

(* The record was written, or could not be.                                *)
LEMMA RecordAddIs ==
  ASSUME InboxTyped, NEW r \in Readers, RecordAdd(r)
  PROVE  /\ reader'[r].at = "cache" /\ reader'[r].mode = reader[r].mode
         /\ reader'[r].keys = reader[r].keys /\ reader'[r].usable = reader[r].usable
         /\ reader'[r].gone = reader[r].gone
<1>1. reader[r] \in ReaderStates
  BY DEF InboxTyped, ReadersOK
<1>2. reader'[r] = [reader[r] EXCEPT !.at = "cache", !.known = {}, !.shown = {}]
  BY TurnIs DEF RecordAdd
<1>3. QED
  BY <1>1, <1>2, ReaderDomain

(* The row of the session was written; a --mark goes on to mark.           *)
LEMMA CacheIs ==
  ASSUME InboxTyped, NEW r \in Readers, Cache(r)
  PROVE  \/ reader'[r].at = "off" /\ reader'[r].keys = {}
         \/ /\ reader'[r].at = "mark" /\ reader'[r].mode = "mark" /\ reader[r].mode = "mark"
            /\ reader'[r].keys = reader[r].keys /\ reader'[r].usable = reader[r].usable
            /\ reader'[r].gone = reader[r].gone
<1>1. reader[r] \in ReaderStates
  BY DEF InboxTyped, ReadersOK
<1>2. CASE reader[r].mode = "mark"
  <2>1. reader'[r] = [reader[r] EXCEPT !.at = "mark", !.shown = {}]
    BY <1>2, TurnIs DEF Cache
  <2>2. QED
    BY <1>1, <1>2, <2>1, ReaderDomain
<1>3. CASE reader[r].mode # "mark"
  BY <1>3, ExitIs DEF Cache
<1>4. QED
  BY <1>2, <1>3

(* The watermark is written, or the run ends.                              *)
LEMMA MarkSeenIs ==
  ASSUME InboxTyped, NEW r \in Readers, MarkSeen(r)
  PROVE  \/ /\ reader'[r].at = "off" /\ reader'[r].keys = {}
            /\ UNCHANGED <<seen, owed>>
         \/ /\ reader'[r].at = "prune" /\ reader'[r].mode = reader[r].mode
            /\ reader'[r].keys = reader[r].keys /\ reader[r].usable
            /\ seen' = notes /\ owed' = Owed((owed \ reader[r].gone) \cup Here)
<1>1. reader[r] \in ReaderStates
  BY DEF InboxTyped, ReadersOK
<1>2. CASE Exit(r) /\ UNCHANGED <<seen, owed>>
  BY <1>2, ExitIs
<1>3. CASE /\ Turn(r, [reader[r] EXCEPT !.at = "prune", !.gone = {}])
           /\ reader[r].usable
           /\ seen' = notes /\ owed' = Owed((owed \ reader[r].gone) \cup Here)
  <2>1. reader'[r] = [reader[r] EXCEPT !.at = "prune", !.gone = {}]
    BY <1>3, TurnIs
  <2>2. /\ reader'[r].at = "prune" /\ reader'[r].mode = reader[r].mode
        /\ reader'[r].keys = reader[r].keys
    BY <1>1, <2>1, ReaderDomain
  <2>3. QED
    BY <1>3, <2>2
<1>4. QED
  BY <1>2, <1>3 DEF MarkSeen

(* The record is read, to be pruned.                                       *)
LEMMA PruneReadIs ==
  ASSUME InboxTyped, NEW r \in Readers, PruneRead(r)
  PROVE  \/ reader'[r].at = "off" /\ reader'[r].keys = {}
         \/ /\ reader'[r].at = "drop" /\ reader'[r].mode = reader[r].mode
            /\ reader'[r].keys = reader[r].keys
<1>1. reader[r] \in ReaderStates
  BY DEF InboxTyped, ReadersOK
<1>2. CASE Exit(r)
  BY <1>2, ExitIs
<1>3. CASE Turn(r, [reader[r] EXCEPT !.at = "drop", !.known = reported.keys])
  BY <1>1, <1>3, TurnIs, ReaderDomain
<1>4. QED
  BY <1>2, <1>3 DEF PruneRead

(* A reader marks only if it was started to.                               *)
LEMMA MarkModeStep ==
  ASSUME InboxTyped, MarkMode, [InboxNext]_inboxVars
  PROVE  MarkMode'
<1>1. ASSUME NEW r \in Readers, Run(r) PROVE MarkMode'
  <2>1. \A q \in Readers : q # r => reader'[q] = reader[q]
    BY <1>1, OtherReaders
  <2>2. reader'[r].at \in {"mark", "prune", "drop"} => reader'[r].mode = "mark"
    <3>1. CASE Open(r)
      BY <3>1, OpenIs
    <3>2. CASE List(r)
      BY <3>2, ListIs
    <3>3. CASE SayBlind(r)
      BY <3>3, SayBlindIs
    <3>4. CASE Withdrawn(r)
      BY <3>4, WithdrawnIs
    <3>5. CASE Report(r)
      BY <3>5, ReportIs, ReportedReader
    <3>6. CASE RecordRead(r)
      BY <3>6, RecordReadIs
    <3>7. CASE RecordAdd(r)
      BY <3>7, RecordAddIs
    <3>8. CASE Cache(r)
      BY <3>8, CacheIs
    <3>9. CASE MarkSeen(r)
      BY <3>9, MarkSeenIs DEF MarkSeen, MarkMode
    <3>10. CASE PruneRead(r)
      BY <3>10, PruneReadIs DEF PruneRead, MarkMode
    <3>11. CASE PruneDrop(r) \/ Killed(r)
      BY <3>11, ExitIs DEF PruneDrop, Killed
    <3>12. QED
      BY <1>1, <3>1, <3>2, <3>3, <3>4, <3>5, <3>6, <3>7, <3>8, <3>9, <3>10, <3>11 DEF Run
  <2>3. QED
    BY <2>1, <2>2 DEF MarkMode
<1>2. CASE UNCHANGED reader
  BY <1>2 DEF MarkMode
<1>3. QED
  BY <1>1, <1>2 DEF InboxNext, inboxVars, Change, Damage, Repair, Access

(* What was printed to a session stays printed.                            *)
LEMMA PrintedGrows ==
  ASSUME InboxTyped, [InboxNext]_inboxVars
  PROVE  \A s \in Sessions : printed[s] \subseteq printed'[s]
<1>1. ASSUME NEW r \in Readers, SayBlind(r)
      PROVE  \A s \in Sessions : printed[s] \subseteq printed'[s]
  <2>1. Prints(r, {BlindKey})
    BY <1>1 DEF SayBlind
  <2>2. QED
    BY <2>1, PrintsIs, EventsAre
<1>2. ASSUME NEW r \in Readers, Report(r)
      PROVE  \A s \in Sessions : printed[s] \subseteq printed'[s]
  BY <1>2, ReportIs, ReportedReader, PrintsIs DEF ReportsAs
<1>3. CASE UNCHANGED printed
  BY <1>3
<1>4. QED
  BY <1>1, <1>2, <1>3 DEF InboxNext, inboxVars, Run, Open, List, Withdrawn, RecordRead, RecordAdd,
     Cache, MarkSeen, PruneRead, PruneDrop, Killed, Change, Damage, Repair, Access

(* What a reader is about to cache, its session was shown.                 *)
LEMMA KeysShownStep ==
  ASSUME InboxTyped, KeysShown, [InboxNext]_inboxVars
  PROVE  KeysShown'
<1>a. \A s \in Sessions : printed[s] \subseteq printed'[s]
  BY PrintedGrows
<1>b. \A r \in Readers : SessionOf[r] \in Sessions \cup {NoSession}
  BY InboxAssumption
<1>1. ASSUME NEW r \in Readers, Run(r) PROVE KeysShown'
  <2>1. \A q \in Readers : q # r => reader'[q] = reader[q]
    BY <1>1, OtherReaders
  <2> DEFINE Fine == reader'[r].keys # {} =>
                       SessionOf[r] # NoSession /\ reader'[r].keys \subseteq printed'[SessionOf[r]]
  <2>2. ASSUME reader'[r].keys \in {reader[r].keys, {}} PROVE Fine
    BY <1>a, <1>b, <2>2 DEF KeysShown
  <2>3. Fine
    <3>1. CASE Open(r)
      BY <2>2, <3>1, OpenIs
    <3>2. CASE List(r)
      BY <2>2, <3>2, ListIs
    <3>3. CASE SayBlind(r)
      <4>1. Prints(r, {BlindKey})
        BY <3>3 DEF SayBlind
      <4>2. QED
        BY <3>3, <4>1, SayBlindIs, PrintsIs, EventsAre
    <3>4. CASE Withdrawn(r)
      BY <2>2, <3>4, WithdrawnIs
    <3>5. CASE Report(r)
      <4>1. PICK shown \in SUBSET reader[r].entries : ReportsAs(r, shown)
        BY <3>5, ReportIs
      <4> DEFINE keys == {UnreadKey(e) : e \in shown} \cup {GoneKey(n) : n \in reader[r].gone}
      <4>2. /\ keys \in SUBSET Events /\ reader'[r].keys \in {keys, {}}
            /\ (reader'[r].keys # {} => Suppresses(r))
        BY <4>1, ReportedReader
      <4>3. Prints(r, keys)
        BY <4>1 DEF ReportsAs
      <4> HIDE DEF keys
      <4>4. SessionOf[r] # NoSession => keys \subseteq printed'[SessionOf[r]]
        BY <4>2, <4>3, PrintsIs
      <4>5. QED
        BY <4>2, <4>4 DEF Suppresses
    <3>6. CASE RecordRead(r)
      BY <2>2, <3>6, RecordReadIs
    <3>7. CASE RecordAdd(r)
      BY <2>2, <3>7, RecordAddIs
    <3>8. CASE Cache(r)
      BY <2>2, <3>8, CacheIs
    <3>9. CASE MarkSeen(r)
      BY <2>2, <3>9, MarkSeenIs
    <3>10. CASE PruneRead(r)
      BY <2>2, <3>10, PruneReadIs
    <3>11. CASE PruneDrop(r) \/ Killed(r)
      BY <2>2, <3>11, ExitIs DEF PruneDrop, Killed
    <3>12. QED
      BY <1>1, <3>1, <3>2, <3>3, <3>4, <3>5, <3>6, <3>7, <3>8, <3>9, <3>10, <3>11 DEF Run
  <2>4. QED
    BY <1>a, <1>b, <2>1, <2>3 DEF KeysShown
<1>2. CASE UNCHANGED reader
  BY <1>a, <1>b, <1>2 DEF KeysShown
<1>3. QED
  BY <1>1, <1>2 DEF InboxNext, inboxVars, Change, Damage, Repair, Access

(* Nothing is in the row of a session that it was not shown.               *)
LEMMA RowsShownStep ==
  ASSUME InboxTyped, RowsShown, KeysShown, [InboxNext]_inboxVars
  PROVE  RowsShown'
<1>a. \A s \in Sessions : printed[s] \subseteq printed'[s]
  BY PrintedGrows
<1>b. \A i \in DOMAIN rows : rows[i].id \in Sessions
  <2>1. \A i \in DOMAIN rows : rows[i] \in Rows
    BY DEF InboxTyped, RowsOK
  <2>2. QED
    BY <2>1 DEF Rows
<1>1. CASE UNCHANGED rows
  BY <1>a, <1>b, <1>1 DEF RowsShown
<1>2. CASE rows' = <<>>
  BY <1>2 DEF RowsShown
<1>3. ASSUME NEW r \in Readers, Cache(r), rows' # rows PROVE RowsShown'
  <2> DEFINE new == Renewed(r, reader[r].keys)
  <2>1. Suppresses(r) /\ reader[r].keys # {} /\ rows' = new /\ UNCHANGED printed
    BY <1>3 DEF Cache
  <2>2. SessionOf[r] # NoSession /\ SessionOf[r] \in Sessions
        /\ reader[r].keys \subseteq printed[SessionOf[r]]
    BY <2>1, InboxAssumption DEF KeysShown
  <2>3. reader[r].keys \in SUBSET Events
    BY ReaderFields DEF InboxTyped, ReadersOK
  <2>4. /\ \A k \in DOMAIN new :
               \/ /\ new[k].id = SessionOf[r] /\ new[k].shown = Shown(r) \cup reader[r].keys
               \/ /\ new[k].id # SessionOf[r]
                  /\ \E i \in DOMAIN rows : new[k] = rows[i]
        /\ \A k, l \in DOMAIN new : new[k].id = new[l].id => k = l
    BY <2>2, <2>3, RenewedIs DEF RowsShown
  <2> HIDE DEF new
  <2>5. Shown(r) \subseteq printed[SessionOf[r]]
    BY DEF Shown, RowOf, RowsShown
  <2>6. \A k \in DOMAIN new : new[k].shown \subseteq printed[new[k].id]
    <3> SUFFICES ASSUME NEW k \in DOMAIN new PROVE new[k].shown \subseteq printed[new[k].id]
      OBVIOUS
    <3>1. CASE new[k].id = SessionOf[r] /\ new[k].shown = Shown(r) \cup reader[r].keys
      BY <2>2, <2>5, <3>1
    <3>2. CASE \E i \in DOMAIN rows : new[k] = rows[i]
      BY <3>2 DEF RowsShown
    <3>3. QED
      BY <2>4, <3>1, <3>2
  <2>7. QED
    BY <2>1, <2>4, <2>6 DEF RowsShown
<1>4. QED
  BY <1>1, <1>2, <1>3 DEF InboxNext, inboxVars, Run, Open, List, SayBlind, Withdrawn, Report,
     RecordRead, RecordAdd, Cache, MarkSeen, PruneRead, PruneDrop, Killed, Change, Damage, Repair,
     Access

(* What was told stays told, while no --mark was raced.                    *)
LEMMA ToldGrows ==
  ASSUME [InboxNext]_inboxVars, "raced" \notin mishap'
  PROVE  told \subseteq told'
<1>1. "raced" \notin mishap
  BY MishapsStay
<1>2. ASSUME NEW r \in Readers, Report(r) PROVE told \subseteq told'
  BY <1>1, <1>2 DEF Report
<1>3. QED
  BY <1>2 DEF InboxNext, inboxVars, Run, Open, List, SayBlind, Withdrawn, RecordRead, RecordAdd,
     Cache, MarkSeen, PruneRead, PruneDrop, Killed, Change, Damage, Repair, Access

(* What a --mark is about to mark, it has told or is about to tell.        *)
LEMMA TellingStep ==
  ASSUME InboxTyped, MarkMode, SeenTold, NEW r \in Readers, Run(r), "raced" \notin mishap'
  PROVE  Telling(r)'
<1>a. [InboxNext]_inboxVars
  BY DEF InboxNext
<1>b. told \subseteq told' /\ "raced" \notin mishap
  BY <1>a, ToldGrows, MishapsStay
<1>c. Telling(r) /\ \A n \in Marked : <<n, seen[n]>> \in told
  BY <1>b DEF SeenTold
<1>d. UNCHANGED notes /\ Here' = Here
  BY OtherReaders DEF Here
<1>e. ASSUME reader'[r].at \in {"off", "list", "blind", "prune", "drop"} \/ reader'[r].mode # "mark"
      PROVE  Telling(r)'
  BY <1>e DEF Telling, Working
<1>1. CASE Open(r)
  BY <1>e, <1>1, OpenIs
<1>2. CASE List(r)
  <2>1. CASE reader'[r].at \in {"off", "blind"}
    BY <1>e, <2>1
  <2>2. CASE /\ reader'[r].at = "gone"
             /\ reader'[r].entries = {<<n, notes[n]>> : n \in {m \in Here : ~IsSeen(m)}}
    <3>1. ASSUME NEW n \in Here, IsSeen(n) PROVE <<n, notes[n]>> \in told
      BY <1>c, <3>1 DEF IsSeen, Here, Marked
    <3>2. \A n \in Here : <<n, notes[n]>> \in told \cup reader'[r].entries
      BY <2>2, <3>1
    <3>3. QED
      BY <1>b, <1>d, <2>2, <3>2 DEF Telling, Working
  <2>3. QED
    BY <1>2, <2>1, <2>2, ListIs
<1>3. CASE SayBlind(r)
  BY <1>e, <1>3, SayBlindIs
<1>4. CASE Withdrawn(r)
  <2>1. /\ reader[r].at = "gone" /\ reader'[r].at = "print" /\ reader'[r].mode = reader[r].mode
        /\ reader[r].mode = "mark" => reader'[r].entries = reader[r].entries
    BY <1>4, WithdrawnIs DEF Withdrawn
  <2>2. QED
    BY <1>b, <1>c, <1>d, <2>1 DEF Telling, Working
<1>5. CASE Report(r)
  <2>1. /\ reader[r].at = "print" /\ reader'[r].at \in {"record", "cache"}
        /\ reader'[r].mode = reader[r].mode
    BY <1>5, ReportIs, ReportedReader DEF Report
  <2>2. told' = told \cup reader[r].entries
    BY <1>5, <1>b DEF Report
  <2>3. QED
    BY <1>c, <1>d, <2>1, <2>2 DEF Telling, Working
<1>6. CASE RecordRead(r)
  <2>1. /\ reader[r].at = "record" /\ reader'[r].at \in {"add", "cache"}
        /\ reader'[r].mode = reader[r].mode
    BY <1>6, RecordReadIs DEF RecordRead
  <2>2. QED
    BY <1>b, <1>c, <1>d, <2>1 DEF Telling, Working
<1>7. CASE RecordAdd(r)
  <2>1. reader[r].at = "add" /\ reader'[r].at = "cache" /\ reader'[r].mode = reader[r].mode
    BY <1>7, RecordAddIs DEF RecordAdd
  <2>2. QED
    BY <1>b, <1>c, <1>d, <2>1 DEF Telling, Working
<1>8. CASE Cache(r)
  <2>1. CASE reader'[r].at = "off"
    BY <1>e, <2>1
  <2>2. CASE reader'[r].at = "mark" /\ reader[r].mode = "mark"
    <3>1. reader[r].at = "cache"
      BY <1>8 DEF Cache
    <3>2. QED
      BY <1>b, <1>c, <1>d, <2>2, <3>1 DEF Telling, Working
  <2>3. QED
    BY <1>8, <2>1, <2>2, CacheIs
<1>9. CASE MarkSeen(r)
  BY <1>e, <1>9, MarkSeenIs
<1>10. CASE PruneRead(r)
  BY <1>e, <1>10, PruneReadIs
<1>11. CASE PruneDrop(r) \/ Killed(r)
  BY <1>e, <1>11, ExitIs DEF PruneDrop, Killed
<1>12. QED
  BY <1>1, <1>2, <1>3, <1>4, <1>5, <1>6, <1>7, <1>8, <1>9, <1>10, <1>11 DEF Run

(* What the watermark holds has been told.                                 *)
LEMMA SeenToldStep ==
  ASSUME InboxTyped, MarkMode, SeenTold, [InboxNext]_inboxVars
  PROVE  SeenTold'
<1> SUFFICES ASSUME "raced" \notin mishap'
             PROVE  (\A n \in Marked : <<n, seen[n]>> \in told)' /\ \A r \in Readers : Telling(r)'
  BY DEF SeenTold
<1>a. told \subseteq told' /\ "raced" \notin mishap
  BY ToldGrows, MishapsStay
<1>b. /\ \A n \in Marked : <<n, seen[n]>> \in told
      /\ \A r \in Readers : Telling(r)
  BY <1>a DEF SeenTold
<1>c. ASSUME UNCHANGED seen PROVE (\A n \in Marked : <<n, seen[n]>> \in told)'
  BY <1>a, <1>b, <1>c DEF Marked
<1>d. ASSUME NEW r \in Readers, UNCHANGED notes, reader'[r] = reader[r] PROVE Telling(r)'
  BY <1>a, <1>b, <1>d DEF Telling, Working, Here
<1>1. ASSUME NEW r \in Readers, Run(r)
      PROVE  (\A n \in Marked : <<n, seen[n]>> \in told)' /\ \A q \in Readers : Telling(q)'
  <2>1. \A q \in Readers : Telling(q)'
    <3>1. Telling(r)'
      BY <1>1, TellingStep
    <3>2. UNCHANGED notes /\ \A q \in Readers : q # r => reader'[q] = reader[q]
      BY <1>1, OtherReaders
    <3>3. QED
      BY <1>d, <3>1, <3>2
  <2>2. (\A n \in Marked : <<n, seen[n]>> \in told)'
    <3>1. CASE UNCHANGED seen
      BY <1>c, <3>1
    <3>2. CASE MarkSeen(r) /\ seen' = notes
      <4>1. Working(r, {"record", "add", "cache", "mark"})
        BY <3>2 DEF MarkSeen, MarkMode, Working
      <4>2. \A n \in Here : <<n, notes[n]>> \in told
        BY <1>b, <4>1 DEF Telling
      <4>3. QED
        BY <1>a, <3>2, <4>2 DEF Marked, Here
    <3>3. CASE MarkSeen(r)
      BY <3>1, <3>2, <3>3, MarkSeenIs
    <3>4. QED
      BY <1>1, <3>1, <3>3 DEF Run, Open, List, SayBlind, Withdrawn, Report, RecordRead, RecordAdd,
         Cache, PruneRead, PruneDrop, Killed
  <2>3. QED
    BY <2>1, <2>2
<1>2. ASSUME NEW n \in Names, Change(n)
      PROVE  (\A m \in Marked : <<m, seen[m]>> \in told)' /\ \A r \in Readers : Telling(r)'
  <2>1. UNCHANGED <<seen, reader>>
    BY <1>2 DEF Change
  <2>2. \A r \in Readers : ~(reader[r].mode = "mark" /\ reader[r].at \notin {"off", "list"})
    BY <1>2 DEF Change
  <2>3. \A r \in Readers : Telling(r)'
    BY <2>1, <2>2 DEF Telling, Working
  <2>4. QED
    BY <1>c, <2>1, <2>3
<1>3. CASE Damage
  <2>1. UNCHANGED <<notes, reader>> /\ (UNCHANGED seen \/ seen' = [n \in Names |-> Absent])
    BY <1>3 DEF Damage
  <2>2. CASE seen' = [n \in Names |-> Absent]
    BY <1>d, <2>1, <2>2 DEF Marked
  <2>3. QED
    BY <1>c, <1>d, <2>1, <2>2
<1>4. CASE Repair \/ Access \/ UNCHANGED inboxVars
  BY <1>4, <1>c, <1>d DEF Repair, Access, inboxVars
<1>5. QED
  BY <1>1, <1>2, <1>3, <1>4 DEF InboxNext

(* What a step does to what is shown, marked and owed, while nothing went  *)
(* wrong.                                                                  *)
LEMMA NothingWrong == ASSUME [InboxNext]_inboxVars, mishap' = {} PROVE mishap = {}
BY MishapsStay

(* Unless runs crossed, what was shown is added to the record and owed.    *)
LEMMA RecordAddAdds ==
  ASSUME InboxTyped, NEW r \in Readers, RecordAdd(r), mishap' = {}
  PROVE  /\ UNCHANGED seen
         /\ \/ UNCHANGED <<reported, owed>>
            \/ /\ reported'.keys = reported.keys \cup reader[r].shown
               /\ owed' = owed \cup reader[r].shown
               /\ reader[r].mode = "mark" \/ ~Marking
<1>1. CASE /\ reported' = [keys |-> Merged(r), usable |-> TRUE]
           /\ owed' = Owed(owed \cup reader[r].shown)
           /\ Crosses(r)
  <2>1. mishap = {} /\ reported.keys = reader[r].known /\ (reader[r].mode = "mark" \/ ~Marking)
    BY <1>1 DEF Crosses
  <2>2. reported'.keys = Merged(r)
    BY <1>1
  <2>3. QED
    BY <1>1, <2>1, <2>2 DEF Merged, Owed, RecordAdd
<1>2. QED
  BY <1>1 DEF RecordAdd

(* Unless runs crossed, the record loses what is not in the inbox.         *)
LEMMA PruneDropDrops ==
  ASSUME InboxTyped, NEW r \in Readers, PruneDrop(r), mishap' = {}
  PROVE  /\ UNCHANGED <<seen, owed>>
         /\ UNCHANGED reported \/ reported'.keys = reported.keys \cap Here
<1>1. CASE reported' = [keys |-> Kept(r), usable |-> TRUE] /\ Crosses(r)
  <2>1. reported.keys = reader[r].known
    BY <1>1 DEF Crosses
  <2>2. reported'.keys = Kept(r)
    BY <1>1
  <2>3. QED
    BY <2>1, <2>2 DEF Kept, PruneDrop
<1>2. QED
  BY <1>1 DEF PruneDrop

(* A --mark that marks ends what it knows of, and nothing else is owed but *)
(* what is there.                                                          *)
LEMMA MarkSeenMarks ==
  ASSUME InboxTyped, MarkMode, Carried, GoneCarried, NEW r \in Readers, MarkSeen(r), mishap = {}
  PROVE  /\ UNCHANGED reported
         /\ UNCHANGED <<seen, owed>> \/ (Marked' = Here /\ owed' = Here)
<1>1. UNCHANGED reported
  BY DEF MarkSeen
<1>2. CASE /\ reader[r].usable /\ seen' = notes
           /\ owed' = Owed((owed \ reader[r].gone) \cup Here)
  <2>1. Working(r, {"print", "record", "add", "cache", "mark"})
    BY DEF MarkSeen, MarkMode, Working
  <2>2. Marked \ Here \subseteq reader[r].gone /\ reported.keys \ Here \subseteq reader[r].gone
    BY <1>2, <2>1 DEF Carried, Carrying
  <2>3. owed \subseteq reported.keys \cup Marked
    BY DEF GoneCarried
  <2>4. Marked' = Here
    BY <1>2 DEF Marked, Here
  <2>5. owed' = Here
    BY <1>2, <2>2, <2>3 DEF Owed
  <2>6. QED
    BY <1>1, <2>4, <2>5
<1>3. CASE UNCHANGED <<seen, owed>>
  BY <1>1, <1>3
<1>4. QED
  <2>1. \/ UNCHANGED <<seen, owed>>
        \/ /\ reader[r].usable /\ seen' = notes
           /\ owed' = Owed((owed \ reader[r].gone) \cup Here)
    BY MarkSeenIs
  <2>2. QED
    BY <1>2, <1>3, <2>1

(* A note that was shown or marked stays in one of the two records.        *)
LEMMA GoneCarriedStep ==
  ASSUME InboxTyped, MarkMode, Carried, GoneCarried, [InboxNext]_inboxVars
  PROVE  GoneCarried'
<1> SUFFICES ASSUME mishap' = {} PROVE owed' \subseteq reported'.keys \cup Marked'
  BY DEF GoneCarried
<1>a. mishap = {} /\ owed \subseteq reported.keys \cup Marked
  BY NothingWrong DEF GoneCarried
<1>b. ASSUME reported'.keys = reported.keys, UNCHANGED <<seen, owed>>
      PROVE  owed' \subseteq reported'.keys \cup Marked'
  BY <1>a, <1>b DEF Marked
<1>1. ASSUME NEW r \in Readers, RecordAdd(r) PROVE owed' \subseteq reported'.keys \cup Marked'
  <2>1. Marked' = Marked
    BY <1>1, RecordAddAdds DEF Marked
  <2>2. QED
    BY <1>1, <1>a, <1>b, <2>1, RecordAddAdds
<1>2. ASSUME NEW r \in Readers, MarkSeen(r) PROVE owed' \subseteq reported'.keys \cup Marked'
  BY <1>2, <1>a, <1>b, MarkSeenMarks
<1>3. ASSUME NEW r \in Readers, PruneDrop(r) PROVE owed' \subseteq reported'.keys \cup Marked'
  <2>1. reader[r].at = "drop" /\ reader[r].mode = "mark"
    BY <1>3 DEF PruneDrop, MarkMode
  <2>2. Marked = Here /\ owed \subseteq Here
    BY <1>a, <2>1 DEF Carried, Carrying, Working
  <2>3. UNCHANGED <<seen, owed>> /\ Marked' = Marked
    BY <1>3, PruneDropDrops DEF Marked
  <2>4. QED
    BY <2>2, <2>3
<1>4. CASE Damage
  <2>1. UNCHANGED <<seen, owed>>
    BY <1>4 DEF Damage
  <2>2. reported' = reported \/ reported' = [reported EXCEPT !.usable = FALSE]
    BY <1>4 DEF Damage
  <2>3. reported'.keys = reported.keys
    BY <2>2 DEF InboxTyped, ReportedOK
  <2>4. QED
    BY <1>b, <2>1, <2>3
<1>5. CASE Repair
  BY <1>5, <1>b DEF Repair, InboxTyped, ReportedOK
<1>6. QED
  BY <1>1, <1>2, <1>3, <1>4, <1>5, <1>b DEF InboxNext, inboxVars, Run, Open, List, SayBlind,
     Withdrawn, Report, RecordRead, Cache, PruneRead, Killed, Change, Access

(* A --mark goes on to know of every withdrawal that it ends.              *)
LEMMA CarryingOwn ==
  ASSUME InboxTyped, MarkMode, Carried, GoneCarried, NEW r \in Readers, Run(r), mishap' = {}
  PROVE  Carrying(r)'
<1>a. [InboxNext]_inboxVars
  BY DEF InboxNext
<1>b. mishap = {} /\ Carrying(r)
  BY <1>a, NothingWrong DEF Carried
<1>c. UNCHANGED <<notes, listable>> /\ Here' = Here
  BY OtherReaders DEF Here
<1>e. ASSUME reader'[r].at \in {"off", "list", "blind"} \/ reader'[r].mode # "mark"
      PROVE  Carrying(r)'
  BY <1>e DEF Carrying, Working
<1>1. CASE Open(r)
  BY <1>e, <1>1, OpenIs
<1>2. CASE List(r)
  <2>1. CASE reader'[r].at \in {"off", "blind"}
    BY <1>e, <2>1
  <2>2. CASE /\ reader'[r].at = "gone"
             /\ reader'[r].entries = {<<n, notes[n]>> : n \in {m \in Here : ~IsSeen(m)}}
    <3>1. NamesOf(reader'[r].entries) \subseteq Here
      BY <2>2 DEF NamesOf
    <3>2. QED
      BY <1>c, <2>2, <3>1 DEF Carrying, Working
  <2>3. QED
    BY <1>2, <2>1, <2>2, ListIs
<1>3. CASE SayBlind(r)
  BY <1>e, <1>3, SayBlindIs
<1>4. CASE Withdrawn(r)
  <2> DEFINE base == Marked \cup (IF reported.usable THEN reported.keys ELSE {})
  <2>1. /\ reader[r].at = "gone" /\ reader'[r].at = "print" /\ reader'[r].mode = reader[r].mode
        /\ reader'[r].usable = reported.usable
        /\ reader[r].mode = "mark" => /\ reader'[r].entries = reader[r].entries
                                      /\ listable => reader'[r].gone = base \ Here
    BY <1>4, WithdrawnIs DEF Withdrawn
  <2>2. listable /\ UNCHANGED reported /\ Marked' = Marked
    BY <1>4 DEF Withdrawn, Marked
  <2>3. QED
    BY <1>b, <1>c, <1>e, <2>1, <2>2 DEF Carrying, Working
<1>5. CASE Report(r)
  <2>1. PICK shown \in SUBSET reader[r].entries : ReportsAs(r, shown)
    BY <1>5, ReportIs
  <2>2. /\ reader[r].at = "print" /\ reader'[r].at \in {"record", "cache"}
        /\ reader'[r].mode = reader[r].mode /\ reader'[r].usable = reader[r].usable
        /\ reader'[r].shown = NamesOf(shown)
        /\ reader'[r].mode = "mark" => reader'[r].gone = reader[r].gone
    BY <1>5, <2>1, ReportedReader DEF Report
  <2>3. NamesOf(shown) \subseteq NamesOf(reader[r].entries)
    BY DEF NamesOf
  <2>4. UNCHANGED reported /\ Marked' = Marked
    BY <1>5 DEF Report, Marked
  <2>5. QED
    BY <1>b, <1>c, <1>e, <2>2, <2>3, <2>4 DEF Carrying, Working
<1>6. CASE RecordRead(r)
  <2>1. /\ reader[r].at = "record" /\ reader'[r].at \in {"add", "cache"}
        /\ reader'[r].mode = reader[r].mode /\ reader'[r].usable = reader[r].usable
        /\ reader'[r].gone = reader[r].gone /\ reader'[r].shown = reader[r].shown
    BY <1>6, RecordReadIs DEF RecordRead
  <2>2. UNCHANGED reported /\ Marked' = Marked
    BY <1>6 DEF RecordRead, Marked
  <2>3. QED
    BY <1>b, <1>c, <1>e, <2>1, <2>2 DEF Carrying, Working
<1>7. CASE RecordAdd(r)
  <2>1. /\ reader[r].at = "add" /\ reader'[r].at = "cache" /\ reader'[r].mode = reader[r].mode
        /\ reader'[r].usable = reader[r].usable /\ reader'[r].gone = reader[r].gone
    BY <1>7, RecordAddIs DEF RecordAdd
  <2>2. reported'.keys \subseteq reported.keys \cup reader[r].shown /\ Marked' = Marked
    BY <1>7, RecordAddAdds DEF Marked
  <2>3. QED
    BY <1>b, <1>c, <1>e, <2>1, <2>2 DEF Carrying, Working
<1>8. CASE Cache(r)
  <2>1. CASE reader'[r].at = "off"
    BY <1>e, <2>1
  <2>2. CASE /\ reader'[r].at = "mark" /\ reader[r].mode = "mark"
             /\ reader'[r].usable = reader[r].usable /\ reader'[r].gone = reader[r].gone
    <3>1. reader[r].at = "cache" /\ UNCHANGED reported /\ Marked' = Marked
      BY <1>8 DEF Cache, Marked
    <3>2. QED
      BY <1>b, <1>c, <2>2, <3>1 DEF Carrying, Working
  <2>3. QED
    BY <1>8, <2>1, <2>2, CacheIs
<1>9. CASE MarkSeen(r)
  <2>1. CASE reader'[r].at = "off"
    BY <1>e, <2>1
  <2>2. CASE /\ reader'[r].at = "prune" /\ reader[r].usable /\ seen' = notes
             /\ owed' = Owed((owed \ reader[r].gone) \cup Here)
    <3>1. Working(r, {"print", "record", "add", "cache", "mark"})
      BY <1>9 DEF MarkSeen, MarkMode, Working
    <3>2. owed \subseteq reported.keys \cup Marked /\ Marked \ Here \subseteq reader[r].gone
          /\ reported.keys \ Here \subseteq reader[r].gone
      BY <1>b, <2>2, <3>1 DEF GoneCarried, Carrying
    <3>3. Marked' = Here /\ owed' \subseteq Here
      BY <1>b, <2>2, <3>2 DEF Marked, Here, Owed
    <3>4. QED
      BY <1>c, <2>2, <3>3 DEF Carrying, Working
  <2>3. QED
    BY <1>9, <2>1, <2>2, MarkSeenIs
<1>10. CASE PruneRead(r)
  <2>1. CASE reader'[r].at = "off"
    BY <1>e, <2>1
  <2>2. CASE reader'[r].at = "drop" /\ reader'[r].mode = reader[r].mode
    <3>1. reader[r].at = "prune" /\ UNCHANGED owed /\ Marked' = Marked
      BY <1>10 DEF PruneRead, Marked
    <3>2. QED
      BY <1>b, <1>c, <1>e, <2>2, <3>1 DEF Carrying, Working
  <2>3. QED
    BY <1>10, <2>1, <2>2, PruneReadIs
<1>11. CASE PruneDrop(r) \/ Killed(r)
  BY <1>e, <1>11, ExitIs DEF PruneDrop, Killed
<1>12. QED
  BY <1>1, <1>2, <1>3, <1>4, <1>5, <1>6, <1>7, <1>8, <1>9, <1>10, <1>11 DEF Run

(* Another's step leaves a --mark with what it knows.                      *)
LEMMA CarryingOther ==
  ASSUME InboxTyped, MarkMode, Carried, GoneCarried, NEW q \in Readers, NEW r \in Readers, q # r,
         Run(q), mishap' = {}
  PROVE  Carrying(r)'
<1>a. [InboxNext]_inboxVars
  BY DEF InboxNext
<1>b. mishap = {} /\ Carrying(r) /\ Carrying(q)
  BY <1>a, NothingWrong DEF Carried
<1>c. Here' = Here /\ reader'[r] = reader[r]
  BY OtherReaders DEF Here
<1>1. CASE reported'.keys = reported.keys /\ Marked' = Marked /\ owed' = owed
  BY <1>1, <1>b, <1>c DEF Carrying, Working
<1>2. CASE RecordAdd(q)
  <2>1. Marked' = Marked
    BY <1>2, RecordAddAdds DEF Marked
  <2>2. CASE UNCHANGED <<reported, owed>>
    BY <1>1, <2>1, <2>2
  <2>3. CASE /\ reported'.keys = reported.keys \cup reader[q].shown
             /\ owed' = owed \cup reader[q].shown /\ reader[q].mode = "mark"
    <3>1. reader[q].shown \subseteq Here
      BY <1>2, <1>b, <2>3 DEF RecordAdd, Carrying, Working
    <3>2. QED
      BY <1>b, <1>c, <2>1, <2>3, <3>1 DEF Carrying, Working
  <2>4. CASE ~Marking
    BY <1>c, <2>4, <1>b, <1>2, OtherReaders DEF Marking, Carrying, Working, RecordAdd
  <2>5. QED
    BY <1>2, <2>2, <2>3, <2>4, RecordAddAdds
<1>3. CASE MarkSeen(q)
  <2>1. UNCHANGED reported
    BY <1>3 DEF MarkSeen
  <2>2. CASE Marked' = Here /\ owed' = Here
    BY <1>b, <1>c, <2>1, <2>2 DEF Carrying, Working
  <2>3. CASE UNCHANGED <<seen, owed>>
    BY <1>1, <2>1, <2>3 DEF Marked
  <2>4. QED
    BY <1>3, <1>b, <2>2, <2>3, MarkSeenMarks
<1>4. CASE PruneDrop(q)
  <2>1. Marked' = Marked /\ owed' = owed /\ reported'.keys \subseteq reported.keys
    BY <1>4, PruneDropDrops DEF Marked
  <2>2. QED
    BY <1>b, <1>c, <2>1 DEF Carrying, Working
<1>5. QED
  BY <1>1, <1>2, <1>3, <1>4 DEF Run, Open, List, SayBlind, Withdrawn, Report, RecordRead, Cache,
     PruneRead, Killed, Marked

(* Every --mark goes on to know of every withdrawal that it ends.          *)
LEMMA CarriedStep ==
  ASSUME InboxTyped, MarkMode, Carried, GoneCarried, [InboxNext]_inboxVars
  PROVE  Carried'
<1> SUFFICES ASSUME mishap' = {}, NEW r \in Readers PROVE Carrying(r)'
  BY DEF Carried
<1>a. mishap = {} /\ Carrying(r)
  BY NothingWrong DEF Carried
<1>1. ASSUME NEW q \in Readers, Run(q) PROVE Carrying(r)'
  BY <1>1, CarryingOwn, CarryingOther
<1>2. ASSUME NEW n \in Names, Change(n) PROVE Carrying(r)'
  <2>1. UNCHANGED reader /\ ~(reader[r].mode = "mark" /\ reader[r].at \notin {"off", "list"})
    BY <1>2 DEF Change
  <2>2. QED
    BY <2>1 DEF Carrying, Working
<1>3. ASSUME UNCHANGED <<notes, seen, reader, owed>>, reported'.keys = reported.keys
      PROVE  Carrying(r)'
  BY <1>3, <1>a DEF Carrying, Working, Marked, Here
<1>4. CASE Damage
  <2>1. UNCHANGED <<notes, seen, reader, owed>>
    BY <1>4 DEF Damage
  <2>2. reported' = reported \/ reported' = [reported EXCEPT !.usable = FALSE]
    BY <1>4 DEF Damage
  <2>3. reported'.keys = reported.keys
    BY <2>2 DEF InboxTyped, ReportedOK
  <2>4. QED
    BY <1>3, <2>1, <2>3
<1>5. CASE Repair
  BY <1>5, <1>3 DEF Repair, InboxTyped, ReportedOK
<1>6. CASE Access \/ UNCHANGED inboxVars
  BY <1>6, <1>3 DEF Access, inboxVars
<1>7. QED
  BY <1>1, <1>2, <1>4, <1>5, <1>6 DEF InboxNext

----------------------------------------------------------------------------
(* The theorems of the inbox reader.                                       *)
LEMMA InboxInvInit == InboxInit => InboxInv
<1> SUFFICES ASSUME InboxInit PROVE InboxInv
  OBVIOUS
<1> USE DEF InboxInit
<1>1. Off \in ReaderStates /\ Off.at = "off" /\ Off.keys = {}
  BY OffIs
<1>2. NotesOK /\ ReportedOK /\ ReadersOK
  BY <1>1 DEF NotesOK, ReportedOK, ReadersOK
<1>3. RowsOK
  BY InboxAssumption DEF RowsOK
<1>4. ToldOK
  BY InboxAssumption DEF ToldOK
<1>5. \A r \in Readers : reader[r].at = "off" /\ reader[r].keys = {}
  BY <1>1
<1>6. MarkMode /\ KeysShown
  BY <1>5 DEF MarkMode, KeysShown
<1>7. Marked = {}
  BY DEF Marked
<1>8. SeenTold
  BY <1>5, <1>7 DEF SeenTold, Telling, Working
<1>9. RowsShown
  BY DEF RowsShown
<1>10. Carried /\ GoneCarried
  BY <1>5 DEF Carried, Carrying, Working, GoneCarried
<1>11. QED
  BY <1>2, <1>3, <1>4, <1>6, <1>8, <1>9, <1>10 DEF InboxInv, InboxTyped

(* Every step keeps the invariant.                                         *)
LEMMA InboxInvStep == InboxInv /\ [InboxNext]_inboxVars => InboxInv'
BY InboxTypedStep, MarkModeStep, SeenToldStep, RowsShownStep, KeysShownStep, CarriedStep,
   GoneCarriedStep DEF InboxInv

(* The invariant of the inbox reader, in src/scripts/watch_inbox.py, and   *)
(* what it is made of: what every reader at every place knows of the three *)
(* files.                                                                  *)
THEOREM InboxInvariant == InboxSpec => []InboxInv
BY InboxInvInit, InboxInvStep, PTL DEF InboxSpec

(* Every variable keeps its type.                                          *)
THEOREM InboxTypeCorrect == InboxSpec => []InboxTypeOK
<1>1. InboxInv => InboxTypeOK
  BY DEF InboxInv, InboxTyped, NotesOK, ReportedOK, RowsOK, ReadersOK, ToldOK, InboxTypeOK
<1>2. QED
  BY InboxInvariant, <1>1, PTL

(* Nothing is taken as read or shown that nobody was told of: survey,      *)
(* mark_seen, record_shown and read_shown of src/scripts/watch_inbox.py,   *)
(* for any number of readers, sessions and notes, although the list is     *)
(* capped and however often a file is damaged or a reader is killed.       *)
THEOREM OnlyTheToldIsTaken == InboxSpec => []ShownFirst
<1>1. InboxInv => ShownFirst
  <2> SUFFICES ASSUME InboxInv PROVE ShownFirst
    OBVIOUS
  <2>1. ASSUME "raced" \notin mishap, NEW n \in Here, IsSeen(n) PROVE <<n, notes[n]>> \in told
    <3>1. n \in Marked /\ seen[n] = notes[n]
      BY <2>1 DEF Here, Marked, IsSeen
    <3>2. QED
      BY <2>1, <3>1 DEF InboxInv, SeenTold
  <2>2. QED
    BY <2>1 DEF InboxInv, RowsShown, ShownFirst
<1>2. QED
  BY InboxInvariant, <1>1, PTL

(* A withdrawal is carried until a --mark that reported it: the records    *)
(* that withdrawn, record_reported, mark_seen and prune_records of         *)
(* src/scripts/watch_inbox.py keep, unless what GoneCarried names went     *)
(* wrong.                                                                  *)
THEOREM WithdrawalsAreCarried == InboxSpec => []GoneCarried
BY InboxInvariant, PTL DEF InboxInv
----------------------------------------------------------------------------
(* The suite gate.  What a run may reap on the way to; which runs own the  *)
(* slot they took, or are about to take a regular slot or the lane, also   *)
(* while they reap; and which have a ticket, or a stamp for one.           *)
Reaping == {"free", "take", "alone", "lanetake"}
Owns(r) == run[r].at \in Holds \cup {"alone"} \/ (At(r, "reap") /\ run[r].back = "alone")
ToTake(r) == At(r, "take") \/ (At(r, "reap") /\ run[r].back = "take")
ToLane(r) == At(r, "lanetake") \/ (At(r, "reap") /\ run[r].back = "lanetake")
Ticketed == Waits \cup {"mark", "reap", "got"}
Stamped == tickets \cup {t \in Runs : At(t, "file")}

(* What a run carries from one read of a poll to the next.                 *)
PlacesOK ==
  \A r \in Runs :
    /\ At(r, "reap") => run[r].back \in Reaping
    /\ Alive(r) => run[r].n \in 1 .. MaxSlots
    /\ ToLane(r) => run[r].n < MaxSlots
    /\ InLine(r) => run[r].m <= run[r].n
    /\ At(r, "free") \/ (At(r, "reap") /\ run[r].back = "free") => r \notin Exclusive
    /\ InLine(r) /\ r \in Exclusive => run[r].len = 0

(* Who waits has a ticket; nobody else unlinks the ticket of a live run.   *)
TicketsOK ==
  /\ \A r \in Runs : run[r].at \in Ticketed => r \in tickets
  /\ \A r \in tickets : run[r].at \notin {"off", "file"}

(* The stamps are in an order, and those that go leave the rest in it.     *)
OrderOK ==
  /\ \A s, r \in Runs : <<s, r>> \in older => s \in Stamped /\ r \in Stamped /\ <<r, s>> \notin older
  /\ \A s, r \in Stamped : s # r => <<s, r>> \in older \/ <<r, s>> \in older
  /\ \A s, r, t \in Runs : <<s, r>> \in older /\ <<r, t>> \in older => <<s, t>> \in older

PassedOK == \A r \in Runs : run[r].busy \/ run[r].short => passed

(* The slot files of the live are those they own, and who is not robbed    *)
(* has its own; those of the others were left behind, and so was what is   *)
(* reaped.                                                                 *)
SlotsOwned ==
  /\ \A k \in SlotIds, h \in Runs : slot[k] = h => ~At(h, "off")
  /\ \A k \in SlotIds, h \in Runs \ robbed : (Owns(h) /\ run[h].k = k) => slot[k] = h
  /\ \A k \in SlotIds, h \in Runs : (slot[k] = h /\ Alive(h)) => (Owns(h) /\ run[h].k = k)
LeftBehind ==
  /\ \A k \in SlotIds, h \in Runs : (slot[k] = h /\ ~Alive(h)) => littered
  /\ \A r \in Runs : At(r, "reap") => littered
  /\ robbed # {} => littered

(* The waiters before r, and the runs that own a slot below r's N.         *)
Older(r) == {s \in Before(r) : Waiting(s)}
Rivals(r) == {h \in Runs : Owns(h) /\ run[h].n = run[r].n /\ run[h].k < run[r].n}

(* While no ticket was passable: who stands in line still counts each      *)
(* older waiter, and ...                                                   *)
LineKept ==
  ~passed /\ ~late =>
    \A r \in Runs : InLine(r) => Cardinality(Older(r)) <= run[r].len

(* ... who found room has it for itself, its older waiters and its rivals  *)
(* of the same N, though they take slots between its count and its create. *)
RoomKept ==
  ~passed /\ ~late /\ robbed = {} =>
    \A r \in Runs \ Exclusive : ToTake(r) => Cardinality(Older(r) \cup Rivals(r)) < run[r].n

----------------------------------------------------------------------------
(* Types.                                                                  *)
(* The slots are finitely many.                                            *)
LEMMA SlotsAreFinite == IsFiniteSet(SlotIds) /\ Cardinality(SlotIds) = MaxSlots
<1>1. 0 \in Int /\ MaxSlots - 1 \in Int /\ MaxSlots \in Nat \ {0}
  BY SuiteGateAssumption
<1>2. /\ IsFiniteSet(SlotIds)
      /\ Cardinality(SlotIds) = IF 0 > MaxSlots - 1 THEN 0 ELSE (MaxSlots - 1) - 0 + 1
  BY <1>1, FS_Interval DEF SlotIds
<1>3. QED
  BY <1>1, <1>2

(* The bounds of the records are numbers, and a set of runs is finite.     *)
LEMMA Bounds ==
  /\ 0 \in SlotIds /\ 0 \in 0 .. MaxSlots /\ 0 \in 0 .. Cardinality(Runs)
  /\ SlotIds \subseteq 0 .. MaxSlots /\ Cardinality(Runs) \in Nat
  /\ \A S \in SUBSET Runs : IsFiniteSet(S) /\ Cardinality(S) \in 0 .. Cardinality(Runs)
<1>1. Cardinality(Runs) \in Nat
  BY SuiteGateAssumption, FS_CardinalityType
<1>2. ASSUME NEW S \in SUBSET Runs
      PROVE  IsFiniteSet(S) /\ Cardinality(S) \in 0 .. Cardinality(Runs)
  <2>1. IsFiniteSet(S) /\ Cardinality(S) <= Cardinality(Runs)
    BY SuiteGateAssumption, FS_Subset
  <2>2. Cardinality(S) \in Nat
    BY <2>1, FS_CardinalityType
  <2>3. QED
    BY <1>1, <2>1, <2>2
<1>3. QED
  BY <1>1, <1>2, SuiteGateAssumption DEF SlotIds

(* Numbers that are there have a least one.                                *)
LEMMA LeastNumber ==
  ASSUME NEW S \in SUBSET Nat, S # {}
  PROVE  Least(S) \in S /\ \A y \in S : Least(S) <= y
<1>1. PICK x \in S : \A y \in S : <<y, x>> \notin OpToRel(<, Nat)
  BY WFMin, NatLessThanWellFounded
<1>2. \A y \in S : ~(y < x)
  BY <1>1 DEF OpToRel
<1>3. \A y \in S : x <= y
  BY <1>2
<1>4. QED
  BY <1>3 DEF Least

(* try_slot takes the first free slot of those it may read, or waits.      *)
LEMMA TakeIs ==
  ASSUME TypeOK, NEW r \in Runs, Take(r)
  PROVE  LET free == {k \in SlotIds : k < run[r].m /\ slot[k] = NoRun}
         IN  \/ free = {} /\ Wait(r, Lane(r)) /\ UNCHANGED slot
             \/ \E k \in free : Create(r, k)
<1> DEFINE free == {k \in SlotIds : k < run[r].m /\ slot[k] = NoRun}
<1>1. free = {k \in Reads(r) : slot[k] = NoRun}
  BY DEF Take, Reads, At
<1>2. CASE free # {}
  <2>1. free \in SUBSET Nat
    BY SuiteGateAssumption DEF SlotIds
  <2>2. Create(r, Least(free))
    BY <1>1, <1>2 DEF Take
  <2>3. Least(free) \in free
    BY <1>2, <2>1, LeastNumber
  <2>4. QED
    BY <2>2, <2>3
<1>3. CASE free = {}
  BY <1>1, <1>3 DEF Take
<1>4. QED
  BY <1>2, <1>3

(* A record keeps its form when it is edited, and reads as it was edited.  *)
LEMMA Edits ==
  ASSUME NEW x \in RunRecord
  PROVE  /\ x.at \in Stages /\ x.n \in 0 .. MaxSlots /\ x.m \in 0 .. MaxSlots
         /\ x.len \in 0 .. Cardinality(Runs) /\ x.k \in SlotIds /\ x.dead \in SlotIds
         /\ x.back \in Stages /\ x.busy \in BOOLEAN /\ x.short \in BOOLEAN
         /\ \A p \in Stages : [x EXCEPT !.at = p] \in RunRecord
         /\ \A p \in Stages, n \in 0 .. MaxSlots, l \in BOOLEAN :
               [x EXCEPT !.at = p, !.n = n, !.lane = l] \in RunRecord
         /\ \A p \in Stages, n \in 0 .. MaxSlots, l \in BOOLEAN :
               [x EXCEPT !.n = n, !.short = l, !.at = p] \in RunRecord
         /\ \A p \in Stages, b \in BOOLEAN : [x EXCEPT !.at = p, !.excl = b] \in RunRecord
         /\ \A p \in Stages, b \in BOOLEAN : [x EXCEPT !.busy = b, !.at = p] \in RunRecord
         /\ \A p \in Stages, m \in 0 .. MaxSlots, l \in 0 .. Cardinality(Runs) :
               [x EXCEPT !.at = p, !.m = m, !.len = l] \in RunRecord
         /\ \A p, b \in Stages, d \in SlotIds :
               [x EXCEPT !.at = p, !.dead = d, !.back = b] \in RunRecord
         /\ \A p \in Stages, k \in SlotIds :
               /\ [x EXCEPT !.at = p, !.m = 0, !.len = 0, !.k = k] \in RunRecord
               /\ [x EXCEPT !.k = k, !.m = 0, !.len = 0, !.at = p] \in RunRecord
BY Bounds DEF RunRecord

(* The record of a run that has left.                                      *)
LEMMA UnbornIs ==
  /\ Stages = Waits \cup Holds \cup {"off", "file", "mark", "reap", "done", "dead"}
  /\ \A p \in Stages : [Unborn EXCEPT !.at = p] \in RunRecord
BY Bounds DEF Unborn, RunRecord, Stages, Waits, Holds

(* A step of r that makes its record this one.                             *)
LEMMA BecomesIs ==
  ASSUME TypeOK, NEW r \in Runs, NEW now \in RunRecord, Becomes(r, now)
  PROVE  /\ run'[r] = now /\ \A s \in Runs \ {r} : run'[s] = run[s]
         /\ run' \in [Runs -> RunRecord]
BY DEF Becomes, TypeOK

(* The smallest N that r plays by is one of a run, and not above its own.  *)
LEMMA Smallest ==
  ASSUME TypeOK, NEW r \in Runs, NEW S \in SUBSET Runs
  PROVE  LET m == Least({run[r].n} \cup {run[s].n : s \in S})
         IN  m \in 0 .. MaxSlots /\ m <= run[r].n
<1> DEFINE N == {run[r].n} \cup {run[s].n : s \in S}
<1>0. \A s \in Runs : run[s].n \in 0 .. MaxSlots
  BY Edits DEF TypeOK
<1>1. N \subseteq 0 .. MaxSlots /\ N # {} /\ run[r].n \in N
  BY <1>0
<1>2. N \in SUBSET Nat
  BY <1>1, SuiteGateAssumption
<1> HIDE DEF N
<1>3. Least(N) \in N /\ \A y \in N : Least(N) <= y
  BY <1>1, <1>2, LeastNumber
<1>4. QED
  BY <1>1, <1>3 DEF N

(* The records that the steps make.                                        *)
LEMMA RunStep ==
  ASSUME TypeOK, PlacesOK, NEW r \in Runs, Step(r) \/ Timeout(r) \/ Crash(r)
  PROVE  \E now \in RunRecord : Becomes(r, now)
<1>0. run[r] \in RunRecord /\ slot \in [SlotIds -> Runs \cup {NoRun}]
  BY DEF TypeOK
<1>e. run[r].at \in Stages /\ run[r].n \in 0 .. MaxSlots /\ run[r].back \in Stages
  BY <1>0, Edits
<1>c. count \in 0 .. MaxSlots
  BY SuiteGateAssumption DEF TypeOK
<1>s. SlotIds = 0 .. MaxSlots - 1 /\ run[r].n \in Nat /\ MaxSlots \in Nat
  BY <1>e, SuiteGateAssumption DEF SlotIds
<1>p. /\ {"poll", "mark", "look", "queue", "take", "free", "lane", "reap", "alone", "got",
          "lanetake", "check", "suite", "release", "done", "dead", "off", "file"} \subseteq Stages
  BY UnbornIs DEF Waits, Holds
<1> DEFINE Goal == \E now \in RunRecord : Becomes(r, now)
<1>1. CASE Stamp(r)
  BY <1>0, <1>e, <1>c, <1>p, Edits, Bounds, UnbornIs, <1>1 DEF Stamp, Leave
<1>a. CASE File(r)
  BY <1>0, <1>e, <1>p, Edits, <1>a DEF File
<1>2. CASE MarkExclusive(r)
  BY <1>0, <1>e, <1>p, Edits, Bounds, <1>2 DEF MarkExclusive, GoTo
<1>3. CASE Poll(r)
  <2>1. (IF r \in tight THEN "poll" ELSE "look") \in Stages /\ (r \in tight) \in BOOLEAN
    BY <1>p
  <2>2. QED
    BY <1>0, <1>c, <1>3, <2>1, Edits DEF Poll
<1>4. CASE Look(r)
  BY <1>0, <1>e, <1>p, Edits, Bounds, <1>4 DEF Look
<1>5. CASE ReadQueue(r)
  <2> DEFINE m == IF r \in Exclusive THEN run[r].n
                  ELSE Least({run[r].n} \cup {run[s].n : s \in Ahead(r)})
             place == IF r \in Exclusive THEN "take" ELSE "free"
  <2>1. Ahead(r) \in SUBSET Runs
    BY DEF Ahead, Before, TypeOK
  <2>2. m \in 0 .. MaxSlots /\ place \in Stages
    BY <1>e, <1>p, <2>1, Smallest
  <2>3. \/ GoTo(r, "poll")
        \/ Becomes(r, [run[r] EXCEPT !.at = place, !.m = m, !.len = Cardinality(Ahead(r))])
    BY <1>5 DEF ReadQueue
  <2> HIDE DEF m, place
  <2>4. QED
    BY <1>0, <1>e, <1>p, Edits, Bounds, <2>1, <2>2, <2>3 DEF GoTo
<1>6. CASE CountFree(r)
  BY <1>0, <1>e, <1>p, Edits, Bounds, <1>6 DEF CountFree, GoTo, Wait, Lane
<1>7. CASE Judge(r)
  <2>1. PICK d \in Reads(r) : Becomes(r, [run[r] EXCEPT !.at = "reap", !.dead = d, !.back = run[r].at])
    BY <1>7 DEF Judge
  <2>2. Reads(r) \subseteq SlotIds
    BY <1>s DEF Reads, PlacesOK, ToLane, At
  <2>3. QED
    BY <1>0, <1>e, <1>p, Edits, Bounds, <2>1, <2>2
<1>8. CASE ReapSlot(r)
  BY <1>0, <1>e, <1>p, Edits, Bounds, <1>8 DEF ReapSlot
<1>9. ASSUME NEW k \in SlotIds, Create(r, k) PROVE Goal
  BY <1>0, <1>e, <1>p, Edits, Bounds, <1>9 DEF Create
<1>10. CASE Take(r)
  <2>1. PICK k \in SlotIds : Create(r, k) \/ Wait(r, Lane(r))
    <3>1. Wait(r, Lane(r)) \/ \E k \in SlotIds : Create(r, k)
      BY <1>10, TakeIs
    <3>2. QED
      BY <3>1, Bounds
  <2>2. QED
    BY <1>0, <1>e, <1>p, Edits, Bounds, <1>9, <2>1 DEF Wait, Lane
<1>11. CASE CheckAlone(r)
  BY <1>0, <1>e, <1>p, Edits, Bounds, <1>11 DEF CheckAlone, GoTo, Wait
<1>12. CASE LaneFree(r)
  BY <1>0, <1>e, <1>p, Edits, Bounds, <1>12 DEF LaneFree, GoTo
<1>13. CASE LaneTake(r)
  <2>1. run[r].n \in SlotIds
    BY <1>s, <1>13 DEF LaneTake, PlacesOK, ToLane, At
  <2>2. CASE slot[run[r].n] = NoRun
    BY <1>9, <1>13, <2>1, <2>2 DEF LaneTake
  <2>3. CASE slot[run[r].n] # NoRun
    BY <1>0, <1>e, <1>p, Edits, Bounds, <1>13, <2>3 DEF LaneTake, GoTo
  <2>4. QED
    BY <2>2, <2>3
<1>14. CASE Timeout(r) \/ Crash(r)
  BY <1>0, <1>e, <1>p, Edits, Bounds, UnbornIs, <1>14 DEF Timeout, Crash, Leave
<1>15. CASE DropTicket(r) \/ CheckAgain(r) \/ SuiteEnds(r)
  BY <1>0, <1>e, <1>p, Edits, Bounds, <1>15 DEF DropTicket, CheckAgain, SuiteEnds, GoTo
<1>16. CASE Release(r)
  BY <1>0, <1>e, <1>p, Edits, Bounds, UnbornIs, <1>16 DEF Release, Leave
<1>17. QED
  BY <1>1, <1>a, <1>2, <1>3, <1>4, <1>5, <1>6, <1>7, <1>8, <1>10, <1>11, <1>12, <1>13, <1>14,
     <1>15, <1>16 DEF Step

(* The lane slot is one of the slots.                                      *)
LEMMA LaneSlot ==
  ASSUME TypeOK, PlacesOK, NEW r \in Runs, ToLane(r)
  PROVE  run[r].n \in SlotIds
<1>1. run[r].n \in 0 .. MaxSlots
  BY Edits DEF TypeOK
<1>2. QED
  BY <1>1, SuiteGateAssumption DEF PlacesOK, SlotIds

(* The slot files change when a run creates its own, reaps one, or takes   *)
(* its own away.                                                           *)
LEMMA SlotStep ==
  ASSUME TypeOK, PlacesOK, NEW r \in Runs, Step(r) \/ Timeout(r) \/ Crash(r)
  PROVE  \/ UNCHANGED slot
         \/ /\ run[r].at \in {"take", "lanetake"}
            /\ \E k \in SlotIds : Create(r, k) /\ slot[k] = NoRun
         \/ /\ slot' = [slot EXCEPT ![run[r].dead] = NoRun]
            /\ ReapSlot(r)
         \/ /\ slot' = [slot EXCEPT ![run[r].k] = NoRun]
            /\ CheckAlone(r) \/ Release(r)
            /\ slot[run[r].k] = r
<1>1. CASE Take(r)
  BY <1>1, TakeIs DEF Take, At
<1>2. CASE LaneTake(r)
  <2>1. CASE slot[run[r].n] = NoRun
    BY <1>2, <2>1, LaneSlot DEF LaneTake, ToLane, At
  <2>2. CASE slot[run[r].n] # NoRun
    BY <1>2, <2>2 DEF LaneTake
  <2>3. QED
    BY <2>1, <2>2
<1>3. CASE CheckAlone(r)
  BY <1>3 DEF CheckAlone, Vacate
<1>4. CASE Release(r) \/ ReapSlot(r)
  BY <1>4 DEF Release, ReapSlot, Vacate
<1>5. CASE UNCHANGED slot
  BY <1>5
<1>6. QED
  BY <1>1, <1>2, <1>3, <1>4, <1>5 DEF Step, Stamp, File, MarkExclusive, Poll, Look, ReadQueue, CountFree,
     Judge, LaneFree, DropTicket, CheckAgain, SuiteEnds, Timeout, Crash

(* Tickets that go leave no pair behind.                                   *)
LEMMA UnlinkTyped ==
  ASSUME TypeOK, NEW S, UnlinkTickets(S)
  PROVE  tickets' \in SUBSET Runs /\ older' \in SUBSET (Runs \X Runs) /\ late' \in BOOLEAN
BY DEF TypeOK, UnlinkTickets

(* Types are kept.                                                         *)
LEMMA TypeStep ==
  ASSUME TypeOK, PlacesOK, [Next]_vars
  PROVE  TypeOK'
<1>0. RunRecord' = RunRecord /\ MaxEvents \in Nat
  BY SuiteGateAssumption DEF RunRecord
<1>1. CASE UNCHANGED vars
  BY <1>0, <1>1 DEF vars, TypeOK
<1>2. CASE SetSlots
  <2>1. count' \in 1 .. MaxSlots /\ events' \in 0 .. MaxEvents
    BY <1>0, <1>2 DEF SetSlots, Event, TypeOK
  <2>2. QED
    BY <1>0, <1>2, <2>1 DEF SetSlots, queue, wreck, TypeOK
<1>3. ASSUME NEW r \in Runs, Tighten(r) \/ Loosen(r) \/ AgeTicket(r) \/ OrphanEnds(r) PROVE TypeOK'
  <2>1. /\ events' \in 0 .. MaxEvents
        /\ tight' \in SUBSET Runs /\ aged' \in SUBSET Runs /\ orphans' \in SUBSET Runs
    BY <1>0, <1>3 DEF Tighten, Loosen, AgeTicket, OrphanEnds, Event, TypeOK, wreck
  <2>2. UNCHANGED <<count, slot, tickets, older, late, run, passed, robbed, littered>>
    BY <1>3 DEF Tighten, Loosen, AgeTicket, OrphanEnds, queue, wreck
  <2>3. QED
    BY <1>0, <2>1, <2>2 DEF TypeOK
<1>4. ASSUME NEW r \in Runs, Step(r) \/ Timeout(r) \/ Crash(r) PROVE TypeOK'
  <2>1. run' \in [Runs -> RunRecord]
    BY <1>4, RunStep, BecomesIs
  <2>2. slot' \in [SlotIds -> Runs \cup {NoRun}]
    <3>1. slot \in [SlotIds -> Runs \cup {NoRun}]
      BY DEF TypeOK
    <3>2. \/ UNCHANGED slot
          \/ \E k \in SlotIds : slot' = [slot EXCEPT ![k] = r]
          \/ slot' = [slot EXCEPT ![run[r].dead] = NoRun]
          \/ slot' = [slot EXCEPT ![run[r].k] = NoRun]
      <4>1. \A k \in SlotIds : Create(r, k) => slot' = [slot EXCEPT ![k] = r]
        BY DEF Create
      <4>2. QED
        BY <1>4, <4>1, SlotStep
    <3>3. \A k : \A q \in Runs \cup {NoRun} :
               [slot EXCEPT ![k] = q] \in [SlotIds -> Runs \cup {NoRun}]
      BY <3>1
    <3>4. QED
      BY <3>1, <3>2, <3>3
  <2>3. tickets' \in SUBSET Runs /\ older' \in SUBSET (Runs \X Runs) /\ late' \in BOOLEAN
    <3>1. CASE UNCHANGED queue
      BY <3>1 DEF queue, TypeOK
    <3>2. CASE \E S : UnlinkTickets(S)
      BY <3>2, UnlinkTyped
    <3>3. CASE Stamp(r)
      <4>1. CASE UNCHANGED queue
        BY <3>1, <4>1
      <4>2. CASE ~UNCHANGED queue
        <5>1. /\ older' = older \cup {<<s, r>> : s \in Stamped}
              /\ UNCHANGED <<tickets, late>>
          BY <3>3, <4>2 DEF Stamp, Stamped
        <5>2. Stamped \subseteq Runs
          BY DEF Stamped, TypeOK
        <5>3. {<<s, r>> : s \in Stamped} \subseteq Runs \X Runs
          BY <5>2
        <5>4. QED
          BY <5>1, <5>3 DEF TypeOK
      <4>3. QED
        BY <4>1, <4>2
    <3>4. CASE File(r)
      <4>1. late' \in BOOLEAN
        BY <3>4, Zenon DEF File
      <4>2. QED
        BY <3>4, <4>1 DEF File, TypeOK
    <3>5. QED
      BY <1>4, <3>1, <3>2, <3>3, <3>4, ZenonT(40) DEF Step, Stamp, File, MarkExclusive, Poll, Look, ReadQueue, CountFree,
         Judge, ReapSlot, Take, CheckAlone, LaneFree, LaneTake, DropTicket, CheckAgain, SuiteEnds,
         Release, Timeout, Crash
  <2>4. count' = count /\ tight' \in SUBSET Runs /\ aged' \in SUBSET Runs
    BY <1>4 DEF Step, Stamp, File, MarkExclusive, Poll, Look, ReadQueue, CountFree, Judge, ReapSlot, Take,
       CheckAlone, LaneFree, LaneTake, DropTicket, CheckAgain, SuiteEnds, Release, Timeout, Crash,
       Unmeasured, TypeOK
  <2>5. passed' \in BOOLEAN /\ littered' \in BOOLEAN
    BY <1>4 DEF Step, Stamp, File, MarkExclusive, Poll, Look, ReadQueue, CountFree, Judge, ReapSlot, Take,
       CheckAlone, LaneFree, LaneTake, DropTicket, CheckAgain, SuiteEnds, Release, Timeout, Crash,
       wreck, TypeOK
  <2>6. orphans' \in SUBSET Runs /\ robbed' \in SUBSET Runs
    BY <1>4 DEF Step, Stamp, File, MarkExclusive, Poll, Look, ReadQueue, CountFree, Judge, ReapSlot, Take,
       CheckAlone, LaneFree, LaneTake, DropTicket, CheckAgain, SuiteEnds, Release, Timeout, Crash,
       wreck, TypeOK
  <2>7. events' = events \/ Event
    BY <1>4 DEF Step, Stamp, File, MarkExclusive, Poll, Look, ReadQueue, CountFree, Judge, ReapSlot, Take,
       CheckAlone, LaneFree, LaneTake, DropTicket, CheckAgain, SuiteEnds, Release, Timeout, Crash
  <2>8. events' \in 0 .. MaxEvents
    BY <2>7, SuiteGateAssumption DEF Event, TypeOK
  <2>9. QED
    BY <1>0, <2>1, <2>2, <2>3, <2>4, <2>5, <2>6, <2>8 DEF TypeOK
<1>5. QED
  BY <1>1, <1>2, <1>3, <1>4 DEF Next

----------------------------------------------------------------------------
(* Where a run goes, and what its record says of it then.                  *)

(* What the ticket of r says, and all that r counts with.                  *)
Word(x, y) == y.n = x.n /\ y.busy = x.busy /\ y.short = x.short
Figures(x, y) == Word(x, y) /\ y.m = x.m /\ y.len = x.len /\ y.k = x.k

(* What the steps that are nobody's turn leave alone.                      *)
LEMMA Bystanders ==
  ASSUME \/ UNCHANGED vars \/ SetSlots
         \/ \E r \in Runs : Tighten(r) \/ Loosen(r) \/ AgeTicket(r) \/ OrphanEnds(r)
  PROVE  UNCHANGED <<slot, tickets, older, late, run, robbed, littered, passed>>
BY DEF vars, SetSlots, Tighten, Loosen, AgeTicket, OrphanEnds, queue, wreck

(* The ways of r to the queue, and out.                                    *)
AskMoves(r, x, y) ==
  \/ /\ Release(r) /\ x.at = "release" /\ y.at = "done" /\ ~y.busy /\ ~y.short
     /\ Vacate(r) \/ UNCHANGED slot
  \/ /\ Timeout(r) \/ Crash(r) \/ (Stamp(r) /\ UNCHANGED queue)
     /\ y.at \in {"done", "dead"} /\ ~y.busy /\ ~y.short /\ UNCHANGED slot
  \/ /\ UNCHANGED slot
     /\ \/ /\ Stamp(r) /\ x.at = "off" /\ y.at = "file"
           /\ y.n = count /\ y.busy = x.busy /\ y.short = x.short
           /\ UNCHANGED tickets /\ older' = older \cup {<<s, r>> : s \in Stamped}
        \/ /\ File(r) /\ x.at = "file" /\ y.at \in {"mark", "poll"} /\ Word(x, y)
           /\ tickets' = tickets \cup {r} /\ UNCHANGED older
        \/ MarkExclusive(r) /\ x.at = "mark" /\ y.at = "poll" /\ Word(x, y)
        \/ /\ Poll(r) /\ x.at = "poll" /\ y.at \in {"poll", "look"}
           /\ y.n = count /\ y.busy = x.busy /\ (y.short => passed')
        \/ /\ Look(r) /\ x.at = "look" /\ y.at \in {"poll", "queue"}
           /\ y.n = x.n /\ y.short = x.short /\ (y.busy => passed')
        \/ ReadQueue(r) /\ x.at = "queue" /\ y.at = "poll" /\ Word(x, y)
        \/ /\ ReadQueue(r) /\ x.at = "queue" /\ Word(x, y) /\ y.m <= x.n
           /\ y.len = Cardinality(Ahead(r))
           /\ IF r \in Exclusive THEN y.at = "take" /\ Ahead(r) = {} ELSE y.at = "free"

(* The ways of r to a slot, and past the slot of a dead run.               *)
SlotMoves(r, x, y) ==
  \/ /\ UNCHANGED slot
     /\ \/ CountFree(r) /\ x.at = "free" /\ y.at = "take" /\ Fits(r) /\ Figures(x, y)
        \/ /\ CountFree(r) \/ Take(r)
           /\ x.at \in {"free", "take"} /\ y.at \in {"lane", "poll"} /\ Word(x, y)
        \/ LaneFree(r) /\ x.at = "lane" /\ y.at = "poll" /\ Word(x, y)
        \/ LaneFree(r) /\ x.at = "lane" /\ y.at = "lanetake" /\ x.n < MaxSlots /\ Word(x, y)
        \/ LaneTake(r) /\ x.at = "lanetake" /\ y.at = "poll" /\ Word(x, y)
        \/ Judge(r) /\ x.at \in Reaping /\ y.at = "reap" /\ y.back = x.at /\ Figures(x, y)
  \/ /\ ReapSlot(r) /\ x.at = "reap" /\ y.at = x.back /\ Figures(x, y)
     /\ slot' = [slot EXCEPT ![x.dead] = NoRun]
  \/ /\ \/ Take(r) /\ x.at = "take" /\ y.k < x.m
        \/ LaneTake(r) /\ x.at = "lanetake" /\ y.k = x.n
     /\ y.at = (IF r \in Exclusive THEN "alone" ELSE "got") /\ Word(x, y)
     /\ slot[y.k] = NoRun /\ slot' = [slot EXCEPT ![y.k] = r]

(* The ways of r from then on.                                             *)
HoldMoves(r, x, y) ==
  \/ /\ CheckAlone(r) /\ x.at = "alone" /\ y.at = "poll" /\ Word(x, y)
     /\ Vacate(r)
  \/ /\ UNCHANGED slot /\ Figures(x, y)
     /\ \/ CheckAlone(r) /\ x.at = "alone" /\ y.at = "got"
        \/ DropTicket(r) /\ x.at = "got" /\ y.at = "check"
        \/ CheckAgain(r) /\ x.at = "check" /\ y.at \in {"suite", "release"}
        \/ SuiteEnds(r) /\ x.at = "suite" /\ y.at = "release"

(* Every step of r is one of them.                                         *)
LEMMA Moves ==
  ASSUME TypeOK, PlacesOK, NEW r \in Runs, Step(r) \/ Timeout(r) \/ Crash(r)
  PROVE  \/ AskMoves(r, run[r], run'[r])
         \/ SlotMoves(r, run[r], run'[r])
         \/ HoldMoves(r, run[r], run'[r])
<1>0. run[r] \in RunRecord /\ run \in [Runs -> RunRecord]
  BY DEF TypeOK
<1> USE DEF RunRecord, Word, Figures, At
<1>1. CASE Stamp(r)
  <2>1. CASE Leave(r, "done") /\ UNCHANGED queue
    <3>1. run'[r] = [Unborn EXCEPT !.at = "done"]
      BY <1>0, <2>1 DEF Leave, Becomes
    <3>2. QED
      BY <1>1, <2>1, <3>1 DEF Stamp, Unborn, AskMoves
  <2>2. CASE ~(Leave(r, "done") /\ UNCHANGED queue)
    <3>1. /\ Becomes(r, [run[r] EXCEPT !.at = "file", !.n = count,
                                      !.lane = r \in Brief /\ count < MaxSlots])
          /\ UNCHANGED tickets /\ older' = older \cup {<<s, r>> : s \in Stamped}
      BY <1>1, <2>2 DEF Stamp, Stamped
    <3>2. run'[r] = [run[r] EXCEPT !.at = "file", !.n = count,
                                   !.lane = r \in Brief /\ count < MaxSlots]
      BY <1>0, <3>1 DEF Becomes
    <3>3. QED
      BY <1>0, <1>1, <3>1, <3>2 DEF Stamp, AskMoves
  <2>3. QED
    BY <2>1, <2>2
<1>a. CASE File(r)
  BY <1>0, <1>a DEF File, Becomes, AskMoves
<1>2. CASE MarkExclusive(r)
  <2>0. run[r].at = "mark" /\ UNCHANGED <<slot, queue>>
    BY <1>2 DEF MarkExclusive
  <2>1. CASE Becomes(r, [run[r] EXCEPT !.at = "poll", !.excl = TRUE])
    <3>1. run'[r] = [run[r] EXCEPT !.at = "poll", !.excl = TRUE]
      BY <1>0, <2>1 DEF Becomes
    <3>2. QED
      BY <1>0, <1>2, <2>0, <3>1 DEF AskMoves
  <2>2. CASE GoTo(r, "poll")
    <3>1. run'[r] = [run[r] EXCEPT !.at = "poll"]
      BY <1>0, <2>2 DEF GoTo, Becomes
    <3>2. QED
      BY <1>0, <1>2, <2>0, <3>1 DEF AskMoves
  <2>3. QED
    BY <1>2, <2>1, <2>2 DEF MarkExclusive
<1>3. CASE Poll(r)
  BY <1>0, <1>3 DEF Poll, Becomes, AskMoves
<1>4. CASE Look(r)
  <2>1. PICK busy \in BOOLEAN, place \in {"poll", "queue"} :
          /\ Becomes(r, [run[r] EXCEPT !.busy = busy, !.at = place])
          /\ busy => passed'
    BY <1>4 DEF Look
  <2>a. UNCHANGED slot /\ run[r].at = "look"
    BY <1>4 DEF Look
  <2>2. run'[r] = [run[r] EXCEPT !.busy = busy, !.at = place]
    BY <1>0, <2>1 DEF Becomes
  <2>3. QED
    BY <1>0, <1>4, <2>1, <2>2, <2>a DEF AskMoves
<1>5. CASE ReadQueue(r)
  <2>1. CASE GoTo(r, "poll")
    BY <1>0, <1>5, <2>1 DEF ReadQueue, GoTo, Becomes, AskMoves
  <2>2. CASE ~GoTo(r, "poll")
    <3> DEFINE m == IF r \in Exclusive THEN run[r].n
                    ELSE Least({run[r].n} \cup {run[s].n : s \in Ahead(r)})
               place == IF r \in Exclusive THEN "take" ELSE "free"
    <3>1. Ahead(r) \in SUBSET Runs
      BY DEF Ahead, Before, TypeOK
    <3>2. m <= run[r].n
      BY <1>0, <3>1, Smallest
    <3>3. /\ Becomes(r, [run[r] EXCEPT !.at = place, !.m = m, !.len = Cardinality(Ahead(r))])
          /\ r \in Exclusive => Ahead(r) = {}
          /\ At(r, "queue")
      BY <1>5, <2>2 DEF ReadQueue
    <3> HIDE DEF m
    <3>4. run'[r] = [run[r] EXCEPT !.at = place, !.m = m, !.len = Cardinality(Ahead(r))]
      BY <1>0, <3>3 DEF Becomes
    <3>5. UNCHANGED slot
      BY <1>5 DEF ReadQueue
    <3>6. QED
      BY <1>0, <1>5, <3>2, <3>3, <3>4, <3>5 DEF AskMoves
  <2>3. QED
    BY <2>1, <2>2
<1>6. CASE CountFree(r)
  <2>1. CASE GoTo(r, "take") /\ Fits(r)
    BY <1>0, <1>6, <2>1 DEF CountFree, Becomes, GoTo, SlotMoves
  <2>2. CASE Wait(r, Lane(r))
    BY <1>0, <1>6, <2>2 DEF CountFree, Becomes, Wait, Lane, SlotMoves
  <2>3. QED
    BY <1>6, <2>1, <2>2 DEF CountFree
<1>7. CASE Judge(r)
  <2>1. PICK d : Becomes(r, [run[r] EXCEPT !.at = "reap", !.dead = d, !.back = run[r].at])
    BY <1>7 DEF Judge
  <2>a. UNCHANGED slot
    BY <1>7 DEF Judge
  <2>2. run[r].at \in Reaping
    BY <1>7 DEF Judge, Reads, Reaping
  <2>3. QED
    BY <1>0, <1>7, <2>1, <2>2, <2>a DEF Becomes, SlotMoves
<1>8. CASE ReapSlot(r)
  BY <1>0, <1>8 DEF ReapSlot, Becomes, SlotMoves
<1>9. CASE Take(r)
  <2>1. CASE Wait(r, Lane(r)) /\ UNCHANGED slot
    BY <1>0, <1>9, <2>1 DEF Take, Becomes, Wait, Lane, SlotMoves
  <2>2. ASSUME NEW k \in SlotIds, k < run[r].m, slot[k] = NoRun, Create(r, k)
        PROVE  SlotMoves(r, run[r], run'[r])
    BY <1>0, <1>9, <2>2 DEF Take, Create, Becomes, SlotMoves
  <2>3. QED
    BY <1>9, <2>1, <2>2, TakeIs
<1>10. CASE CheckAlone(r)
  <2>1. CASE GoTo(r, "got") /\ UNCHANGED slot
    BY <1>0, <1>10, <2>1 DEF CheckAlone, Becomes, GoTo, HoldMoves
  <2>2. CASE Wait(r, "poll") /\ Vacate(r)
    BY <1>0, <1>10, <2>2 DEF CheckAlone, Becomes, Wait, HoldMoves
  <2>3. QED
    BY <1>10, <2>1, <2>2 DEF CheckAlone
<1>11. CASE LaneFree(r)
  BY <1>0, <1>11 DEF LaneFree, Becomes, GoTo, SlotMoves
<1>12. CASE LaneTake(r)
  <2>1. CASE GoTo(r, "poll") /\ UNCHANGED slot
    BY <1>0, <1>12, <2>1 DEF LaneTake, Becomes, GoTo, SlotMoves
  <2>2. CASE slot[run[r].n] = NoRun /\ Create(r, run[r].n)
    BY <1>0, <1>12, <2>2 DEF LaneTake, Create, Becomes, SlotMoves
  <2>3. QED
    BY <1>12, <2>1, <2>2 DEF LaneTake
<1>13. CASE Timeout(r) \/ Crash(r) \/ Release(r)
  BY <1>0, <1>13 DEF Timeout, Crash, Release, Becomes, Leave, Unborn, Alive, AskMoves
<1>14. CASE DropTicket(r) \/ CheckAgain(r) \/ SuiteEnds(r)
  BY <1>0, <1>14 DEF DropTicket, CheckAgain, SuiteEnds, GoTo, Becomes, HoldMoves
<1>15. QED
  BY <1>1, <1>a, <1>2, <1>3, <1>4, <1>5, <1>6, <1>7, <1>8, <1>9, <1>10, <1>11, <1>12, <1>13, <1>14
  DEF Step

(* Who steps alone changes its record, into a record.                      *)
LEMMA OneMoves ==
  ASSUME TypeOK, PlacesOK, NEW r \in Runs, Step(r) \/ Timeout(r) \/ Crash(r)
  PROVE  /\ run'[r] \in RunRecord /\ run[r] \in RunRecord
         /\ \A s \in Runs \ {r} : run'[s] = run[s]
         /\ (passed => passed') /\ (late => late') /\ (littered => littered')
         /\ robbed \subseteq robbed' /\ (~ReapSlot(r) => robbed' = robbed)
<1>1. passed => passed'
  <2>1. CASE Poll(r)
    BY <2>1, Zenon DEF Poll
  <2>2. CASE Look(r)
    <3>1. PICK busy : passed' = (passed \/ busy)
      BY <2>2 DEF Look
    <3>2. QED
      BY <3>1, Zenon
  <2>3. CASE UNCHANGED passed
    BY <2>3
  <2>4. QED
    BY <2>1, <2>2, <2>3 DEF Step, Stamp, File, MarkExclusive, ReadQueue, CountFree, Judge, ReapSlot,
       Take, CheckAlone, LaneFree, LaneTake, DropTicket, CheckAgain, SuiteEnds, Release, Timeout, Crash
<1>2. late => late'
  <2>1. CASE File(r)
    BY <2>1, Zenon DEF File
  <2>2. CASE UNCHANGED late
    BY <2>2
  <2>3. QED
    BY <2>1, <2>2 DEF Step, Stamp, MarkExclusive, Poll, Look, ReadQueue, CountFree, Judge, ReapSlot,
       Take, CheckAlone, LaneFree, LaneTake, DropTicket, CheckAgain, SuiteEnds, Release, Timeout,
       Crash, UnlinkTickets, queue
<1>3. littered => littered'
  <2>1. CASE Release(r)
    BY <2>1 DEF Release
  <2>2. CASE Crash(r)
    BY <2>2, Zenon DEF Crash
  <2>3. CASE UNCHANGED littered
    BY <2>3
  <2>4. QED
    BY <2>1, <2>2, <2>3 DEF Step, Stamp, File, MarkExclusive, Poll, Look, ReadQueue, CountFree, Judge,
       ReapSlot, Take, CheckAlone, LaneFree, LaneTake, DropTicket, CheckAgain, SuiteEnds, Timeout, wreck
<1>4. robbed \subseteq robbed' /\ (~ReapSlot(r) => robbed' = robbed)
  <2>1. CASE ReapSlot(r)
    BY <2>1 DEF ReapSlot
  <2>2. CASE UNCHANGED robbed
    BY <2>2
  <2>3. QED
    BY <2>1, <2>2 DEF Step, Stamp, File, MarkExclusive, Poll, Look, ReadQueue, CountFree, Judge, Take,
       CheckAlone, LaneFree, LaneTake, DropTicket, CheckAgain, SuiteEnds, Release, Timeout, Crash, wreck
<1>5. QED
  BY <1>1, <1>2, <1>3, <1>4, RunStep, BecomesIs DEF TypeOK

(* Where a stamp leads.                                                    *)
LEMMA StampsAt ==
  ASSUME TypeOK, NEW r \in Runs, Stamp(r)
  PROVE  \/ UNCHANGED queue /\ run'[r].at = "done"
         \/ /\ run'[r].at = "file" /\ UNCHANGED tickets
            /\ older' = older \cup {<<s, r>> : s \in Stamped}
<1>0. run \in [Runs -> RunRecord]
  BY DEF TypeOK
<1>1. CASE Leave(r, "done") /\ UNCHANGED queue
  BY <1>0, <1>1 DEF Leave, Becomes, Unborn
<1>2. CASE ~(Leave(r, "done") /\ UNCHANGED queue)
  <2>1. /\ Becomes(r, [run[r] EXCEPT !.at = "file", !.n = count,
                                    !.lane = r \in Brief /\ count < MaxSlots])
        /\ UNCHANGED tickets /\ older' = older \cup {<<s, r>> : s \in Stamped}
    BY <1>2 DEF Stamp, Stamped
  <2>2. run'[r].at = "file"
    BY <1>0, <2>1 DEF Becomes, RunRecord
  <2>3. QED
    BY <2>1, <2>2
<1>3. QED
  BY <1>1, <1>2

(* The tickets: one is stamped, or filed; those of the dead or one's own go.*)
LEMMA QueueStep ==
  ASSUME TypeOK, NEW r \in Runs, Step(r) \/ Timeout(r) \/ Crash(r)
  PROVE  \/ /\ UNCHANGED <<tickets, older>>
            /\ ~Timeout(r) /\ ~DropTicket(r) /\ ~File(r) /\ (Crash(r) => ~At(r, "file"))
            /\ Stamp(r) => run'[r].at = "done"
         \/ /\ Stamp(r) /\ UNCHANGED tickets /\ older' = older \cup {<<s, r>> : s \in Stamped}
         \/ /\ File(r) /\ tickets' = tickets \cup {r} /\ UNCHANGED older
         \/ ReadQueue(r) /\ UnlinkTickets({s \in Before(r) : ~Alive(s)})
         \/ /\ Timeout(r) \/ DropTicket(r) \/ (Crash(r) /\ At(r, "file"))
            /\ UnlinkTickets({r})
<1>1. CASE Stamp(r)
  BY <1>1, StampsAt DEF Stamp, Timeout, DropTicket, File, Crash, Alive, At, queue
<1>2. CASE File(r) \/ ReadQueue(r) \/ Timeout(r) \/ DropTicket(r)
  BY <1>2 DEF File, ReadQueue, Timeout, DropTicket
<1>3. CASE Crash(r)
  <2>1. ~Timeout(r) /\ ~DropTicket(r) /\ ~File(r)
    BY <1>3 DEF Crash, Timeout, DropTicket, File, Becomes, Leave, GoTo, Unborn, TypeOK, RunRecord
  <2>2. ~Stamp(r)
    BY <1>3 DEF Crash, Stamp, Alive, At
  <2>3. QED
    BY <1>3, <2>1, <2>2 DEF Crash, queue
<1>4. CASE UNCHANGED queue /\ ~Timeout(r) /\ ~DropTicket(r) /\ ~File(r) /\ ~Crash(r) /\ ~Stamp(r)
  BY <1>4 DEF queue
<1>5. QED
  BY <1>1, <1>2, <1>3, <1>4 DEF Step, MarkExclusive, Poll, Look, CountFree, Judge, ReapSlot, Take,
     CheckAlone, LaneFree, LaneTake, CheckAgain, SuiteEnds, Release, Timeout, DropTicket, File, At, Crash

(* Where each step takes r, with its own N.                                *)
LEMMA PlacesStep ==
  ASSUME TypeOK, PlacesOK, [Next]_vars
  PROVE  PlacesOK'
<1> USE DEF PlacesOK, ToLane, InLine, At, Alive, Reaping
<1>1. CASE \/ UNCHANGED vars \/ SetSlots
           \/ \E r \in Runs : Tighten(r) \/ Loosen(r) \/ AgeTicket(r) \/ OrphanEnds(r)
  BY <1>1, Bystanders
<1>2. ASSUME NEW r \in Runs, Step(r) \/ Timeout(r) \/ Crash(r) PROVE PlacesOK'
  <2>1. SUFFICES PlacesOK!(r)'
    BY <1>2, OneMoves
  <2>2. /\ run[r].n \in 0 .. MaxSlots /\ run[r].m \in 0 .. MaxSlots
        /\ run'[r].n \in 0 .. MaxSlots /\ count \in 1 .. MaxSlots /\ MaxSlots \in Nat
    BY <1>2, OneMoves, Edits, SuiteGateAssumption DEF TypeOK
  <2>3. CASE AskMoves(r, run[r], run'[r])
    BY <2>2, <2>3, FS_EmptySet DEF AskMoves, Word
  <2>4. CASE SlotMoves(r, run[r], run'[r])
    BY <2>2, <2>4 DEF SlotMoves, Word, Figures
  <2>5. CASE HoldMoves(r, run[r], run'[r])
    BY <2>2, <2>5 DEF HoldMoves, Word, Figures
  <2>6. QED
    BY <1>2, <2>3, <2>4, <2>5, Moves
<1>3. QED
  BY <1>1, <1>2 DEF Next

(* Who has left the queue or never asked does not wait.                    *)
LEMMA Queues ==
  ASSUME TypeOK, PlacesOK, NEW r \in Runs, Step(r) \/ Timeout(r) \/ Crash(r)
  PROVE  LET x == run[r]
             y == run'[r]
         IN  /\ Stamp(r) => x.at = "off" /\ y.at \in {"file", "done"}
             /\ File(r) => x.at = "file" /\ y.at # "file"
             /\ y.at = "file" => Stamp(r)
             /\ x.at = "file" => File(r) \/ Crash(r)
             /\ Timeout(r) => y.at = "done"
             /\ DropTicket(r) => y.at = "check"
             /\ y.at # "off"
             /\ y.at \in Ticketed =>
                  x.at \in Ticketed \/ (x.at = "file" /\ tickets' = tickets \cup {r})
<1> USE DEF Ticketed, Waits, Holds, Reaping
<1>1. (Stamp(r) => run[r].at = "off") /\ (File(r) => run[r].at = "file")
  BY DEF Stamp, File, At
<1>2. /\ Timeout(r) => run'[r].at = "done"
      /\ DropTicket(r) => run'[r].at = "check"
  BY DEF Timeout, DropTicket, Leave, GoTo, Becomes, TypeOK, RunRecord, Unborn
<1>3. run[r].at = "reap" => run[r].back \in Reaping
  BY DEF PlacesOK, At
<1>4. Stamp(r) => run'[r].at \in {"file", "done"}
  BY StampsAt
<1>5. File(r) => run'[r].at # "file"
  BY DEF File, Becomes, TypeOK, RunRecord
<1>6. run[r].at = "file" => File(r) \/ Crash(r)
  BY DEF Step, Stamp, MarkExclusive, Poll, Look, ReadQueue, CountFree, Judge, ReapSlot, Take, CheckAlone,
     LaneFree, LaneTake, DropTicket, CheckAgain, SuiteEnds, Release, Timeout, At, Reads
<1>7. CASE AskMoves(r, run[r], run'[r])
  BY <1>1, <1>2, <1>4, <1>5, <1>6, <1>7 DEF AskMoves
<1>8. CASE SlotMoves(r, run[r], run'[r])
  BY <1>1, <1>2, <1>3, <1>4, <1>5, <1>6, <1>8 DEF SlotMoves
<1>9. CASE HoldMoves(r, run[r], run'[r])
  BY <1>1, <1>2, <1>4, <1>5, <1>6, <1>9 DEF HoldMoves
<1>10. QED
  BY <1>7, <1>8, <1>9, Moves

(* Who is in the queue, and in which order.                                *)
LEMMA TicketsStep ==
  ASSUME TypeOK, PlacesOK, TicketsOK, OrderOK, [Next]_vars
  PROVE  TicketsOK' /\ OrderOK'
<1>1. CASE \/ UNCHANGED vars \/ SetSlots
           \/ \E r \in Runs : Tighten(r) \/ Loosen(r) \/ AgeTicket(r) \/ OrphanEnds(r)
  BY <1>1, Bystanders DEF TicketsOK, OrderOK, Stamped, At
<1>2. ASSUME NEW r \in Runs, Step(r) \/ Timeout(r) \/ Crash(r) PROVE TicketsOK' /\ OrderOK'
  <2>0. /\ \A s \in Runs \ {r} : run'[s] = run[s]
        /\ tickets \in SUBSET Runs /\ older \in SUBSET (Runs \X Runs) /\ run'[r].at # "off"
    BY <1>2, OneMoves, Queues DEF TypeOK
  <2>1. CASE /\ UNCHANGED <<tickets, older>>
             /\ ~Timeout(r) /\ ~DropTicket(r) /\ ~File(r) /\ (Crash(r) => ~At(r, "file"))
             /\ Stamp(r) => run'[r].at = "done"
    <3>1. ~At(r, "file")
      BY <1>2, <2>1, Queues DEF At
    <3>2. CASE ~Stamp(r)
      <4>1. Stamped' = Stamped
        BY <1>2, <2>0, <2>1, <3>1, <3>2, Queues DEF Stamped, At
      <4>2. OrderOK'
        BY <2>0, <2>1, <4>1 DEF OrderOK
      <4>3. TicketsOK'
        BY <1>2, <2>0, <2>1, <3>1, <3>2, Queues DEF TicketsOK, At
      <4>4. QED
        BY <4>2, <4>3
    <3>3. CASE Stamp(r)
      <4>1. r \notin tickets
        BY <1>2, <2>0, <3>3, Queues DEF TicketsOK
      <4>2. TicketsOK'
        BY <1>2, <2>0, <2>1, <3>3, <4>1, Queues DEF TicketsOK, Ticketed, Waits, At
      <4>3. run'[r].at # "file"
        BY <2>1, <3>3
      <4>4. Stamped' = Stamped
        BY <2>0, <2>1, <3>1, <4>3 DEF Stamped, At
      <4>5. OrderOK'
        BY <2>0, <2>1, <4>4 DEF OrderOK
      <4>6. QED
        BY <4>2, <4>5
    <3>4. QED
      BY <3>2, <3>3
  <2>2. CASE Stamp(r) /\ UNCHANGED tickets /\ older' = older \cup {<<s, r>> : s \in Stamped}
    <3>1. r \notin tickets /\ ~At(r, "file") /\ r \notin Stamped
      BY <1>2, <2>0, <2>2, Queues DEF TicketsOK, At, Stamped
    <3>2. TicketsOK'
      BY <1>2, <2>0, <2>2, <3>1, Queues DEF TicketsOK, Ticketed, Waits, At
    <3>3. Stamped \subseteq Stamped' /\ Stamped' \subseteq Stamped \cup {r}
      BY <2>0, <2>2, <3>1 DEF Stamped, At
    <3>4. OrderOK'
      <4>1. /\ \A s, t \in Runs : <<s, t>> \in older => s \in Stamped /\ t \in Stamped
            /\ \A s, t \in Runs : <<s, t>> \in older' <=> <<s, t>> \in older \/ (t = r /\ s \in Stamped)
        <5>1. Stamped \in SUBSET Runs
          BY <2>0 DEF Stamped
        <5>2. \A s, t \in Runs : <<s, t>> \in {<<u, r>> : u \in Stamped} <=> t = r /\ s \in Stamped
          BY <5>1
        <5>3. QED
          BY <2>2, <5>2 DEF OrderOK
      <4>2. \A s, t \in Runs : <<s, t>> \in older' => s \in Stamped' /\ t \in Stamped'
                                                     /\ <<t, s>> \notin older'
        <5>1. r \in Stamped' \/ Stamped = {} \/ run'[r].at = "file"
          <6>1. CASE UNCHANGED queue
            <7>1. \A s \in Stamped : <<s, r>> \in older
              BY <2>2, <6>1 DEF queue
            <7>2. Stamped \in SUBSET Runs
              BY <2>0 DEF Stamped
            <7>3. QED
              BY <3>1, <4>1, <7>1, <7>2
          <6>2. QED
            BY <2>2, <6>1, StampsAt
        <5>2. \A s, t \in Runs : <<s, t>> \in older => <<t, s>> \notin older
          BY DEF OrderOK
        <5>3. Stamped = {} \/ r \in Stamped'
          BY <2>2, <5>1 DEF Stamped, At
        <5>4. QED
          BY <3>1, <3>3, <4>1, <5>2, <5>3
      <4>3. \A s, t \in Stamped' : s # t => <<s, t>> \in older' \/ <<t, s>> \in older'
        <5>1. Stamped' \in SUBSET Runs /\ Stamped \in SUBSET Runs
          BY <2>0, <2>2 DEF Stamped
        <5>2. \A s, t \in Stamped : s # t => <<s, t>> \in older \/ <<t, s>> \in older
          BY DEF OrderOK
        <5>3. QED
          BY <3>3, <4>1, <5>1, <5>2
      <4>4. \A s, t, u \in Runs : <<s, t>> \in older' /\ <<t, u>> \in older' => <<s, u>> \in older'
        <5>1. \A s, t, u \in Runs : <<s, t>> \in older /\ <<t, u>> \in older => <<s, u>> \in older
          BY DEF OrderOK
        <5>2. QED
          BY <3>1, <4>1, <5>1
      <4>5. QED
        BY <4>2, <4>3, <4>4 DEF OrderOK
    <3>5. QED
      BY <3>2, <3>4
  <2>3. CASE File(r) /\ tickets' = tickets \cup {r} /\ UNCHANGED older
    <3>1. TicketsOK'
      BY <1>2, <2>0, <2>3, Queues DEF TicketsOK, At
    <3>2. At(r, "file") /\ run'[r].at # "file"
      BY <1>2, <2>3, Queues DEF At
    <3>3. Stamped' = Stamped
      BY <2>0, <2>3, <3>2 DEF Stamped, At
    <3>4. OrderOK'
      BY <2>0, <2>3, <3>3 DEF OrderOK
    <3>5. QED
      BY <3>1, <3>4
  <2>4. ASSUME NEW S, UnlinkTickets(S), Stamped' = Stamped \ S PROVE OrderOK'
    BY <2>4 DEF OrderOK, UnlinkTickets
  <2>5. CASE ReadQueue(r) /\ UnlinkTickets({s \in Before(r) : ~Alive(s)})
    <3>1. At(r, "queue")
      BY <2>5 DEF ReadQueue
    <3>2. TicketsOK'
      BY <1>2, <2>0, <2>5, <3>1, Queues DEF TicketsOK, At, UnlinkTickets, Alive, Ticketed, Waits
    <3>3. run'[r].at # "file"
      BY <1>2, <2>5, Queues DEF ReadQueue, Stamp, At
    <3>4. Stamped' = Stamped \ {s \in Before(r) : ~Alive(s)}
      BY <2>0, <2>5, <3>1, <3>3 DEF Stamped, At, UnlinkTickets, Before, Alive
    <3>5. QED
      BY <2>4, <2>5, <3>2, <3>4
  <2>6. CASE /\ Timeout(r) \/ DropTicket(r) \/ (Crash(r) /\ At(r, "file"))
             /\ UnlinkTickets({r})
    <3>1. run'[r].at \in {"done", "check", "dead"}
      <4>1. Crash(r) => run'[r].at = "dead"
        BY DEF Crash, Leave, Becomes, TypeOK, Unborn
      <4>2. QED
        BY <1>2, <2>6, <4>1, Queues
    <3>2. TicketsOK'
      BY <1>2, <2>0, <2>6, <3>1, Queues DEF TicketsOK, At, UnlinkTickets, Ticketed, Waits
    <3>3. Stamped' = Stamped \ {r}
      BY <2>0, <2>6, <3>1 DEF Stamped, At, UnlinkTickets
    <3>4. QED
      BY <2>4, <2>6, <3>2, <3>3
  <2>7. QED
    BY <1>2, <2>1, <2>2, <2>3, <2>5, <2>6, QueueStep
<1>3. QED
  BY <1>1, <1>2 DEF Next

(* A ticket that can be passed was noted.                                  *)
LEMMA PassedStep ==
  ASSUME TypeOK, PlacesOK, PassedOK, [Next]_vars
  PROVE  PassedOK'
<1>1. CASE \/ UNCHANGED vars \/ SetSlots
           \/ \E r \in Runs : Tighten(r) \/ Loosen(r) \/ AgeTicket(r) \/ OrphanEnds(r)
  BY <1>1, Bystanders DEF PassedOK
<1>2. ASSUME NEW r \in Runs, Step(r) \/ Timeout(r) \/ Crash(r) PROVE PassedOK'
  <2>1. /\ \A s \in Runs \ {r} : run'[s] = run[s]
        /\ passed => passed'
    BY <1>2, OneMoves
  <2>2. run'[r].busy \/ run'[r].short => passed'
    <3>1. CASE AskMoves(r, run[r], run'[r])
      BY <2>1, <3>1 DEF AskMoves, Word, PassedOK
    <3>2. CASE SlotMoves(r, run[r], run'[r]) \/ HoldMoves(r, run[r], run'[r])
      BY <2>1, <3>2 DEF SlotMoves, HoldMoves, Word, Figures, PassedOK
    <3>3. QED
      BY <1>2, <3>1, <3>2, Moves
  <2>3. QED
    BY <2>1, <2>2 DEF PassedOK
<1>3. QED
  BY <1>1, <1>2 DEF Next

----------------------------------------------------------------------------
(* The slots.                                                              *)

(* What a step of r makes of its slot: nothing, or it gets one, gives it   *)
(* up, or leaves it; or it reaps another.                                  *)
LEMMA Owning ==
  ASSUME TypeOK, PlacesOK, NEW r \in Runs, Step(r) \/ Timeout(r) \/ Crash(r)
  PROVE  LET x == run[r]
             y == run'[r]
         IN  \/ /\ ~Owns(r)' /\ ~Alive(r)'
                /\ slot' = slot \/ (slot[x.k] = r /\ slot' = [slot EXCEPT ![x.k] = NoRun])
                /\ ~ReapSlot(r)
             \/ /\ Owns(r)' <=> Owns(r)
                /\ Owns(r) => y.k = x.k /\ y.n = x.n
                /\ Alive(r)' /\ (Alive(r) \/ x.at = "off")
                /\ \/ slot' = slot /\ ~ReapSlot(r)
                   \/ ReapSlot(r) /\ slot' = [slot EXCEPT ![x.dead] = NoRun]
             \/ /\ ~Owns(r) /\ Alive(r) /\ Owns(r)' /\ slot[y.k] = NoRun
                /\ slot' = [slot EXCEPT ![y.k] = r] /\ y.n = x.n
                /\ y.k = x.n \/ (At(r, "take") /\ y.k < x.m)
                /\ ~ReapSlot(r)
             \/ /\ Owns(r) /\ ~Owns(r)' /\ ~ReapSlot(r)
                /\ slot' = IF slot[x.k] = r THEN [slot EXCEPT ![x.k] = NoRun] ELSE slot
<1> USE DEF Owns, Alive, At, Holds, Reaping
<1>1. run[r].at = "reap" => run[r].back \in Reaping
  BY DEF PlacesOK
<1>2. ReapSlot(r) => run[r].at = "reap"
  BY DEF ReapSlot
<1>3. /\ Crash(r) => run[r].at \notin {"off", "done", "dead"} /\ run'[r].at = "dead"
      /\ Timeout(r) => run[r].at = "poll"
      /\ Stamp(r) => run[r].at = "off"
  BY DEF Crash, Timeout, Stamp, Leave, Becomes, TypeOK, Unborn
<1>4. /\ \A k \in SlotIds : slot \in [SlotIds -> Runs \cup {NoRun}]
      /\ run[r].k \in SlotIds
  BY Edits DEF TypeOK
<1>c. Crash(r) => ~ReapSlot(r)
  <2>1. ReapSlot(r) => run'[r].at \in Reaping
    BY <1>1, <1>2 DEF ReapSlot, Becomes, TypeOK, RunRecord
  <2>2. QED
    BY <1>3, <2>1
<1>5. CASE AskMoves(r, run[r], run'[r])
  BY <1>2, <1>3, <1>c, <1>5 DEF AskMoves, Vacate
<1>6. CASE SlotMoves(r, run[r], run'[r])
  BY <1>1, <1>2, <1>6 DEF SlotMoves, Figures, Word
<1>7. CASE HoldMoves(r, run[r], run'[r])
  BY <1>2, <1>7 DEF HoldMoves, Figures, Word, Vacate
<1>8. QED
  BY <1>5, <1>6, <1>7, Moves

(* Who is robbed, in the step of a run.                                    *)
LEMMA RobbedIs ==
  ASSUME TypeOK, PlacesOK, NEW r \in Runs, Step(r) \/ Timeout(r) \/ Crash(r)
  PROVE  /\ robbed \subseteq robbed'
         /\ ReapSlot(r) => /\ run[r].at = "reap" /\ run'[r].at # "reap"
                           /\ \A h \in Runs : slot[run[r].dead] = h /\ Alive(h) => h \in robbed'
         /\ ~ReapSlot(r) => robbed' = robbed
<1>1. ReapSlot(r) => /\ run[r].at = "reap" /\ run'[r].at # "reap"
                     /\ \A h \in Runs : slot[run[r].dead] = h /\ Alive(h) => h \in robbed'
  BY DEF ReapSlot, At, Becomes, TypeOK, RunRecord, PlacesOK, Reaping
<1>2. QED
  BY <1>1, OneMoves

(* The slot of who is not robbed is its own, and no live run is named by   *)
(* another.                                                                *)
LEMMA SlotsStep ==
  ASSUME TypeOK, PlacesOK, SlotsOwned, [Next]_vars
  PROVE  SlotsOwned'
<1>1. CASE \/ UNCHANGED vars \/ SetSlots
           \/ \E r \in Runs : Tighten(r) \/ Loosen(r) \/ AgeTicket(r) \/ OrphanEnds(r)
  <2>1. UNCHANGED <<slot, run, robbed>>
    BY <1>1, Bystanders
  <2>2. QED
    BY <2>1 DEF SlotsOwned, Alive, At, Owns
<1>2. ASSUME NEW r \in Runs, Step(r) \/ Timeout(r) \/ Crash(r) PROVE SlotsOwned'
  <2>0. /\ \A s \in Runs \ {r} : run'[s] = run[s]
        /\ slot \in [SlotIds -> Runs \cup {NoRun}] /\ NoRun \notin Runs
        /\ \A s \in Runs : run[s].k \in SlotIds
        /\ run'[r].k \in SlotIds /\ run[r].dead \in SlotIds
    BY <1>2, OneMoves, Edits, SuiteGateAssumption DEF TypeOK
  <2>a. \A s \in Runs \ {r} : /\ Owns(s)' <=> Owns(s)
                              /\ Alive(s)' <=> Alive(s)
                              /\ run'[s].k = run[s].k
    BY <2>0 DEF Owns, Alive, At
  <2>b. /\ robbed \subseteq robbed'
        /\ ReapSlot(r) => \A h \in Runs : slot[run[r].dead] = h /\ Alive(h) => h \in robbed'
    BY <1>2, RobbedIs
  <2>n. \A k \in SlotIds, h \in Runs : slot'[k] = h => ~At(h, "off")'
    <3>1. run'[r].at # "off"
      BY <1>2, Queues
    <3>2. \A k \in SlotIds : slot'[k] \in {NoRun, r, slot[k]}
      BY <1>2, <2>0, Owning
    <3>3. QED
      BY <2>0, <3>1, <3>2 DEF SlotsOwned, At
  <2>o. /\ \A k \in SlotIds, h \in Runs \ robbed : (Owns(h) /\ run[h].k = k) => slot[k] = h
        /\ \A k \in SlotIds, h \in Runs : (slot[k] = h /\ Alive(h)) => (Owns(h) /\ run[h].k = k)
        /\ \A k \in SlotIds : slot[k] = r => run[r].at # "off"
        /\ \A h \in Runs : Owns(h) => Alive(h)
    BY DEF SlotsOwned, At, Owns, Alive, Holds
  <2>1. ASSUME NEW k \in SlotIds, NEW h \in Runs \ robbed', Owns(h)', run'[h].k = k
        PROVE  slot'[k] = h
    <3>1. h \notin robbed
      BY <2>b
    <3>2. CASE h # r
      <4>1. slot[k] = h /\ Alive(h)
        BY <2>1, <2>a, <2>o, <3>1, <3>2
      <4>2. QED
        BY <1>2, <2>0, <2>1, <2>b, <3>2, <4>1, Owning
    <3>3. CASE h = r
      BY <1>2, <2>0, <2>1, <2>b, <2>o, <3>1, <3>3, Owning
    <3>4. QED
      BY <3>2, <3>3
  <2>2. ASSUME NEW k \in SlotIds, NEW h \in Runs, slot'[k] = h, Alive(h)'
        PROVE  Owns(h)' /\ run'[h].k = k
    <3>1. CASE h # r
      <4>1. slot[k] = h
        BY <1>2, <2>0, <2>2, <3>1, Owning
      <4>2. QED
        BY <2>2, <2>a, <2>o, <3>1, <4>1
    <3>2. CASE h = r
      BY <1>2, <2>0, <2>2, <2>o, <3>2, Owning DEF At
    <3>3. QED
      BY <3>1, <3>2
  <2>3. QED
    BY <2>n, <2>1, <2>2 DEF SlotsOwned
<1>3. QED
  BY <1>1, <1>2 DEF Next

(* Only who lives steps; who owns a slot ends by its release or is killed; *)
(* and only a judgement leads to a reaping.                                *)
LEMMA StepsAlive ==
  ASSUME TypeOK, PlacesOK, NEW r \in Runs, Step(r) \/ Timeout(r) \/ Crash(r)
  PROVE  Alive(r) \/ At(r, "off")
<1> USE DEF Alive, At, Reaping, Reads
<1>1. QED
  BY DEF Step, Stamp, File, MarkExclusive, Poll, Look, ReadQueue, CountFree, Judge, ReapSlot, Take,
     CheckAlone, LaneFree, LaneTake, DropTicket, CheckAgain, SuiteEnds, Release, Timeout, Crash
LEMMA Leaving ==
  ASSUME TypeOK, PlacesOK, NEW r \in Runs, Step(r) \/ Timeout(r) \/ Crash(r), Owns(r), ~Alive(r)'
  PROVE  Crash(r) \/ Release(r)
<1> USE DEF Owns, Alive, At, Holds, Reaping
<1>1. CASE AskMoves(r, run[r], run'[r])
  BY <1>1 DEF AskMoves, Timeout, Stamp
<1>2. CASE SlotMoves(r, run[r], run'[r]) \/ HoldMoves(r, run[r], run'[r])
  BY <1>2 DEF SlotMoves, HoldMoves
<1>3. QED
  BY <1>1, <1>2, Moves
LEMMA Judging ==
  ASSUME TypeOK, PlacesOK, NEW r \in Runs, Step(r) \/ Timeout(r) \/ Crash(r), At(r, "reap")'
  PROVE  Judge(r)
<1> USE DEF At, Reaping
<1>1. CASE AskMoves(r, run[r], run'[r])
  BY <1>1 DEF AskMoves
<1>2. CASE SlotMoves(r, run[r], run'[r])
  BY <1>2 DEF SlotMoves, PlacesOK
<1>3. CASE HoldMoves(r, run[r], run'[r])
  BY <1>3 DEF HoldMoves
<1>4. QED
  BY <1>1, <1>2, <1>3, Moves

(* Nothing is reaped, and nobody robbed, before a slot was left behind.    *)
LEMMA LeftBehindStep ==
  ASSUME TypeOK, PlacesOK, SlotsOwned, LeftBehind, [Next]_vars
  PROVE  LeftBehind'
<1>1. CASE \/ UNCHANGED vars \/ SetSlots
           \/ \E r \in Runs : Tighten(r) \/ Loosen(r) \/ AgeTicket(r) \/ OrphanEnds(r)
  <2>1. UNCHANGED <<slot, run, robbed, littered>>
    BY <1>1, Bystanders
  <2>2. QED
    BY <2>1 DEF LeftBehind, Alive, At
<1>2. ASSUME NEW r \in Runs, Step(r) \/ Timeout(r) \/ Crash(r) PROVE LeftBehind'
  <2>0. /\ \A s \in Runs \ {r} : run'[s] = run[s]
        /\ slot \in [SlotIds -> Runs \cup {NoRun}] /\ NoRun \notin Runs
        /\ run[r].k \in SlotIds
        /\ littered => littered'
    BY <1>2, OneMoves, Edits, SuiteGateAssumption DEF TypeOK
  <2>1. ASSUME NEW k \in SlotIds, NEW h \in Runs, slot'[k] = h, ~Alive(h)'
        PROVE  littered'
    <3>1. CASE h # r
      <4>1. slot[k] = h
        BY <1>2, <2>0, <2>1, <3>1, Owning
      <4>2. ~Alive(h)
        BY <2>0, <2>1, <3>1 DEF Alive
      <4>3. QED
        BY <2>0, <4>1, <4>2 DEF LeftBehind
    <3>2. CASE h = r
      <4>1. \/ slot' = slot
            \/ slot[run[r].k] = r /\ slot' = [slot EXCEPT ![run[r].k] = NoRun]
        BY <1>2, <2>1, <3>2, Owning DEF Owns, Alive, Holds, At
      <4>2. slot[k] = r
        BY <2>0, <2>1, <3>2, <4>1
      <4>3. Alive(r) => Owns(r) /\ run[r].k = k
        BY <4>2 DEF SlotsOwned
      <4>4. ~At(r, "off")
        BY <4>2 DEF SlotsOwned
      <4>5. Alive(r)
        BY <1>2, <4>2, <4>4, StepsAlive
      <4>6. Crash(r) \/ Release(r)
        BY <1>2, <2>1, <3>2, <4>3, <4>5, Leaving DEF At
      <4>7. CASE Crash(r)
        BY <4>2, <4>7 DEF Crash
      <4>8. CASE Release(r)
        BY <2>0, <2>1, <3>2, <4>2, <4>3, <4>5, <4>8 DEF Release, Vacate
      <4>9. QED
        BY <4>6, <4>7, <4>8
    <3>3. QED
      BY <3>1, <3>2
  <2>2. ASSUME NEW h \in Runs, At(h, "reap")' PROVE littered'
    <3>1. CASE h # r
      BY <2>0, <2>2, <3>1 DEF LeftBehind, At
    <3>2. CASE h = r
      <4>1. Judge(r)
        BY <1>2, <2>2, <3>2, Judging DEF At
      <4>2. PICK k \in SlotIds : Dead(k)
        <5>1. Reads(r) \subseteq SlotIds
          BY LaneSlot DEF Reads, ToLane, At
        <5>2. QED
          BY <4>1, <5>1 DEF Judge
      <4>3. QED
        BY <2>0, <4>2 DEF Dead, LeftBehind
    <3>3. QED
      BY <3>1, <3>2
  <2>3. ASSUME robbed' # {} PROVE littered'
    BY <1>2, <2>0, <2>3, RobbedIs DEF LeftBehind, At
  <2>4. QED
    BY <2>1, <2>2, <2>3 DEF LeftBehind
<1>3. QED
  BY <1>1, <1>2 DEF Next

----------------------------------------------------------------------------
(* The line: who waits before r, and who has a slot below its N.           *)

(* What a run counts with are numbers.                                     *)
LEMMA Figured ==
  ASSUME TypeOK, NEW r \in Runs
  PROVE  run[r].n \in Nat /\ run[r].m \in Nat /\ run[r].len \in Nat /\ run[r].k \in SlotIds
<1>1. /\ run[r].n \in 0 .. MaxSlots /\ run[r].m \in 0 .. MaxSlots /\ run[r].k \in SlotIds
      /\ run[r].len \in 0 .. Cardinality(Runs)
  BY Edits DEF TypeOK
<1>2. QED
  BY <1>1, Bounds, SuiteGateAssumption

(* Who waits has been waiting, or has just come.                           *)
LEMMA StillWaiting ==
  ASSUME TypeOK, PlacesOK, NEW r \in Runs, Step(r) \/ Timeout(r) \/ Crash(r)
  PROVE  /\ Waiting(r)' => Waiting(r) \/ At(r, "file")
         /\ InLine(r)' => \/ InLine(r) /\ Figures(run[r], run'[r])
                          \/ /\ ReadQueue(r) /\ run'[r].len = Cardinality(Ahead(r))
                             /\ UnlinkTickets({s \in Before(r) : ~Alive(s)})
         /\ ToTake(r)' => \/ ToTake(r) /\ Figures(run[r], run'[r])
                          \/ CountFree(r) /\ Fits(r) /\ Figures(run[r], run'[r])
                          \/ r \in Exclusive
<1> USE DEF Waiting, Waits, InLine, ToTake, At, Reaping
<1>1. run[r].at = "reap" => run[r].back \in Reaping
  BY DEF PlacesOK
<1>2. ReadQueue(r) => UnlinkTickets({s \in Before(r) : ~Alive(s)})
  BY DEF ReadQueue
<1>3. CASE AskMoves(r, run[r], run'[r])
  BY <1>2, <1>3 DEF AskMoves
<1>4. CASE SlotMoves(r, run[r], run'[r])
  BY <1>1, <1>4 DEF SlotMoves, Figures
<1>5. CASE HoldMoves(r, run[r], run'[r])
  BY <1>5 DEF HoldMoves
<1>6. QED
  BY <1>3, <1>4, <1>5, Moves

(* Nobody gets in before a run that has its ticket, unless the ticket of   *)
(* an older stamp is filed only now.                                       *)
LEMMA OlderShrinks ==
  ASSUME TypeOK, PlacesOK, TicketsOK, [Next]_vars, NEW r \in tickets,
         \A t \in Runs : File(t) => <<t, r>> \notin older
  PROVE  Older(r)' \subseteq Older(r)
<1>1. CASE \/ UNCHANGED vars \/ SetSlots
           \/ \E t \in Runs : Tighten(t) \/ Loosen(t) \/ AgeTicket(t) \/ OrphanEnds(t)
  BY <1>1, Bystanders DEF Older, Before, Waiting
<1>2. ASSUME NEW t \in Runs, Step(t) \/ Timeout(t) \/ Crash(t) PROVE Older(r)' \subseteq Older(r)
  <2>1. tickets \in SUBSET Runs
    BY DEF TypeOK
  <2>2. \A s \in Runs : Waiting(s)' => Waiting(s) \/ At(s, "file")
    BY <1>2, OneMoves, StillWaiting DEF Waiting
  <2>3. Before(r)' \subseteq Before(r)
    <3>1. CASE UNCHANGED <<tickets, older>>
      BY <3>1 DEF Before
    <3>2. ASSUME NEW S, UnlinkTickets(S) PROVE Before(r)' \subseteq Before(r)
      BY <3>2 DEF Before, UnlinkTickets
    <3>3. CASE Stamp(t) /\ UNCHANGED tickets /\ older' = older \cup {<<s, t>> : s \in Stamped}
      <4>1. t # r
        BY <3>3 DEF Stamp, TicketsOK, At
      <4>2. QED
        BY <3>3, <4>1 DEF Before
    <3>4. CASE File(t) /\ tickets' = tickets \cup {t} /\ UNCHANGED older
      BY <3>4 DEF Before
    <3>5. QED
      BY <1>2, <3>1, <3>2, <3>3, <3>4, QueueStep
  <2>4. QED
    BY <2>1, <2>2, <2>3 DEF Older, Before, TicketsOK, At
<1>3. QED
  BY <1>1, <1>2 DEF Next

(* Who files a ticket that a younger run in line has not seen is late.     *)
LEMMA NobodyLate ==
  ASSUME ~late', NEW r \in Runs, InLine(r), NEW t \in Runs, File(t)
  PROVE  <<t, r>> \notin older
BY DEF File

(* The older waiters of a run are runs, and each counts against it while   *)
(* nobody can be passed.                                                   *)
LEMMA OlderAhead ==
  ASSUME TypeOK, PassedOK, ~passed, NEW r \in Runs
  PROVE  Older(r) \in SUBSET Runs /\ Older(r) \subseteq Ahead(r) /\ Ahead(r) \in SUBSET Runs
BY DEF Older, Ahead, Before, Waiting, Alive, Passable, PassedOK, TypeOK, Waits

(* The line that r has counted grows no longer.                            *)
LEMMA LineStep ==
  ASSUME TypeOK, PlacesOK, TicketsOK, PassedOK, LineKept, [Next]_vars
  PROVE  LineKept'
<1> SUFFICES ASSUME ~passed', ~late', NEW r \in Runs, InLine(r)'
             PROVE  Cardinality(Older(r)') <= run'[r].len
  BY DEF LineKept
<1>1. CASE \/ UNCHANGED vars \/ SetSlots
           \/ \E t \in Runs : Tighten(t) \/ Loosen(t) \/ AgeTicket(t) \/ OrphanEnds(t)
  BY <1>1, Bystanders DEF LineKept, Older, Before, Waiting, InLine, At
<1>2. ASSUME NEW t \in Runs, Step(t) \/ Timeout(t) \/ Crash(t)
      PROVE  Cardinality(Older(r)') <= run'[r].len
  <2>1. ~passed /\ ~late /\ (t # r => run'[r] = run[r])
    BY <1>2, OneMoves
  <2>2. CASE InLine(r) /\ run'[r].len = run[r].len
    <3>1. r \in tickets
      BY <2>2 DEF InLine, TicketsOK, Ticketed, Waits, At
    <3>2. Older(r)' \subseteq Older(r) /\ Older(r) \in SUBSET Runs
      BY <2>1, <2>2, <3>1, NobodyLate, OlderShrinks, OlderAhead
    <3>3. /\ Cardinality(Older(r)') <= Cardinality(Older(r))
          /\ Cardinality(Older(r)') \in Nat /\ Cardinality(Older(r)) \in Nat
      BY <3>2, Bounds, FS_Subset
    <3>4. run[r].len \in Nat
      BY Figured
    <3>5. QED
      BY <2>1, <2>2, <3>3, <3>4 DEF LineKept
  <2>3. CASE /\ t = r /\ ReadQueue(r) /\ run'[r].len = Cardinality(Ahead(r))
             /\ UnlinkTickets({s \in Before(r) : ~Alive(s)})
    <3>1. r \in tickets
      BY <2>3 DEF ReadQueue, TicketsOK, Ticketed, Waits, At
    <3>2. \A s \in Runs : ~File(s)
      BY <1>2, <2>3, OneMoves, Queues DEF Step, ReadQueue, At
    <3>4. Older(r)' \subseteq Ahead(r) /\ Ahead(r) \in SUBSET Runs
      BY <2>1, <3>1, <3>2, OlderShrinks, OlderAhead
    <3>3. QED
      BY <2>3, <3>4, Bounds, FS_Subset
  <2>4. QED
    <3>1. CASE t = r
      BY <1>2, <2>2, <2>3, <3>1, StillWaiting DEF Figures
    <3>2. CASE t # r
      BY <2>1, <2>2, <3>2 DEF InLine, At
    <3>3. QED
      BY <3>1, <3>2
<1>3. QED
  BY <1>1, <1>2 DEF Next

(* The slots below a number are finitely many; those above a smaller one   *)
(* add no more than the difference.                                        *)
LEMMA HeldBetween ==
  ASSUME NEW m \in Nat, NEW n \in Nat, m <= n
  PROVE  /\ IsFiniteSet(Held(m)) /\ IsFiniteSet(Held(n)) /\ Cardinality(Held(m)) \in Nat
         /\ Cardinality(Held(n)) \in Nat
         /\ Cardinality(Held(n)) <= Cardinality(Held(m)) + (n - m)
<1>1. IsFiniteSet(SlotIds)
  BY SlotsAreFinite
<1>2. IsFiniteSet(Held(m)) /\ IsFiniteSet(Held(n))
  BY <1>1, FS_Subset DEF Held
<1>3. IsFiniteSet(m .. n - 1) /\ Cardinality(m .. n - 1) = n - m
  <2>1. m \in Int /\ n - 1 \in Int
    OBVIOUS
  <2>2. /\ IsFiniteSet(m .. n - 1)
        /\ Cardinality(m .. n - 1) = IF m > n - 1 THEN 0 ELSE (n - 1) - m + 1
    BY <2>1, FS_Interval
  <2>3. QED
    BY <2>2
<1>4. Held(n) \subseteq Held(m) \cup (m .. n - 1)
  BY SuiteGateAssumption DEF Held, SlotIds
<1>5. /\ IsFiniteSet(Held(m) \cup (m .. n - 1))
      /\ Cardinality(Held(m) \cup (m .. n - 1)) =
           Cardinality(Held(m)) + (n - m) - Cardinality(Held(m) \cap (m .. n - 1))
  BY <1>2, <1>3, FS_Union
<1>6. Cardinality(Held(m) \cap (m .. n - 1)) \in Nat
  BY <1>2, FS_Subset, FS_CardinalityType
<1>7. Cardinality(Held(n)) <= Cardinality(Held(m) \cup (m .. n - 1))
  BY <1>4, <1>5, FS_Subset
<1>8. Cardinality(Held(m)) \in Nat /\ Cardinality(Held(n)) \in Nat
  BY <1>2, FS_CardinalityType
<1>9. QED
  BY <1>2, <1>5, <1>6, <1>7, <1>8, <1>5

(* The rivals of r have slots below its N.                                 *)
LEMMA RivalsHold ==
  ASSUME TypeOK, SlotsOwned, robbed = {}, NEW r \in Runs
  PROVE  Cardinality(Rivals(r)) <= Cardinality(Held(run[r].n))
<1>1. \A h \in Rivals(r) : run[h].k \in Held(run[r].n) /\ slot[run[h].k] = h
  <2>1. \A h \in Runs : run[h].k \in SlotIds
    BY Edits DEF TypeOK
  <2>2. QED
    BY <2>1, SuiteGateAssumption DEF Rivals, SlotsOwned, Held, Dead, Owns, Alive, At, Holds
<1> DEFINE f == [h \in Rivals(r) |-> run[h].k]
<1>2. f \in Injection(Rivals(r), Held(run[r].n))
  <2>1. f \in [Rivals(r) -> Held(run[r].n)]
    BY <1>1
  <2>2. \A g, h \in Rivals(r) : f[g] = f[h] => g = h
    BY <1>1
  <2>3. QED
    BY <2>1, <2>2 DEF Injection, IsInjective
<1>3. run[r].n \in Nat
  BY Figured
<1>4. IsFiniteSet(Held(run[r].n))
  BY <1>3, HeldBetween
<1> HIDE DEF f
<1>5. QED
  BY <1>2, <1>4, FS_Injection

(* Who counts and finds a slot free, and one for each older waiter, has    *)
(* more slots below its N than older waiters and rivals.                   *)
LEMMA RoomCounted ==
  ASSUME TypeOK, PlacesOK, PassedOK, SlotsOwned, LineKept, robbed = {}, ~passed, ~late,
         NEW r \in Runs, InLine(r), Fits(r)
  PROVE  Cardinality(Older(r) \cup Rivals(r)) < run[r].n
<1>1. /\ run[r].n \in Nat /\ run[r].m \in Nat /\ run[r].m <= run[r].n
  BY Figured DEF PlacesOK
<1>2. run[r].len \in Nat
  BY Figured
<1>3. Cardinality(Older(r)) <= run[r].len
  BY DEF LineKept
<1>4. /\ IsFiniteSet(Older(r)) /\ Cardinality(Older(r)) \in Nat
      /\ IsFiniteSet(Rivals(r)) /\ Cardinality(Rivals(r)) \in Nat
  BY Bounds, OlderAhead DEF Rivals
<1>5. Cardinality(Older(r) \cup Rivals(r)) <= Cardinality(Older(r)) + Cardinality(Rivals(r))
  <2>1. Cardinality(Older(r) \cap Rivals(r)) \in Nat
    BY <1>4, FS_Subset, FS_CardinalityType
  <2>2. Cardinality(Older(r) \cup Rivals(r)) =
          Cardinality(Older(r)) + Cardinality(Rivals(r)) - Cardinality(Older(r) \cap Rivals(r))
    BY <1>4, FS_Union
  <2>3. QED
    BY <1>4, <2>1, <2>2
<1>6. Cardinality(Rivals(r)) <= Cardinality(Held(run[r].n))
  BY RivalsHold
<1>7. /\ Cardinality(Held(run[r].n)) <= Cardinality(Held(run[r].m)) + (run[r].n - run[r].m)
      /\ Cardinality(Held(run[r].m)) \in Nat /\ Cardinality(Held(run[r].n)) \in Nat
  BY <1>1, HeldBetween
<1>8. Cardinality(Held(run[r].m)) + run[r].len < run[r].m
  BY DEF Fits
<1>9. Cardinality(Older(r) \cup Rivals(r)) \in Nat
  BY <1>4, FS_Union, FS_CardinalityType
<1>10. QED
  BY <1>1, <1>2, <1>3, <1>4, <1>5, <1>6, <1>7, <1>8, <1>9

(* A younger run that takes a slot has left one for r and all before it.   *)
LEMMA YoungerTakes ==
  ASSUME TypeOK, PlacesOK, TicketsOK, OrderOK, LineKept, RoomKept, ~passed, ~late, robbed = {},
         NEW r \in Runs, NEW t \in Runs, ToTake(r), At(t, "take"), t # r, t \notin Older(r),
         run[t].n = run[r].n
  PROVE  Cardinality(Older(r) \cup Rivals(r) \cup {t}) < run[r].n
<1> DEFINE U == Older(r) \cup Rivals(r)
           V == Older(t) \cup Rivals(t)
<1>1. t \in tickets /\ r \in tickets /\ Waiting(t) /\ Waiting(r) /\ ~Owns(r) /\ InLine(t)
  BY DEF ToTake, TicketsOK, Ticketed, Waits, Waiting, At, Owns, Holds, InLine
<1>2. r \in Older(t)
  <2>1. r \in Stamped /\ t \in Stamped
    BY <1>1 DEF Stamped
  <2>2. <<t, r>> \notin older
    BY <1>1 DEF Older, Before
  <2>3. <<r, t>> \in older
    BY <2>1, <2>2 DEF OrderOK
  <2>4. QED
    BY <1>1, <2>3 DEF Older, Before
<1>3. t \notin Exclusive
  <2>1. Older(t) \in SUBSET Runs
    BY DEF Older, Before, TypeOK
  <2>2. Cardinality(Older(t)) # 0
    BY <1>2, <2>1, Bounds, FS_EmptySet
  <2>3. Cardinality(Older(t)) \in Nat
    BY <2>1, Bounds, FS_CardinalityType
  <2>4. QED
    BY <1>1, <2>2, <2>3 DEF LineKept, PlacesOK
<1>4. Cardinality(V) < run[r].n
  BY <1>3 DEF RoomKept, ToTake
<1>5. U \cup {r} \subseteq V /\ r \notin U
  BY <1>1, <1>2 DEF Older, Before, Rivals, OrderOK, TypeOK
<1>6. U \in SUBSET Runs /\ V \in SUBSET Runs
  BY DEF Older, Before, Rivals, TypeOK
<1>7. IsFiniteSet(U) /\ IsFiniteSet(V) /\ Cardinality(U) \in Nat /\ Cardinality(V) \in Nat
  BY <1>6, Bounds, FS_CardinalityType
<1> HIDE DEF U, V
<1>8. Cardinality(U) + 1 <= Cardinality(V)
  <2>1. Cardinality(U \cup {r}) = Cardinality(U) + 1
    BY <1>5, <1>7, FS_AddElement
  <2>2. Cardinality(U \cup {r}) <= Cardinality(V)
    BY <1>5, <1>7, FS_Subset
  <2>3. QED
    BY <2>1, <2>2
<1>9. Cardinality(U \cup {t}) <= Cardinality(U) + 1 /\ Cardinality(U \cup {t}) \in Nat
  <2>1. /\ IsFiniteSet(U \cup {t})
        /\ Cardinality(U \cup {t}) = IF t \in U THEN Cardinality(U) ELSE Cardinality(U) + 1
    BY <1>7, FS_AddElement
  <2>2. QED
    BY <1>7, <2>1
<1>10. run[r].n \in Nat
  BY Figured
<1>11. QED
  BY <1>4, <1>7, <1>8, <1>9, <1>10 DEF U

(* Sets of runs that are contained are not larger.                         *)
LEMMA Fewer ==
  ASSUME NEW S \in SUBSET Runs, NEW T \in SUBSET S, NEW n \in Nat, Cardinality(S) < n
  PROVE  Cardinality(T) < n
BY Bounds, FS_Subset, FS_CardinalityType

(* The room that r has counted stays.                                      *)
LEMMA RoomStep ==
  ASSUME TypeOK, PlacesOK, TicketsOK, OrderOK, PassedOK, SlotsOwned, LineKept, RoomKept,
         [Next]_vars
  PROVE  RoomKept'
<1> SUFFICES ASSUME ~passed', ~late', robbed' = {}, NEW r \in Runs \ Exclusive, ToTake(r)'
             PROVE  Cardinality((Older(r) \cup Rivals(r))') < run'[r].n
  BY DEF RoomKept
<1>1. CASE \/ UNCHANGED vars \/ SetSlots
           \/ \E t \in Runs : Tighten(t) \/ Loosen(t) \/ AgeTicket(t) \/ OrphanEnds(t)
  <2>1. UNCHANGED <<tickets, older, late, run, robbed, passed>>
    BY <1>1, Bystanders
  <2>2. /\ (Older(r) \cup Rivals(r))' = Older(r) \cup Rivals(r)
        /\ ToTake(r) /\ ~passed /\ ~late /\ robbed = {} /\ run'[r].n = run[r].n
    BY <2>1 DEF Older, Before, Waiting, Rivals, Owns, ToTake, At
  <2>3. QED
    BY <2>2 DEF RoomKept
<1>2. ASSUME NEW t \in Runs, Step(t) \/ Timeout(t) \/ Crash(t)
      PROVE  Cardinality((Older(r) \cup Rivals(r))') < run'[r].n
  <2>0. /\ ~passed /\ ~late /\ robbed = {}
        /\ \A s \in Runs \ {t} : run'[s] = run[s]
    BY <1>2, OneMoves
  <2>1. /\ ToTake(r) \/ (t = r /\ InLine(r) /\ Fits(r)) 
        /\ run'[r].n = run[r].n
    <3>1. CASE t = r
      BY <1>2, <3>1, StillWaiting DEF Figures, Word, CountFree, InLine, At
    <3>2. CASE t # r
      BY <2>0, <3>2 DEF ToTake, At
    <3>3. QED
      BY <3>1, <3>2
  <2>2. r \in tickets /\ run[r].n \in Nat
    BY <2>1, Figured DEF ToTake, InLine, TicketsOK, Ticketed, Waits, At
  <2>3. Cardinality(Older(r) \cup Rivals(r)) < run[r].n
    BY <2>0, <2>1, RoomCounted DEF RoomKept
  <2>4. Older(r)' \subseteq Older(r)
    <3>1. InLine(r)
      BY <2>1 DEF ToTake, InLine, At
    <3>2. QED
      BY <2>2, <3>1, NobodyLate, OlderShrinks
  <2>5. Older(r) \cup Rivals(r) \in SUBSET Runs
    BY DEF Older, Before, Rivals, TypeOK
  <2>6. CASE Rivals(r)' \subseteq Rivals(r) \cup Older(r)
    <3>1. (Older(r) \cup Rivals(r))' \subseteq Older(r) \cup Rivals(r)
      BY <2>4, <2>6
    <3>2. QED
      BY <2>1, <2>2, <2>3, <2>5, <3>1, Fewer
  <2>7. CASE ~(Rivals(r)' \subseteq Rivals(r) \cup Older(r))
    <3>1. PICK h \in Runs : h \in Rivals(r)' /\ h \notin Rivals(r) /\ h \notin Older(r)
      BY <2>7 DEF Rivals
    <3>2. h = t
      BY <2>0, <2>1, <3>1 DEF Rivals, Owns, At
    <3>3. At(t, "take") /\ run[t].n = run[r].n
      <4>1. /\ Owns(t)' /\ run'[t].n = run[r].n /\ run'[t].k < run[r].n
            /\ ~(Owns(t) /\ run[t].n = run[r].n /\ run[t].k < run[r].n)
        BY <2>1, <3>1, <3>2 DEF Rivals
      <4>2. /\ ~Owns(t) /\ run'[t].n = run[t].n
            /\ run'[t].k = run[t].n \/ At(t, "take")
        BY <1>2, <4>1, Owning, Zenon
      <4>3. run'[t].k # run[r].n
        <5>1. run'[t].k \in SlotIds
          BY <1>2, OneMoves, Edits
        <5>2. run'[t].k \in Nat
          BY <5>1, SuiteGateAssumption DEF SlotIds
        <5>3. QED
          BY <2>2, <4>1, <5>2
      <4>4. QED
        BY <4>1, <4>2, <4>3
    <3>4. t # r
      BY <3>1, <3>2 DEF Rivals, Owns, Holds, ToTake, At
    <3>5. Cardinality(Older(r) \cup Rivals(r) \cup {t}) < run[r].n
      BY <2>0, <2>1, <3>1, <3>2, <3>3, <3>4, YoungerTakes
    <3>6. (Older(r) \cup Rivals(r))' \subseteq Older(r) \cup Rivals(r) \cup {t}
      BY <2>0, <2>1, <2>4 DEF Rivals, Owns, At
    <3>7. QED
      BY <2>1, <2>2, <2>5, <3>5, <3>6, Fewer
  <2>8. QED
    BY <2>6, <2>7
<1>3. QED
  BY <1>1, <1>2 DEF Next

----------------------------------------------------------------------------
(* The theorems.                                                           *)
GateInv ==
  TypeOK /\ PlacesOK /\ TicketsOK /\ OrderOK /\ PassedOK /\ SlotsOwned /\ LeftBehind
  /\ LineKept /\ RoomKept

(* The gate begins empty.                                                  *)
LEMMA GateInit == Init => GateInv
<1> SUFFICES ASSUME Init PROVE GateInv
  OBVIOUS
<1>1. TypeOK
  <2>1. Unborn \in RunRecord
    BY Bounds, UnbornIs DEF Unborn, RunRecord
  <2>2. run \in [Runs -> RunRecord]
    BY <2>1 DEF Init
  <2>3. slot \in [SlotIds -> Runs \cup {NoRun}] /\ events \in 0 .. MaxEvents
    BY SuiteGateAssumption DEF Init
  <2>4. QED
    BY <2>2, <2>3 DEF Init, TypeOK
<1>2. PlacesOK /\ TicketsOK /\ OrderOK /\ PassedOK
  BY DEF Init, PlacesOK, TicketsOK, OrderOK, PassedOK, Unborn, At, Alive, ToLane, InLine, Ticketed, Waits,
     Stamped
<1>3. SlotsOwned /\ LeftBehind
  BY SuiteGateAssumption DEF Init, SlotsOwned, LeftBehind, Owns, Alive, At, Unborn, Holds
<1>4. LineKept /\ RoomKept
  BY DEF Init, LineKept, RoomKept, InLine, ToTake, At, Unborn
<1>5. QED
  BY <1>1, <1>2, <1>3, <1>4 DEF GateInv

(* GateInv holds throughout: every step keeps it.                          *)
THEOREM SuiteGateInvariant == Spec => []GateInv
<1>1. GateInv /\ [Next]_vars => GateInv'
  BY TypeStep, PlacesStep, TicketsStep, PassedStep, SlotsStep, LeftBehindStep, LineStep,
     RoomStep DEF GateInv
<1>2. QED
  BY GateInit, <1>1, PTL DEF Spec

(* Every variable of the gate keeps its type.                              *)
THEOREM SuiteGateTypeCorrect == Spec => []TypeOK
<1>1. GateInv => TypeOK
  BY DEF GateInv
<1>2. QED
  BY SuiteGateInvariant, <1>1, PTL

(* There are no more live gates that hold a slot and were not robbed than  *)
(* slots.                                                                  *)
LEMMA SlotsSuffice ==
  ASSUME TypeOK, SlotsOwned, NEW S \in SUBSET (Runs \ robbed), \A r \in S : Owns(r)
  PROVE  Cardinality(S) <= MaxSlots
<1> DEFINE f == [r \in S |-> run[r].k]
<1>1. IsFiniteSet(SlotIds) /\ Cardinality(SlotIds) = MaxSlots
  BY SlotsAreFinite
<1>2. \A r \in S : run[r].k \in SlotIds /\ slot[run[r].k] = r
  BY Figured DEF SlotsOwned
<1>3. f \in Injection(S, SlotIds)
  <2>1. f \in [S -> SlotIds] /\ \A r, s \in S : f[r] = f[s] => r = s
    BY <1>2
  <2>2. QED
    BY <2>1 DEF Injection, IsInjective
<1> HIDE DEF f
<1>4. QED
  BY <1>1, <1>3, FS_Injection

(* SlotKept: who runs a suite has a slot file of its own, from the create  *)
(* to the release, whoever reaps, dies or changes N in between, unless it  *)
(* is robbed; somebody left a slot file behind before anybody is robbed;   *)
(* and the suites of live gates that nobody robbed are as many as the      *)
(* slots at most, whatever suite outlived its gate (slot_live, held and    *)
(* release of src/ops/fleet_kit/fleet_suite_gate.py).                      *)
THEOREM SuitesHaveTheirSlots == Spec => []SlotKept
<1>1. GateInv => SlotKept
  <2> SUFFICES ASSUME GateInv PROVE SlotKept
    OBVIOUS
  <2>1. \A r \in Runs \ robbed : run[r].at \in Holds => slot[run[r].k] = r
    BY Figured DEF GateInv, SlotsOwned, Owns
  <2>2. robbed # {} => littered
    BY DEF GateInv, LeftBehind
  <2>3. Cardinality(Suites \ (orphans \cup robbed)) <= MaxSlots
    BY SlotsSuffice DEF GateInv, Suites, Owns, Holds, At
  <2>4. QED
    BY <2>1, <2>2, <2>3 DEF SlotKept
<1>2. QED
  BY SuiteGateInvariant, <1>1, PTL

(* Two finite sets have no more members together than apart, and one more  *)
(* element is no more than one.                                            *)
LEMMA UnionBound ==
  ASSUME NEW S, NEW T, NEW x, IsFiniteSet(S), IsFiniteSet(T)
  PROVE  /\ IsFiniteSet(S \cup T) /\ IsFiniteSet((S \cup T) \cup {x})
         /\ Cardinality(S \cup T) \in Nat /\ Cardinality((S \cup T) \cup {x}) \in Nat
         /\ Cardinality(S \cup T) <= Cardinality(S) + Cardinality(T)
         /\ Cardinality((S \cup T) \cup {x}) <= Cardinality(S \cup T) + 1
<1>1. /\ IsFiniteSet(S \cup T)
      /\ Cardinality(S \cup T) = Cardinality(S) + Cardinality(T) - Cardinality(S \cap T)
  BY FS_Union
<1>2. /\ Cardinality(S) \in Nat /\ Cardinality(T) \in Nat /\ Cardinality(S \cap T) \in Nat
      /\ Cardinality(S \cup T) \in Nat
  BY <1>1, FS_CardinalityType, FS_Subset
<1>3. /\ IsFiniteSet((S \cup T) \cup {x})
      /\ Cardinality((S \cup T) \cup {x}) =
           IF x \in S \cup T THEN Cardinality(S \cup T) ELSE Cardinality(S \cup T) + 1
  BY <1>1, FS_AddElement
<1>4. QED
  BY <1>1, <1>2, <1>3

(* With one N and nobody passable, the slots left are enough for the older *)
(* waiters that have none.                                                 *)
LEMMA SlotsAreLeft ==
  ASSUME GateInv, ~passed, ~late, robbed = {}, Steady, NEW r \in Runs, Next,
         At(r, "take"), run'[r].at \in {"got", "alone"}
  PROVE  Cardinality(Older(r) \ Occupants)
           <= Cardinality({k \in SlotIds : k < run[r].m /\ slot'[k] = NoRun})
<1> USE DEF GateInv
<1> DEFINE free == {k \in SlotIds : k < run[r].m /\ slot'[k] = NoRun}
           rest == Older(r) \ Occupants
           held == Held(run[r].m)
<1>1. PICK k \in SlotIds : /\ k < run[r].m /\ slot[k] = NoRun /\ slot' = [slot EXCEPT ![k] = r]
                           /\ ~\E j \in SlotIds : j < run[r].m /\ Dead(j)
  <2>1. PICK t \in Runs : Step(t) \/ Timeout(t) \/ Crash(t)
    BY Bystanders DEF Next, At
  <2>2. t = r
    BY <2>1, OneMoves DEF At
  <2>3. run'[r].k \in SlotIds
    BY <2>1, <2>2, OneMoves, Edits
  <2>4. /\ Take(r) /\ run'[r].k < run[r].m /\ slot[run'[r].k] = NoRun
        /\ slot' = [slot EXCEPT ![run'[r].k] = r]
    BY <2>1, <2>2, Moves DEF AskMoves, SlotMoves, HoldMoves, At
  <2>5. ~\E j \in SlotIds : j < run[r].m /\ Dead(j)
    BY <2>4 DEF Take, Reads, At
  <2>6. QED
    BY <2>3, <2>4, <2>5
<1>2. /\ IsFiniteSet(free) /\ IsFiniteSet(rest) /\ IsFiniteSet(held)
      /\ Cardinality(free) \in Nat /\ Cardinality(rest) \in Nat /\ Cardinality(held) \in Nat
  <2>1. IsFiniteSet(SlotIds)
    BY SlotsAreFinite
  <2>2. free \in SUBSET SlotIds /\ held \in SUBSET SlotIds
    BY DEF Held
  <2>3. rest \in SUBSET Runs
    BY DEF Older, Before, TypeOK
  <2> HIDE DEF free, held, rest
  <2>4. QED
    BY <2>1, <2>2, <2>3, Bounds, FS_Subset, FS_CardinalityType
<1>l. InLine(r) /\ ToTake(r) /\ Alive(r)
  BY DEF InLine, ToTake, At, Alive
<1>3. CASE r \in Exclusive
  <2>1. Cardinality(Older(r)) <= 0
    BY <1>3, <1>l DEF LineKept, PlacesOK
  <2>2. IsFiniteSet(Older(r)) /\ Cardinality(Older(r)) \in Nat
    BY Bounds, OlderAhead, FS_CardinalityType
  <2>3. Older(r) = {}
    BY <2>1, <2>2, FS_EmptySet
  <2>4. Cardinality(rest) = 0
    BY <2>3, FS_EmptySet
  <2> HIDE DEF free, rest
  <2>5. Cardinality(rest) <= Cardinality(free)
    BY <1>2, <2>4
  <2>6. QED
    BY <2>5 DEF free, rest
<1>4. CASE r \notin Exclusive
  <2>1. run[r].n = count /\ run[r].m = count /\ count \in 1 .. MaxSlots
    BY <1>1, <1>l, Figured, SuiteGateAssumption DEF Steady, PlacesOK, TypeOK, SlotIds
  <2>2. count <= Cardinality(held) + Cardinality(free) + 1
    <3>1. 0 .. count - 1 \subseteq (held \cup free) \cup {k}
      BY <1>1, <2>1, SuiteGateAssumption DEF Held, SlotIds, TypeOK
    <3>2. Cardinality(0 .. count - 1) = count
      BY <2>1, SuiteGateAssumption, FS_Interval
    <3> HIDE DEF held, free
    <3>3. /\ IsFiniteSet(held \cup free) /\ IsFiniteSet((held \cup free) \cup {k})
          /\ Cardinality(held \cup free) <= Cardinality(held) + Cardinality(free)
          /\ Cardinality((held \cup free) \cup {k}) <= Cardinality(held \cup free) + 1
          /\ Cardinality(held \cup free) \in Nat
          /\ Cardinality((held \cup free) \cup {k}) \in Nat
      BY <1>2, UnionBound
    <3>4. Cardinality(0 .. count - 1) <= Cardinality((held \cup free) \cup {k})
      BY <3>1, <3>3, FS_Subset
    <3>5. QED
      BY <1>2, <2>1, <3>2, <3>3, <3>4
  <2> DEFINE mine == {slot[j] : j \in held}
  <2>3. /\ mine \subseteq Rivals(r) /\ mine \subseteq Occupants
        /\ \A j \in held : run[slot[j]].k = j
    <3>1. \A j \in held : /\ j \in SlotIds /\ j < count /\ slot[j] \in Runs /\ Alive(slot[j])
                          /\ j \in Held(MaxSlots)
      BY <2>1, SuiteGateAssumption DEF Held, Dead, TypeOK, SlotIds
    <3>2. \A j \in held : Owns(slot[j]) /\ run[slot[j]].k = j
      BY <3>1 DEF SlotsOwned
    <3>3. \A j \in held : run[slot[j]].n = count
      BY <3>1, SuiteGateAssumption DEF Steady, PlacesOK
    <3>4. QED
      BY <2>1, <3>1, <3>2, <3>3 DEF Rivals, Occupants
  <2>4. IsFiniteSet(mine) /\ Cardinality(held) <= Cardinality(mine)
    <3>1. mine \in SUBSET Runs
      BY <2>3 DEF Rivals
    <3>2. IsFiniteSet(mine)
      BY <3>1, Bounds
    <3> DEFINE f == [j \in held |-> slot[j]]
    <3>3. f \in [held -> mine] /\ \A i, j \in held : f[i] = f[j] => i = j
      BY <2>3
    <3>4. f \in Injection(held, mine)
      BY <3>3 DEF Injection, IsInjective
    <3> HIDE DEF f, mine, held
    <3>5. QED
      BY <3>2, <3>4, FS_Injection
  <2>5. Cardinality(mine) + Cardinality(rest) <= Cardinality(Older(r) \cup Rivals(r))
    <3>1. mine \cup rest \subseteq Older(r) \cup Rivals(r) /\ mine \cap rest = {}
      BY <2>3
    <3>2. Older(r) \cup Rivals(r) \in SUBSET Runs
      BY DEF Older, Before, Rivals, TypeOK
    <3> HIDE DEF mine, rest
    <3>3. Cardinality(mine \cup rest) = Cardinality(mine) + Cardinality(rest)
      <4>1. Cardinality(mine \cup rest) =
              Cardinality(mine) + Cardinality(rest) - Cardinality(mine \cap rest)
        BY <1>2, <2>4, FS_Union
      <4>2. Cardinality(mine \cap rest) = 0 /\ Cardinality(mine) \in Nat
        BY <2>4, <3>1, FS_EmptySet, FS_CardinalityType
      <4>3. QED
        BY <1>2, <4>1, <4>2
    <3>4. Cardinality(mine \cup rest) <= Cardinality(Older(r) \cup Rivals(r))
      BY <3>1, <3>2, Bounds, FS_Subset
    <3>5. QED
      BY <3>3, <3>4
  <2>6. Cardinality(Older(r) \cup Rivals(r)) < count
    BY <1>4, <1>l, <2>1 DEF RoomKept
  <2>7. Cardinality(Older(r) \cup Rivals(r)) \in Nat /\ Cardinality(mine) \in Nat
    BY <2>4, Bounds, FS_CardinalityType DEF Older, Before, Rivals, TypeOK
  <2> HIDE DEF mine, held, rest, free
  <2>8. Cardinality(rest) <= Cardinality(free)
    BY <1>2, <2>1, <2>2, <2>4, <2>5, <2>6, <2>7
  <2>9. QED
    BY <2>8 DEF rest, free
<1>5. QED
  BY <1>3, <1>4

(* OldestServed: a run that takes a slot leaves one for each older waiter, *)
(* while N is the same for all, no ticket was passable or filed behind a   *)
(* younger one's back, and nobody was robbed (tickets_ahead and acquire of *)
(* src/ops/fleet_kit/fleet_suite_gate.py).                                 *)
THEOREM TheOldestAreServed == Spec => OldestServed
<1>1. GateInv /\ [Next]_vars =>
        [\A r \in Runs :
           /\ At(r, "take") /\ run'[r].at \in {"got", "alone"}
           /\ ~passed /\ robbed = {} /\ ~late /\ Steady
           => Cardinality({s \in Before(r) : Waiting(s)} \ Occupants)
                <= Cardinality({k \in SlotIds : k < run[r].m /\ slot'[k] = NoRun})]_vars
  BY SlotsAreLeft DEF Older
<1>2. QED
  BY SuiteGateInvariant, <1>1, PTL DEF Spec, OldestServed
=============================================================================
