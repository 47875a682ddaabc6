-------------------------------- MODULE Claims --------------------------------
(***************************************************************************)
(* The file-claim registry of ops/fleet_kit/fleet_claims.py: the hooks     *)
(* that run before an agent's edit or shell command and after the agent    *)
(* has finished, over one directory of owner files per tree.               *)
(*                                                                         *)
(* A call is one run of the PreToolUse hook in mode "deny" together with   *)
(* the tool it stands before; one agent may have several at once.  An      *)
(* owner file is there or not, refreshed within the TTL or not, and names  *)
(* its session's process or not.  A command is what the hook's parsers     *)
(* make of it: the files of one tree it writes or adds by name, or the     *)
(* whole tree.                                                             *)
(***************************************************************************)
EXTENDS Integers, FiniteSets

CONSTANTS
  Agents,      \* owner ids
  Calls,       \* hook processes that may run at the same time
  Owner,       \* the agent of each call
  Trees, Project, \* main checkouts; the one the agents work in
  Paths, TreeOf,  \* files that are not exempt, and the tree of each
  MaxCalls,    \* bound: how many calls are made
  MaxFaults    \* bound: how often time runs out or something is cut off

Nobody == "nobody"

ASSUME ClaimsAssumption ==
  /\ IsFiniteSet(Agents) /\ IsFiniteSet(Calls) /\ Nobody \notin Calls
  /\ Owner \in [Calls -> Agents]
  /\ Project \in Trees /\ TreeOf \in [Paths -> Trees]
  /\ MaxCalls \in Nat /\ MaxFaults \in Nat

VARIABLES
  reg,       \* reg[t][a]: the owner file of a in the registry of tree t
  mutex,     \* mutex[t]: whose .mutex file is there, and whether it is stale
  index,     \* index[a]: the trees in the cross-tree index of a
  call,      \* call[c]: where it is, what it asks for, what it has read
  up,        \* up[a]: whether the session's process of a runs
  working,   \* working[a]: a has not finished
  dirty,     \* the files with uncommitted edits, as git status reports them
  left,      \* left[a]: the trees that the release hook of a has still before it
  entitled,  \* history: the claims of a that nothing has ended
  stray,     \* history: stray[a]: the trees where a fault lost the release of a
  hit,       \* history: what went wrong
  made, faults \* history: how many calls were made, how many faults there were

claimVars ==
  <<reg, mutex, index, call, up, working, dirty, left, entitled, stray, hit, made, faults>>

Kinds == {"edit", "named", "sweep"}
Locations == {"idle", "lock", "reap", "unlink", "check", "keep", "write", "index",
              "unlock", "beat", "refresh", "screen", "act"}

NoDoc == [there |-> FALSE, paths |-> {}, fresh |-> FALSE, named |-> FALSE]
NoMutex == [by |-> Nobody, stale |-> FALSE]
Idle == [at |-> "idle", kind |-> "edit", files |-> {}, tree |-> Project,
         seen |-> NoDoc, kept |-> {}, judged |-> {}, holds |-> FALSE]

FilesOf(t) == {p \in Paths : TreeOf[p] = t}

(* live: refreshed within the TTL, and its session's process still runs.   *)
Live(a, doc) == doc.there /\ doc.fresh /\ (doc.named => up[a])

(* Mutant of Holders: nobody's claim is seen.                              *)
Holders_None(t, files, me) == {}

(* holders: which of these files are claimed by a live owner but me.       *)
Holders(t, files, me) ==
  {p \in files : \E a \in Agents \ {me} : Live(a, reg[t][a]) /\ p \in reg[t][a].paths}

ClaimsInit ==
  /\ reg = [t \in Trees |-> [a \in Agents |-> NoDoc]]
  /\ mutex = [t \in Trees |-> NoMutex]
  /\ index = [a \in Agents |-> {}]
  /\ call = [c \in Calls |-> Idle]
  /\ up = [a \in Agents |-> TRUE] /\ working = [a \in Agents |-> TRUE]
  /\ dirty = {} /\ left = [a \in Agents |-> {}]
  /\ entitled = [a \in Agents |-> {}] /\ stray = [a \in Agents |-> {}]
  /\ hit = {} /\ made = 0 /\ faults = 0

----------------------------------------------------------------------------
Go(c, place) == call' = [call EXCEPT ![c].at = place]
GoReading(c, place, doc) == call' = [call EXCEPT ![c] = [@ EXCEPT !.at = place, !.seen = doc]]
Ends(c) == call' = [call EXCEPT ![c] = Idle]

Me(c) == Owner[c]
Tree(c) == call[c].tree
Mine(c) == reg[Tree(c)][Me(c)]
IsEdit(c) == call[c].kind = "edit"

Note(what, holds) == hit' = IF holds THEN hit \cup {what} ELSE hit
Strays(a, trees) == stray' = [stray EXCEPT ![a] = @ \cup trees]
Fault == faults < MaxFaults /\ faults' = faults + 1

(* Whether another call works under this mutex.                            *)
Critical == {"reap", "unlink", "check", "keep", "write"}
Occupied(c) == \E d \in Calls \ {c} : call[d].at \in Critical /\ Tree(d) = Tree(c)

(* write_targets, inplace_targets, git_add_targets: what a command of a    *)
(* kind may name in a tree.  An edit names one file.                       *)
Targets(kind, t) ==
  CASE kind = "edit" -> {{p} : p \in FilesOf(t)}
    [] kind = "named" -> (SUBSET FilesOf(t)) \ {{}}
    [] kind = "sweep" -> {FilesOf(t)} \ {{}}

(* The hook starts: an edit tool asks for a file, a shell command for its  *)
(* targets.  A bare commit, push or whole suite, and a helper run under    *)
(* another's owner id, are refused here and leave no trace.                *)
Begin(c) ==
  \E kind \in Kinds, t \in Trees : \E files \in Targets(kind, t) :
    /\ call[c].at = "idle" /\ working[Me(c)] /\ up[Me(c)] /\ made < MaxCalls
    /\ call' = [call EXCEPT ![c] =
         [Idle EXCEPT !.kind = kind, !.files = files, !.tree = t,
                      !.at = IF kind = "edit" THEN "lock" ELSE "beat"]]
    /\ made' = made + 1
    /\ UNCHANGED <<reg, mutex, index, up, working, dirty, left, entitled, stray, hit, faults>>

(* heartbeat, first half: the owner file in the tree of the working        *)
(* directory is read; without one there is nothing to refresh.             *)
Beat(c) ==
  /\ call[c].at = "beat"
  /\ GoReading(c, IF reg[Project][Me(c)].there THEN "refresh" ELSE "screen",
               reg[Project][Me(c)])
  /\ UNCHANGED <<reg, mutex, index, up, working, dirty, left, entitled, stray, hit, made, faults>>

(* heartbeat, second half: it is written back, under no mutex.             *)
Refresh(c) ==
  /\ call[c].at = "refresh"
  /\ reg' = [reg EXCEPT ![Project][Me(c)] = [call[c].seen EXCEPT !.fresh = TRUE]]
  /\ hit' = hit \cup (IF Live(Me(c), call[c].seen) THEN {} ELSE {"revived"})
                \cup (IF call[c].seen = reg[Project][Me(c)] THEN {} ELSE {"crossed"})
  /\ Go(c, "screen")
  /\ UNCHANGED <<mutex, index, up, working, dirty, left, entitled, stray, made, faults>>

(* decide_shell looks for foreign claims, under no mutex.                  *)
Screen(c) ==
  /\ call[c].at = "screen"
  /\ IF Holders(Tree(c), call[c].files, Me(c)) # {} THEN Ends(c) ELSE Go(c, "lock")
  /\ UNCHANGED <<reg, mutex, index, up, working, dirty, left, entitled, stray, hit, made, faults>>

Inside(c) == IF IsEdit(c) THEN "reap" ELSE "keep"

(* _mutex: the file is created.                                            *)
Lock(c) ==
  /\ call[c].at = "lock" /\ mutex[Tree(c)] = NoMutex
  /\ mutex' = [mutex EXCEPT ![Tree(c)].by = c]
  /\ call' = [call EXCEPT ![c] = [@ EXCEPT !.at = Inside(c), !.holds = TRUE]]
  /\ Note("forced", Occupied(c))
  /\ UNCHANGED <<reg, index, up, working, dirty, left, entitled, stray, made, faults>>

(* _mutex: one older than MUTEX_STALE_S is removed, whoever holds it.      *)
BreakMutex(c) ==
  /\ call[c].at = "lock" /\ mutex[Tree(c)].stale
  /\ mutex' = [mutex EXCEPT ![Tree(c)] = NoMutex]
  /\ UNCHANGED <<reg, index, call, up, working, dirty, left, entitled, stray, hit, made, faults>>

(* _mutex: after MUTEX_WAIT_S the call goes on without it.                 *)
GiveUp(c) ==
  /\ call[c].at = "lock" /\ mutex[Tree(c)] # NoMutex /\ Fault
  /\ Go(c, Inside(c))
  /\ Note("forced", TRUE)
  /\ UNCHANGED <<reg, mutex, index, up, working, dirty, left, entitled, stray, made>>

(* reap reads the owner files and finds the dead.                          *)
Reap(c) ==
  /\ call[c].at = "reap"
  /\ call' = [call EXCEPT ![c] = [@ EXCEPT !.at = "unlink", !.judged =
       {a \in Agents : reg[Tree(c)][a].there /\ ~Live(a, reg[Tree(c)][a])}]]
  /\ UNCHANGED <<reg, mutex, index, up, working, dirty, left, entitled, stray, hit, made, faults>>

(* reap removes what it found dead, by name.                               *)
Unlink(c) ==
  /\ call[c].at = "unlink"
  /\ reg' = [reg EXCEPT ![Tree(c)] =
       [a \in Agents |-> IF a \in call[c].judged THEN NoDoc ELSE @[a]]]
  /\ Note("crossed", \E a \in call[c].judged : Live(a, reg[Tree(c)][a]))
  /\ Go(c, "check")
  /\ UNCHANGED <<mutex, index, up, working, dirty, left, entitled, stray, made, faults>>

(* decide_edit: denied while another live owner holds the file.            *)
Check(c) ==
  /\ call[c].at = "check"
  /\ LET free == Holders(Tree(c), call[c].files, Me(c)) = {}
     IN  call' = [call EXCEPT ![c] =
           [@ EXCEPT !.at = IF free THEN "write" ELSE "unlock", !.seen = Mine(c),
                     !.kept = IF free THEN call[c].files ELSE {}]]
  /\ UNCHANGED <<reg, mutex, index, up, working, dirty, left, entitled, stray, hit, made, faults>>

(* claim_shell: of the targets, or of what git status reports in the tree, *)
(* the files that no other live owner holds; it never denies.              *)
Keep(c) ==
  /\ call[c].at = "keep"
  /\ LET wanted == IF call[c].kind = "sweep" THEN call[c].files \cap dirty ELSE call[c].files
         keep == wanted \ Holders(Tree(c), wanted, Me(c))
     IN  call' = [call EXCEPT ![c] =
           [@ EXCEPT !.at = IF keep = {} THEN "unlock" ELSE "write", !.seen = Mine(c),
                     !.kept = keep]]
  /\ UNCHANGED <<reg, mutex, index, up, working, dirty, left, entitled, stray, hit, made, faults>>

(* claim: the owner file is written with the files that are kept.  A new   *)
(* one names the session's process if the hook found it.                   *)
Write(c) ==
  /\ call[c].at = "write"
  /\ \E named \in IF call[c].seen.there THEN {call[c].seen.named} ELSE BOOLEAN :
       reg' = [reg EXCEPT ![Tree(c)][Me(c)] =
         [there |-> TRUE, paths |-> call[c].seen.paths \cup call[c].kept,
          fresh |-> TRUE, named |-> named]]
  /\ entitled' = [entitled EXCEPT ![Me(c)] = @ \cup call[c].kept]
  /\ hit' = hit
       \cup (IF call[c].seen.there /\ ~Live(Me(c), call[c].seen) THEN {"revived"} ELSE {})
       \cup (IF call[c].seen = Mine(c) THEN {} ELSE {"crossed"})
  /\ Go(c, IF IsEdit(c) THEN "unlock" ELSE "index")
  /\ UNCHANGED <<mutex, index, up, working, dirty, left, stray, made, faults>>

(* index_add, for a tree other than the project's; a failure is ignored.   *)
Index(c) ==
  /\ call[c].at = "index"
  /\ \/ /\ index' = [index EXCEPT ![Me(c)] = @ \cup ({Tree(c)} \ {Project})]
        /\ UNCHANGED <<stray, faults>>
     \/ /\ Tree(c) # Project /\ Fault
        /\ Strays(Me(c), {Tree(c)}) /\ UNCHANGED index
  /\ Go(c, IF IsEdit(c) THEN "act" ELSE "unlock")
  /\ UNCHANGED <<reg, mutex, up, working, dirty, left, entitled, hit, made>>

(* _mutex ends: who created the file removes the one that is there.  A     *)
(* denied edit ends, a shell command goes on in any case.                  *)
Unlock(c) ==
  /\ call[c].at = "unlock"
  /\ mutex' = IF call[c].holds THEN [mutex EXCEPT ![Tree(c)] = NoMutex] ELSE mutex
  /\ IF IsEdit(c) /\ call[c].kept = {}
       THEN Ends(c)
       ELSE call' = [call EXCEPT ![c] =
              [@ EXCEPT !.at = IF IsEdit(c) THEN "index" ELSE "act", !.holds = FALSE]]
  /\ UNCHANGED <<reg, index, up, working, dirty, left, entitled, stray, hit, made, faults>>

(* The tool runs; a file that is written or added by name is dirty then.   *)
Act(c) ==
  /\ call[c].at = "act"
  /\ dirty' = IF call[c].kind # "sweep" THEN dirty \cup call[c].files ELSE dirty
  /\ Ends(c)
  /\ UNCHANGED <<reg, mutex, index, up, working, left, entitled, stray, hit, made, faults>>

(* The hook is cut off or fails; it never denies then, and its mutex stays.*)
(* Between the owner file and the index, the entry is missing.             *)
HookLost(c) ==
  /\ call[c].at \notin {"idle", "act"} /\ Fault
  /\ call' = [call EXCEPT ![c] = [@ EXCEPT !.at = "act", !.holds = FALSE]]
  /\ Strays(Me(c), IF call[c].at \in {"unlock", "index"} THEN {Tree(c)} \ {Project} ELSE {})
  /\ UNCHANGED <<reg, mutex, index, up, working, dirty, left, entitled, hit, made>>

CallStep(c) ==
  \/ Begin(c) \/ Beat(c) \/ Refresh(c) \/ Screen(c) \/ Lock(c) \/ BreakMutex(c)
  \/ GiveUp(c) \/ Reap(c) \/ Unlink(c) \/ Check(c) \/ Keep(c) \/ Write(c)
  \/ Index(c) \/ Unlock(c) \/ Act(c) \/ HookLost(c)

----------------------------------------------------------------------------
(* Mutant of Pop: the trees of the index are not looked at.                *)
Pop_Project(a) ==
  /\ working[a] /\ up[a] /\ \A c \in Calls : Owner[c] = a => call[c].at = "idle"
  /\ working' = [working EXCEPT ![a] = FALSE] /\ entitled' = [entitled EXCEPT ![a] = {}]
  /\ left' = [left EXCEPT ![a] = {Project}] /\ index' = [index EXCEPT ![a] = {}]
  /\ UNCHANGED <<reg, mutex, call, up, dirty, stray, hit, made, faults>>

(* run_release_hook: the agent has finished.  index_pop takes the trees of *)
(* its index; an index that cannot be read counts as empty.                *)
Pop(a) ==
  /\ working[a] /\ up[a] /\ \A c \in Calls : Owner[c] = a => call[c].at = "idle"
  /\ working' = [working EXCEPT ![a] = FALSE] /\ entitled' = [entitled EXCEPT ![a] = {}]
  /\ \/ /\ left' = [left EXCEPT ![a] = index[a] \cup {Project}]
        /\ index' = [index EXCEPT ![a] = {}]
        /\ UNCHANGED <<stray, faults>>
     \/ /\ index[a] # {} /\ Fault
        /\ left' = [left EXCEPT ![a] = {Project}]
        /\ Strays(a, index[a]) /\ UNCHANGED index
  /\ UNCHANGED <<reg, mutex, call, up, dirty, hit, made>>

(* release, tree by tree; a failed unlink is ignored.                      *)
LetGo(a, t) ==
  /\ t \in left[a]
  /\ left' = [left EXCEPT ![a] = @ \ {t}]
  /\ \/ /\ reg' = [reg EXCEPT ![t][a] = NoDoc]
        /\ UNCHANGED <<stray, faults>>
     \/ /\ reg[t][a].there /\ Fault
        /\ Strays(a, {t}) /\ UNCHANGED reg
  /\ UNCHANGED <<mutex, index, call, up, working, dirty, entitled, hit, made>>

(* The release hook is cut off after index_pop: nobody knows the trees.    *)
ReleaseLost(a) ==
  /\ left[a] # {} /\ Fault
  /\ left' = [left EXCEPT ![a] = {}] /\ Strays(a, left[a])
  /\ UNCHANGED <<reg, mutex, index, call, up, working, dirty, entitled, hit, made>>

(* The session's process of a dies, and what ran under it.                 *)
SessionEnds(a) ==
  /\ up[a] /\ Fault
  /\ up' = [up EXCEPT ![a] = FALSE]
  /\ call' = [c \in Calls |-> IF Owner[c] = a THEN Idle ELSE call[c]]
  /\ left' = [left EXCEPT ![a] = {}] /\ Strays(a, left[a])
  /\ entitled' = [entitled EXCEPT ![a] = {}]
  /\ UNCHANGED <<reg, mutex, index, working, dirty, hit, made>>

(* TTL_S passes since the owner file was written.                          *)
Age(t, a) ==
  /\ reg[t][a].fresh /\ Fault
  /\ reg' = [reg EXCEPT ![t][a].fresh = FALSE]
  /\ entitled' = [entitled EXCEPT ![a] = @ \ FilesOf(t)]
  /\ UNCHANGED <<mutex, index, call, up, working, dirty, left, stray, hit, made>>

(* MUTEX_STALE_S passes since the mutex was created.                       *)
AgeMutex(t) ==
  /\ mutex[t] # NoMutex /\ ~mutex[t].stale /\ Fault
  /\ mutex' = [mutex EXCEPT ![t].stale = TRUE]
  /\ UNCHANGED <<reg, index, call, up, working, dirty, left, entitled, stray, hit, made>>

ClaimsNext ==
  \/ \E c \in Calls : CallStep(c)
  \/ \E a \in Agents : Pop(a) \/ ReleaseLost(a) \/ SessionEnds(a)
  \/ \E t \in Trees, a \in Agents : LetGo(a, t) \/ Age(t, a)
  \/ \E t \in Trees : AgeMutex(t)

ClaimsSpec == ClaimsInit /\ [][ClaimsNext]_claimVars

----------------------------------------------------------------------------
Doc == [there : BOOLEAN, paths : SUBSET Paths, fresh : BOOLEAN, named : BOOLEAN]
MutexFiles == [by : Calls \cup {Nobody}, stale : BOOLEAN]
CallStates ==
  [at : Locations, kind : Kinds, files : SUBSET Paths, tree : Trees, seen : Doc,
   kept : SUBSET Paths, judged : SUBSET Agents, holds : BOOLEAN]

(* Every variable keeps its type.                                          *)
ClaimsTypeOK ==
  /\ reg \in [Trees -> [Agents -> Doc]]
  /\ mutex \in [Trees -> MutexFiles]
  /\ index \in [Agents -> SUBSET Trees]
  /\ call \in [Calls -> CallStates]
  /\ up \in [Agents -> BOOLEAN] /\ working \in [Agents -> BOOLEAN]
  /\ dirty \in SUBSET Paths /\ entitled \in [Agents -> SUBSET Paths]
  /\ left \in [Agents -> SUBSET Trees] /\ stray \in [Agents -> SUBSET Trees]
  /\ hit \in SUBSET {"revived", "crossed", "forced"}
  /\ made \in 0 .. MaxCalls /\ faults \in 0 .. MaxFaults

Spared(what) == hit \cap what = {}

(* One owner a file: no two live owners hold it, unless two hooks worked   *)
(* under one mutex, or an owner file was written back that had died or     *)
(* changed since it was read.                                              *)
OneOwner ==
  Spared({"forced", "revived", "crossed"}) =>
    \A a, b \in Agents, t \in Trees :
      a # b /\ Live(a, reg[t][a]) /\ Live(b, reg[t][b]) =>
        reg[t][a].paths \cap reg[t][b].paths = {}

(* A claim lasts as long as its agent and no longer: what one was granted  *)
(* stays in its owner file until the TTL, its session or the agent itself  *)
(* ends, unless two hooks of one agent crossed; and KIT-14, a finished one *)
(* leaves a claim only in a tree that its release hook has still before    *)
(* it, or in one whose index entry or whose release a fault has lost.      *)
ClaimsLast ==
  /\ Spared({"crossed"}) =>
       \A a \in Agents : \A p \in entitled[a] :
         Live(a, reg[TreeOf[p]][a]) /\ p \in reg[TreeOf[p]][a].paths
  /\ \A a \in Agents, t \in Trees :
       ~working[a] /\ reg[t][a].there => t \in left[a] \cup stray[a]
=============================================================================
