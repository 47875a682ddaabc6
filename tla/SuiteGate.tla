------------------------------- MODULE SuiteGate -------------------------------
(***************************************************************************)
(* `run` of ops/fleet_kit/fleet_suite_gate.py: the machine-wide gate in    *)
(* front of the whole test suites.  A run files a ticket in a FIFO queue   *)
(* of files, polls until it may create one of the slot files, drops its    *)
(* ticket, runs its suite and unlinks its slot.                            *)
(*                                                                         *)
(* One poll reads the slots, then the queue, then the slots again, and     *)
(* only then creates a file: each read is a step, and the other runs move  *)
(* between them.  A run that dies leaves its ticket and its slot behind,   *)
(* and its suite, a process of its own, may run on.                        *)
(***************************************************************************)
EXTENDS Integers, FiniteSets

CONSTANTS
  Runs,        \* the processes of `run`
  SuiteOf,     \* the tree whose suite each runs
  Exclusive,   \* the runs started with --exclusive
  Brief,       \* the runs whose suite is known to be short (lane_eligible)
  MaxSlots,    \* MAX_SLOTS, the lane slot included
  MaxEvents    \* bound: how often a run dies, a write or an unlink fails, commit
               \* is short or N is changed

NoRun == "nobody"
SlotIds == 0 .. MaxSlots - 1

ASSUME SuiteGateAssumption ==
  /\ IsFiniteSet(Runs) /\ NoRun \notin Runs
  /\ Exclusive \subseteq Runs /\ Brief \subseteq Runs \ Exclusive
  /\ MaxSlots \in Nat \ {0} /\ MaxEvents \in Nat

VARIABLES
  count,   \* slots.json: the live number of regular slots
  slot,    \* slot[k]: who created slot-k.lock, or NoRun
  tickets, \* the runs whose ticket file is there
  older,   \* <<s, r>>: of two tickets, the name of that of s has the older stamp
  late,    \* history: a ticket came when a younger run had read the queue
  run,     \* run[r]: where r is, what its ticket says, what it has read
  tight,   \* the runs that free commit does not cover now
  aged,    \* the runs whose ticket is older than BYPASS_MAX_S
  orphans, \* the runs that died while their suite runs on
  robbed,  \* history: the runs whose slot was unlinked while they lived
  littered, \* history: a run ended and left its slot file behind
  passed,  \* history: a ticket was passable at some time
  events   \* history: how often the world around them acted

vars == <<count, slot, tickets, older, late, run, tight, aged, orphans, robbed, littered, passed,
          events>>
queue == <<tickets, older, late>>
wreck == <<orphans, robbed, littered>>

Unborn == [at |-> "off", n |-> 0, lane |-> FALSE, excl |-> FALSE, short |-> FALSE, busy |-> FALSE,
           m |-> 0, len |-> 0, k |-> 0, dead |-> 0, back |-> "off"]

Waits == {"poll", "look", "queue", "free", "take", "lane", "lanetake", "alone"}
Holds == {"got", "check", "suite", "release"}
Stages == Waits \cup Holds \cup {"off", "file", "mark", "reap", "done", "dead"}

At(r, place) == run[r].at = place
Becomes(r, now) == run' = [run EXCEPT ![r] = now]
GoTo(r, place) == Becomes(r, [run[r] EXCEPT !.at = place])
Leave(r, place) == Becomes(r, [Unborn EXCEPT !.at = place])
Wait(r, place) == Becomes(r, [run[r] EXCEPT !.at = place, !.m = 0, !.len = 0, !.k = 0])
Alive(r) == run[r].at \notin {"off", "done", "dead"}
Event == events < MaxEvents /\ events' = events + 1

Init ==
  /\ count \in 1 .. MaxSlots
  /\ slot = [k \in SlotIds |-> NoRun] /\ tickets = {} /\ older = {} /\ late = FALSE
  /\ run = [r \in Runs |-> Unborn]
  /\ tight = {} /\ aged = {} /\ orphans = {} /\ robbed = {} /\ littered = FALSE
  /\ passed = FALSE /\ events = 0

----------------------------------------------------------------------------
(* Reading the slots and the queue.                                        *)

(* Mutant of Dead: a holder counts as dead while it runs its suite.        *)
Dead_Suite(k) == slot[k] # NoRun /\ (~Alive(slot[k]) \/ At(slot[k], "suite"))

(* Mutant of Dead: what a dead run left is taken for live.                 *)
Dead_Never(k) == FALSE

(* slot_live, of a slot file that is there.                                *)
Dead(k) == slot[k] # NoRun /\ ~Alive(slot[k])

(* holder_records and held, upto a number of slots.                        *)
Held(upto) == {k \in SlotIds : k < upto /\ slot[k] # NoRun /\ ~Dead(k)}
Occupants == {slot[k] : k \in Held(MaxSlots)}

Before(r) == {s \in tickets : <<s, r>> \in older}

Passable(s) == run[s].busy \/ (run[s].short /\ s \notin aged)

(* tickets_ahead: the older live tickets that count against r's.           *)
Ahead(r) == {s \in Before(r) : Alive(s) /\ ~Passable(s)}

UnlinkTickets(S) ==
  /\ tickets' = tickets \ S
  /\ older' = {p \in older : p[1] \notin S /\ p[2] \notin S}
  /\ UNCHANGED late

(* r has read the queue of this poll, and looks for a regular slot.        *)
InLine(r) == run[r].at \in {"free", "take"} \/ (At(r, "reap") /\ run[r].back \in {"free", "take"})

Least(S) == CHOOSE x \in S : \A y \in S : x <= y

----------------------------------------------------------------------------
(* run, check_straddle, take_ticket: N and the stamp of the name.  The     *)
(* edits of another agent refuse the run.                                  *)
Stamp(r) ==
  /\ At(r, "off")
  /\ \/ Leave(r, "done") /\ UNCHANGED queue
     \/ /\ Becomes(r, [run[r] EXCEPT !.at = "file", !.n = count,
                                     !.lane = r \in Brief /\ count < MaxSlots])
        /\ older' = older \cup {<<s, r>> : s \in tickets \cup {t \in Runs : At(t, "file")}}
        /\ UNCHANGED <<tickets, late>>
  /\ UNCHANGED <<count, slot, tight, aged, wreck, passed, events>>

(* take_ticket: only now is the file there, and runs with younger stamps   *)
(* may have read the queue without it.                                     *)
File(r) ==
  /\ At(r, "file")
  /\ Becomes(r, [run[r] EXCEPT !.at = IF r \in Exclusive THEN "mark" ELSE "poll"])
  /\ tickets' = tickets \cup {r}
  /\ late' = (late \/ \E t \in Runs : <<r, t>> \in older /\ InLine(t))
  /\ UNCHANGED <<count, slot, older, tight, aged, wreck, passed, events>>

(* The exclusive mark is a second write, which may fail and is not retried.*)
MarkExclusive(r) ==
  /\ At(r, "mark")
  /\ \/ Becomes(r, [run[r] EXCEPT !.at = "poll", !.excl = TRUE]) /\ UNCHANGED events
     \/ GoTo(r, "poll") /\ Event
  /\ UNCHANGED <<count, slot, queue, tight, aged, wreck, passed>>

(* acquire: N is read again, and free commit; the ticket says both.  While *)
(* commit is short the run only waits.                                     *)
Poll(r) ==
  /\ At(r, "poll")
  /\ Becomes(r, [run[r] EXCEPT !.n = count, !.short = r \in tight,
                               !.at = IF r \in tight THEN "poll" ELSE "look"])
  /\ passed' = (passed \/ r \in tight)
  /\ UNCHANGED <<count, slot, queue, tight, aged, wreck, events>>

(* acquire: the holders are read.  Nothing is taken past an exclusive one, *)
(* one of the same tree, or any while the CPU is over its cap; an          *)
(* exclusive run wants none at all.                                        *)
Look(r) ==
  /\ At(r, "look")
  /\ LET busy == \E h \in Occupants : SuiteOf[h] = SuiteOf[r]
         barred == busy \/ Occupants \cap Exclusive # {} \/ (r \in Exclusive /\ Occupants # {})
     IN  \E place \in IF barred THEN {"poll"} ELSE IF Occupants = {} THEN {"queue"}
                      ELSE {"poll", "queue"} :
           /\ Becomes(r, [run[r] EXCEPT !.busy = busy, !.at = place])
           /\ passed' = (passed \/ busy)
  /\ UNCHANGED <<count, slot, queue, tight, aged, wreck, events>>

(* tickets_ahead: dead older tickets go; an exclusive run wants none, and  *)
(* no run passes an exclusive one.  The waiter plays by the smallest N.    *)
ReadQueue(r) ==
  /\ At(r, "queue")
  /\ UnlinkTickets({s \in Before(r) : ~Alive(s)})
  /\ LET ahead == Ahead(r)
         barred == \/ r \in Exclusive /\ ahead # {}
                   \/ \E s \in ahead : run[s].excl
         m == IF r \in Exclusive THEN run[r].n
              ELSE Least({run[r].n} \cup {run[s].n : s \in ahead})
     IN  IF barred THEN GoTo(r, "poll")
         ELSE Becomes(r, [run[r] EXCEPT !.at = IF r \in Exclusive THEN "take" ELSE "free",
                                        !.m = m, !.len = Cardinality(ahead)])
  /\ UNCHANGED <<count, slot, tight, aged, wreck, passed, events>>

Lane(r) == IF run[r].lane THEN "lane" ELSE "poll"

(* The slots that r is about to read.                                      *)
Reads(r) == CASE run[r].at \in {"free", "take"} -> {k \in SlotIds : k < run[r].m}
              [] At(r, "alone") -> SlotIds
              [] At(r, "lanetake") -> {run[r].n}
              [] OTHER -> {}

(* Mutant of Fits: the older waiters are not left a slot each.             *)
Fits_Any(r) == Cardinality(Held(run[r].m)) < run[r].m

(* acquire: a slot is free, and one for each older waiter besides.         *)
Fits(r) == Cardinality(Held(run[r].m)) + run[r].len < run[r].m

CountFree(r) ==
  /\ At(r, "free") /\ ~\E k \in Reads(r) : Dead(k)
  /\ IF Fits(r) THEN GoTo(r, "take") ELSE Wait(r, Lane(r))
  /\ UNCHANGED <<count, slot, queue, tight, aged, wreck, passed, events>>

(* held: a dead holder's slot is judged, then unlinked by its name.        *)
Judge(r) ==
  /\ \E k \in Reads(r) :
       Dead(k) /\ Becomes(r, [run[r] EXCEPT !.at = "reap", !.dead = k, !.back = run[r].at])
  /\ UNCHANGED <<count, slot, queue, tight, aged, wreck, passed, events>>

ReapSlot(r) ==
  /\ At(r, "reap")
  /\ slot' = [slot EXCEPT ![run[r].dead] = NoRun]
  /\ robbed' = robbed \cup {h \in Runs : slot[run[r].dead] = h /\ Alive(h)}
  /\ Becomes(r, [run[r] EXCEPT !.at = run[r].back, !.dead = 0, !.back = "off"])
  /\ UNCHANGED <<count, queue, tight, aged, orphans, littered, passed, events>>

Create(r, k) ==
  /\ slot' = [slot EXCEPT ![k] = r]
  /\ Becomes(r, [run[r] EXCEPT !.k = k, !.m = 0, !.len = 0,
                               !.at = IF r \in Exclusive THEN "alone" ELSE "got"])

(* try_slot: the first free of the m slots, by exclusive create.           *)
Take(r) ==
  /\ At(r, "take") /\ ~\E k \in Reads(r) : Dead(k)
  /\ LET free == {k \in Reads(r) : slot[k] = NoRun}
     IN  IF free # {} THEN Create(r, Least(free))
         ELSE Wait(r, Lane(r)) /\ UNCHANGED slot
  /\ UNCHANGED <<count, queue, tight, aged, wreck, passed, events>>

(* release: only while the slot file still holds our own bytes.            *)
Vacate(r) == slot' = IF slot[run[r].k] = r THEN [slot EXCEPT ![run[r].k] = NoRun] ELSE slot

(* acquire, of an exclusive run: someone else came in, and it waits again. *)
CheckAlone(r) ==
  /\ At(r, "alone") /\ ~\E k \in SlotIds : Dead(k)
  /\ IF Held(MaxSlots) = {run[r].k} THEN GoTo(r, "got") /\ UNCHANGED slot
     ELSE Wait(r, "poll") /\ Vacate(r)
  /\ UNCHANGED <<count, queue, tight, aged, wreck, passed, events>>

(* try_lane: slot n, unless it is a regular one for another waiter.        *)
LaneFree(r) ==
  /\ At(r, "lane")
  /\ GoTo(r, IF /\ run[r].n < MaxSlots
              /\ \A s \in tickets \ {r} : Alive(s) => run[s].n <= run[r].n
           THEN "lanetake" ELSE "poll")
  /\ UNCHANGED <<count, slot, queue, tight, aged, wreck, passed, events>>

LaneTake(r) ==
  /\ At(r, "lanetake") /\ ~Dead(run[r].n)
  /\ IF slot[run[r].n] = NoRun THEN Create(r, run[r].n)
     ELSE GoTo(r, "poll") /\ UNCHANGED slot
  /\ UNCHANGED <<count, queue, tight, aged, wreck, passed, events>>

(* What is measured of a waiter ends with its wait.                        *)
Unmeasured(r) == tight' = tight \ {r} /\ aged' = aged \ {r}

(* acquire: refused after the timeout; the ticket goes in any case.        *)
Timeout(r) ==
  /\ At(r, "poll")
  /\ Leave(r, "done") /\ UnlinkTickets({r}) /\ Unmeasured(r)
  /\ UNCHANGED <<count, slot, wreck, passed, events>>

DropTicket(r) ==
  /\ At(r, "got")
  /\ GoTo(r, "check") /\ UnlinkTickets({r}) /\ Unmeasured(r)
  /\ UNCHANGED <<count, slot, wreck, passed, events>>

(* run: the straddle check once more, and the suite.                       *)
CheckAgain(r) ==
  /\ At(r, "check")
  /\ GoTo(r, "suite") \/ GoTo(r, "release")
  /\ UNCHANGED <<count, slot, queue, tight, aged, wreck, passed, events>>

SuiteEnds(r) ==
  /\ At(r, "suite")
  /\ GoTo(r, "release")
  /\ UNCHANGED <<count, slot, queue, tight, aged, wreck, passed, events>>

(* release, at the end of run.  An unlink that is refused leaves the slot  *)
(* to the first that finds its holder gone.                                *)
Release(r) ==
  /\ At(r, "release")
  /\ \/ Vacate(r) /\ UNCHANGED <<littered, events>>
     \/ slot[run[r].k] = r /\ Event /\ littered' = TRUE /\ UNCHANGED slot
  /\ Leave(r, "done")
  /\ UNCHANGED <<count, queue, tight, aged, orphans, robbed, passed>>

Step(r) ==
  \/ Stamp(r) \/ File(r) \/ MarkExclusive(r) \/ Poll(r) \/ Look(r) \/ ReadQueue(r) \/ CountFree(r)
  \/ Judge(r) \/ ReapSlot(r) \/ Take(r) \/ CheckAlone(r) \/ LaneFree(r) \/ LaneTake(r)
  \/ DropTicket(r) \/ CheckAgain(r) \/ SuiteEnds(r) \/ Release(r)

----------------------------------------------------------------------------
(* The gate of r is killed, or an exception ends it.  Its ticket and its   *)
(* slot stay; its suite may run on, in no slot that a live process holds.  *)
Crash(r) ==
  /\ Alive(r) /\ Event
  /\ Leave(r, "dead") /\ Unmeasured(r)
  /\ IF At(r, "file") THEN UnlinkTickets({r}) ELSE UNCHANGED queue
  /\ \/ UNCHANGED orphans
     \/ At(r, "suite") /\ orphans' = orphans \cup {r}
  /\ littered' = (littered \/ \E k \in SlotIds : slot[k] = r)
  /\ UNCHANGED <<count, slot, robbed, passed>>

OrphanEnds(r) ==
  /\ r \in orphans /\ orphans' = orphans \ {r}
  /\ UNCHANGED <<count, slot, queue, run, tight, aged, robbed, littered, passed, events>>

(* set_live_slots, from the command line.                                  *)
SetSlots ==
  /\ Event
  /\ count' \in 1 .. MaxSlots \ {count}
  /\ UNCHANGED <<slot, queue, run, tight, aged, wreck, passed>>

(* free_commit_mb falls below the need of r, and rises again.              *)
Tighten(r) ==
  /\ Event
  /\ r \notin tight /\ run[r].at \in Waits /\ tight' = tight \cup {r}
  /\ UNCHANGED <<count, slot, queue, run, aged, wreck, passed>>

Loosen(r) ==
  /\ r \in tight /\ tight' = tight \ {r}
  /\ UNCHANGED <<count, slot, queue, run, aged, wreck, passed, events>>

(* ticket_age_s: a ticket short of commit passes the bypass cap.           *)
AgeTicket(r) ==
  /\ run[r].short /\ r \notin aged /\ aged' = aged \cup {r}
  /\ UNCHANGED <<count, slot, queue, run, tight, wreck, passed, events>>

Next ==
  \/ \E r \in Runs : Step(r) \/ Timeout(r) \/ Crash(r) \/ Tighten(r) \/ Loosen(r) \/ AgeTicket(r)
                   \/ OrphanEnds(r)
  \/ SetSlots

Spec == Init /\ [][Next]_vars

(* A waiter polls on, a suite ends, and commit is freed in the end.        *)
LiveSpec == Spec /\ \A r \in Runs : WF_vars(Step(r)) /\ WF_vars(Loosen(r))

----------------------------------------------------------------------------
RunRecord == [at : Stages, n : 0 .. MaxSlots, lane : BOOLEAN, excl : BOOLEAN, short : BOOLEAN,
              busy : BOOLEAN, m : 0 .. MaxSlots, len : 0 .. Cardinality(Runs),
              k : SlotIds, dead : SlotIds, back : Stages]
TypeOK ==
  /\ count \in 1 .. MaxSlots /\ slot \in [SlotIds -> Runs \cup {NoRun}]
  /\ tickets \in SUBSET Runs /\ older \in SUBSET (Runs \X Runs) /\ late \in BOOLEAN
  /\ run \in [Runs -> RunRecord]
  /\ tight \in SUBSET Runs /\ aged \in SUBSET Runs /\ passed \in BOOLEAN
  /\ orphans \in SUBSET Runs /\ robbed \in SUBSET Runs /\ littered \in BOOLEAN
  /\ events \in 0 .. MaxEvents

(* A live gate that nobody robbed has its slot file from the create to the *)
(* release; nobody is robbed before some run has left a slot file behind;  *)
(* and the suites that run, those whose gate was killed or robbed aside,   *)
(* are no more than the slots.                                             *)
Suites == {r \in Runs : At(r, "suite")} \cup orphans
SlotKept ==
  /\ \A r \in Runs \ robbed : run[r].at \in Holds => slot[run[r].k] = r
  /\ robbed # {} => littered
  /\ Cardinality(Suites \ (orphans \cup robbed)) <= MaxSlots

(* FIFO: while N is the same for all, until a ticket is passable, comes    *)
(* later than its stamp, or a live slot is unlinked, a run that takes a    *)
(* regular slot leaves one for each older live waiter.                     *)
Steady == \A s \in Runs : run[s].n \in {0, count} /\ run[s].m \in {0, count}
Waiting(r) == run[r].at \in Waits \cup {"mark", "reap"}
OldestServed ==
  [][\A r \in Runs :
       /\ At(r, "take") /\ run'[r].at \in {"got", "alone"}
       /\ ~passed /\ robbed = {} /\ ~late /\ Steady
       => Cardinality({s \in Before(r) : Waiting(s)} \ Occupants)
            <= Cardinality({k \in SlotIds : k < run[r].m /\ slot'[k] = NoRun})]_vars

(* No waiter is starved: it gets a slot, gives up or dies, as long as      *)
(* suites end and commit is freed; what a dead run left stops nobody.      *)
EveryWaiterServed == \A r \in Runs : At(r, "poll") ~> (run[r].at \in Holds \cup {"done", "dead"})
=============================================================================
