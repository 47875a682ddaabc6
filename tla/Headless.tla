-------------------------------- MODULE Headless --------------------------------
(***************************************************************************)
(* spawn of ops/fleet_kit/fleet_headless.py over the governor queue of     *)
(* ops/fleet_kit/fleet_lanes.py.  A call of spawn reads which account to   *)
(* use, waits in a fair queue of ticket files for one of the machine's     *)
(* slot files, counts itself against the run budget of its tree, starts a  *)
(* child, records the child in the slot, and waits for it.                 *)
(*                                                                         *)
(* Every process can be killed between two steps.  The operating system    *)
(* frees its locks; its ticket, its slot and sometimes its child stay.     *)
(***************************************************************************)
EXTENDS Integers, FiniteSets, Sequences, SequencesExt

CONSTANTS
  Runs,         \* the calls of spawn, each in a process of its own
  TreeOf,       \* the tree each works for
  Governed,     \* those with governor= set; the others take no slot
  Interactive,  \* those with priority "interactive"
  Hasty,        \* those with a governor_timeout
  Width,        \* governor_width
  TreeCap,      \* lane_cap_max: slots of one tree
  RunsCap,      \* the tree's cap of starts in a window
  Accounts,     \* how many accounts the armed route lists
  MaxEvents     \* bound: how often the world around them acts

Nobody == "nobody"

ASSUME HeadlessAssumption ==
  /\ IsFiniteSet(Runs) /\ Nobody \notin Runs /\ Governed \subseteq Runs
  /\ Interactive \subseteq Governed /\ Hasty \subseteq Governed
  /\ Width \in Nat \ {0} /\ TreeCap \in 1 .. Width /\ RunsCap \in Nat \ {0}
  /\ Accounts \in Nat \ {0, 1}
  /\ MaxEvents \in Nat

Entries == 1 .. Accounts
SlotIds == 0 .. Width - 1
Trees == {TreeOf[r] : r \in Runs}

VARIABLES
  pc,        \* where each spawn is
  slot,      \* slot[i]: [run, child] of i.lock; Free is no file
  at,        \* at[r]: the slot r created
  doomed,    \* doomed[r]: the slots r judged stale, with what they held
  view,      \* view[r]: the runs r saw holding a slot
  asked,     \* the governed runs in the order of their first ask
  ticket,    \* ticket[r]: "none", "fresh" or, past its heartbeat, "silent"
  aged,      \* the runs whose ticket is older than MAX_WAIT_S
  lock,      \* lock[t]: who holds the OS lock on the budget of tree t
  starts,    \* starts[t]: the starts in the budget file
  copy,      \* copy[r]: what r read of the budget file
  child,     \* the runs whose child process is running
  listed,    \* the exhausted accounts in headless_fallback.json
  passed,    \* the accounts whose reset has passed
  base,      \* base[r]: the rows r read
  entry,     \* entry[r]: the account r runs on
  counted,   \* history: the runs that counted themselves in the window
  behind,    \* history: <<q, r>> when r first asked after q had aged
  unmarked,  \* history: a spawn died whose child its slot does not name
  raced,     \* history: a slot was unlinked that was not the one judged
  events     \* history: how often the world around them acted

vars == <<pc, slot, at, doomed, view, asked, ticket, aged, lock, starts, copy, counted, child,
          listed, passed, base, entry, behind, unmarked, raced, events>>
governor == <<slot, at, doomed, view, raced>>
tickets == <<asked, ticket, aged, behind>>
budget == <<lock, starts, copy, counted>>
route == <<listed, passed, base, entry>>
running == <<child, unmarked, events>>

Free == [run |-> Nobody, child |-> Nobody]
Locations == {"called", "trim", "door", "proxy", "ask", "poll", "reap", "turn", "again", "create",
              "wait", "drop", "budget", "count", "start", "mark", "run", "limit", "note",
              "release", "over", "dead"}

At(r, place) == pc[r] = place
Go(r, place) == pc' = [pc EXCEPT ![r] = place]
Alive(r) == pc[r] \notin {"over", "dead"}
Waiting(r) == pc[r] \in {"poll", "reap", "turn", "again", "create", "wait"}

Init ==
  /\ pc = [r \in Runs |-> "called"]
  /\ slot = [i \in SlotIds |-> Free] /\ at = [r \in Runs |-> 0]
  /\ doomed = [r \in Runs |-> {}] /\ view = [r \in Runs |-> {}]
  /\ asked = <<>> /\ ticket = [r \in Runs |-> "none"] /\ aged = {}
  /\ lock = [t \in Trees |-> Nobody] /\ starts = [t \in Trees |-> {}]
  /\ copy = [r \in Runs |-> {}] /\ counted = {} /\ child = {}
  /\ listed = {} /\ passed = {} /\ base = [r \in Runs |-> {}] /\ entry = [r \in Runs |-> 0]
  /\ behind = {} /\ unmarked = FALSE /\ raced = FALSE /\ events = 0

----------------------------------------------------------------------------
(* Before the queue: halt file, stop sentinels, route, door and proxy.     *)

(* A halt file or a stop sentinel ends the call.                           *)
Halted(r) == At(r, "called") /\ Go(r, "over") /\ UNCHANGED <<governor, tickets, budget, route, running>>

FirstFree(rows) == LET left == Entries \ rows
                   IN  IF left = {} THEN 0 ELSE CHOOSE e \in left : \A f \in left : e <= f

(* Where a call goes with these rows: on with the first account that is    *)
(* not exhausted, or nowhere.                                              *)
Onward(r, live) ==
  /\ entry' = [entry EXCEPT ![r] = FirstFree(live)]
  /\ Go(r, IF FirstFree(live) = 0 THEN "over" ELSE "door")

(* effective_route: the rows are read; those whose reset passed are to be  *)
(* written away (trim) before the call goes on.                            *)
ReadRoute(r) ==
  /\ At(r, "called")
  /\ IF listed \cap passed = {}
     THEN Onward(r, listed) /\ UNCHANGED base
     ELSE base' = [base EXCEPT ![r] = listed] /\ Go(r, "trim") /\ UNCHANGED entry
  /\ UNCHANGED <<governor, tickets, budget, running, listed, passed>>

(* _end_fallback when no row is left, _write_fallback_state otherwise.     *)
Trim(r) ==
  /\ At(r, "trim")
  /\ listed' = base[r] \ passed
  /\ base' = [base EXCEPT ![r] = {}]
  /\ Onward(r, base[r] \ passed)
  /\ UNCHANGED <<governor, tickets, budget, running, passed>>

(* pick_effort, pick_model, check_door: what is asked for may be refused.  *)
Door(r) ==
  /\ At(r, "door")
  /\ \E place \in {"over", "proxy"} : Go(r, place)
  /\ UNCHANGED <<governor, tickets, budget, route, running>>

(* check_url and probe: the kill switch of both routes, and a proxy that   *)
(* does not answer.  What follows is not asked again after the wait.       *)
Proxy(r) ==
  /\ At(r, "proxy")
  /\ \E place \in {"over", IF r \in Governed THEN "ask" ELSE "budget"} : Go(r, place)
  /\ UNCHANGED <<governor, tickets, budget, route, running>>

----------------------------------------------------------------------------
(* Slots and tickets.                                                      *)

(* Mutant of Live: the recorded child does not count.                      *)
Live_Parent(rec) == rec.run # Nobody /\ Alive(rec.run)

(* _slot_stale: a slot is live while the process that took it or the child *)
(* recorded in it is.                                                      *)
Live(rec) == rec.run # Nobody /\ (Alive(rec.run) \/ rec.child \in child)

Stale == {i \in SlotIds : slot[i] # Free /\ ~Live(slot[i])}
Holding == {slot[i].run : i \in {j \in SlotIds : Live(slot[j])}}
Of(t, S) == Cardinality({r \in S : TreeOf[r] = t})
Judged == {<<i, slot[i]>> : i \in Stale}

(* Mutant of TicketLive: the waiter that died keeps its place.             *)
TicketLive_Always(r) == ticket[r] # "none"

TicketLive(r) == ticket[r] = "fresh" /\ Alive(r)

(* enqueue.  A waiter whose ticket was reaped files again with its first   *)
(* ask.                                                                    *)
Ask(r) ==
  /\ At(r, "ask")
  /\ ticket' = [ticket EXCEPT ![r] = "fresh"] /\ asked' = Append(asked, r)
  /\ behind' = behind \cup {<<q, r>> : q \in {s \in aged : Waiting(s) /\ ticket[s] = "fresh"}}
  /\ Go(r, "poll") /\ UNCHANGED <<governor, budget, route, running, aged>>

(* A poll beats, or files the ticket again, and judges the slots.          *)
Poll(r) ==
  /\ At(r, "poll")
  /\ ticket' = [ticket EXCEPT ![r] = "fresh"]
  /\ doomed' = [doomed EXCEPT ![r] = Judged]
  /\ Go(r, "reap")
  /\ UNCHANGED <<budget, route, running, slot, at, view, raced, asked, aged, behind>>

Event == events < MaxEvents /\ events' = events + 1

(* _unlink_if_raw compares the bytes and then unlinks by name: a file of   *)
(* other bytes is kept, if it was there when they were compared, and one   *)
(* whose unlink is refused stays.                                          *)
Reap(r) ==
  /\ pc[r] \in {"reap", "again"}
  /\ \E d \in doomed[r] :
       /\ doomed' = [doomed EXCEPT ![r] = @ \ {d}]
       /\ \/ /\ slot' = [slot EXCEPT ![d[1]] = Free]
             /\ raced' = (raced \/ slot[d[1]] \notin {d[2], Free})
             /\ UNCHANGED events
          \/ slot[d[1]] # d[2] /\ UNCHANGED <<slot, raced, events>>
          \/ Event /\ UNCHANGED <<slot, raced>>
  /\ UNCHANGED <<pc, tickets, budget, route, child, unmarked, at, view>>

(* held_by_repo: who holds what; a tree at its own cap waits.              *)
ReadHeld(r) ==
  /\ At(r, "reap") /\ doomed[r] = {}
  /\ view' = [view EXCEPT ![r] = Holding]
  /\ Go(r, IF Of(TreeOf[r], Holding) < TreeCap THEN "turn" ELSE "wait")
  /\ UNCHANGED <<tickets, budget, route, running, slot, at, doomed, raced>>

Place(r) == CHOOSE i \in DOMAIN asked : asked[i] = r

(* Mutant of Tier: interactive calls first, whoever has waited.            *)
Tier_Young(r) == IF r \in Interactive THEN 1 ELSE 2

Tier(r) == IF r \in aged THEN 0 ELSE IF r \in Interactive THEN 1 ELSE 2

(* ticket_rank: tier, slots of the tree, time of the first ask.            *)
Outranks(q, r, held) ==
  LET h(s) == Of(TreeOf[s], held)
  IN  \/ Tier(q) < Tier(r)
      \/ Tier(q) = Tier(r) /\ h(q) < h(r)
      \/ Tier(q) = Tier(r) /\ h(q) = h(r) /\ Place(q) < Place(r)

(* my_turn, with the slots seen before and the tickets of now: dead ones   *)
(* are removed, those of a tree at its cap are skipped.                    *)
MyTurn(r) ==
  /\ At(r, "turn")
  /\ ticket' = [q \in Runs |-> IF TicketLive(q) THEN ticket[q] ELSE "none"]
  /\ LET live == {q \in Runs : TicketLive(q) /\ Of(TreeOf[q], view[r]) < TreeCap}
         ahead == {q \in live \ {r} : Outranks(q, r, view[r])}
         mine == r \in live /\ Cardinality(ahead) < Width - Cardinality(view[r])
     IN  /\ Go(r, IF mine THEN "again" ELSE "wait")
         /\ doomed' = [doomed EXCEPT ![r] = IF mine THEN Judged ELSE {}]
  /\ view' = [view EXCEPT ![r] = {}]
  /\ UNCHANGED <<budget, route, running, slot, at, raced, asked, aged, behind>>

(* try_governor counts the holders again after its reap.                   *)
Recount(r) ==
  /\ At(r, "again") /\ doomed[r] = {}
  /\ Go(r, IF Cardinality(Holding) < Width THEN "create" ELSE "wait")
  /\ UNCHANGED <<governor, tickets, budget, route, running>>

(* _exclusive_create of the first index without a file.                    *)
Create(r) ==
  /\ At(r, "create")
  /\ LET open == {i \in SlotIds : slot[i] = Free}
     IN  IF open = {} THEN Go(r, "wait") /\ UNCHANGED <<slot, at>>
         ELSE LET i == CHOOSE k \in open : \A j \in open : k <= j
              IN  /\ slot' = [slot EXCEPT ![i] = [run |-> r, child |-> Nobody]]
                  /\ at' = [at EXCEPT ![r] = i]
                  /\ Go(r, "drop")
  /\ UNCHANGED <<tickets, budget, route, running, doomed, view, raced>>

(* _drop_ticket, in the finally of the wait.                               *)
DropTicket(r) ==
  /\ ticket' = [ticket EXCEPT ![r] = "none"]
  /\ asked' = RemoveAt(asked, Place(r)) /\ aged' = aged \ {r}
  /\ behind' = {p \in behind : p[1] # r}

Drop(r) ==
  /\ At(r, "drop") /\ DropTicket(r)
  /\ Go(r, "budget") /\ UNCHANGED <<governor, budget, route, running>>

Sleep(r) == At(r, "wait") /\ Go(r, "poll") /\ UNCHANGED <<governor, tickets, budget, route, running>>

(* SlotTimeout: the call is refused and drops its ticket.                  *)
SlotTimeout(r) ==
  /\ At(r, "wait") /\ r \in Hasty /\ DropTicket(r)
  /\ Go(r, "over") /\ UNCHANGED <<governor, budget, route, running>>

----------------------------------------------------------------------------
(* The budget of the tree and the child.                                   *)

(* RunBudget._lock and _load.  A lock that stays busy, an unreadable file  *)
(* and a spent budget refuse; what is held is given back (release).        *)
Load(r) ==
  LET t == TreeOf[r]
  IN  /\ At(r, "budget")
      /\ \/ Go(r, "release") /\ UNCHANGED <<lock, copy>>
         \/ /\ lock[t] = Nobody /\ Cardinality(starts[t]) < RunsCap
            /\ lock' = [lock EXCEPT ![t] = r]
            /\ copy' = [copy EXCEPT ![r] = starts[t]]
            /\ Go(r, "count")
      /\ UNCHANGED <<governor, tickets, route, running, starts, counted>>

(* RunBudget.start writes the list with its own start and unlocks; a write *)
(* that fails refuses.                                                     *)
Count(r) ==
  LET t == TreeOf[r]
  IN  /\ At(r, "count")
      /\ \/ /\ starts' = [starts EXCEPT ![t] = copy[r] \cup {r}] /\ counted' = counted \cup {r}
            /\ Go(r, "start")
         \/ UNCHANGED <<starts, counted>> /\ Go(r, "release")
      /\ lock' = [lock EXCEPT ![t] = Nobody]
      /\ copy' = [copy EXCEPT ![r] = {}]
      /\ UNCHANGED <<governor, tickets, route, running>>

(* _run: Popen, or its failure.                                            *)
StartChild(r) ==
  /\ At(r, "start")
  /\ \/ child' = child \cup {r} /\ Go(r, "mark")
     \/ UNCHANGED child /\ Go(r, "release")
  /\ UNCHANGED <<governor, tickets, budget, route, unmarked, events>>

(* on_start, mark_child: the child's pid goes into the slot file.  A slot  *)
(* file that cannot be read or written is let pass: the child runs on, and *)
(* nothing names it.                                                       *)
Mark(r) ==
  /\ At(r, "mark")
  /\ \/ /\ r \in Governed /\ slot[at[r]] # Free
        /\ slot' = [slot EXCEPT ![at[r]].child = r]
     \/ UNCHANGED slot
  /\ Go(r, "run")
  /\ UNCHANGED <<tickets, budget, route, running, at, doomed, view, raced>>

(* classify_limit: the message of a failed child names the seven-day limit *)
(* of the account it ran on, with a reset.                                 *)
Limited(r) == entry[r] \notin passed

(* The child ends; a limit it met is noted (_limit_after_run).             *)
ChildEnds(r) ==
  /\ At(r, "run")
  /\ child' = child \ {r}
  /\ \/ Go(r, "release")
     \/ Limited(r) /\ Go(r, "limit")
  /\ UNCHANGED <<governor, tickets, budget, route, unmarked, events>>

(* _kill_tree at the timeout of the run; what the child said is not read.  *)
TimeUp(r) ==
  /\ At(r, "run")
  /\ child' = child \ {r} /\ Go(r, "release")
  /\ UNCHANGED <<governor, tickets, budget, route, unmarked, events>>

(* exhaust_entry reads the rows and then writes them with its own.         *)
ReadRows(r) ==
  /\ At(r, "limit")
  /\ base' = [base EXCEPT ![r] = listed]
  /\ Go(r, "note")
  /\ UNCHANGED <<governor, tickets, budget, running, listed, passed, entry>>

(* Mutant of WithOwn: only the own row is written.                         *)
WithOwn_Only(r) == {entry[r]}

WithOwn(r) == base[r] \cup {entry[r]}

NoteLimit(r) ==
  /\ At(r, "note")
  /\ listed' = WithOwn(r)
  /\ base' = [base EXCEPT ![r] = {}]
  /\ Go(r, "release")
  /\ UNCHANGED <<governor, tickets, budget, running, passed, entry>>

Holds(r) == r \in Governed /\ slot[at[r]].run = r

(* _release: the slot file goes if it still names this run.  One whose     *)
(* unlink is refused is rewritten to name no live process: it stays, stale.*)
Release(r) ==
  /\ At(r, "release")
  /\ \/ Holds(r) /\ slot' = [slot EXCEPT ![at[r]] = Free] /\ UNCHANGED events
     \/ Holds(r) /\ Event /\ UNCHANGED slot
     \/ ~Holds(r) /\ UNCHANGED <<slot, events>>
  /\ at' = [at EXCEPT ![r] = 0] /\ entry' = [entry EXCEPT ![r] = 0]
  /\ Go(r, "over")
  /\ UNCHANGED <<tickets, budget, child, unmarked, listed, passed, base, doomed, view, raced>>

Step(r) ==
  \/ Halted(r) \/ ReadRoute(r) \/ Trim(r) \/ Door(r) \/ Proxy(r)
  \/ Ask(r) \/ Poll(r) \/ Reap(r) \/ ReadHeld(r) \/ MyTurn(r) \/ Recount(r) \/ Create(r) \/ Drop(r)
  \/ Sleep(r) \/ SlotTimeout(r)
  \/ Load(r) \/ Count(r) \/ StartChild(r) \/ Mark(r) \/ ChildEnds(r) \/ TimeUp(r)
  \/ ReadRows(r) \/ NoteLimit(r) \/ Release(r)

----------------------------------------------------------------------------
(* The world around them.                                                  *)

(* A process is killed.  Its job object, where there is one, ends the      *)
(* child with it; its OS lock is freed.  A governed child that stays must  *)
(* be named in the slot, or nothing holds the slot for it.                 *)
Kill(r) ==
  /\ Alive(r) /\ Go(r, "dead") /\ Event
  /\ child' \in {child, child \ {r}}
  /\ unmarked' = (unmarked \/ (r \in Governed \cap child' /\ slot[at[r]].child # r))
  /\ lock' = [t \in Trees |-> IF lock[t] = r THEN Nobody ELSE lock[t]]
  /\ doomed' = [doomed EXCEPT ![r] = {}] /\ view' = [view EXCEPT ![r] = {}]
  /\ base' = [base EXCEPT ![r] = {}] /\ copy' = [copy EXCEPT ![r] = {}]
  /\ at' = [at EXCEPT ![r] = 0] /\ entry' = [entry EXCEPT ![r] = 0]
  /\ UNCHANGED <<tickets, slot, raced, starts, counted, listed, passed>>

OrphanEnds(r) ==
  /\ At(r, "dead") /\ r \in child
  /\ child' = child \ {r}
  /\ UNCHANGED <<pc, governor, tickets, budget, route, unmarked, events>>

(* A waiter waits past MAX_WAIT_S, or is suspended past its heartbeat.     *)
Age(r) ==
  /\ Waiting(r) /\ r \notin aged
  /\ aged' = aged \cup {r}
  /\ UNCHANGED <<pc, governor, budget, route, running, asked, ticket, behind>>

Stall(r) ==
  /\ Waiting(r) /\ ticket[r] = "fresh" /\ Event
  /\ ticket' = [ticket EXCEPT ![r] = "silent"]
  /\ behind' = {p \in behind : p[1] # r}
  /\ UNCHANGED <<pc, governor, budget, route, child, unmarked, asked, aged>>

(* A start leaves the window of a day, in the file and in what was read of *)
(* it; budget_reset empties the file under the lock.                       *)
Forget(t, S) ==
  /\ Event
  /\ starts' = [starts EXCEPT ![t] = @ \ S] /\ counted' = counted \ S
  /\ copy' = [r \in Runs |-> copy[r] \ S]
  /\ UNCHANGED <<pc, governor, tickets, route, child, unmarked, lock>>

Expire(t) == \E s \in starts[t] : Forget(t, {s})
BudgetReset(t) == starts[t] # {} /\ lock[t] = Nobody /\ Forget(t, starts[t])

(* The reset of an account passes; `route set` ends the fallback.          *)
Reset ==
  /\ Event /\ \E e \in listed \ passed : passed' = passed \cup {e}
  /\ UNCHANGED <<pc, governor, tickets, budget, child, unmarked, listed, base, entry>>

RouteSet ==
  /\ Event /\ listed # {} /\ listed' = {}
  /\ UNCHANGED <<pc, governor, tickets, budget, child, unmarked, passed, base, entry>>

Next ==
  \/ \E r \in Runs : Step(r) \/ Kill(r) \/ OrphanEnds(r) \/ Age(r) \/ Stall(r)
  \/ \E t \in Trees : Expire(t) \/ BudgetReset(t)
  \/ Reset \/ RouteSet

Spec == Init /\ [][Next]_vars

(* Processes go on and children end.                                       *)
LiveSpec == Spec /\ \A r \in Runs : WF_vars(Step(r)) /\ WF_vars(OrphanEnds(r))

----------------------------------------------------------------------------
TypeOK ==
  /\ pc \in [Runs -> Locations]
  /\ slot \in [SlotIds -> [run : Runs \cup {Nobody}, child : Runs \cup {Nobody}]]
  /\ at \in [Runs -> SlotIds]
  /\ view \in [Runs -> SUBSET Runs] /\ ticket \in [Runs -> {"none", "fresh", "silent"}]
  /\ asked \in Seq(Governed) /\ aged \subseteq Governed
  /\ lock \in [Trees -> Runs \cup {Nobody}] /\ starts \in [Trees -> SUBSET Runs]
  /\ copy \in [Runs -> SUBSET Runs] /\ counted \subseteq Runs /\ child \subseteq Runs
  /\ listed \subseteq Entries /\ passed \subseteq Entries
  /\ base \in [Runs -> SUBSET Entries] /\ entry \in [Runs -> Entries \cup {0}]
  /\ unmarked \in BOOLEAN /\ raced \in BOOLEAN

(* However many spawns start at once: the governed children that run,      *)
(* those of killed spawns included, are no more than the slots, unless a   *)
(* spawn died whose child its slot did not name, because the mark had not  *)
(* been made yet or had failed, or an unlink hit a slot that was not the   *)
(* one judged; and the children a tree started inside the window and since *)
(* the last reset, with slot or without, are at most its cap.              *)
SpawnsBounded ==
  /\ ~unmarked /\ ~raced => Cardinality(child \cap Governed) <= Width
  /\ \A t \in Trees : Of(t, counted) <= RunsCap

(* With one slot, a call that first asked when another had already waited  *)
(* MAX_WAIT_S never gets the slot before it, interactive or not, while the *)
(* older one keeps its heartbeat.                                          *)
AgedFirst ==
  Width = 1 => \A p \in behind : Waiting(p[1]) => pc[p[2]] \in
    {"poll", "reap", "turn", "wait", "over", "dead"}

(* The exhaustion of an account that has not been reset leaves the file    *)
(* only by `route set` or by a writer that had read the file before it was *)
(* there.                                                                  *)
ExhaustionKept ==
  [][\A e \in listed \ passed : e \notin listed' =>
       \/ listed' = {} /\ pc' = pc
       \/ \E r \in Runs : pc[r] \in {"trim", "note"} /\ pc'[r] # pc[r] /\ e \notin base[r]]_vars

(* Every spawn ends, whatever slots, tickets and children killed ones left *)
(* in its way.                                                             *)
EverySpawnEnds == \A r \in Runs : <>~Alive(r)

=============================================================================
