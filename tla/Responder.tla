------------------------------ MODULE Responder ------------------------------
(***************************************************************************)
(* The cross-repository responder, tools/moon_sync_responder.py: fires     *)
(* that triage an inbox of notes and answer them through headless          *)
(* sessions, over the records they keep on disk and the ledgers of         *)
(* ops/fleet_kit/fleet_inbox.py.                                           *)
(*                                                                         *)
(* A fire is one process of `run_once`, inside an agreed window, armed and *)
(* with the triage on: the scheduled task never overlaps itself, a manual  *)
(* run may overlap it.  A session is one step, taken when it ends, so what *)
(* a fire has read before is as old as the session is long.  The texts of  *)
(* notes and drafts are abstracted to what the filters make of them: the   *)
(* kind of a note, and whether a draft passes.                             *)
(***************************************************************************)
EXTENDS Integers, FiniteSets

CONSTANTS
  Tick, Manual,  \* the fire of the scheduled task, and one run by hand
  Notes,
  Senders, Main, \* channel codes; the one that speaks for the operator
  From,          \* the sender of each note
  Kind,          \* what the filters make of each note
  PerFire,       \* TRIAGE_PER_FIRE
  MaxReplies,    \* MAX_REPLIES_PER_SENDER, in a rolling day
  DailyCap,      \* OUTBOUND_CAP, in a local day
  MaxTriage,     \* MAX_TRIAGE_ATTEMPTS
  MaxWork,       \* MAX_WORK_ATTEMPTS
  DeferMax,      \* DEFER_MAX_CHECKS
  MaxIncidents   \* bound: faults, crashes, manual runs, new agreements

Fires == {Tick, Manual}
Kinds == {"order", "main", "work", "triage", "ack"}
Nothing == "nothing"

ASSUME ResponderAssumption ==
  /\ Tick # Manual /\ Nothing \notin Notes /\ Main \in Senders
  /\ IsFiniteSet(Notes) /\ IsFiniteSet(Senders)
  /\ From \in [Notes -> Senders] /\ Kind \in [Notes -> Kinds]
  /\ \A n \in Notes : Kind[n] \in {"order", "main"} => From[n] = Main
  /\ \A n \in Notes : Kind[n] \in {"work", "triage"} => From[n] # Main
  /\ {PerFire, MaxReplies, DailyCap, MaxTriage, MaxWork, DeferMax, MaxIncidents} \subseteq Nat
  /\ MaxWork > 0 /\ DeferMax > 1

VARIABLES
  inbox,    \* the notes that have arrived
  outbox,   \* the notes of Main that are in its outbox too
  disk,     \* the responder's records
  fire,     \* fire[f]: where it is, and what it has read
  past,     \* history: what has been sent, and what went wrong
  incidents \* history: how many of the bounded ones happened

replyVars == <<inbox, outbox, disk, fire, past, incidents>>

IsMain(n) == Kind[n] \in {"order", "main"}

Idle == [at |-> "off", ok |-> TRUE, left |-> 0, room |-> 0, answered |-> {}, capped |-> {},
         spent |-> {}, todo |-> {}, batch |-> {}, work |-> {}, note |-> Nothing, exempt |-> FALSE,
         parts |-> {}, row |-> FALSE, sent |-> "no"]

FirePlaces == {"off", "triage", "post", "pick", "draft", "bounce",
              "mark", "reserve", "deliver", "save", "forget", "settle"}

ReplyInit ==
  /\ inbox = {} /\ outbox = {}
  /\ disk = [answered |-> {}, bounced |-> {}, cool |-> {}, day |-> 0,
             seen |-> [n \in Notes |-> "new"],
             tried |-> [n \in Notes |-> 0], worked |-> [n \in Notes |-> 0],
             defer |-> [n \in Notes |-> 0], out |-> [s \in Senders |-> 0]]
  /\ fire = [f \in Fires |-> Idle]
  /\ past = [landed |-> [n \in Notes |-> 0], bounces |-> [n \in Notes |-> 0],
             drafts |-> [n \in Notes |-> 0], sent |-> [s \in Senders |-> 0],
             sibs |-> 0, lost |-> 0, failed |-> [n \in Notes |-> 0], hit |-> {}]
  /\ incidents = 0

----------------------------------------------------------------------------
IsAt(f, place) == fire[f].at = place
Becomes(f, now) == fire' = [fire EXCEPT ![f] = now]
GoOn(f, place) == Becomes(f, [fire[f] EXCEPT !.at = place])
Leave(f) == Becomes(f, Idle)
Plus(counts, k) == [counts EXCEPT ![k] = @ + 1]
Fault == incidents < MaxIncidents /\ incidents' = incidents + 1
FaultIf(what) == IF what THEN Fault ELSE UNCHANGED incidents

(* The history counts no further than its properties tell apart, and after *)
(* a hit only what the cap of a sender is about.                           *)
NoCount == [n \in Notes |-> 0]
Up(count, top) == IF count < top /\ past.hit = {} THEN count + 1 ELSE count
MostSibs == DailyCap + MaxIncidents + 1
MostDrafts == MaxWork + MaxIncidents + 1
Once(counts, n, top) == [counts EXCEPT ![n] = Up(@, top)]
Hit(what) == past' = [past EXCEPT !.hit = @ \cup {what}, !.landed = NoCount,
                                  !.bounces = NoCount, !.drafts = NoCount, !.sibs = 0]

(* senders_at_cap.                                                         *)
AtCap == {s \in Senders : disk.out[s] >= MaxReplies}

(* The marks of these notes in the seen ledger, if it can be written.      *)
Marked(f, notes, mark) ==
  [n \in Notes |-> IF n \in notes /\ fire[f].ok THEN mark ELSE disk.seen[n]]

(* run_once: the scheduled task fires, or somebody runs it by hand.  The   *)
(* triage scans the unseen notes and reads the records.  Without a seen    *)
(* ledger that can be written it buys no session.                          *)
Start(f, ok) ==
  /\ IsAt(f, "off")
  /\ FaultIf(f = Manual \/ ~ok)
  /\ Becomes(f, [Idle EXCEPT !.at = "triage", !.ok = ok, !.left = IF ok THEN PerFire ELSE 0,
                            !.room = DailyCap - disk.day, !.answered = disk.answered,
                            !.capped = AtCap, !.spent = {n \in Notes : disk.tried[n] >= MaxTriage},
                            !.todo = {n \in inbox : disk.seen[n] = "new"}])
  /\ IF \E g \in Fires \ {f} : ~IsAt(g, "off") THEN Hit("overlap") ELSE UNCHANGED past
  /\ UNCHANGED <<inbox, outbox, disk>>

(* Marks fail from now on.                                                 *)
LedgerFails(f) ==
  /\ fire[f].at \in {"triage", "settle"} /\ fire[f].ok /\ Fault
  /\ Becomes(f, [fire[f] EXCEPT !.ok = FALSE])
  /\ UNCHANGED <<inbox, outbox, disk, past>>

(* What is left to buy after a mark: nothing once one has failed.          *)
Budget(f, left) == IF fire[f].ok THEN left ELSE 0

(* _inbox_triage: a note that needs no session is seen, or is work.        *)
Dispose(f, n) ==
  /\ IsAt(f, "triage") /\ n \in fire[f].todo
  /\ Kind[n] # "triage" \/ n \in fire[f].answered
  /\ LET work == Kind[n] # "ack" /\ n \notin fire[f].answered
     IN  /\ disk' = [disk EXCEPT !.seen = Marked(f, {n}, IF work THEN "work" ELSE "done")]
         /\ Becomes(f, [fire[f] EXCEPT !.todo = @ \ {n}, !.left = Budget(f, @),
                                       !.work = IF work THEN @ \cup {n} ELSE @])
  /\ UNCHANGED <<inbox, outbox, past, incidents>>

(* Notes of the sender are planned, or there is room for one more.         *)
Planned(f) == {From[n] : n \in fire[f].batch}
HasRoom(f, n) ==
  /\ fire[f].left > 0 /\ From[n] \notin fire[f].capped
  /\ From[n] \in Planned(f) \/ fire[f].room > Cardinality(Planned(f))

(* A triage note waits, unseen, for a fire that can answer it.             *)
Wait(f, n) ==
  /\ IsAt(f, "triage") /\ n \in fire[f].todo \ fire[f].answered /\ Kind[n] = "triage"
  /\ n \notin fire[f].spent /\ ~HasRoom(f, n)
  /\ Becomes(f, [fire[f] EXCEPT !.todo = @ \ {n}])
  /\ UNCHANGED <<inbox, outbox, disk, past, incidents>>

(* Its triage failed too often: the work lane takes it.                    *)
Escalate(f, n) ==
  /\ IsAt(f, "triage") /\ n \in fire[f].todo \ fire[f].answered /\ Kind[n] = "triage"
  /\ n \in fire[f].spent
  /\ disk' = [disk EXCEPT !.seen = Marked(f, {n}, "work")]
  /\ Becomes(f, [fire[f] EXCEPT !.todo = @ \ {n}, !.left = Budget(f, @), !.work = @ \cup {n}])
  /\ UNCHANGED <<inbox, outbox, past, incidents>>

(* _count_triage_failure: one more failed attempt for each of these notes, *)
(* which the work lane takes at the bound, and at once when its count      *)
(* cannot be written.                                                      *)
Failed(notes, lost) == lost \cup {n \in notes : disk.tried[n] + 1 >= MaxTriage}
Tried(notes) ==
  [n \in Notes |-> IF n \in notes /\ disk.tried[n] < MaxTriage THEN disk.tried[n] + 1
                   ELSE disk.tried[n]]
CountTriage(f, notes, lost) ==
  [disk EXCEPT !.tried = Tried(notes \ lost), !.seen = Marked(f, Failed(notes, lost), "work")]

(* A triage session ends: with no reply, with an answer to be batched, not *)
(* started at all, or failed.                                              *)
TriageSession(f, n) ==
  /\ IsAt(f, "triage") /\ n \in fire[f].todo \ fire[f].answered /\ Kind[n] = "triage"
  /\ n \notin fire[f].spent /\ HasRoom(f, n)
  /\ LET now == [fire[f] EXCEPT !.todo = @ \ {n}]
     IN  \/ /\ disk' = [disk EXCEPT !.seen = Marked(f, {n}, "done")]
            /\ Becomes(f, [now EXCEPT !.left = Budget(f, @ - 1)])
            /\ UNCHANGED incidents
         \/ /\ Becomes(f, [now EXCEPT !.left = @ - 1, !.batch = @ \cup {n}])
            /\ UNCHANGED <<disk, incidents>>
         \/ Becomes(f, [now EXCEPT !.left = 0]) /\ UNCHANGED <<disk, incidents>>
         \/ \E lost \in SUBSET {n} :
              /\ disk' = CountTriage(f, {n}, lost)
              /\ Becomes(f, [now EXCEPT !.left = 0, !.work = @ \cup Failed({n}, lost)])
              /\ FaultIf(lost # {})
  /\ UNCHANGED <<inbox, outbox, past>>

----------------------------------------------------------------------------
(* Mutant of Reserves: the cap is not counted again under the lock.        *)
Reserves_Blind(f, s, exempt) == exempt \/ s \notin fire[f].capped

(* record_outbound: under the lock of the record the replies to s are      *)
(* counted again.                                                          *)
Reserves(f, s, exempt) == exempt \/ disk.out[s] < MaxReplies

(* What is reserved is a row of the record.                                *)
CountRow(s) == disk' = [disk EXCEPT !.out = Plus(disk.out, s)]

(* _send_batch, for one sender: not today, refused by the checks of a      *)
(* draft, not reserved, or reserved.                                       *)
Send(f, s) ==
  /\ IsAt(f, "triage") /\ fire[f].todo = {} /\ s \in Planned(f)
  /\ LET part == {n \in fire[f].batch : From[n] = s}
         rest == [fire[f] EXCEPT !.batch = @ \ part]
         fails(fault) == \E lost \in SUBSET part :
            /\ disk' = CountTriage(f, part, lost)
            /\ Becomes(f, [rest EXCEPT !.work = @ \cup Failed(part, lost)])
            /\ FaultIf(fault \/ lost # {})
     IN  \/ disk.day >= DailyCap /\ fails(FALSE)
         \/ /\ disk.day < DailyCap
            /\ disk' = [disk EXCEPT !.seen = Marked(f, part, "work")]
            /\ Becomes(f, [rest EXCEPT !.work = @ \cup part])
            /\ UNCHANGED incidents
         \/ disk.day < DailyCap /\ fails(Reserves(f, s, FALSE))
         \/ /\ disk.day < DailyCap /\ Reserves(f, s, FALSE)
            /\ CountRow(s)
            /\ Becomes(f, [fire[f] EXCEPT !.at = "post", !.parts = part, !.row = TRUE])
            /\ UNCHANGED incidents
  /\ UNCHANGED <<inbox, outbox, past>>

(* A reply lands: one more for each note, and one to the sender, which the *)
(* record counts unless its row has aged out by now.  lost: the daily      *)
(* count misses it.                                                        *)
Landed(f, notes, s, plain, lost) ==
  past' = [past EXCEPT
    !.landed = [n \in Notes |-> IF n \in notes THEN Up(past.landed[n], 2) ELSE past.landed[n]],
    !.sent = IF plain /\ fire[f].row THEN Plus(past.sent, s) ELSE @,
    !.sibs = IF s # Main THEN Up(@, MostSibs) ELSE @,
    !.lost = IF lost THEN @ + 1 ELSE @]

(* OutboundCap.record.                                                     *)
Tally(day) == IF day < DailyCap THEN day + 1 ELSE day

(* _release_outbound: the row of this fire, if it is still there.          *)
Released(f, s) == IF fire[f].row THEN [disk.out EXCEPT ![s] = @ - 1] ELSE disk.out

(* _send_batch: delivered and recorded in the daily count, unless that     *)
(* write fails, or released.                                               *)
Post(f) ==
  /\ IsAt(f, "post")
  /\ LET s == CHOOSE c \in Senders : \E n \in fire[f].parts : From[n] = c
     IN  \/ /\ \E tallied \in BOOLEAN :
                 /\ Landed(f, fire[f].parts, s, TRUE, ~tallied)
                 /\ disk' = [disk EXCEPT !.day = IF tallied THEN Tally(@) ELSE @]
                 /\ FaultIf(~tallied)
            /\ GoOn(f, "save")
         \/ /\ \E lost \in SUBSET fire[f].parts :
                 /\ disk' = [CountTriage(f, fire[f].parts, lost) EXCEPT !.out = Released(f, s)]
                 /\ Becomes(f, [fire[f] EXCEPT !.at = "triage", !.parts = {}, !.row = FALSE,
                                  !.batch = @ \ fire[f].parts,
                                  !.work = @ \cup Failed(fire[f].parts, lost)])
                 /\ FaultIf(lost # {})
            /\ UNCHANGED past
  /\ UNCHANGED <<inbox, outbox>>

(* Mutant of Recorded: the answered note is not recorded.                  *)
Recorded_Not(n) == disk.answered

(* The record with one more note.                                          *)
Recorded(n) == disk.answered \cup {n}

(* _remember_answered, one note at a time: the record is read and written  *)
(* with one more, or its write fails.  In the triage the marks follow the  *)
(* last part.                                                              *)
RememberAnswered(f) ==
  /\ IsAt(f, "save")
  /\ \E n \in fire[f].parts :
       LET last == fire[f].parts = {n}
           same == {m \in fire[f].batch : From[m] = From[n]}
           now == [fire[f] EXCEPT !.parts = @ \ {n}]
       IN  /\ \E saved \in BOOLEAN :
                /\ disk' = [disk EXCEPT
                     !.answered = IF saved THEN Recorded(n) ELSE @,
                     !.seen = IF last /\ fire[f].note = Nothing
                                THEN Marked(f, same, "done") ELSE @]
                /\ IF saved THEN UNCHANGED <<past, incidents>> ELSE Hit("unsaved") /\ Fault
           /\ Becomes(f,
                IF fire[f].note # Nothing
                  THEN [now EXCEPT !.at = IF fire[f].sent = "reply" THEN "settle" ELSE "forget"]
                ELSE IF last THEN [now EXCEPT !.at = "triage", !.batch = @ \ same, !.row = FALSE]
                ELSE now)
  /\ UNCHANGED <<inbox, outbox>>

----------------------------------------------------------------------------
(* The end of _inbox_triage: Main's notes are always worked; a sibling's   *)
(* while the daily count has room and its failures are below the bound.    *)
Workable(f, n) == IsMain(n) \/ (disk.day < DailyCap /\ disk.worked[n] < MaxWork)

(* The pool is what this fire found and what the ledger calls work, but    *)
(* what was answered when the fire began, and what cools down.             *)
Gather(f) ==
  /\ IsAt(f, "triage") /\ fire[f].todo = {} /\ fire[f].batch = {}
  /\ Becomes(f, [Idle EXCEPT !.at = "pick", !.ok = fire[f].ok, !.work =
       {n \in (fire[f].work \cup {m \in Notes : disk.seen[m] = "work"})
                \ (fire[f].answered \cup disk.cool) : Workable(f, n)}])
  /\ UNCHANGED <<inbox, outbox, disk, past, incidents>>

(* main_provenance: a note of Main is a MATCH once Main's outbox has it.   *)
Verified(n) == IsMain(n) /\ n \in outbox

(* pending, and the cap exemption of a verified order.                     *)
Exempt(n) == Kind[n] = "order" /\ Verified(n)
Candidates(f) ==
  {n \in fire[f].work \ disk.answered : From[n] \in AtCap => Exempt(n)}

(* Mutant of Held: a note that was released is held again.                 *)
Held_Forever(f, n) == n \in Candidates(f) /\ IsMain(n) /\ ~Verified(n)

(* defer_unverified: a note of Main that cannot be verified yet is held    *)
(* until its checks are counted up.                                        *)
Held(f, n) ==
  n \in Candidates(f) /\ IsMain(n) /\ ~Verified(n) /\ disk.defer[n] + 1 < DeferMax

Checked(f) ==
  [n \in Notes |-> IF n \notin Candidates(f) THEN disk.defer[n]
                   ELSE IF Verified(n) THEN 0
                   ELSE IF IsMain(n) /\ disk.defer[n] < DeferMax THEN disk.defer[n] + 1
                   ELSE disk.defer[n]]

Queue(f) == {n \in Candidates(f) : ~Held(f, n)}

(* main_first, and a note that was bounced sorts last.                     *)
Rank(n) == IF n \in disk.bounced THEN 2 ELSE IF Verified(n) THEN 0 ELSE 1

(* _run_once picks one note, or ends.                                      *)
Pick(f) ==
  /\ IsAt(f, "pick")
  /\ disk' = [disk EXCEPT !.defer = Checked(f)]
  /\ IF Queue(f) = {} THEN Leave(f)
     ELSE \E n \in Queue(f) :
            /\ \A m \in Queue(f) : Rank(n) <= Rank(m)
            /\ Becomes(f, [fire[f] EXCEPT !.at = "draft", !.note = n, !.work = {},
                                          !.exempt = Exempt(n)])
  /\ UNCHANGED <<inbox, outbox, past, incidents>>

(* _spawn_headless: the session ends with a draft that passes, with one    *)
(* that does not, or by failing.                                           *)
Draft(f) ==
  /\ IsAt(f, "draft")
  /\ \E place \in {"reserve", "bounce", "settle"} : GoOn(f, place)
  /\ past' = [past EXCEPT !.drafts = Once(past.drafts, fire[f].note, MostDrafts)]
  /\ UNCHANGED <<inbox, outbox, disk, incidents>>

(* It never started: halted, refused, backed off, or over the budget.      *)
NoSession(f) ==
  /\ IsAt(f, "draft") /\ Leave(f)
  /\ UNCHANGED <<inbox, outbox, disk, past, incidents>>

(* The draft is refused: the refusal is recorded, and the sender is told   *)
(* once.  Unrecorded, nothing is bounced.                                  *)
Bounce(f) ==
  /\ IsAt(f, "bounce")
  /\ LET n == fire[f].note
     IN  \/ GoOn(f, "settle") /\ UNCHANGED <<past, incidents>>
         \/ /\ n \notin disk.bounced
            /\ past' = [past EXCEPT !.bounces = Once(past.bounces, n, 2),
                                    !.sibs = IF IsMain(n) THEN @ ELSE Up(@, MostSibs)]
            /\ Becomes(f, [fire[f] EXCEPT !.at = "mark", !.sent = "bounce"])
            /\ UNCHANGED incidents
  /\ UNCHANGED <<inbox, outbox, disk>>

(* mark_bounced, or its write fails.                                       *)
MarkBounced(f) ==
  /\ IsAt(f, "mark")
  /\ \/ /\ disk' = [disk EXCEPT !.bounced = @ \cup {fire[f].note}]
        /\ UNCHANGED <<past, incidents>>
     \/ Hit("unmarked") /\ Fault /\ UNCHANGED disk
  /\ GoOn(f, "settle")
  /\ UNCHANGED <<inbox, outbox>>

(* _reserve_targets: without a reservation nothing is delivered.           *)
Reserve(f) ==
  /\ IsAt(f, "reserve")
  /\ LET s == From[fire[f].note]
         ok == Reserves(f, s, fire[f].exempt)
         now == [fire[f] EXCEPT !.parts = {fire[f].note}]
     IN  \/ /\ ok /\ CountRow(s)
            /\ Becomes(f, [now EXCEPT !.at = "deliver", !.row = TRUE])
            /\ UNCHANGED incidents
         \/ /\ Becomes(f, [now EXCEPT !.at = "save"])
            /\ FaultIf(ok)
            /\ UNCHANGED disk
  /\ UNCHANGED <<inbox, outbox, past>>

(* deliver writes the reply into the sender's inbox, or fails; it never    *)
(* overwrites.                                                             *)
Deliver(f) ==
  /\ IsAt(f, "deliver")
  /\ LET n == fire[f].note
     IN  \/ /\ Landed(f, {n}, From[n], ~fire[f].exempt, FALSE)
            /\ Becomes(f, [fire[f] EXCEPT !.at = "save", !.sent = "reply"])
         \/ GoOn(f, "save") /\ UNCHANGED past
  /\ UNCHANGED <<inbox, outbox, disk, incidents>>

(* _forget_undelivered: taken out of the record, or its write fails.       *)
ForgetUndelivered(f) ==
  /\ IsAt(f, "forget")
  /\ \/ /\ disk' = [disk EXCEPT !.answered = @ \ {fire[f].note}]
        /\ UNCHANGED <<past, incidents>>
     \/ Hit("unsaved") /\ Fault /\ UNCHANGED disk
  /\ GoOn(f, "settle")
  /\ UNCHANGED <<inbox, outbox>>

(* _count_work_lane: the attempt is counted, or its count is not written.  *)
(* At the bound, and when it is not counted, a sibling's note is parked    *)
(* and a note of Main cools down and starts anew, unless _cool_main cannot *)
(* write that.                                                             *)
AtBound(n, counted) == ~counted \/ disk.worked[n] + 1 >= MaxWork
CountWork(f, n, counted, cooled) ==
  LET worked == IF counted /\ disk.worked[n] < MaxWork THEN Plus(disk.worked, n) ELSE disk.worked
  IN  IF ~AtBound(n, counted) THEN [disk EXCEPT !.worked = worked]
      ELSE IF ~IsMain(n) THEN [disk EXCEPT !.worked = worked, !.seen = Marked(f, {n}, "done")]
      ELSE IF cooled THEN [disk EXCEPT !.worked = [disk.worked EXCEPT ![n] = 0],
                                       !.cool = @ \cup {n}]
      ELSE [disk EXCEPT !.worked = worked]

(* The session of n is in no record: it bought one more than the bound.    *)
Uncounted(n, counted, cooled) ==
  IF IsMain(n) THEN ~cooled /\ AtBound(n, counted) ELSE ~counted

(* The records with a reply or a bounce counted, or with what was not      *)
(* delivered taken back.                                                   *)
Closed(f, now, tallied) ==
  IF fire[f].sent = "no" THEN [now EXCEPT !.out = Released(f, From[fire[f].note])]
  ELSE IF tallied THEN [now EXCEPT !.day = Tally(@)]
  ELSE now

(* After the cycle: the daily count of a reply or a bounce                 *)
(* (_record_work_reply), the failures of the note, and the reservation of  *)
(* what was not delivered (_release_undelivered).  Each of the counts may  *)
(* fail to be written.                                                     *)
Settle(f) ==
  /\ IsAt(f, "settle")
  /\ \E tallied, counted, cooled \in BOOLEAN :
       LET n == fire[f].note
           tried == fire[f].sent # "reply"
           now == IF tried THEN CountWork(f, n, counted, cooled) ELSE disk
       IN  /\ disk' = Closed(f, now, tallied)
           /\ past' = [past EXCEPT
                !.lost = IF fire[f].sent # "no" /\ ~tallied /\ ~IsMain(n) THEN @ + 1 ELSE @,
                !.failed = IF tried /\ Uncounted(n, counted, cooled) THEN Plus(@, n) ELSE @]
           /\ FaultIf(~(tallied /\ counted /\ cooled))
  /\ Leave(f)
  /\ UNCHANGED <<inbox, outbox>>

FireStep(f) ==
  \/ \E n \in Notes : Dispose(f, n) \/ Wait(f, n) \/ Escalate(f, n) \/ TriageSession(f, n)
  \/ (\E s \in Senders : Send(f, s)) \/ Post(f)
  \/ RememberAnswered(f) \/ Gather(f) \/ Pick(f)
  \/ Draft(f) \/ NoSession(f) \/ Bounce(f) \/ MarkBounced(f)
  \/ Reserve(f) \/ Deliver(f) \/ ForgetUndelivered(f) \/ Settle(f)

Crash(f) ==
  /\ ~IsAt(f, "off") /\ Fault
  /\ Leave(f) /\ Hit("crash")
  /\ UNCHANGED <<inbox, outbox, disk>>

----------------------------------------------------------------------------
Arrive(n) ==
  /\ n \notin inbox
  /\ inbox' = inbox \cup {n}
  /\ UNCHANGED <<outbox, disk, fire, past, incidents>>

(* Main writes its outbox copy.                                            *)
OutboxCopy(n) ==
  /\ IsMain(n) /\ n \notin outbox
  /\ outbox' = outbox \cup {n}
  /\ UNCHANGED <<inbox, disk, fire, past, incidents>>

(* The rows of a sender are older than the rolling day.                    *)
Roll(s) ==
  /\ disk.out[s] > 0
  /\ disk' = [disk EXCEPT !.out = [disk.out EXCEPT ![s] = 0]]
  /\ past' = [past EXCEPT !.sent = [past.sent EXCEPT ![s] = 0]]
  /\ fire' = [f \in Fires |-> [fire[f] EXCEPT !.row =
       @ /\ ~\E n \in fire[f].parts \cup ({fire[f].note} \ {Nothing}) : From[n] = s]]
  /\ UNCHANGED <<inbox, outbox, incidents>>

(* The local day ends.                                                     *)
Midnight ==
  /\ disk.day > 0
  /\ disk' = [disk EXCEPT !.day = 0] /\ past' = [past EXCEPT !.sibs = 0, !.lost = 0]
  /\ UNCHANGED <<inbox, outbox, fire, incidents>>

(* MAIN_WORK_COOLDOWN_S has passed.                                        *)
CoolOff(n) ==
  /\ n \in disk.cool
  /\ disk' = [disk EXCEPT !.cool = @ \ {n}]
  /\ past' = [past EXCEPT !.drafts = [past.drafts EXCEPT ![n] = 0],
                          !.failed = [past.failed EXCEPT ![n] = 0]]
  /\ UNCHANGED <<inbox, outbox, fire, incidents>>

(* A new agreement is recorded: the bounces of the old one do not count.   *)
Renew ==
  /\ disk.bounced # {} /\ Fault
  /\ disk' = [disk EXCEPT !.bounced = {}]
  /\ past' = [past EXCEPT !.bounces = NoCount]
  /\ UNCHANGED <<inbox, outbox, fire>>

ReplyNext ==
  \/ \E f \in Fires : Start(f, TRUE) \/ Start(f, FALSE) \/ FireStep(f) \/ LedgerFails(f) \/ Crash(f)
  \/ \E n \in Notes : Arrive(n) \/ OutboxCopy(n) \/ CoolOff(n)
  \/ \E s \in Senders : Roll(s)
  \/ Midnight \/ Renew

ReplySpec == ReplyInit /\ [][ReplyNext]_replyVars

(* The scheduler starts the task again and again, and a fire goes on.  A   *)
(* session ends with a verdict or a draft that passes sooner or later, and *)
(* a delivery lands.  Time passes.                                         *)
Judges(f) == \E n \in Notes : TriageSession(f, n) /\ (disk' # disk \/ fire'[f].batch # fire[f].batch)
Passes(f) == Draft(f) /\ IsAt(f, "draft") /\ fire'[f].at = "reserve"
Lands(f) == (Deliver(f) \/ Post(f)) /\ past' # past

ReplyLiveSpec ==
  /\ ReplySpec
  /\ WF_replyVars(Start(Tick, TRUE)) /\ WF_replyVars(FireStep(Tick))
  /\ SF_replyVars(Judges(Tick)) /\ SF_replyVars(Passes(Tick)) /\ SF_replyVars(Lands(Tick))
  /\ WF_replyVars(Midnight) /\ \A s \in Senders : WF_replyVars(Roll(s))
  /\ \A n \in Notes : WF_replyVars(CoolOff(n))

----------------------------------------------------------------------------
DiskRecord ==
  [answered : SUBSET Notes, bounced : SUBSET Notes, cool : SUBSET Notes, day : 0 .. DailyCap,
   seen : [Notes -> {"new", "work", "done"}], tried : [Notes -> 0 .. MaxTriage],
   worked : [Notes -> 0 .. MaxWork], defer : [Notes -> 0 .. DeferMax], out : [Senders -> Nat]]
FireRecord ==
  [at : FirePlaces, ok : BOOLEAN, left : 0 .. PerFire, room : 0 .. DailyCap,
   answered : SUBSET Notes, capped : SUBSET Senders, spent : SUBSET Notes, todo : SUBSET Notes,
   batch : SUBSET Notes, work : SUBSET Notes, note : Notes \cup {Nothing}, exempt : BOOLEAN,
   parts : SUBSET Notes, row : BOOLEAN, sent : {"no", "reply", "bounce"}]
PastRecord ==
  [landed : [Notes -> 0 .. 2], bounces : [Notes -> 0 .. 2], drafts : [Notes -> 0 .. MostDrafts],
   sent : [Senders -> Nat], sibs : 0 .. MostSibs, lost : Nat, failed : [Notes -> Nat],
   hit : SUBSET {"overlap", "unsaved", "unmarked", "crash"}]
ReplyTypeOK ==
  /\ inbox \in SUBSET Notes /\ outbox \in SUBSET Notes /\ incidents \in 0 .. MaxIncidents
  /\ disk \in DiskRecord /\ fire \in [Fires -> FireRecord] /\ past \in PastRecord

(* Loop breaker (b) and the daily caps: no sender gets more than           *)
(* MAX_REPLIES_PER_SENDER replies in a rolling day but for verified        *)
(* orders, however fires overlap and whatever fails; unless fires overlap  *)
(* or one dies before it counts, siblings get no more than the daily cap   *)
(* and one for each reply whose count was not written, and a note buys     *)
(* MAX_WORK_ATTEMPTS sessions before it is parked or cools down, and one   *)
(* more for each that could not be recorded.                               *)
CapHolds ==
  /\ \A s \in Senders : past.sent[s] <= MaxReplies
  /\ past.hit = {} => /\ past.sibs <= DailyCap + past.lost
                      /\ \A n \in Notes : past.drafts[n] <= MaxWork + past.failed[n]

Busy(n) == \E f \in Fires : fire[f].note = n /\ IsAt(f, "forget")

(* Answered means answered, once: a note gets at most one reply and one    *)
(* bounce an agreement, it is recorded as answered only when its reply     *)
(* landed, and none of Main is left to a human, seen but neither answered  *)
(* nor replied to; unless fires overlapped, one died between two writes,   *)
(* or a record was not written.                                            *)
AnsweredOnce ==
  past.hit = {} =>
    /\ \A n \in Notes : past.landed[n] <= 1 /\ past.bounces[n] <= 1
    /\ \A n \in disk.answered : past.landed[n] > 0 \/ Busy(n)
    /\ \A n \in Notes : IsMain(n) /\ disk.seen[n] = "done" =>
          n \in disk.answered \/ past.landed[n] > 0

(* Inbox handling stays automatic: every note that arrives is answered, or *)
(* seen and settled; a note of Main is answered, whether or not its outbox *)
(* copy ever comes.                                                        *)
Settled(n) == n \in disk.answered \/ (disk.seen[n] = "done" /\ ~IsMain(n))
EveryNoteSettled == \A n \in Notes : n \in inbox ~> Settled(n)
=============================================================================
