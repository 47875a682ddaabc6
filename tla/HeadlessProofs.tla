----------------------------- MODULE HeadlessProofs -----------------------------
(***************************************************************************)
(* Theorems of spawn: the governed children that run fit the slots, the    *)
(* starts of a tree fit its cap, with one slot nobody passes a call that   *)
(* has waited long, and an exhausted account is not forgotten.  Then those *)
(* of the responder, whose sessions spawn starts: the caps, and one reply  *)
(* a note.                                                                 *)
(*                                                                         *)
(* HeadlessInv is inductive.  The slots need what a judge saw (DoomedDead) *)
(* beside what the slot files say; the budget needs what a call read under *)
(* its lock; the queue needs that each call asks once, so that it has one  *)
(* place, and keeps it when others leave.                                  *)
(***************************************************************************)
EXTENDS Headless, Responder, FiniteSetTheorems, SequenceTheorems, WellFoundedInduction, TLAPS

----------------------------------------------------------------------------
(* The types, in parts.                                                    *)
SlotFiles == [run : Runs \cup {Nobody}, child : Runs \cup {Nobody}]
PcOK == pc \in [Runs -> Locations]
SlotsOK ==
  /\ slot \in [SlotIds -> SlotFiles] /\ at \in [Runs -> SlotIds]
  /\ doomed \in [Runs -> SUBSET (SlotIds \X SlotFiles)]
  /\ view \in [Runs -> SUBSET Runs] /\ raced \in BOOLEAN
TicketsOK ==
  /\ asked \in Seq(Governed) /\ ticket \in [Runs -> {"none", "fresh", "silent"}]
  /\ aged \subseteq Governed /\ behind \subseteq Governed \X Governed
BudgetOK ==
  /\ lock \in [Trees -> Runs \cup {Nobody}] /\ starts \in [Trees -> SUBSET Runs]
  /\ copy \in [Runs -> SUBSET Runs] /\ counted \subseteq Runs
RouteOK ==
  /\ listed \subseteq Entries /\ passed \subseteq Entries
  /\ base \in [Runs -> SUBSET Entries] /\ entry \in [Runs -> Entries \cup {0}]
RunningOK == child \subseteq Runs /\ unmarked \in BOOLEAN
Typed == PcOK /\ SlotsOK /\ TicketsOK /\ BudgetOK /\ RouteOK /\ RunningOK

(* Who queues takes slots, and has asked.                                  *)
Queueing == {"ask", "poll", "reap", "turn", "again", "create", "wait", "drop"}
GovernedQueue == \A r \in Runs : pc[r] \in Queueing => r \in Governed
QueueOK ==
  /\ GovernedQueue
  /\ \A i, j \in DOMAIN asked : asked[i] = asked[j] => i = j
  /\ \A r \in Runs : Waiting(r) \/ pc[r] = "drop" => \E i \in DOMAIN asked : asked[i] = r
  /\ \A i \in DOMAIN asked : Waiting(asked[i]) \/ pc[asked[i]] \in {"drop", "dead"}

(* A call that goes on has an account.                                     *)
Entered == \A r \in Runs : pc[r] \notin {"called", "trim", "over", "dead"} => entry[r] # 0

(* The slot files, while no unlink has hit one that was not judged: a       *)
(* recorded child is the one of the run that took the slot; what was       *)
(* judged stale stays so; a governed call that took a slot has it; while no *)
(* call died whose child was not recorded, the children of the dead are.   *)
HasSlot == {"drop", "budget", "count", "start", "mark", "run", "limit", "note", "release"}
ChildPlaces == \A r \in child : pc[r] \in {"mark", "run", "dead"}
OwnChild == \A i \in SlotIds : slot[i].child \in {Nobody, slot[i].run}
DoomedDead ==
  \A q \in Runs : \A d \in doomed[q] :
    /\ d[2].run \in Runs /\ ~Alive(d[2].run)
    /\ d[2].child \in {Nobody, d[2].run} \ child
SlotMine == \A r \in Governed : pc[r] \in HasSlot => slot[at[r]].run = r
Orphans ==
  \A r \in Governed \cap child : pc[r] = "dead" =>
    \E i \in SlotIds : slot[i] = [run |-> r, child |-> r]
SlotsSound ==
  /\ ChildPlaces
  /\ ~raced => OwnChild /\ DoomedDead /\ SlotMine
  /\ ~raced /\ ~unmarked => Orphans

(* Who counts holds the lock of its tree and has the list of the file,     *)
(* with room; the list has the starts of its tree, the counted ones among  *)
(* them, up to the cap.                                                    *)
BudgetSound ==
  /\ \A r \in Runs : pc[r] = "count" =>
       /\ lock[TreeOf[r]] = r /\ copy[r] = starts[TreeOf[r]]
       /\ Cardinality(starts[TreeOf[r]]) < RunsCap
  /\ \A t \in Trees :
       /\ Cardinality(starts[t]) <= RunsCap
       /\ \A r \in starts[t] : TreeOf[r] = t
  /\ \A r \in counted : r \in starts[TreeOf[r]]

(* Of two calls of which one first asked when the other had waited long:   *)
(* while the older one waits, with its heartbeat, it has the earlier place *)
(* and, with one slot, the younger one gets no further than its turn.      *)
BehindSound == \A p \in behind :
  /\ p[1] # p[2] /\ (Waiting(p[1]) \/ pc[p[1]] \in {"drop", "dead"})
  /\ Waiting(p[1]) =>
       /\ p[1] \in aged /\ ticket[p[1]] = "fresh"
       /\ Waiting(p[2]) => Place(p[1]) < Place(p[2])
       /\ Width = 1 => pc[p[2]] \in {"poll", "reap", "turn", "wait", "over", "dead"}

(* The places of a call.                                                   *)
LEMMA Places ==
  {"called", "trim", "door", "proxy", "ask", "poll", "reap", "turn", "again", "create", "wait",
   "drop", "budget", "count", "start", "mark", "run", "limit", "note", "release", "over", "dead"}
    \subseteq Locations
BY DEF Locations

(* A step of one call moves that call alone.                               *)
LEMMA PcStep ==
  ASSUME PcOK, [Next]_vars
  PROVE  PcOK'
<1> USE DEF PcOK
<1>a. ASSUME NEW r \in Runs, NEW place \in Locations, Go(r, place) PROVE PcOK'
  BY <1>a DEF Go
<1>1. ASSUME NEW r \in Runs, Step(r) PROVE PcOK'
  <2>1. CASE Halted(r)
    BY <2>1, <1>a, Places DEF Halted
  <2>2. CASE ReadRoute(r) \/ Trim(r)
    BY <2>2, <1>a, Places DEF ReadRoute, Trim, Onward
  <2>3. CASE Door(r) \/ Proxy(r)
    BY <2>3, <1>a, Places DEF Door, Proxy
  <2>4. CASE Ask(r) \/ Poll(r) \/ Reap(r) \/ ReadHeld(r)
    BY <2>4, <1>a, Places DEF Ask, Poll, Reap, ReadHeld
  <2>5. CASE MyTurn(r)
    BY <2>5, <1>a, Places DEF MyTurn
  <2>6. CASE Recount(r) \/ Create(r) \/ Drop(r) \/ Sleep(r) \/ SlotTimeout(r)
    BY <2>6, <1>a, Places DEF Recount, Create, Drop, Sleep, SlotTimeout
  <2>7. CASE Load(r) \/ Count(r) \/ StartChild(r) \/ Mark(r) \/ ChildEnds(r) \/ TimeUp(r)
    BY <2>7, <1>a, Places DEF Load, Count, StartChild, Mark, ChildEnds, TimeUp
  <2>8. CASE ReadRows(r) \/ NoteLimit(r) \/ Release(r)
    BY <2>8, <1>a, Places DEF ReadRows, NoteLimit, Release
  <2>9. QED
    BY <1>1, <2>1, <2>2, <2>3, <2>4, <2>5, <2>6, <2>7, <2>8 DEF Step
<1>2. ASSUME NEW r \in Runs, Kill(r) PROVE PcOK'
  BY <1>2, <1>a, Places DEF Kill
<1>3. CASE UNCHANGED pc
  BY <1>3
<1>4. QED
  BY <1>1, <1>2, <1>3 DEF Next, vars, OrphanEnds, Age, Stall, Expire, BudgetReset, Forget, Reset,
     RouteSet

(* The slot files, and what was seen of them.                              *)
LEMMA SlotFilesAre ==
  /\ Free \in SlotFiles /\ 0 \in SlotIds
  /\ \A r \in Runs : [run |-> r, child |-> Nobody] \in SlotFiles
  /\ \A x \in SlotFiles, r \in Runs : [x EXCEPT !.child = r] \in SlotFiles
BY HeadlessAssumption DEF SlotFiles, Free, SlotIds

(* What a judge and a count read of the slot files.                        *)
LEMMA JudgedIs ==
  ASSUME SlotsOK
  PROVE  Judged \in SUBSET (SlotIds \X SlotFiles) /\ Holding \in SUBSET (Runs \cup {Nobody})
         /\ Nobody \notin Holding
BY HeadlessAssumption DEF Judged, Stale, Holding, Live, SlotsOK, SlotFiles

(* The least of a set of numbers.                                          *)
LEMMA LeastExists ==
  ASSUME NEW S \in SUBSET Nat, S # {}
  PROVE  \E m \in S : \A k \in S : m <= k
<1>1. PICK m \in S : \A k \in S : ~(<<k, m>> \in OpToRel(<, Nat))
  BY WFMin, NatLessThanWellFounded
<1>2. \A k \in S : ~(k < m)
  BY <1>1 DEF OpToRel
<1>3. QED
  BY <1>2

(* The slot files keep their form.                                         *)
LEMMA SlotsStep ==
  ASSUME Typed, [Next]_vars
  PROVE  SlotsOK'
<1> USE DEF Typed, SlotsOK
<1>a. SlotIds \in SUBSET Nat
  BY HeadlessAssumption DEF SlotIds
<1>1. ASSUME NEW r \in Runs, Poll(r) PROVE SlotsOK'
  BY <1>1, JudgedIs DEF Poll
<1>2. ASSUME NEW r \in Runs, Reap(r) PROVE SlotsOK'
  <2>1. PICK d \in doomed[r] : /\ \/ /\ slot' = [slot EXCEPT ![d[1]] = Free]
                                    /\ raced' = (raced \/ slot[d[1]] \notin {d[2], Free})
                                  \/ UNCHANGED <<slot, raced>>
                               /\ doomed' = [doomed EXCEPT ![r] = @ \ {d}]
    BY <1>2 DEF Reap
  <2>2. raced' \in BOOLEAN
    BY <2>1
  <2>3. slot' \in [SlotIds -> SlotFiles]
    BY <2>1, SlotFilesAre
  <2>4. QED
    BY <1>2, <2>1, <2>2, <2>3 DEF Reap
<1>3. ASSUME NEW r \in Runs, ReadHeld(r) PROVE SlotsOK'
  <2>1. Holding \in SUBSET Runs
    BY JudgedIs
  <2>2. QED
    BY <1>3, <2>1 DEF ReadHeld
<1>4. ASSUME NEW r \in Runs, MyTurn(r) PROVE SlotsOK'
  <2>1. PICK J \in {Judged, {}} : doomed' = [doomed EXCEPT ![r] = J]
    BY <1>4 DEF MyTurn
  <2>2. J \in SUBSET (SlotIds \X SlotFiles)
    BY JudgedIs
  <2>3. QED
    BY <1>4, <2>1, <2>2 DEF MyTurn
<1>5. ASSUME NEW r \in Runs, Create(r) PROVE SlotsOK'
  <2> DEFINE open == {i \in SlotIds : slot[i] = Free}
             i == CHOOSE k \in open : \A j \in open : k <= j
  <2>1. CASE open = {}
    BY <1>5, <2>1 DEF Create
  <2>2. CASE open # {}
    <3>1. i \in SlotIds
      BY <1>a, <2>2, LeastExists
    <3>2. /\ slot' = [slot EXCEPT ![i] = [run |-> r, child |-> Nobody]]
          /\ at' = [at EXCEPT ![r] = i] /\ UNCHANGED <<doomed, view, raced>>
      BY <1>5, <2>2 DEF Create
    <3> HIDE DEF i
    <3>3. QED
      BY <3>1, <3>2, SlotFilesAre
  <2>3. QED
    BY <2>1, <2>2
<1>6. ASSUME NEW r \in Runs, Mark(r) PROVE SlotsOK'
  <2>1. UNCHANGED <<at, doomed, view, raced>>
    BY <1>6 DEF Mark
  <2>2. at[r] \in SlotIds /\ slot[at[r]] \in SlotFiles
    OBVIOUS
  <2>3. \/ UNCHANGED slot
        \/ slot' = [slot EXCEPT ![at[r]] = [slot[at[r]] EXCEPT !.child = r]]
    BY <1>6 DEF Mark
  <2>4. QED
    BY <2>1, <2>2, <2>3, SlotFilesAre
<1>7. ASSUME NEW r \in Runs, Release(r) PROVE SlotsOK'
  <2>1. slot' = [slot EXCEPT ![at[r]] = Free] \/ UNCHANGED slot
    BY <1>7 DEF Release
  <2>2. slot' \in [SlotIds -> SlotFiles]
    BY <2>1, SlotFilesAre
  <2>3. QED
    BY <1>7, <2>2, SlotFilesAre DEF Release
<1>8. ASSUME NEW r \in Runs, Kill(r) PROVE SlotsOK'
  BY <1>8, SlotFilesAre DEF Kill
<1>9. CASE UNCHANGED governor
  BY <1>9 DEF governor
<1>10. QED
  BY <1>1, <1>2, <1>3, <1>4, <1>5, <1>6, <1>7, <1>8, <1>9, ZenonT(40)
     DEF Next, vars, governor, Step, Halted,
     ReadRoute, Trim, Door, Proxy, Ask, Recount, Drop, Sleep, SlotTimeout, Load, Count, StartChild,
     ChildEnds, TimeUp, ReadRows, NoteLimit, OrphanEnds, Age, Stall, Expire, BudgetReset, Forget,
     Reset, RouteSet

----------------------------------------------------------------------------
(* The queue.  A sequence without one of its places.                       *)
LEMMA RemoveAtIs ==
  ASSUME NEW S, NEW w \in Seq(S), NEW i \in DOMAIN w
  PROVE  /\ RemoveAt(w, i) \in Seq(S) /\ Len(RemoveAt(w, i)) = Len(w) - 1
         /\ \A k \in 1 .. Len(w) - 1 : RemoveAt(w, i)[k] = IF k < i THEN w[k] ELSE w[k + 1]
<1> DEFINE u == SubSeq(w, 1, i - 1)
           v == SubSeq(w, i + 1, Len(w))
<1>1. i \in 1 .. Len(w) /\ Len(w) \in Nat
  OBVIOUS
<1>2. /\ u \in Seq(S) /\ Len(u) = i - 1 /\ \A k \in 1 .. i - 1 : u[k] = w[k]
  BY <1>1
<1>3. /\ v \in Seq(S) /\ Len(v) = Len(w) - i /\ \A k \in 1 .. Len(w) - i : v[k] = w[k + i]
  BY <1>1
<1> HIDE DEF u, v
<1>4. /\ u \o v \in Seq(S) /\ Len(u \o v) = Len(w) - 1
      /\ \A k \in 1 .. Len(w) - 1 : (u \o v)[k] = IF k <= Len(u) THEN u[k] ELSE v[k - Len(u)]
  <2>1. u \in Seq(S) /\ v \in Seq(S) /\ Len(u) + Len(v) = Len(w) - 1
    BY <1>1, <1>2, <1>3
  <2>2. /\ u \o v \in Seq(S) /\ Len(u \o v) = Len(u) + Len(v)
        /\ \A k \in 1 .. Len(u) + Len(v) :
               (u \o v)[k] = IF k <= Len(u) THEN u[k] ELSE v[k - Len(u)]
    BY <2>1, ConcatProperties
  <2>3. QED
    BY <2>1, <2>2
<1>5. ASSUME NEW k \in 1 .. Len(w) - 1
      PROVE  (u \o v)[k] = IF k < i THEN w[k] ELSE w[k + 1]
  <2>1. CASE k < i
    BY <1>1, <1>2, <1>4, <1>5, <2>1
  <2>2. CASE ~(k < i)
    <3>1. k - (i - 1) \in 1 .. Len(w) - i
      BY <1>1, <1>5, <2>2
    <3>2. v[k - (i - 1)] = w[k - (i - 1) + i]
      BY <1>3, <3>1
    <3>3. k - (i - 1) + i = k + 1
      BY <1>1, <1>5
    <3>4. QED
      BY <1>1, <1>2, <1>4, <1>5, <2>2, <3>2, <3>3
  <2>3. QED
    BY <2>1, <2>2
<1>6. QED
  BY <1>4, <1>5 DEF RemoveAt, u, v

(* Each asks once, so that it has one place.                               *)
AskedOnce(w) == \A i, j \in DOMAIN w : w[i] = w[j] => i = j
Asked(q) == \E i \in DOMAIN asked : asked[i] = q

(* Who asks once has its place where it stands.                            *)
LEMMA PlaceIs ==
  ASSUME AskedOnce(asked), NEW i \in DOMAIN asked
  PROVE  Place(asked[i]) = i
BY DEF AskedOnce, Place

(* Who has asked stands at its place.                                      *)
LEMMA PlaceOf ==
  ASSUME NEW q, Asked(q)
  PROVE  Place(q) \in DOMAIN asked /\ asked[Place(q)] = q
BY DEF Asked, Place

(* A call that leaves the queue leaves the others in their order.          *)
LEMMA LeftIs ==
  ASSUME asked \in Seq(Governed), AskedOnce(asked), NEW r, NEW a \in DOMAIN asked, asked[a] = r,
         asked' = RemoveAt(asked, Place(r))
  PROVE  /\ asked' \in Seq(Governed) /\ AskedOnce(asked')
         /\ \A i \in DOMAIN asked' : asked'[i] # r /\ \E j \in DOMAIN asked : asked'[i] = asked[j]
         /\ \A j \in DOMAIN asked : asked[j] # r => \E i \in DOMAIN asked' : asked'[i] = asked[j]
         /\ \A p, q \in Governed \ {r} :
                Asked(p) /\ Asked(q) /\ Place(p) < Place(q) => Place(p)' < Place(q)'
<1> DEFINE from(k) == IF k < a THEN k ELSE k + 1
           to(k) == IF k < a THEN k ELSE k - 1
<1>1. /\ asked' \in Seq(Governed) /\ Len(asked') = Len(asked) - 1
      /\ \A k \in 1 .. Len(asked) - 1 : asked'[k] = IF k < a THEN asked[k] ELSE asked[k + 1]
  BY RemoveAtIs, PlaceIs
<1>2. /\ DOMAIN asked = 1 .. Len(asked) /\ Len(asked) \in Nat
      /\ DOMAIN asked' = 1 .. Len(asked) - 1
  BY <1>1
<1>3. \A k \in DOMAIN asked' : from(k) \in DOMAIN asked \ {a} /\ asked'[k] = asked[from(k)]
  BY <1>1, <1>2
<1>4. \A k \in DOMAIN asked \ {a} : to(k) \in DOMAIN asked' /\ from(to(k)) = k
  BY <1>2
<1>5. /\ \A k, l \in DOMAIN asked' : from(k) = from(l) => k = l
      /\ \A k, l \in DOMAIN asked \ {a} : k < l => to(k) < to(l)
  BY <1>2
<1> HIDE DEF from, to
<1>6. AskedOnce(asked')
  BY <1>3, <1>5 DEF AskedOnce
<1>7. \A j \in DOMAIN asked : asked[j] # r => j \in DOMAIN asked \ {a} /\ asked'[to(j)] = asked[j]
  BY <1>3, <1>4
<1>8. \A q \in Governed \ {r} : Asked(q) => Place(q)' = to(Place(q))
  <2> SUFFICES ASSUME NEW q \in Governed \ {r}, Asked(q) PROVE Place(q)' = to(Place(q))
    OBVIOUS
  <2>1. to(Place(q)) \in DOMAIN asked' /\ asked'[to(Place(q))] = q
    BY <1>7, PlaceOf, <1>4
  <2>2. \A k \in DOMAIN asked' : asked'[k] = q => k = to(Place(q))
    BY <2>1, <1>6 DEF AskedOnce
  <2>3. QED
    BY <2>1, <2>2 DEF Place
<1>9. \A q \in Governed \ {r} : Asked(q) => Place(q) \in DOMAIN asked \ {a}
  BY PlaceOf
<1>10. \A i \in DOMAIN asked' : asked'[i] # r /\ \E j \in DOMAIN asked : asked'[i] = asked[j]
  BY <1>3 DEF AskedOnce
<1>11. \A j \in DOMAIN asked : asked[j] # r => \E i \in DOMAIN asked' : asked'[i] = asked[j]
  BY <1>4, <1>7
<1>12. ASSUME NEW p \in Governed \ {r}, NEW q \in Governed \ {r}, Asked(p), Asked(q),
              Place(p) < Place(q)
       PROVE  Place(p)' < Place(q)'
  BY <1>5, <1>8, <1>9, <1>12
<1>13. QED
  BY <1>1, <1>6, <1>10, <1>11, <1>12
(* What DropTicket does: the call leaves the queue.                        *)
LEMMA DropTicketIs ==
  ASSUME Typed, QueueOK, NEW r \in Runs, Waiting(r) \/ pc[r] = "drop", DropTicket(r)
  PROVE  /\ asked' \in Seq(Governed) /\ AskedOnce(asked')
         /\ \A i \in DOMAIN asked' : asked'[i] # r /\ \E j \in DOMAIN asked : asked'[i] = asked[j]
         /\ \A j \in DOMAIN asked : asked[j] # r => \E i \in DOMAIN asked' : asked'[i] = asked[j]
         /\ \A p, q \in Governed \ {r} :
                Asked(p) /\ Asked(q) /\ Place(p) < Place(q) => Place(p)' < Place(q)'
         /\ ticket' = [ticket EXCEPT ![r] = "none"] /\ aged' = aged \ {r}
         /\ behind' = {p \in behind : p[1] # r}
<1>1. asked \in Seq(Governed) /\ AskedOnce(asked)
  BY DEF Typed, TicketsOK, QueueOK, AskedOnce
<1>2. PICK a \in DOMAIN asked : asked[a] = r
  BY DEF QueueOK
<1>3. asked' = RemoveAt(asked, Place(r))
  BY DEF DropTicket
<1>4. QED
  BY <1>1, <1>2, <1>3, LeftIs DEF DropTicket

(* The queue and its tickets keep their types.                             *)
LEMMA TicketsStep ==
  ASSUME Typed, QueueOK, [Next]_vars
  PROVE  TicketsOK'
<1> USE DEF Typed, TicketsOK
<1>a. \A r \in Runs : Waiting(r) => r \in Governed
  BY DEF QueueOK, GovernedQueue, Waiting, Queueing
<1>1. ASSUME NEW r \in Runs, Ask(r) PROVE TicketsOK'
  <2>1. r \in Governed
    BY <1>1 DEF Ask, At, QueueOK, GovernedQueue, Queueing
  <2>2. behind' \subseteq Governed \X Governed
    BY <1>1, <2>1 DEF Ask
  <2>3. asked' \in Seq(Governed)
    BY <1>1, <2>1 DEF Ask
  <2>4. QED
    BY <1>1, <2>2, <2>3 DEF Ask
<1>2. ASSUME NEW r \in Runs, Poll(r) PROVE TicketsOK'
  BY <1>2 DEF Poll
<1>3. ASSUME NEW r \in Runs, MyTurn(r) PROVE TicketsOK'
  BY <1>3 DEF MyTurn
<1>4. ASSUME NEW r \in Runs, Drop(r) \/ SlotTimeout(r) PROVE TicketsOK'
  <2>1. DropTicket(r) /\ (Waiting(r) \/ pc[r] = "drop")
    BY <1>4 DEF Drop, SlotTimeout, At, Waiting
  <2>2. /\ asked' \in Seq(Governed) /\ ticket' = [ticket EXCEPT ![r] = "none"]
        /\ aged' = aged \ {r} /\ behind' = {p \in behind : p[1] # r}
    BY <2>1, DropTicketIs
  <2>3. QED
    BY <2>2
<1>5. ASSUME NEW r \in Runs, Age(r) \/ Stall(r) PROVE TicketsOK'
  BY <1>5, <1>a DEF Age, Stall
<1>6. CASE UNCHANGED tickets
  BY <1>6 DEF tickets
<1>7. QED
  BY <1>1, <1>2, <1>3, <1>4, <1>5, <1>6, ZenonT(40)
     DEF Next, vars, tickets, Step, Halted, ReadRoute, Trim,
     Door, Proxy, Reap, ReadHeld, Recount, Create, Sleep, Load, Count, StartChild, Mark, ChildEnds,
     TimeUp, ReadRows, NoteLimit, Release, Kill, OrphanEnds, Expire, BudgetReset, Forget, Reset,
     RouteSet

(* The budget keeps its types.                                             *)
LEMMA BudgetTypeStep ==
  ASSUME Typed, [Next]_vars
  PROVE  BudgetOK'
<1> USE DEF Typed, BudgetOK
<1>a. \A r \in Runs : TreeOf[r] \in Trees
  BY DEF Trees
<1>1. ASSUME NEW r \in Runs, Load(r) PROVE BudgetOK'
  BY <1>1, <1>a DEF Load
<1>2. ASSUME NEW r \in Runs, Count(r) PROVE BudgetOK'
  <2>1. copy[r] \cup {r} \in SUBSET Runs /\ {} \in SUBSET Runs
    OBVIOUS
  <2>2. \/ /\ starts' = [starts EXCEPT ![TreeOf[r]] = copy[r] \cup {r}]
           /\ counted' = counted \cup {r}
        \/ UNCHANGED <<starts, counted>>
    BY <1>2 DEF Count
  <2>3. lock' = [lock EXCEPT ![TreeOf[r]] = Nobody] /\ copy' = [copy EXCEPT ![r] = {}]
    BY <1>2 DEF Count
  <2>4. QED
    BY <1>a, <2>1, <2>2, <2>3
<1>3. ASSUME NEW r \in Runs, Kill(r) PROVE BudgetOK'
  BY <1>3 DEF Kill
<1>4. ASSUME NEW t \in Trees, NEW S, Forget(t, S) PROVE BudgetOK'
  BY <1>4 DEF Forget
<1>5. CASE UNCHANGED budget
  BY <1>5 DEF budget
<1>6. QED
  BY <1>1, <1>2, <1>3, <1>4, <1>5, ZenonT(40)
     DEF Next, vars, budget, Step, Halted, ReadRoute, Trim, Door,
     Proxy, Ask, Poll, Reap, ReadHeld, MyTurn, Recount, Create, Drop, Sleep, SlotTimeout,
     StartChild, Mark, ChildEnds, TimeUp, ReadRows, NoteLimit, Release, OrphanEnds, Age, Stall,
     Expire, BudgetReset, Reset, RouteSet

(* The account a call takes is one of the route, or none.                  *)
LEMMA FirstFreeIs == ASSUME NEW rows PROVE FirstFree(rows) \in Entries \cup {0}
<1> DEFINE left == Entries \ rows
<1>1. CASE left = {}
  BY <1>1 DEF FirstFree
<1>2. CASE left # {}
  <2>1. left \in SUBSET Nat
    BY DEF Entries
  <2>2. \E e \in left : \A f \in left : e <= f
    BY <1>2, <2>1, LeastExists
  <2>3. (CHOOSE e \in left : \A f \in left : e <= f) \in left
    BY <2>2
  <2>4. QED
    BY <1>2, <2>3 DEF FirstFree
<1>3. QED
  BY <1>1, <1>2

(* The rows of the route keep their types.                                 *)
LEMMA RouteStep ==
  ASSUME Typed, Entered, [Next]_vars
  PROVE  RouteOK'
<1> USE DEF Typed, RouteOK
<1>a. ASSUME NEW r \in Runs, NEW rows, Onward(r, rows)
      PROVE  entry' \in [Runs -> Entries \cup {0}]
  BY <1>a, FirstFreeIs DEF Onward
<1>1. ASSUME NEW r \in Runs, ReadRoute(r) PROVE RouteOK'
  <2>1. entry' \in [Runs -> Entries \cup {0}]
    BY <1>1, <1>a DEF ReadRoute
  <2>2. QED
    BY <1>1, <2>1 DEF ReadRoute
<1>2. ASSUME NEW r \in Runs, Trim(r) PROVE RouteOK'
  <2>1. entry' \in [Runs -> Entries \cup {0}]
    BY <1>2, <1>a DEF Trim
  <2>2. QED
    BY <1>2, <2>1 DEF Trim
<1>3. ASSUME NEW r \in Runs, ReadRows(r) PROVE RouteOK'
  BY <1>3 DEF ReadRows
<1>4. ASSUME NEW r \in Runs, NoteLimit(r) PROVE RouteOK'
  BY <1>4 DEF NoteLimit, WithOwn, At, Entered
<1>5. ASSUME NEW r \in Runs, Release(r) \/ Kill(r) PROVE RouteOK'
  BY <1>5 DEF Release, Kill
<1>6. CASE Reset \/ RouteSet
  BY <1>6 DEF Reset, RouteSet
<1>7. CASE UNCHANGED route
  BY <1>7 DEF route
<1>8. QED
  BY <1>1, <1>2, <1>3, <1>4, <1>5, <1>6, <1>7, ZenonT(40)
     DEF Next, vars, route, Step, Halted, Door, Proxy, Ask,
     Poll, Reap, ReadHeld, MyTurn, Recount, Create, Drop, Sleep, SlotTimeout, Load, Count,
     StartChild, Mark, ChildEnds, TimeUp, OrphanEnds, Age, Stall, Expire, BudgetReset, Forget

(* The children keep their type.                                           *)
LEMMA RunningStep ==
  ASSUME Typed, [Next]_vars
  PROVE  RunningOK'
<1> USE DEF Typed, RunningOK
<1>1. ASSUME NEW r \in Runs, StartChild(r) PROVE RunningOK'
  BY <1>1 DEF StartChild
<1>2. ASSUME NEW r \in Runs, ChildEnds(r) \/ TimeUp(r) \/ OrphanEnds(r) PROVE RunningOK'
  BY <1>2 DEF ChildEnds, TimeUp, OrphanEnds
<1>3. ASSUME NEW r \in Runs, Kill(r) PROVE RunningOK'
  BY <1>3 DEF Kill
<1>4. CASE UNCHANGED <<child, unmarked>>
  BY <1>4
<1>5. QED
  BY <1>1, <1>2, <1>3, <1>4, ZenonT(40)
     DEF Next, vars, running, Step, Halted, ReadRoute, Trim, Door, Proxy, Ask,
     Poll, Reap, ReadHeld, MyTurn, Recount, Create, Drop, Sleep, SlotTimeout, Load, Count, Mark,
     ReadRows, NoteLimit, Release, Age, Stall, Expire, BudgetReset, Forget, Reset, RouteSet

(* A step of a call moves it on along its way, and no other.               *)
Moves(r, from, to) ==
  /\ pc[r] \in from /\ pc'[r] \in to /\ \A q \in Runs : q # r => pc'[q] = pc[q]

(* A call that goes to a place is there, and the others stay.              *)
LEMMA GoIs ==
  ASSUME PcOK, NEW r \in Runs, NEW place, Go(r, place)
  PROVE  pc'[r] = place /\ \A q \in Runs : q # r => pc'[q] = pc[q]
BY DEF PcOK, Go

(* A call goes on with an account, or is over.                             *)
LEMMA OnwardIs ==
  ASSUME Typed, NEW r \in Runs, NEW rows, Onward(r, rows)
  PROVE  /\ \A q \in Runs : q # r => pc'[q] = pc[q] /\ entry'[q] = entry[q]
         /\ \/ pc'[r] = "over"
            \/ pc'[r] = "door" /\ entry'[r] # 0
<1>1. entry' = [entry EXCEPT ![r] = FirstFree(rows)]
  BY DEF Onward
<1>2. Go(r, IF FirstFree(rows) = 0 THEN "over" ELSE "door")
  BY DEF Onward
<1>3. FirstFree(rows) \in Nat
  BY FirstFreeIs DEF Entries
<1>4. QED
  BY <1>1, <1>2, <1>3, GoIs DEF Typed, RouteOK

(* The ways of a call, one for each action.                                *)
LEMMA Ways ==
  ASSUME Typed, NEW r \in Runs
  PROVE  /\ Halted(r) => Moves(r, {"called"}, {"over"})
         /\ ReadRoute(r) => Moves(r, {"called"}, {"trim", "over", "door"})
         /\ Trim(r) => Moves(r, {"trim"}, {"over", "door"})
         /\ Door(r) => Moves(r, {"door"}, {"over", "proxy"})
         /\ Proxy(r) => /\ Moves(r, {"proxy"}, {"over", "ask", "budget"})
                        /\ pc'[r] = "ask" => r \in Governed
         /\ Ask(r) => Moves(r, {"ask"}, {"poll"})
         /\ Poll(r) => Moves(r, {"poll"}, {"reap"})
         /\ ReadHeld(r) => Moves(r, {"reap"}, {"turn", "wait"})
         /\ MyTurn(r) => Moves(r, {"turn"}, {"again", "wait"})
         /\ Recount(r) => Moves(r, {"again"}, {"create", "wait"})
         /\ Create(r) => Moves(r, {"create"}, {"wait", "drop"})
         /\ Drop(r) => Moves(r, {"drop"}, {"budget"})
         /\ Sleep(r) => Moves(r, {"wait"}, {"poll"})
         /\ SlotTimeout(r) => Moves(r, {"wait"}, {"over"})
         /\ Load(r) => Moves(r, {"budget"}, {"release", "count"})
         /\ Count(r) => Moves(r, {"count"}, {"start", "release"})
         /\ StartChild(r) => Moves(r, {"start"}, {"mark", "release"})
         /\ Mark(r) => Moves(r, {"mark"}, {"run"})
         /\ ChildEnds(r) => Moves(r, {"run"}, {"release", "limit"})
         /\ TimeUp(r) => Moves(r, {"run"}, {"release"})
         /\ ReadRows(r) => Moves(r, {"limit"}, {"note"})
         /\ NoteLimit(r) => Moves(r, {"note"}, {"release"})
         /\ Release(r) => Moves(r, {"release"}, {"over"})
         /\ Kill(r) => Moves(r, Locations \ {"over", "dead"}, {"dead"})
<1> USE DEF Moves, At
<1>1. Halted(r) => Moves(r, {"called"}, {"over"})
  BY GoIs DEF Halted, Typed
<1>2. ReadRoute(r) => Moves(r, {"called"}, {"trim", "over", "door"})
  BY GoIs, OnwardIs DEF ReadRoute, Typed
<1>3. Trim(r) => Moves(r, {"trim"}, {"over", "door"})
  BY OnwardIs DEF Trim
<1>4. Door(r) => Moves(r, {"door"}, {"over", "proxy"})
  BY GoIs DEF Door, Typed
<1>5. Proxy(r) => /\ Moves(r, {"proxy"}, {"over", "ask", "budget"})
                  /\ pc'[r] = "ask" => r \in Governed
  BY GoIs DEF Proxy, Typed
<1>6. /\ Ask(r) => Moves(r, {"ask"}, {"poll"})
      /\ Poll(r) => Moves(r, {"poll"}, {"reap"})
      /\ ReadHeld(r) => Moves(r, {"reap"}, {"turn", "wait"})
  BY GoIs DEF Ask, Poll, ReadHeld, Typed
<1>7. MyTurn(r) => Moves(r, {"turn"}, {"again", "wait"})
  <2>1. MyTurn(r) => At(r, "turn") /\ \E p \in {"again", "wait"} : Go(r, p)
    BY DEF MyTurn
  <2>2. QED
    BY <2>1, GoIs DEF Typed
<1>8. /\ Recount(r) => Moves(r, {"again"}, {"create", "wait"})
      /\ Drop(r) => Moves(r, {"drop"}, {"budget"})
      /\ Sleep(r) => Moves(r, {"wait"}, {"poll"})
      /\ SlotTimeout(r) => Moves(r, {"wait"}, {"over"})
  BY GoIs DEF Recount, Drop, Sleep, SlotTimeout, Typed
<1>9. Create(r) => Moves(r, {"create"}, {"wait", "drop"})
  <2>1. Create(r) => At(r, "create") /\ \E p \in {"wait", "drop"} : Go(r, p)
    BY DEF Create
  <2>2. QED
    BY <2>1, GoIs DEF Typed
<1>10. /\ Load(r) => Moves(r, {"budget"}, {"release", "count"})
       /\ Count(r) => Moves(r, {"count"}, {"start", "release"})
       /\ StartChild(r) => Moves(r, {"start"}, {"mark", "release"})
       /\ Mark(r) => Moves(r, {"mark"}, {"run"})
  BY GoIs DEF Load, Count, StartChild, Mark, Typed
<1>11. /\ ChildEnds(r) => Moves(r, {"run"}, {"release", "limit"})
       /\ TimeUp(r) => Moves(r, {"run"}, {"release"})
       /\ ReadRows(r) => Moves(r, {"limit"}, {"note"})
       /\ NoteLimit(r) => Moves(r, {"note"}, {"release"})
       /\ Release(r) => Moves(r, {"release"}, {"over"})
  BY GoIs DEF ChildEnds, TimeUp, ReadRows, NoteLimit, Release, Typed
<1>12. Kill(r) => Moves(r, Locations \ {"over", "dead"}, {"dead"})
  BY GoIs DEF Kill, Alive, Typed, PcOK
<1>13. QED
  BY <1>1, <1>2, <1>3, <1>4, <1>5, <1>6, <1>7, <1>8, <1>9, <1>10, <1>11, <1>12

(* A call that goes on has an account.                                     *)
LEMMA EnteredStep ==
  ASSUME Typed, Entered, [Next]_vars
  PROVE  Entered'
<1> USE DEF Entered
<1>1. ASSUME NEW r \in Runs, ReadRoute(r) \/ Trim(r) PROVE Entered'
  <2>1. CASE ReadRoute(r) /\ listed \cap passed # {}
    BY <2>1, GoIs DEF ReadRoute, Typed
  <2>2. CASE Onward(r, listed)
    BY <2>2, OnwardIs
  <2>3. CASE Onward(r, base[r] \ passed)
    BY <2>3, OnwardIs
  <2>4. QED
    BY <1>1, <2>1, <2>2, <2>3 DEF ReadRoute, Trim
<1>2. ASSUME NEW r \in Runs, Release(r) \/ Kill(r) PROVE Entered'
  <2>1. pc'[r] \in {"over", "dead"} /\ \A q \in Runs : q # r => pc'[q] = pc[q]
    BY <1>2, Ways DEF Moves
  <2>2. \A q \in Runs : q # r => entry'[q] = entry[q]
    BY <1>2 DEF Release, Kill, Typed, RouteOK
  <2>3. QED
    BY <2>1, <2>2
<1> DEFINE out == {"called", "trim", "over", "dead"}
<1>3. ASSUME UNCHANGED entry, NEW r \in Runs, pc[r] \notin out \/ pc'[r] \in out,
             \A q \in Runs : q # r => pc'[q] = pc[q]
      PROVE  Entered'
  BY <1>3
<1>4. CASE UNCHANGED <<pc, entry>>
  BY <1>4
<1>5. ASSUME NEW r \in Runs, Halted(r) \/ Door(r) \/ Proxy(r) \/ Ask(r) \/ Poll(r) PROVE Entered'
  BY <1>3, <1>5, Ways DEF Moves, Halted, Door, Proxy, Ask, Poll, route
<1>6. ASSUME NEW r \in Runs, ReadHeld(r) \/ MyTurn(r) \/ Recount(r) \/ Create(r) \/ Drop(r)
      PROVE  Entered'
  BY <1>3, <1>6, Ways DEF Moves, ReadHeld, MyTurn, Recount, Create, Drop, route
<1>7. ASSUME NEW r \in Runs, Sleep(r) \/ SlotTimeout(r) \/ Load(r) \/ Count(r) \/ StartChild(r)
      PROVE  Entered'
  BY <1>3, <1>7, Ways DEF Moves, Sleep, SlotTimeout, Load, Count, StartChild, route
<1>8. ASSUME NEW r \in Runs, Mark(r) \/ ChildEnds(r) \/ TimeUp(r) \/ ReadRows(r) \/ NoteLimit(r)
      PROVE  Entered'
  BY <1>3, <1>8, Ways DEF Moves, Mark, ChildEnds, TimeUp, ReadRows, NoteLimit, route
<1>9. QED
  BY <1>1, <1>2, <1>4, <1>5, <1>6, <1>7, <1>8 DEF Next, vars, Step, Reap, OrphanEnds, Age, Stall,
     Expire, BudgetReset, Forget, Reset, RouteSet, route

(* Who waits or drops its ticket has asked, once, and only those and the   *)
(* dead have.                                                              *)
LEMMA QueueStep ==
  ASSUME Typed, QueueOK, [Next]_vars
  PROVE  QueueOK'
<1> DEFINE waits == {"poll", "reap", "turn", "again", "create", "wait"}
<1>a. /\ \A q \in Runs : pc[q] \in Queueing => q \in Governed
      /\ \A i, j \in DOMAIN asked : asked[i] = asked[j] => i = j
      /\ \A q \in Runs : pc[q] \in waits \cup {"drop"} => \E i \in DOMAIN asked : asked[i] = q
      /\ \A i \in DOMAIN asked : pc[asked[i]] \in waits \cup {"drop", "dead"}
  BY DEF QueueOK, GovernedQueue, Waiting
<1>b. ASSUME \A q \in Runs : pc'[q] \in Queueing => q \in Governed,
             \A i, j \in DOMAIN asked' : asked'[i] = asked'[j] => i = j,
             \A q \in Runs : pc'[q] \in waits \cup {"drop"} => \E i \in DOMAIN asked' : asked'[i] = q,
             \A i \in DOMAIN asked' : pc'[asked'[i]] \in waits \cup {"drop", "dead"}
      PROVE  QueueOK'
  BY <1>b DEF QueueOK, GovernedQueue, Waiting
<1>c. waits \cup {"ask", "drop"} = Queueing
  BY DEF Queueing
<1>d. \A i \in DOMAIN asked : asked[i] \in Runs
  BY HeadlessAssumption DEF Typed, TicketsOK
<1>e. ASSUME UNCHANGED asked, NEW r \in Runs, \A q \in Runs : q # r => pc'[q] = pc[q],
             \/ pc[r] \in waits /\ pc'[r] \in waits \cup {"drop"}
             \/ pc[r] \notin Queueing /\ pc'[r] \notin Queueing \cup {"dead"} /\ pc[r] # "dead"
             \/ pc[r] = "proxy" /\ pc'[r] = "ask" /\ r \in Governed
             \/ pc'[r] = "dead"
      PROVE  QueueOK'
  <2> USE DEF Queueing
  <2>1. CASE pc[r] \in waits /\ pc'[r] \in waits \cup {"drop"}
    BY <1>a, <1>b, <1>d, <1>e, <2>1
  <2>2. CASE pc[r] \notin Queueing /\ pc'[r] \notin Queueing \cup {"dead"} /\ pc[r] # "dead"
    BY <1>a, <1>b, <1>d, <1>e, <2>2
  <2>3. CASE pc[r] = "proxy" /\ pc'[r] = "ask" /\ r \in Governed
    BY <1>a, <1>b, <1>d, <1>e, <2>3
  <2>4. CASE pc'[r] = "dead"
    BY <1>a, <1>b, <1>d, <1>e, <2>4
  <2>5. QED
    BY <1>e, <2>1, <2>2, <2>3, <2>4
<1>1. ASSUME NEW r \in Runs, Ask(r) PROVE QueueOK'
  <2>1. /\ pc[r] = "ask" /\ pc'[r] = "poll" /\ \A q \in Runs : q # r => pc'[q] = pc[q]
        /\ r \in Governed
    BY <1>1, <1>a, Ways DEF Moves, Queueing
  <2>2. /\ asked \in Seq(Governed) /\ asked' = Append(asked, r)
    BY <1>1 DEF Ask, Typed, TicketsOK
  <2>3. /\ DOMAIN asked = 1 .. Len(asked) /\ DOMAIN asked' = 1 .. Len(asked) + 1 /\ Len(asked) \in Nat
        /\ asked'[Len(asked) + 1] = r /\ \A i \in DOMAIN asked : asked'[i] = asked[i]
    BY <2>1, <2>2
  <2>4. \A i \in DOMAIN asked : asked[i] # r
    BY <1>a, <2>1
  <2>5. \A i, j \in DOMAIN asked' : asked'[i] = asked'[j] => i = j
    BY <1>a, <2>3, <2>4
  <2>6. \A q \in Runs : pc'[q] \in waits \cup {"drop"} => \E i \in DOMAIN asked' : asked'[i] = q
    <3>1. ASSUME NEW q \in Runs, q # r, pc'[q] \in waits \cup {"drop"}
          PROVE  \E i \in DOMAIN asked' : asked'[i] = q
      <4>1. PICK i \in DOMAIN asked : asked[i] = q
        BY <1>a, <2>1, <3>1
      <4>2. QED
        BY <2>3, <4>1
    <3>2. \E i \in DOMAIN asked' : asked'[i] = r
      BY <2>3
    <3>3. QED
      BY <3>1, <3>2
  <2>7. \A i \in DOMAIN asked' : pc'[asked'[i]] \in waits \cup {"drop", "dead"}
    BY <1>a, <1>d, <2>1, <2>3, <2>4
  <2>8. \A q \in Runs : pc'[q] \in Queueing => q \in Governed
    BY <1>a, <2>1
  <2>9. QED
    BY <1>b, <2>5, <2>6, <2>7, <2>8
<1>2. ASSUME NEW r \in Runs, Drop(r) \/ SlotTimeout(r) PROVE QueueOK'
  <2>1. /\ pc'[r] \in {"budget", "over"} /\ \A q \in Runs : q # r => pc'[q] = pc[q]
    BY <1>2, Ways DEF Moves
  <2>2. DropTicket(r) /\ (Waiting(r) \/ pc[r] = "drop")
    BY <1>2 DEF Drop, SlotTimeout, At, Waiting
  <2>3. /\ AskedOnce(asked')
        /\ \A i \in DOMAIN asked' : asked'[i] # r /\ \E j \in DOMAIN asked : asked'[i] = asked[j]
        /\ \A j \in DOMAIN asked : asked[j] # r => \E i \in DOMAIN asked' : asked'[i] = asked[j]
    BY <2>2, DropTicketIs
  <2>4. \A q \in Runs : pc'[q] \in Queueing => q \in Governed
    BY <1>a, <2>1 DEF Queueing
  <2>5. \A q \in Runs : pc'[q] \in waits \cup {"drop"} => \E i \in DOMAIN asked' : asked'[i] = q
    BY <1>a, <2>1, <2>3
  <2>6. \A i \in DOMAIN asked' : pc'[asked'[i]] \in waits \cup {"drop", "dead"}
    BY <1>a, <1>d, <2>1, <2>3
  <2>7. QED
    BY <1>b, <2>3, <2>4, <2>5, <2>6 DEF AskedOnce
<1>3. ASSUME NEW r \in Runs, Halted(r) \/ ReadRoute(r) \/ Trim(r) \/ Door(r) \/ Proxy(r)
      PROVE  QueueOK'
  BY <1>3, <1>e, Ways DEF Moves, Halted, ReadRoute, Trim, Door, Proxy, tickets, Queueing
<1>4. ASSUME NEW r \in Runs, Poll(r) \/ ReadHeld(r) \/ MyTurn(r) \/ Recount(r) \/ Create(r) \/ Sleep(r)
      PROVE  QueueOK'
  BY <1>4, <1>e, Ways DEF Moves, Poll, ReadHeld, MyTurn, Recount, Create, Sleep, tickets, Queueing
<1>5. ASSUME NEW r \in Runs,
             Load(r) \/ Count(r) \/ StartChild(r) \/ Mark(r) \/ ChildEnds(r) \/ TimeUp(r)
      PROVE  QueueOK'
  BY <1>5, <1>e, Ways DEF Moves, Load, Count, StartChild, Mark, ChildEnds, TimeUp, tickets, Queueing
<1>6. ASSUME NEW r \in Runs, ReadRows(r) \/ NoteLimit(r) \/ Release(r) \/ Kill(r) PROVE QueueOK'
  BY <1>6, <1>e, Ways DEF Moves, ReadRows, NoteLimit, Release, Kill, tickets, Queueing
<1>7. CASE UNCHANGED <<pc, asked>>
  BY <1>7 DEF QueueOK, GovernedQueue, Waiting
<1>8. QED
  BY <1>1, <1>2, <1>3, <1>4, <1>5, <1>6, <1>7 DEF Next, vars, Step, Reap, OrphanEnds, Age, Stall,
     Expire, BudgetReset, Forget, Reset, RouteSet, tickets

----------------------------------------------------------------------------
(* The slots.  What a judge finds stale has a dead owner and no child.     *)
LEMMA JudgedDead ==
  ASSUME Typed, OwnChild, NEW d \in Judged
  PROVE  /\ d[2].run \in Runs /\ ~Alive(d[2].run)
         /\ d[2].child \in {Nobody, d[2].run} \ child
<1>1. PICK i \in SlotIds : d = <<i, slot[i]>> /\ slot[i] # Free /\ ~Live(slot[i])
  BY DEF Judged, Stale
<1>2. /\ slot[i] \in SlotFiles /\ slot[i].child \in {Nobody, slot[i].run}
      /\ slot[i] = [run |-> slot[i].run, child |-> slot[i].child]
  BY DEF Typed, SlotsOK, OwnChild, SlotFiles
<1>3. slot[i].run # Nobody
  BY <1>1, <1>2 DEF Free
<1>4. Nobody \notin child
  BY HeadlessAssumption DEF Typed, RunningOK
<1>5. QED
  BY <1>1, <1>2, <1>3, <1>4 DEF Live, SlotFiles

(* A step that touches neither slots nor children.                         *)
LEMMA SlotsQuiet ==
  ASSUME Typed, SlotsSound, UNCHANGED <<slot, at, child, raced, unmarked>>,
         NEW r \in Runs, \A q \in Runs : q # r => pc'[q] = pc[q],
         pc[r] \notin {"mark", "run", "dead"}, pc'[r] \notin {"mark", "run", "dead"},
         r \in Governed /\ pc'[r] \in HasSlot => pc[r] \in HasSlot,
         \A q \in Runs : doomed'[q] \subseteq doomed[q] \cup Judged,
         pc[r] # "over"
  PROVE  SlotsSound'
<1> USE DEF SlotsSound
<1>1. ChildPlaces' /\ r \notin child
  BY DEF ChildPlaces, Typed, RunningOK
<1>2. ASSUME ~raced PROVE OwnChild' /\ DoomedDead' /\ SlotMine'
  <2>1. OwnChild'
    BY <1>2 DEF OwnChild
  <2>2. DoomedDead'
    <3>1. ASSUME NEW q \in Runs, NEW d \in doomed'[q]
          PROVE  /\ d[2].run \in Runs /\ ~Alive(d[2].run)
                 /\ d[2].child \in {Nobody, d[2].run} \ child
      BY <1>2, <3>1, JudgedDead DEF DoomedDead
    <3>2. QED
      BY <3>1 DEF DoomedDead, Alive
  <2>3. SlotMine'
    BY <1>1, <1>2, HeadlessAssumption DEF SlotMine
  <2>4. QED
    BY <2>1, <2>2, <2>3
<1>3. ASSUME ~raced, ~unmarked PROVE Orphans'
  BY <1>1, <1>3, HeadlessAssumption DEF Orphans
<1>4. QED
  BY <1>1, <1>2, <1>3

(* A reaper that leaves a slot file only forgets that it judged it.        *)
LEMMA SlotsLeft ==
  ASSUME Typed, SlotsSound, NEW r \in Runs, Reap(r), UNCHANGED <<slot, raced>>
  PROVE  SlotsSound'
<1>1. UNCHANGED <<pc, child, unmarked, at>> /\ \A q \in Runs : doomed'[q] \subseteq doomed[q]
  BY DEF Reap, Typed, SlotsOK
<1>2. QED
  BY <1>1 DEF SlotsSound, ChildPlaces, OwnChild, DoomedDead, SlotMine, Orphans, Alive

(* An unlink of a slot that was judged frees it of a dead call.            *)
LEMMA SlotsReap ==
  ASSUME Typed, SlotsSound, NEW r \in Runs, Reap(r), ~UNCHANGED <<slot, raced>>
  PROVE  SlotsSound'
<1>1. PICK d \in doomed[r] : /\ slot' = [slot EXCEPT ![d[1]] = Free]
                             /\ raced' = (raced \/ slot[d[1]] \notin {d[2], Free})
                             /\ doomed' = [doomed EXCEPT ![r] = @ \ {d}]
  BY DEF Reap
<1>2. UNCHANGED <<pc, child, unmarked, at>>
  BY DEF Reap
<1>3. ChildPlaces'
  BY <1>2 DEF SlotsSound, ChildPlaces
<1>4. d[1] \in SlotIds /\ d[2] \in SlotFiles /\ slot \in [SlotIds -> SlotFiles]
  BY DEF Typed, SlotsOK
<1>5. \A i \in SlotIds : slot'[i] = IF i = d[1] THEN Free ELSE slot[i]
  BY <1>1, <1>4
<1>6. ASSUME ~raced'
      PROVE  /\ ~raced /\ slot[d[1]] \in {d[2], Free} /\ d[2].run \in Runs /\ ~Alive(d[2].run)
             /\ d[2].child \in {Nobody, d[2].run} \ child
             /\ OwnChild /\ DoomedDead /\ SlotMine
  <2>1. ~raced /\ slot[d[1]] \in {d[2], Free}
    BY <1>1, <1>6
  <2>2. QED
    BY <2>1 DEF SlotsSound, DoomedDead
<1>7. ASSUME ~raced', NEW q \in Governed, pc[q] \in HasSlot, slot[at[q]].run = q
      PROVE  slot'[at[q]] = slot[at[q]]
  <2>1. q \in Runs /\ q # Nobody /\ Alive(q) /\ at[q] \in SlotIds
    BY <1>7, HeadlessAssumption DEF Typed, SlotsOK, HasSlot, Alive
  <2>2. at[q] # d[1]
    BY <1>6, <1>7, <2>1 DEF Free
  <2>3. QED
    BY <1>5, <2>1, <2>2
<1>8. ASSUME ~raced' PROVE OwnChild' /\ DoomedDead' /\ SlotMine'
  <2>1. OwnChild'
    BY <1>5, <1>6, <1>8 DEF OwnChild, Free
  <2>2. DoomedDead'
    <3>1. \A q \in Runs : doomed'[q] \subseteq doomed[q]
      BY <1>1 DEF Typed, SlotsOK
    <3>2. QED
      BY <1>2, <1>6, <1>8, <3>1 DEF DoomedDead, Alive
  <2>3. SlotMine'
    BY <1>2, <1>6, <1>7, <1>8 DEF SlotMine
  <2>4. QED
    BY <2>1, <2>2, <2>3
<1>9. ASSUME ~raced', ~unmarked' PROVE Orphans'
  <2>1. Orphans
    BY <1>2, <1>6, <1>9 DEF SlotsSound
  <2>2. ASSUME NEW q \in Governed \cap child, pc[q] = "dead"
        PROVE  \E i \in SlotIds : slot'[i] = [run |-> q, child |-> q]
    <3>1. PICK i \in SlotIds : slot[i] = [run |-> q, child |-> q]
      BY <2>1, <2>2 DEF Orphans
    <3>2. q # Nobody
      BY HeadlessAssumption DEF Typed, RunningOK
    <3>3. slot[i] # Free /\ slot[i] # d[2]
      BY <1>6, <1>9, <2>2, <3>1, <3>2 DEF Free
    <3>4. i # d[1]
      BY <1>6, <1>9, <3>3
    <3>5. QED
      BY <1>5, <3>1, <3>4
  <2>3. QED
    BY <1>2, <2>2 DEF Orphans
<1>10. QED
  BY <1>3, <1>8, <1>9 DEF SlotsSound

(* A create takes a free slot file, or finds none.                         *)
LEMMA CreateIs ==
  ASSUME NEW r \in Runs, Create(r)
  PROVE  \/ Go(r, "wait") /\ UNCHANGED <<slot, at>>
         \/ \E i \in SlotIds : /\ slot[i] = Free
                               /\ slot' = [slot EXCEPT ![i] = [run |-> r, child |-> Nobody]]
                               /\ at' = [at EXCEPT ![r] = i] /\ Go(r, "drop")
<1> DEFINE open == {k \in SlotIds : slot[k] = Free}
           i == CHOOSE k \in open : \A j \in open : k <= j
<1>1. CASE open = {}
  BY <1>1 DEF Create
<1>2. CASE open # {}
  <2>1. open \in SUBSET Nat
    BY HeadlessAssumption DEF SlotIds
  <2>2. \E k \in open : \A j \in open : k <= j
    BY <1>2, <2>1, LeastExists
  <2>3. i \in open
    BY <2>2
  <2>4. /\ slot' = [slot EXCEPT ![i] = [run |-> r, child |-> Nobody]]
        /\ at' = [at EXCEPT ![r] = i] /\ Go(r, "drop")
    BY <1>2 DEF Create
  <2> HIDE DEF i
  <2>5. QED
    BY <2>3, <2>4
<1>3. QED
  BY <1>1, <1>2

(* A call takes a free slot file.                                          *)
LEMMA SlotsCreate ==
  ASSUME Typed, SlotsSound, GovernedQueue, NEW r \in Runs, Create(r), ~UNCHANGED slot
  PROVE  SlotsSound'
<1>2. PICK i \in SlotIds : /\ slot[i] = Free /\ slot' = [slot EXCEPT ![i] = [run |-> r, child |-> Nobody]]
                           /\ at' = [at EXCEPT ![r] = i] /\ Go(r, "drop")
  BY CreateIs
<1>3. /\ pc' = [pc EXCEPT ![r] = "drop"] /\ pc[r] = "create"
      /\ UNCHANGED <<child, unmarked, doomed, raced>>
  BY <1>2 DEF Create, running, Go, At
<1>4. /\ i \in SlotIds /\ slot[i] = Free /\ r \in Governed
      /\ slot \in [SlotIds -> SlotFiles] /\ at \in [Runs -> SlotIds] /\ pc \in [Runs -> Locations]
  BY <1>2, <1>3 DEF Typed, SlotsOK, PcOK, GovernedQueue, Queueing
<1>5. /\ \A k \in SlotIds : slot'[k] = IF k = i THEN [run |-> r, child |-> Nobody] ELSE slot[k]
      /\ \A q \in Runs : at'[q] = IF q = r THEN i ELSE at[q]
      /\ \A q \in Runs : pc'[q] = IF q = r THEN "drop" ELSE pc[q]
  BY <1>2, <1>3, <1>4
<1>6. child \subseteq Runs /\ Governed \subseteq Runs /\ Nobody \notin Runs /\ r \notin child
  BY <1>3, HeadlessAssumption DEF Typed, RunningOK, SlotsSound, ChildPlaces
<1>7. ChildPlaces'
  BY <1>3, <1>5, <1>6 DEF ChildPlaces, SlotsSound
<1>8. ASSUME ~raced PROVE OwnChild' /\ DoomedDead' /\ SlotMine'
  <2>1. OwnChild /\ DoomedDead /\ SlotMine
    BY <1>8 DEF SlotsSound
  <2>2. OwnChild'
    BY <1>5, <2>1 DEF OwnChild
  <2>3. DoomedDead'
    BY <1>3, <1>5, <2>1 DEF DoomedDead, Alive
  <2>4. ASSUME NEW q \in Governed, q # r, pc[q] \in HasSlot PROVE slot'[at'[q]] = slot[at[q]]
    <3>1. slot[at[q]].run = q /\ at[q] \in SlotIds /\ q \in Runs
      BY <1>4, <1>6, <2>1, <2>4 DEF SlotMine
    <3>2. at[q] # i
      BY <1>4, <1>6, <3>1 DEF Free
    <3>3. QED
      BY <1>5, <2>4, <3>1, <3>2
  <2>5. slot'[at'[r]].run = r
    BY <1>4, <1>5
  <2>6. SlotMine'
    BY <1>5, <1>6, <2>1, <2>4, <2>5 DEF SlotMine
  <2>7. QED
    BY <2>2, <2>3, <2>6
<1>9. ASSUME ~raced, ~unmarked PROVE Orphans'
  <2>1. ASSUME NEW q \in Governed \cap child, pc[q] = "dead"
        PROVE  \E k \in SlotIds : slot'[k] = [run |-> q, child |-> q]
    <3>1. PICK k \in SlotIds : slot[k] = [run |-> q, child |-> q]
      BY <1>9, <2>1 DEF Orphans, SlotsSound
    <3>2. k # i
      BY <1>4, <1>6, <3>1 DEF Free
    <3>3. QED
      BY <1>5, <3>1, <3>2
  <2>2. \A q \in Governed \cap child : pc'[q] = "dead" => pc[q] = "dead"
    BY <1>5, <1>6
  <2>3. QED
    BY <1>3, <2>1, <2>2 DEF Orphans
<1>10. QED
  BY <1>3, <1>7, <1>8, <1>9 DEF SlotsSound

(* A child starts or ends; the slots stay.                                 *)
LEMMA SlotsChild ==
  ASSUME Typed, SlotsSound, NEW r \in Runs,
         StartChild(r) \/ ChildEnds(r) \/ TimeUp(r) \/ OrphanEnds(r)
  PROVE  SlotsSound'
<1>1. /\ UNCHANGED <<slot, at, doomed, raced, unmarked>>
      /\ \/ pc[r] = "start" /\ pc'[r] = "mark" /\ child' = child \cup {r}
         \/ pc[r] = "start" /\ pc'[r] = "release" /\ UNCHANGED child
         \/ pc[r] = "run" /\ pc'[r] \in {"release", "limit"} /\ child' = child \ {r}
         \/ UNCHANGED pc /\ child' = child \ {r}
      /\ \A q \in Runs : q # r => pc'[q] = pc[q]
  BY GoIs DEF StartChild, ChildEnds, TimeUp, OrphanEnds, governor, At, Typed
<1>2. child \subseteq Runs /\ Governed \subseteq Runs /\ Nobody \notin Runs
  BY HeadlessAssumption DEF Typed, RunningOK
<1>3. pc[r] = "start" => r \notin child
  BY DEF SlotsSound, ChildPlaces
<1>4. ChildPlaces'
  BY <1>1, <1>2, <1>3 DEF ChildPlaces, SlotsSound
<1>5. ASSUME ~raced PROVE OwnChild' /\ DoomedDead' /\ SlotMine'
  <2>1. OwnChild /\ DoomedDead /\ SlotMine
    BY <1>5 DEF SlotsSound
  <2>2. OwnChild'
    BY <1>1, <2>1 DEF OwnChild
  <2>3. \A q \in Runs : ~Alive(q) => ~Alive(q)' /\ (pc[r] = "start" => q # r)
    BY <1>1 DEF Alive
  <2>4. DoomedDead'
    BY <1>1, <1>2, <2>1, <2>3 DEF DoomedDead
  <2>5. SlotMine'
    BY <1>1, <1>2, <2>1 DEF SlotMine, HasSlot
  <2>6. QED
    BY <2>2, <2>4, <2>5
<1>6. ASSUME ~raced, ~unmarked PROVE Orphans'
  <2>1. \A q \in Governed \cap child' : pc'[q] = "dead" => q \in child /\ pc[q] = "dead"
    BY <1>1, <1>2
  <2>2. QED
    BY <1>1, <1>6, <2>1 DEF Orphans, SlotsSound
<1>7. QED
  BY <1>1, <1>4, <1>5, <1>6 DEF SlotsSound

(* The child is recorded, and the slot given back: both touch the caller's *)
(* own slot, if it still has one.                                          *)
LEMMA SlotsOwn ==
  ASSUME Typed, SlotsSound, NEW r \in Runs, Mark(r) \/ Release(r)
  PROVE  SlotsSound'
<1>1. /\ slot \in [SlotIds -> SlotFiles] /\ at \in [Runs -> SlotIds] /\ at[r] \in SlotIds
      /\ UNCHANGED <<child, doomed, raced, unmarked>> /\ pc[r] \in {"mark", "release"}
      /\ \A q \in Runs : q # r => pc'[q] = pc[q] /\ at'[q] = at[q]
      /\ pc[r] = "mark" => pc'[r] = "run" /\ at'[r] = at[r]
      /\ pc[r] = "release" => pc'[r] = "over"
  BY GoIs DEF Mark, Release, Typed, SlotsOK, running, At
<1>2. child \subseteq Runs /\ Governed \subseteq Runs /\ Nobody \notin Runs /\ r # Nobody
  BY HeadlessAssumption DEF Typed, RunningOK
<1>3. pc[r] = "release" => r \notin child
  BY DEF SlotsSound, ChildPlaces
<1>4. ChildPlaces'
  BY <1>1, <1>2, <1>3 DEF ChildPlaces, SlotsSound
<1>5. r \notin Governed => UNCHANGED slot
  BY DEF Mark, Release, Holds
<1>6. ASSUME r \in Governed, ~raced
      PROVE  /\ slot[at[r]].run = r /\ slot[at[r]].child \in {Nobody, r}
             /\ \A k \in SlotIds \ {at[r]} : slot'[k] = slot[k]
             /\ slot'[at[r]].child \in {Nobody, slot'[at[r]].run}
             /\ pc[r] = "mark" => slot'[at[r]].run = r
  <2>1. slot[at[r]].run = r /\ slot[at[r]].child \in {Nobody, r}
    BY <1>1, <1>6 DEF SlotMine, OwnChild, SlotsSound, HasSlot
  <2>2. slot[at[r]] # Free /\ slot[at[r]] \in SlotFiles
    BY <1>1, <1>2, <2>1 DEF Free
  <2>3. CASE Mark(r) /\ ~UNCHANGED slot
    <3>1. slot' = [slot EXCEPT ![at[r]] = [slot[at[r]] EXCEPT !.child = r]]
      BY <2>3 DEF Mark
    <3>2. [slot[at[r]] EXCEPT !.child = r] = [run |-> r, child |-> r]
      BY <2>1, <2>2 DEF SlotFiles
    <3>3. QED
      BY <1>1, <2>1, <3>1, <3>2
  <2>4. CASE Release(r) /\ ~UNCHANGED slot
    <3>1. slot' = [slot EXCEPT ![at[r]] = Free] /\ pc[r] = "release"
      BY <2>4 DEF Release, At
    <3>2. QED
      BY <1>1, <2>1, <3>1 DEF Free
  <2>5. CASE UNCHANGED slot
    BY <2>1, <2>5
  <2>6. QED
    BY <2>3, <2>4, <2>5
<1>7. ASSUME ~raced, NEW q \in Governed, q # r, pc[q] \in HasSlot PROVE slot'[at'[q]] = slot[at[q]]
  <2>1. slot[at[q]].run = q /\ at[q] \in SlotIds /\ at'[q] = at[q]
    BY <1>1, <1>2, <1>7 DEF SlotMine, SlotsSound
  <2>2. QED
    BY <1>5, <1>6, <1>7, <2>1
<1>8. ASSUME ~raced PROVE OwnChild' /\ DoomedDead' /\ SlotMine'
  <2>1. OwnChild /\ DoomedDead /\ SlotMine
    BY <1>8 DEF SlotsSound
  <2>2. OwnChild'
    BY <1>5, <1>6, <1>8, <2>1 DEF OwnChild
  <2>3. \A q \in Runs : ~Alive(q) => ~Alive(q)'
    BY <1>1 DEF Alive
  <2>4. DoomedDead'
    BY <1>1, <2>1, <2>3 DEF DoomedDead
  <2>5. SlotMine'
    BY <1>1, <1>2, <1>6, <1>7, <1>8, <2>1 DEF SlotMine, HasSlot
  <2>6. QED
    BY <2>2, <2>4, <2>5
<1>9. ASSUME ~raced, ~unmarked PROVE Orphans'
  <2>1. ASSUME NEW q \in Governed \cap child, pc[q] = "dead"
        PROVE  \E k \in SlotIds : slot'[k] = [run |-> q, child |-> q]
    <3>1. PICK k \in SlotIds : slot[k] = [run |-> q, child |-> q]
      BY <1>9, <2>1 DEF Orphans, SlotsSound
    <3>2. r \in Governed => k # at[r]
      BY <1>1, <1>6, <1>9, <2>1, <3>1
    <3>3. QED
      BY <1>5, <1>6, <1>9, <3>1, <3>2
  <2>2. QED
    BY <1>1, <1>2, <2>1 DEF Orphans
<1>10. QED
  BY <1>1, <1>4, <1>8, <1>9 DEF SlotsSound

(* A kill leaves the slot, and in it the child that was recorded.          *)
LEMMA SlotsKill ==
  ASSUME Typed, SlotsSound, NEW r \in Runs, Kill(r)
  PROVE  SlotsSound'
<1>1. /\ UNCHANGED <<slot, raced>> /\ child' \subseteq child /\ Alive(r) /\ pc'[r] = "dead"
      /\ \A q \in Runs : q # r => pc'[q] = pc[q] /\ at'[q] = at[q]
      /\ \A q \in Runs : doomed'[q] \subseteq doomed[q]
      /\ unmarked' = (unmarked \/ (r \in Governed \cap child' /\ slot[at[r]].child # r))
  BY GoIs DEF Kill, Typed, SlotsOK, RunningOK, At
<1>2. child \subseteq Runs /\ Governed \subseteq Runs /\ at \in [Runs -> SlotIds]
  BY HeadlessAssumption DEF Typed, RunningOK, SlotsOK
<1>3. ChildPlaces'
  BY <1>1, <1>2 DEF ChildPlaces, SlotsSound
<1>4. ASSUME ~raced PROVE OwnChild' /\ DoomedDead' /\ SlotMine'
  <2>1. OwnChild /\ DoomedDead /\ SlotMine
    BY <1>4 DEF SlotsSound
  <2>2. OwnChild'
    BY <1>1, <2>1 DEF OwnChild
  <2>3. \A q \in Runs : ~Alive(q) => ~Alive(q)'
    BY <1>1 DEF Alive
  <2>4. DoomedDead'
    BY <1>1, <2>1, <2>3 DEF DoomedDead
  <2>5. SlotMine'
    BY <1>1, <1>2, <2>1 DEF SlotMine, HasSlot
  <2>6. QED
    BY <2>2, <2>4, <2>5
<1>5. ASSUME ~raced, ~unmarked' PROVE Orphans'
  <2>1. Orphans /\ OwnChild /\ SlotMine
    BY <1>1, <1>5 DEF SlotsSound
  <2>2. ASSUME r \in Governed \cap child' PROVE slot[at[r]] = [run |-> r, child |-> r]
    <3>1. pc[r] \in {"mark", "run"}
      BY <1>1, <2>2 DEF SlotsSound, ChildPlaces, Alive
    <3>2. slot[at[r]].child = r
      BY <1>1, <1>5, <2>2
    <3>4. slot[at[r]].run = r /\ slot[at[r]] \in SlotFiles
      BY <1>2, <2>1, <2>2, <3>1 DEF SlotMine, HasSlot, Typed, SlotsOK
    <3>3. QED
      BY <3>2, <3>4 DEF SlotFiles
  <2>3. QED
    BY <1>1, <1>2, <2>1, <2>2 DEF Orphans
<1>6. QED
  BY <1>1, <1>3, <1>4, <1>5 DEF SlotsSound

(* Every step keeps the slots sound.                                       *)
LEMMA SlotsSoundStep ==
  ASSUME Typed, GovernedQueue, SlotsSound, [Next]_vars
  PROVE  SlotsSound'
<1> USE DEF HasSlot
<1>a. \A r \in Runs : \A q \in Runs : UNCHANGED doomed => doomed'[q] \subseteq doomed[q] \cup Judged
  OBVIOUS
<1>1. ASSUME NEW r \in Runs, Halted(r) \/ ReadRoute(r) \/ Trim(r) \/ Door(r) PROVE SlotsSound'
  BY <1>1, <1>a, SlotsQuiet, Ways
     DEF Moves, Halted, ReadRoute, Trim, Door, governor, running
<1>2. ASSUME NEW r \in Runs, Proxy(r) PROVE SlotsSound'
  <2>1. r \in Governed => pc'[r] # "budget"
    BY <1>2, GoIs DEF Proxy, Typed
  <2>2. QED
    BY <1>2, <1>a, <2>1, SlotsQuiet, Ways DEF Moves, Proxy, governor, running
<1>3. ASSUME NEW r \in Runs, Ask(r) \/ Recount(r) \/ Drop(r) \/ Sleep(r) \/ SlotTimeout(r)
      PROVE  SlotsSound'
  BY <1>3, <1>a, SlotsQuiet, Ways
     DEF Moves, Ask, Recount, Drop, Sleep, SlotTimeout, governor, running
<1>4. ASSUME NEW r \in Runs, Poll(r) \/ ReadHeld(r) \/ MyTurn(r) PROVE SlotsSound'
  <2>1. \A q \in Runs : doomed'[q] \subseteq doomed[q] \cup Judged
    BY <1>4 DEF Poll, ReadHeld, MyTurn, Typed, SlotsOK
  <2>2. QED
    BY <1>4, <2>1, SlotsQuiet, Ways DEF Moves, Poll, ReadHeld, MyTurn, governor, running
<1>5. ASSUME NEW r \in Runs, Create(r) PROVE SlotsSound'
  <2>1. CASE UNCHANGED slot
    <3>1. pc'[r] = "wait" /\ UNCHANGED at
      <4>1. ASSUME NEW i \in SlotIds, slot[i] = Free,
                   slot' = [slot EXCEPT ![i] = [run |-> r, child |-> Nobody]]
            PROVE  FALSE
        <5>1. slot'[i] = [run |-> r, child |-> Nobody]
          BY <4>1 DEF Typed, SlotsOK
        <5>2. r = Nobody
          BY <2>1, <4>1, <5>1 DEF Free
        <5>3. QED
          BY <5>2, HeadlessAssumption
      <4>2. QED
        BY <1>5, <4>1, CreateIs, GoIs DEF Typed
    <3>2. QED
      BY <1>5, <1>a, <2>1, <3>1, SlotsQuiet, Ways DEF Moves, Create, governor, running
  <2>2. QED
    BY <1>5, <2>1, SlotsCreate
<1>6. ASSUME NEW r \in Runs, Load(r) \/ Count(r) \/ ReadRows(r) \/ NoteLimit(r) PROVE SlotsSound'
  BY <1>6, <1>a, SlotsQuiet, Ways DEF Moves, Load, Count, ReadRows, NoteLimit, governor, running
<1>7. CASE UNCHANGED <<pc, slot, at, doomed, child, raced, unmarked>>
  BY <1>7 DEF SlotsSound, ChildPlaces, OwnChild, DoomedDead, SlotMine, Orphans, Alive
<1>8. QED
  BY <1>1, <1>2, <1>3, <1>4, <1>5, <1>6, <1>7, SlotsLeft, SlotsReap, SlotsChild, SlotsOwn, SlotsKill
     DEF Next, vars, Step, Age, Stall, Expire, BudgetReset, Forget, Reset, RouteSet, governor, running

----------------------------------------------------------------------------
(* The budget.                                                             *)
LEMMA RunsFinite ==
  /\ \A S \in SUBSET Runs : IsFiniteSet(S) /\ Cardinality(S) \in Nat
  /\ \A S \in SUBSET Runs : \A T \in SUBSET S : Cardinality(T) <= Cardinality(S)
  /\ \A S \in SUBSET Runs, r \in Runs : Cardinality(S \cup {r}) <= Cardinality(S) + 1
<1>1. \A S \in SUBSET Runs : IsFiniteSet(S) /\ Cardinality(S) \in Nat
  BY FS_Subset, FS_CardinalityType, HeadlessAssumption
<1>2. QED
  BY <1>1, FS_Subset, FS_AddElement

(* Every step keeps the budget sound.                                      *)
LEMMA BudgetSoundStep ==
  ASSUME Typed, BudgetSound, [Next]_vars
  PROVE  BudgetSound'
<1> USE DEF Typed, BudgetOK
<1>a. \A q \in Runs : TreeOf[q] \in Trees
  BY DEF Trees
<1>b. Nobody \notin Runs /\ counted \subseteq Runs /\ RunsCap \in Nat
  BY HeadlessAssumption
<1>1. ASSUME UNCHANGED budget, \A q \in Runs : pc'[q] = "count" => pc[q] = "count"
      PROVE  BudgetSound'
  BY <1>1 DEF BudgetSound, budget
<1>2. ASSUME NEW r \in Runs, Load(r) PROVE BudgetSound'
  <2>1. /\ pc[r] = "budget" /\ \A q \in Runs : q # r => pc'[q] = pc[q]
        /\ UNCHANGED <<starts, counted>>
    BY <1>2, Ways DEF Moves, Load
  <2>2. CASE Go(r, "release") /\ UNCHANGED <<lock, copy>>
    BY <1>1, <2>1, <2>2, GoIs DEF budget
  <2>3. CASE /\ lock[TreeOf[r]] = Nobody /\ Cardinality(starts[TreeOf[r]]) < RunsCap
             /\ lock' = [lock EXCEPT ![TreeOf[r]] = r]
             /\ copy' = [copy EXCEPT ![r] = starts[TreeOf[r]]]
    <3>1. \A q \in Runs : pc[q] = "count" => TreeOf[q] # TreeOf[r] /\ q # r
      BY <1>b, <2>1, <2>3 DEF BudgetSound
    <3>2. QED
      BY <1>a, <2>1, <2>3, <3>1 DEF BudgetSound
  <2>4. QED
    BY <1>2, <2>2, <2>3 DEF Load
<1>3. ASSUME NEW r \in Runs, Count(r) PROVE BudgetSound'
  <2>1. /\ pc[r] = "count" /\ pc'[r] # "count" /\ \A q \in Runs : q # r => pc'[q] = pc[q]
        /\ lock' = [lock EXCEPT ![TreeOf[r]] = Nobody] /\ copy' = [copy EXCEPT ![r] = {}]
    BY <1>3, Ways DEF Moves, Count
  <2>2. /\ lock[TreeOf[r]] = r /\ copy[r] = starts[TreeOf[r]] /\ TreeOf[r] \in Trees
        /\ Cardinality(starts[TreeOf[r]]) < RunsCap /\ starts[TreeOf[r]] \in SUBSET Runs
    BY <1>a, <2>1 DEF BudgetSound
  <2>3. \A q \in Runs : pc'[q] = "count" =>
             pc[q] = "count" /\ q # r /\ TreeOf[q] # TreeOf[r] /\ TreeOf[q] \in Trees
    BY <1>a, <2>1, <2>2 DEF BudgetSound
  <2>4. CASE UNCHANGED <<starts, counted>>
    BY <2>1, <2>3, <2>4 DEF BudgetSound
  <2>5. CASE /\ starts' = [starts EXCEPT ![TreeOf[r]] = copy[r] \cup {r}]
             /\ counted' = counted \cup {r}
    <3>1. Cardinality(copy[r] \cup {r}) <= RunsCap
      BY <1>b, <2>2, RunsFinite
    <3>2. \A t \in Trees : starts'[t] = IF t = TreeOf[r] THEN starts[t] \cup {r} ELSE starts[t]
      BY <2>2, <2>5
    <3>3. \A q \in Runs : pc'[q] = "count" => /\ lock'[TreeOf[q]] = q /\ copy'[q] = starts'[TreeOf[q]]
                                             /\ Cardinality(starts'[TreeOf[q]]) < RunsCap
      <4>1. ASSUME NEW q \in Runs, pc'[q] = "count"
            PROVE  /\ lock'[TreeOf[q]] = q /\ copy'[q] = starts'[TreeOf[q]]
                   /\ Cardinality(starts'[TreeOf[q]]) < RunsCap
        <5>1. pc[q] = "count" /\ q # r /\ TreeOf[q] # TreeOf[r] /\ TreeOf[q] \in Trees
          BY <2>3, <4>1
        <5>2. /\ lock[TreeOf[q]] = q /\ copy[q] = starts[TreeOf[q]]
              /\ Cardinality(starts[TreeOf[q]]) < RunsCap
          BY <5>1 DEF BudgetSound
        <5>3. starts'[TreeOf[q]] = starts[TreeOf[q]]
          BY <3>2, <5>1
        <5>4. lock'[TreeOf[q]] = lock[TreeOf[q]] /\ copy'[q] = copy[q]
          BY <1>a, <2>1, <5>1
        <5>5. QED
          BY <5>2, <5>3, <5>4
      <4>2. QED
        BY <4>1
    <3>4. \A t \in Trees : Cardinality(starts'[t]) <= RunsCap
      BY <2>2, <3>1, <3>2 DEF BudgetSound
    <3>5. \A t \in Trees : \A q \in starts'[t] : TreeOf[q] = t
      <4>1. \A t \in Trees : \A q \in starts[t] : TreeOf[q] = t
        BY DEF BudgetSound
      <4>2. QED
        BY <3>2, <4>1, ZenonT(40)
    <3>6. \A q \in counted' : q \in starts'[TreeOf[q]]
      <4>1. \A q \in counted : TreeOf[q] \in Trees /\ q \in starts[TreeOf[q]]
        BY <1>a, <1>b DEF BudgetSound
      <4>2. r \in starts'[TreeOf[r]]
        BY <2>2, <3>2
      <4>3. \A t \in Trees : starts[t] \subseteq starts'[t]
        BY <3>2
      <4>4. \A q \in counted : q \in starts'[TreeOf[q]]
        BY <4>1, <4>3
      <4>5. QED
        BY <2>5, <4>2, <4>4
    <3>7. QED
      BY <3>3, <3>4, <3>5, <3>6 DEF BudgetSound
  <2>6. QED
    BY <1>3, <2>4, <2>5 DEF Count
<1>4. ASSUME NEW r \in Runs, Kill(r) PROVE BudgetSound'
  <2>1. /\ pc'[r] = "dead" /\ \A q \in Runs : q # r => pc'[q] = pc[q]
        /\ lock' = [t \in Trees |-> IF lock[t] = r THEN Nobody ELSE lock[t]]
        /\ copy' = [copy EXCEPT ![r] = {}] /\ UNCHANGED <<starts, counted>>
    BY <1>4, Ways DEF Moves, Kill
  <2>2. QED
    BY <1>a, <2>1 DEF BudgetSound
<1>5. ASSUME NEW t \in Trees, NEW S \in SUBSET starts[t], Forget(t, S) PROVE BudgetSound'
  <2>1. /\ UNCHANGED <<pc, lock>> /\ starts' = [starts EXCEPT ![t] = starts[t] \ S]
        /\ counted' = counted \ S /\ copy' = [q \in Runs |-> copy[q] \ S]
    BY <1>5 DEF Forget
  <2>2. \A u \in Trees : starts'[u] = starts[u] \ S /\ starts'[u] \subseteq starts[u]
    BY <2>1 DEF BudgetSound
  <2>3. \A u \in Trees : /\ Cardinality(starts'[u]) <= Cardinality(starts[u])
                         /\ Cardinality(starts'[u]) \in Nat /\ Cardinality(starts[u]) \in Nat
    <3>1. \A u \in Trees : starts[u] \in SUBSET Runs /\ starts'[u] \in SUBSET starts[u]
      BY <2>2
    <3>2. \A u \in Trees : starts'[u] \in SUBSET Runs
      BY <3>1
    <3>3. QED
      BY <3>1, <3>2, RunsFinite
  <2>4. \A q \in Runs : pc'[q] = "count" => /\ lock'[TreeOf[q]] = q /\ copy'[q] = starts'[TreeOf[q]]
                                           /\ Cardinality(starts'[TreeOf[q]]) < RunsCap
    <3>1. ASSUME NEW q \in Runs, pc'[q] = "count"
          PROVE  /\ lock'[TreeOf[q]] = q /\ copy'[q] = starts'[TreeOf[q]]
                 /\ Cardinality(starts'[TreeOf[q]]) < RunsCap
      <4>1. /\ lock[TreeOf[q]] = q /\ copy[q] = starts[TreeOf[q]] /\ TreeOf[q] \in Trees
            /\ Cardinality(starts[TreeOf[q]]) < RunsCap
        BY <1>a, <2>1, <3>1 DEF BudgetSound
      <4>2. lock'[TreeOf[q]] = q /\ copy'[q] = starts'[TreeOf[q]]
        BY <2>1, <2>2, <4>1
      <4>3. Cardinality(starts'[TreeOf[q]]) < RunsCap
        BY <1>b, <2>3, <4>1
      <4>4. QED
        BY <4>2, <4>3
    <3>2. QED
      BY <3>1
  <2>5. \A u \in Trees : Cardinality(starts'[u]) <= RunsCap
    BY <1>b, <2>3 DEF BudgetSound
  <2>6. \A u \in Trees : \A q \in starts'[u] : TreeOf[q] = u
    BY <2>2 DEF BudgetSound
  <2>7. \A q \in counted' : q \in starts'[TreeOf[q]]
    BY <1>a, <1>b, <2>1, <2>2 DEF BudgetSound
  <2>8. QED
    BY <2>4, <2>5, <2>6, <2>7 DEF BudgetSound
<1>6. ASSUME NEW r \in Runs, Halted(r) \/ ReadRoute(r) \/ Trim(r) \/ Door(r) \/ Proxy(r) \/ Ask(r)
      PROVE  BudgetSound'
  BY <1>1, <1>6, Ways DEF Moves, Halted, ReadRoute, Trim, Door, Proxy, Ask
<1>7. ASSUME NEW r \in Runs,
             Poll(r) \/ ReadHeld(r) \/ MyTurn(r) \/ Recount(r) \/ Create(r) \/ Drop(r) \/ Sleep(r)
      PROVE  BudgetSound'
  BY <1>1, <1>7, Ways DEF Moves, Poll, ReadHeld, MyTurn, Recount, Create, Drop, Sleep
<1>8. ASSUME NEW r \in Runs, SlotTimeout(r) \/ StartChild(r) \/ Mark(r) \/ ChildEnds(r) \/ TimeUp(r)
      PROVE  BudgetSound'
  BY <1>1, <1>8, Ways DEF Moves, SlotTimeout, StartChild, Mark, ChildEnds, TimeUp
<1>9. ASSUME NEW r \in Runs, ReadRows(r) \/ NoteLimit(r) \/ Release(r) PROVE BudgetSound'
  BY <1>1, <1>9, Ways DEF Moves, ReadRows, NoteLimit, Release
<1>10. CASE UNCHANGED pc /\ UNCHANGED budget
  BY <1>1, <1>10
<1>11. QED
  BY <1>2, <1>3, <1>4, <1>5, <1>6, <1>7, <1>8, <1>9, <1>10 DEF Next, vars, Step, Reap, OrphanEnds,
     Age, Stall, Expire, BudgetReset, Reset, RouteSet, budget

----------------------------------------------------------------------------
(* The order of the queue.  A step that leaves the queue as it is.         *)
LEMMA BehindQuiet ==
  ASSUME Typed, BehindSound, UNCHANGED <<asked, aged, behind>>,
         NEW r \in Runs, \A q \in Runs : q # r => pc'[q] = pc[q],
         \A q \in Runs : Waiting(q) /\ ticket[q] = "fresh" => ticket'[q] = "fresh",
         \/ /\ ~Waiting(r) /\ pc[r] \notin {"drop", "dead", "over"}
            /\ pc'[r] \notin {"poll", "reap", "turn", "again", "create", "wait"}
         \/ pc'[r] = "dead"
         \/ /\ Waiting(r)
            /\ pc'[r] \in {"poll", "reap", "turn", "again", "create", "wait", "drop"}
            /\ Width = 1 /\ pc[r] \in {"poll", "reap", "turn", "wait"} =>
                 \/ pc'[r] \in {"poll", "reap", "turn", "wait"}
                 \/ \A p \in behind : p[2] = r => ~Waiting(p[1])
  PROVE  BehindSound'
<1> SUFFICES ASSUME NEW p \in behind
             PROVE  /\ p[1] # p[2] /\ (Waiting(p[1])' \/ pc'[p[1]] \in {"drop", "dead"})
                    /\ Waiting(p[1])' =>
                         /\ p[1] \in aged /\ ticket'[p[1]] = "fresh"
                         /\ Waiting(p[2])' => Place(p[1])' < Place(p[2])'
                         /\ Width = 1 => pc'[p[2]] \in {"poll", "reap", "turn", "wait", "over", "dead"}
  BY DEF BehindSound
<1>1. p[1] \in Runs /\ p[2] \in Runs /\ p[1] # p[2]
  BY HeadlessAssumption DEF Typed, TicketsOK, BehindSound
<1>2. \A q : Place(q)' = Place(q)
  BY DEF Place
<1>3. Waiting(p[1])' \/ pc'[p[1]] \in {"drop", "dead"}
  BY <1>1 DEF BehindSound, Waiting
<1>4. ASSUME Waiting(p[1])'
      PROVE  /\ Waiting(p[1]) /\ p[1] \in aged /\ ticket'[p[1]] = "fresh"
             /\ Waiting(p[2])' => Place(p[1])' < Place(p[2])'
             /\ Width = 1 => pc'[p[2]] \in {"poll", "reap", "turn", "wait", "over", "dead"}
  <2>1. Waiting(p[1])
    BY <1>1, <1>4 DEF BehindSound, Waiting
  <2>2. /\ p[1] \in aged /\ ticket[p[1]] = "fresh"
        /\ Waiting(p[2]) => Place(p[1]) < Place(p[2])
        /\ Width = 1 => pc[p[2]] \in {"poll", "reap", "turn", "wait", "over", "dead"}
    BY <2>1 DEF BehindSound
  <2>3. Waiting(p[2])' => Waiting(p[2])
    BY <1>1 DEF Waiting
  <2>4. Width = 1 => pc'[p[2]] \in {"poll", "reap", "turn", "wait", "over", "dead"}
    <3>1. CASE p[2] # r
      BY <1>1, <2>2, <3>1
    <3>2. CASE p[2] = r
      BY <2>1, <2>2, <3>2 DEF Waiting
    <3>3. QED
      BY <3>1, <3>2
  <2>5. ticket'[p[1]] = "fresh"
    BY <1>1, <2>1, <2>2
  <2>6. QED
    BY <1>2, <2>1, <2>2, <2>3, <2>4, <2>5
<1>5. QED
  BY <1>1, <1>3, <1>4

(* A first ask takes the last place, behind whoever has waited long.       *)
LEMMA BehindAsk ==
  ASSUME Typed, QueueOK, BehindSound, NEW r \in Runs, Ask(r)
  PROVE  BehindSound'
<1>1. /\ pc[r] = "ask" /\ pc'[r] = "poll" /\ \A q \in Runs : q # r => pc'[q] = pc[q]
      /\ ticket' = [ticket EXCEPT ![r] = "fresh"] /\ UNCHANGED aged
      /\ behind' = behind \cup {<<q, r>> : q \in {s \in aged : Waiting(s) /\ ticket[s] = "fresh"}}
  BY Ways DEF Ask, Moves
<1>2. /\ asked \in Seq(Governed) /\ asked' = Append(asked, r) /\ r \in Governed
      /\ ticket \in [Runs -> {"none", "fresh", "silent"}] /\ aged \subseteq Runs
      /\ behind \subseteq Runs \X Runs
  BY <1>1, HeadlessAssumption DEF Ask, Typed, TicketsOK, QueueOK, GovernedQueue, Queueing
<1>3. /\ DOMAIN asked = 1 .. Len(asked) /\ DOMAIN asked' = 1 .. Len(asked) + 1 /\ Len(asked) \in Nat
      /\ asked'[Len(asked) + 1] = r /\ \A i \in DOMAIN asked : asked'[i] = asked[i]
  BY <1>2
<1>4. \A i \in DOMAIN asked : asked[i] # r
  BY <1>1 DEF QueueOK, Waiting
<1>5. \A q \in Runs : Waiting(q) => Place(q)' = Place(q) /\ Place(q) \in DOMAIN asked
  <2> SUFFICES ASSUME NEW q \in Runs, Waiting(q)
               PROVE  Place(q)' = Place(q) /\ Place(q) \in DOMAIN asked
    OBVIOUS
  <2>1. PICK i \in DOMAIN asked : asked[i] = q
    BY DEF QueueOK
  <2>2. Place(q) = i
    BY <2>1, PlaceIs DEF QueueOK, AskedOnce
  <2>3. \A j \in DOMAIN asked' : asked'[j] = q <=> j = i
    BY <1>3, <1>4, <2>1 DEF QueueOK
  <2>4. i \in DOMAIN asked'
    BY <1>3
  <2>5. QED
    BY <2>1, <2>2, <2>3, <2>4 DEF Place
<1>6. Place(r)' = Len(asked) + 1
  <2>1. \A j \in DOMAIN asked' : asked'[j] = r <=> j = Len(asked) + 1
    BY <1>3, <1>4
  <2>2. QED
    BY <1>3, <2>1 DEF Place
<1>7. \A q \in Runs : Waiting(q) => Waiting(q)' /\ q # r /\ Place(q)' < Place(r)'
  BY <1>1, <1>3, <1>5, <1>6 DEF Waiting
<1>8. \A q \in Runs : Waiting(q)' => Waiting(q) \/ q = r
  BY <1>1 DEF Waiting
<1> SUFFICES ASSUME NEW p \in behind'
             PROVE  /\ p[1] # p[2] /\ (Waiting(p[1])' \/ pc'[p[1]] \in {"drop", "dead"})
                    /\ Waiting(p[1])' =>
                         /\ p[1] \in aged' /\ ticket'[p[1]] = "fresh"
                         /\ Waiting(p[2])' => Place(p[1])' < Place(p[2])'
                         /\ Width = 1 => pc'[p[2]] \in {"poll", "reap", "turn", "wait", "over", "dead"}
  BY DEF BehindSound
<1>9. CASE p \in behind
  <2>1. p[1] \in Runs /\ p[2] \in Runs /\ p[1] # p[2] /\ p[1] # r
    BY <1>1, <1>2, <1>9 DEF BehindSound, Waiting
  <2>2. Waiting(p[1])' \/ pc'[p[1]] \in {"drop", "dead"}
    BY <1>1, <1>7, <1>9, <2>1 DEF BehindSound
  <2>3. ASSUME Waiting(p[1])'
        PROVE  /\ p[1] \in aged' /\ ticket'[p[1]] = "fresh"
               /\ Waiting(p[2])' => Place(p[1])' < Place(p[2])'
               /\ Width = 1 => pc'[p[2]] \in {"poll", "reap", "turn", "wait", "over", "dead"}
    <3>1. Waiting(p[1])
      BY <1>8, <2>1, <2>3
    <3>2. /\ p[1] \in aged /\ ticket[p[1]] = "fresh"
          /\ Waiting(p[2]) => Place(p[1]) < Place(p[2])
          /\ Width = 1 => pc[p[2]] \in {"poll", "reap", "turn", "wait", "over", "dead"}
      BY <1>9, <3>1 DEF BehindSound
    <3>3. Waiting(p[2])' => Place(p[1])' < Place(p[2])'
      BY <1>5, <1>7, <1>8, <2>1, <3>1, <3>2
    <3>4. QED
      BY <1>1, <1>2, <2>1, <3>2, <3>3
  <2>4. QED
    BY <2>1, <2>2, <2>3
<1>10. CASE p \notin behind
  <2>1. PICK q \in aged : p = <<q, r>> /\ Waiting(q) /\ ticket[q] = "fresh"
    BY <1>1, <1>10
  <2>2. q \in Runs /\ q # r
    BY <1>2, <1>7, <2>1
  <2>3. QED
    BY <1>1, <1>2, <1>7, <2>1, <2>2
<1>11. QED
  BY <1>9, <1>10

(* With one slot, nobody passes a fresh ticket that has waited long.       *)
LEMMA BehindTurn ==
  ASSUME Typed, QueueOK, BehindSound, NEW r \in Runs, MyTurn(r)
  PROVE  BehindSound'
<1>1. /\ pc[r] = "turn" /\ pc'[r] \in {"again", "wait"} /\ \A q \in Runs : q # r => pc'[q] = pc[q]
      /\ UNCHANGED <<asked, aged, behind>>
      /\ ticket' = [q \in Runs |-> IF TicketLive(q) THEN ticket[q] ELSE "none"]
  BY Ways DEF Moves, MyTurn
<1>2. \A q \in Runs : Waiting(q) /\ ticket[q] = "fresh" => TicketLive(q) /\ ticket'[q] = "fresh"
  BY <1>1 DEF TicketLive, Waiting, Alive
<1>3. ASSUME Width = 1, pc'[r] = "again", NEW p \in behind, p[2] = r, Waiting(p[1]) PROVE FALSE
  <2> DEFINE live == {q \in Runs : TicketLive(q) /\ Of(TreeOf[q], view[r]) < TreeCap}
             ahead == {q \in live \ {r} : Outranks(q, r, view[r])}
  <2>1. r \in live /\ Cardinality(ahead) < Width - Cardinality(view[r])
    <3> DEFINE mine == r \in live /\ Cardinality(ahead) < Width - Cardinality(view[r])
    <3>1. Go(r, IF mine THEN "again" ELSE "wait")
      BY DEF MyTurn
    <3> HIDE DEF mine
    <3>2. mine
      BY <1>3, <3>1 DEF Go, Typed, PcOK
    <3>3. QED
      BY <3>2 DEF mine
  <2>2. view[r] \in SUBSET Runs /\ ahead \in SUBSET Runs
    BY DEF Typed, SlotsOK
  <2>3. Cardinality(view[r]) \in Nat /\ Cardinality(ahead) \in Nat /\ IsFiniteSet(view[r])
        /\ IsFiniteSet(ahead)
    BY <2>2, RunsFinite
  <2>4. Cardinality(ahead) = 0 /\ Cardinality(view[r]) = 0
    BY <1>3, <2>1, <2>3
  <2>5. ahead = {} /\ view[r] = {}
    BY <2>3, <2>4, FS_EmptySet
  <2>6. \A t : Of(t, view[r]) = 0
    <3>1. \A t : {q \in view[r] : TreeOf[q] = t} = {}
      BY <2>5
    <3>2. QED
      BY <3>1, FS_EmptySet DEF Of
  <2>7. /\ p[1] \in Runs /\ p[1] # r /\ p[1] \in aged /\ ticket[p[1]] = "fresh"
        /\ Place(p[1]) < Place(r)
    BY <1>1, <1>3, HeadlessAssumption DEF Typed, TicketsOK, BehindSound, Waiting
  <2>8. p[1] \in live
    BY <1>2, <1>3, <2>6, <2>7, HeadlessAssumption
  <2>9. Tier(p[1]) = 0 /\ Tier(r) \in {0, 1, 2}
    BY <2>7 DEF Tier
  <2>10. Outranks(p[1], r, view[r])
    BY <2>6, <2>7, <2>9 DEF Outranks
  <2>11. QED
    BY <2>5, <2>7, <2>8, <2>10
<1>4. QED
  BY <1>1, <1>2, <1>3, BehindQuiet DEF Waiting

(* A call that drops its ticket leaves the others in their order.          *)
LEMMA BehindDrop ==
  ASSUME Typed, QueueOK, BehindSound, NEW r \in Runs, Drop(r) \/ SlotTimeout(r)
  PROVE  BehindSound'
<1>1. /\ \/ pc[r] = "drop" /\ pc'[r] = "budget"
         \/ pc[r] = "wait" /\ pc'[r] = "over"
      /\ \A q \in Runs : q # r => pc'[q] = pc[q]
  BY Ways DEF Moves
<1>2. DropTicket(r) /\ (Waiting(r) \/ pc[r] = "drop")
  BY DEF Drop, SlotTimeout, At, Waiting
<1>3. /\ \A p, q \in Governed \ {r} :
             Asked(p) /\ Asked(q) /\ Place(p) < Place(q) => Place(p)' < Place(q)'
      /\ ticket' = [ticket EXCEPT ![r] = "none"] /\ aged' = aged \ {r}
      /\ behind' = {p \in behind : p[1] # r}
  BY <1>2, DropTicketIs
<1> SUFFICES ASSUME NEW p \in behind, p[1] # r
             PROVE  /\ p[1] # p[2] /\ (Waiting(p[1])' \/ pc'[p[1]] \in {"drop", "dead"})
                    /\ Waiting(p[1])' =>
                         /\ p[1] \in aged' /\ ticket'[p[1]] = "fresh"
                         /\ Waiting(p[2])' => Place(p[1])' < Place(p[2])'
                         /\ Width = 1 => pc'[p[2]] \in {"poll", "reap", "turn", "wait", "over", "dead"}
  BY <1>3 DEF BehindSound
<1>4. p[1] \in Governed /\ p[2] \in Governed /\ p[1] \in Runs /\ p[2] \in Runs /\ p[1] # p[2]
  BY HeadlessAssumption DEF Typed, TicketsOK, BehindSound
<1>5. pc'[p[1]] = pc[p[1]] /\ (Waiting(p[1])' <=> Waiting(p[1]))
  BY <1>1, <1>4 DEF Waiting
<1>6. ASSUME Waiting(p[1])
      PROVE  /\ p[1] \in aged' /\ ticket'[p[1]] = "fresh"
             /\ Waiting(p[2])' => Place(p[1])' < Place(p[2])'
             /\ Width = 1 => pc'[p[2]] \in {"poll", "reap", "turn", "wait", "over", "dead"}
  <2>1. /\ p[1] \in aged /\ ticket[p[1]] = "fresh"
        /\ Waiting(p[2]) => Place(p[1]) < Place(p[2])
        /\ Width = 1 => pc[p[2]] \in {"poll", "reap", "turn", "wait", "over", "dead"}
    BY <1>6 DEF BehindSound
  <2>2. Waiting(p[2])' => p[2] # r /\ Waiting(p[2])
    BY <1>1, <1>4 DEF Waiting
  <2>3. Waiting(p[2])' => Place(p[1])' < Place(p[2])'
    <3>1. ASSUME Waiting(p[2])' PROVE Place(p[1])' < Place(p[2])'
      <4>1. Asked(p[1]) /\ Asked(p[2]) /\ Place(p[1]) < Place(p[2])
        BY <1>4, <1>6, <2>1, <2>2, <3>1 DEF Asked, QueueOK
      <4>2. p[1] \in Governed \ {r} /\ p[2] \in Governed \ {r}
        BY <1>4, <2>2, <3>1
      <4>3. QED
        BY <1>3, <4>1, <4>2
    <3>2. QED
      BY <3>1
  <2>4. Width = 1 => pc'[p[2]] \in {"poll", "reap", "turn", "wait", "over", "dead"}
    BY <1>1, <1>4, <2>1
  <2>5. p[1] \in aged' /\ ticket'[p[1]] = "fresh"
    BY <1>3, <1>4, <2>1 DEF Typed, TicketsOK
  <2>6. QED
    BY <2>3, <2>4, <2>5
<1>7. QED
  BY <1>4, <1>5, <1>6 DEF BehindSound

(* Every step keeps the order of the queue.                                *)
LEMMA BehindStep ==
  ASSUME Typed, QueueOK, BehindSound, [Next]_vars
  PROVE  BehindSound'
<1> USE DEF Waiting
<1>1. ASSUME NEW r \in Runs, Halted(r) \/ ReadRoute(r) \/ Trim(r) \/ Door(r) \/ Proxy(r)
      PROVE  BehindSound'
  BY <1>1, Ways, BehindQuiet DEF Moves, Halted, ReadRoute, Trim, Door, Proxy, tickets
<1>2. ASSUME NEW r \in Runs, Poll(r) PROVE BehindSound'
  <2>1. UNCHANGED <<asked, aged, behind>> /\ \A q \in Runs : ticket[q] = "fresh" => ticket'[q] = "fresh"
    BY <1>2 DEF Poll, Typed, TicketsOK
  <2>2. QED
    BY <1>2, <2>1, Ways, BehindQuiet DEF Moves
<1>3. ASSUME NEW r \in Runs, ReadHeld(r) \/ Recount(r) \/ Create(r) \/ Sleep(r) PROVE BehindSound'
  BY <1>3, Ways, BehindQuiet DEF Moves, ReadHeld, Recount, Create, Sleep, tickets
<1>4. ASSUME NEW r \in Runs,
             Load(r) \/ Count(r) \/ StartChild(r) \/ Mark(r) \/ ChildEnds(r) \/ TimeUp(r)
      PROVE  BehindSound'
  BY <1>4, Ways, BehindQuiet DEF Moves, Load, Count, StartChild, Mark, ChildEnds, TimeUp, tickets
<1>5. ASSUME NEW r \in Runs, ReadRows(r) \/ NoteLimit(r) \/ Release(r) \/ Kill(r) PROVE BehindSound'
  BY <1>5, Ways, BehindQuiet DEF Moves, ReadRows, NoteLimit, Release, Kill, tickets
<1>6. ASSUME NEW r \in Runs, Age(r) PROVE BehindSound'
  BY <1>6 DEF Age, BehindSound, Place
<1>7. ASSUME NEW r \in Runs, Stall(r) PROVE BehindSound'
  BY <1>7, HeadlessAssumption DEF Stall, BehindSound, Place, Typed, TicketsOK
<1>8. CASE UNCHANGED pc /\ UNCHANGED tickets
  BY <1>8 DEF BehindSound, Place, tickets
<1>9. QED
  BY <1>1, <1>2, <1>3, <1>4, <1>5, <1>6, <1>7, <1>8, BehindAsk, BehindTurn, BehindDrop
     DEF Next, vars, Step, Reap, OrphanEnds, Expire, BudgetReset, Forget, Reset, RouteSet, tickets

----------------------------------------------------------------------------
(* The theorems.                                                           *)
HeadlessInv ==
  Typed /\ QueueOK /\ Entered /\ SlotsSound /\ BudgetSound /\ BehindSound

(* The invariant holds at the start.                                       *)
LEMMA InitIsSound == ASSUME Init PROVE HeadlessInv
<1> USE DEF Init
<1>1. Typed
  <2>1. PcOK /\ RunningOK
    BY Places DEF PcOK, RunningOK
  <2>5. TicketsOK
    BY DEF TicketsOK
  <2>2. SlotsOK
    BY SlotFilesAre DEF SlotsOK
  <2>3. BudgetOK
    BY DEF BudgetOK
  <2>4. RouteOK
    BY DEF RouteOK
  <2>6. QED
    BY <2>1, <2>2, <2>3, <2>4, <2>5 DEF Typed
<1>2. QueueOK /\ Entered
  BY DEF QueueOK, GovernedQueue, Queueing, Entered, Waiting
<1>3. SlotsSound
  <2>1. ChildPlaces /\ Orphans
    BY DEF ChildPlaces, Orphans
  <2>2. OwnChild
    BY DEF OwnChild, Free
  <2>3. DoomedDead
    BY DEF DoomedDead
  <2>4. SlotMine
    BY HeadlessAssumption DEF SlotMine, HasSlot
  <2>5. QED
    BY <2>1, <2>2, <2>3, <2>4 DEF SlotsSound
<1>4. BudgetSound
  <2>1. Cardinality({}) = 0
    BY FS_EmptySet
  <2>2. QED
    BY <2>1, HeadlessAssumption DEF BudgetSound
<1>5. BehindSound
  BY DEF BehindSound
<1>6. QED
  BY <1>1, <1>2, <1>3, <1>4, <1>5 DEF HeadlessInv

(* Every step keeps the invariant.                                         *)
LEMMA StepKeepsHeadlessInv == ASSUME HeadlessInv, [Next]_vars PROVE HeadlessInv'
<1> USE DEF HeadlessInv
<1>1. Typed'
  BY PcStep, SlotsStep, TicketsStep, BudgetTypeStep, RouteStep, RunningStep DEF Typed
<1>2. QueueOK' /\ Entered'
  BY QueueStep, EnteredStep
<1>3. SlotsSound' /\ BudgetSound' /\ BehindSound'
  BY SlotsSoundStep, BudgetSoundStep, BehindStep DEF QueueOK
<1>4. QED
  BY <1>1, <1>2, <1>3

(* The inductive invariant of spawn.                                       *)
THEOREM HeadlessInvariant == Spec => []HeadlessInv
<1>1. Init => HeadlessInv
  BY InitIsSound
<1>2. HeadlessInv /\ [Next]_vars => HeadlessInv'
  BY StepKeepsHeadlessInv
<1>3. QED
  BY <1>1, <1>2, PTL DEF Spec

(* The variables of spawn keep their types.                                *)
THEOREM HeadlessTypeCorrect == Spec => []TypeOK
<1>1. HeadlessInv => TypeOK
  BY DEF HeadlessInv, Typed, PcOK, SlotsOK, TicketsOK, BudgetOK, RouteOK, RunningOK, TypeOK, SlotFiles
<1>2. QED
  BY <1>1, HeadlessInvariant, PTL

(* Each governed child that runs is named by a slot file of its own: there *)
(* are no more of them than slots.                                         *)
LEMMA ChildrenHaveSlots ==
  ASSUME Typed, SlotsSound, ~raced, ~unmarked
  PROVE  Cardinality(child \cap Governed) <= Width
<1> DEFINE S == child \cap Governed
           f == [r \in S |-> CHOOSE i \in SlotIds : slot[i].run = r]
<1>1. ASSUME NEW r \in S PROVE \E i \in SlotIds : slot[i].run = r
  <2>1. pc[r] \in {"mark", "run", "dead"} /\ r \in Runs /\ at[r] \in SlotIds
    BY HeadlessAssumption DEF SlotsSound, ChildPlaces, Typed, RunningOK, SlotsOK
  <2>2. CASE pc[r] \in {"mark", "run"}
    BY <2>1, <2>2 DEF SlotsSound, SlotMine, HasSlot
  <2>3. CASE pc[r] = "dead"
    <3>1. PICK i \in SlotIds : slot[i] = [run |-> r, child |-> r]
      BY <2>3 DEF SlotsSound, Orphans
    <3>2. QED
      BY <3>1
  <2>4. QED
    BY <2>1, <2>2, <2>3
<1>2. \A r \in S : f[r] \in SlotIds /\ slot[f[r]].run = r
  BY <1>1
<1>3. f \in Injection(S, SlotIds)
  <2>1. f \in [S -> SlotIds]
    BY <1>2
  <2>2. \A a, b \in S : f[a] = f[b] => a = b
    BY <1>2
  <2> HIDE DEF f
  <2>3. QED
    BY <2>1, <2>2 DEF Injection, IsInjective
<1>4. IsFiniteSet(SlotIds) /\ Cardinality(SlotIds) = Width
  <2>1. 0 \in Int /\ Width - 1 \in Int /\ ~(0 > Width - 1) /\ (Width - 1) - 0 + 1 = Width
    BY HeadlessAssumption
  <2>2. QED
    BY <2>1, FS_Interval DEF SlotIds
<1>5. Cardinality(S) <= Cardinality(SlotIds)
  BY <1>3, <1>4, FS_Injection
<1>6. QED
  BY <1>4, <1>5

(* However many spawns start at once, and whoever is killed: the governed  *)
(* children that run are no more than the slots, while no spawn died whose *)
(* child was not recorded and no unlink hit a slot that was not judged; and *)
(* the starts of a tree in the window are within its cap (RunBudget.start, *)
(* try_governor, mark_child).                                              *)
THEOREM SpawnsAreBounded == Spec => []SpawnsBounded
<1>1. ASSUME HeadlessInv PROVE SpawnsBounded
  <2>1. ~unmarked /\ ~raced => Cardinality(child \cap Governed) <= Width
    BY <1>1, ChildrenHaveSlots DEF HeadlessInv
  <2>2. ASSUME NEW t \in Trees PROVE Of(t, counted) <= RunsCap
    <3>1. {r \in counted : TreeOf[r] = t} \in SUBSET starts[t] /\ starts[t] \in SUBSET Runs
      BY <1>1, <2>2 DEF HeadlessInv, BudgetSound, Typed, BudgetOK
    <3>2. Cardinality({r \in counted : TreeOf[r] = t}) <= Cardinality(starts[t])
      BY <3>1, RunsFinite
    <3>3. {r \in counted : TreeOf[r] = t} \in SUBSET Runs
      BY <3>1
    <3>4. /\ Cardinality(starts[t]) <= RunsCap /\ Cardinality(starts[t]) \in Nat
          /\ Cardinality({r \in counted : TreeOf[r] = t}) \in Nat
      BY <1>1, <3>1, <3>3, RunsFinite DEF HeadlessInv, BudgetSound
    <3>5. QED
      BY <3>2, <3>4, HeadlessAssumption DEF Of
  <2>3. QED
    BY <2>1, <2>2 DEF SpawnsBounded
<1>2. QED
  BY <1>1, HeadlessInvariant, PTL

(* With one slot, a call that first asked when another had already waited  *)
(* MAX_WAIT_S gets it only after that one, however the ranks of the two    *)
(* would be without the wait (ticket_rank, my_turn).                       *)
THEOREM TheAgedGoFirst == Spec => []AgedFirst
<1>1. HeadlessInv => AgedFirst
  BY DEF HeadlessInv, BehindSound, AgedFirst
<1>2. QED
  BY <1>1, HeadlessInvariant, PTL

(* A row of an exhausted account leaves the file only by `route set` or by *)
(* a writer that had read the file before the row was there                *)
(* (_write_fallback_state, exhaust_entry).                                 *)
THEOREM ExhaustionIsKept == Spec => ExhaustionKept
<1> DEFINE Kept == \A e \in listed \ passed : e \notin listed' =>
               \/ listed' = {} /\ pc' = pc
               \/ \E r \in Runs : pc[r] \in {"trim", "note"} /\ pc'[r] # pc[r] /\ e \notin base[r]
<1>1. ASSUME HeadlessInv, [Next]_vars PROVE [Kept]_vars
  <2>1. ASSUME NEW r \in Runs, Trim(r) \/ NoteLimit(r) PROVE Kept
    <3>1. pc[r] \in {"trim", "note"} /\ pc'[r] # pc[r]
      BY <1>1, <2>1, Ways DEF HeadlessInv, Moves
    <3>2. \A e \in listed \ passed : e \notin listed' => e \notin base[r]
      BY <2>1 DEF Trim, NoteLimit, WithOwn
    <3>3. QED
      BY <3>1, <3>2
  <2>2. CASE RouteSet
    BY <2>2 DEF RouteSet
  <2>3. CASE UNCHANGED listed
    BY <2>3
  <2>4. ASSUME NEW r \in Runs, Step(r) PROVE Trim(r) \/ NoteLimit(r) \/ UNCHANGED listed
    <3>1. CASE \/ Halted(r) \/ ReadRoute(r) \/ Door(r) \/ Proxy(r) \/ Ask(r) \/ Poll(r)
               \/ Reap(r) \/ ReadHeld(r) \/ MyTurn(r) \/ Recount(r) \/ Create(r)
      BY <3>1 DEF route, Halted, ReadRoute, Door, Proxy, Ask, Poll, Reap, ReadHeld, MyTurn,
         Recount, Create
    <3>2. CASE \/ Drop(r) \/ Sleep(r) \/ SlotTimeout(r) \/ Load(r) \/ Count(r) \/ StartChild(r)
               \/ Mark(r) \/ ChildEnds(r) \/ TimeUp(r) \/ ReadRows(r) \/ Release(r)
      BY <3>2 DEF route, Drop, Sleep, SlotTimeout, Load, Count, StartChild, Mark, ChildEnds,
         TimeUp, ReadRows, Release
    <3>3. QED
      BY <2>4, <3>1, <3>2 DEF Step
  <2>5. ASSUME NEW r \in Runs, Kill(r) \/ OrphanEnds(r) \/ Age(r) \/ Stall(r)
        PROVE  UNCHANGED listed
    BY <2>5 DEF route, Kill, OrphanEnds, Age, Stall
  <2>6. ASSUME NEW t \in Trees, Expire(t) \/ BudgetReset(t) PROVE UNCHANGED listed
    BY <2>6 DEF route, Expire, BudgetReset, Forget
  <2>7. CASE Reset \/ UNCHANGED vars
    BY <2>7 DEF route, Reset, vars
  <2>8. QED
    BY <1>1, <2>1, <2>2, <2>3, <2>4, <2>5, <2>6, <2>7 DEF Next
<1>2. QED
  BY <1>1, HeadlessInvariant, PTL DEF Spec, ExhaustionKept

----------------------------------------------------------------------------
(* The responder.  What a fire carries at each place: the note in hand,    *)
(* the parts of a batch, its row in the record of replies.                 *)
OneSender(S) == \A m, n \in S : From[m] = From[n]
Batched(x) == x.at = "post" \/ (x.at = "save" /\ x.note = Nothing)
Fresh(x) == x.note = Nothing /\ x.parts = {} /\ ~x.row /\ x.sent = "no" /\ ~x.exempt
Formed(x) ==
  /\ x.at \in {"off", "triage", "pick"} => Fresh(x)
  /\ Batched(x) =>
       /\ x.note = Nothing /\ x.sent = "no" /\ ~x.exempt /\ x.todo = {}
       /\ x.parts # {} /\ OneSender(x.parts) /\ x.parts \subseteq x.batch
  /\ x.at \in {"draft", "bounce", "mark", "reserve"} =>
       /\ x.note # Nothing /\ x.parts = {} /\ ~x.row
       /\ x.sent = IF x.at = "mark" THEN "bounce" ELSE "no"
  /\ x.at = "deliver" => x.note # Nothing /\ x.sent = "no"
  /\ x.at \in {"deliver", "save"} /\ x.note # Nothing =>
       x.parts = {x.note} /\ x.sent \in {"no", "reply"}
  /\ x.at = "forget" => x.note # Nothing /\ x.parts = {} /\ x.sent = "no"
  /\ x.at = "settle" => x.note # Nothing /\ x.parts = {}
FormOK == \A f \in Fires : Formed(fire[f])

(* A row that the record counts for a reply which has not landed.          *)
Target(x, s) == \E n \in x.parts \cup ({x.note} \ {Nothing}) : From[n] = s
Owes(x, s) ==
  /\ x.row /\ Target(x, s)
  /\ \/ x.at \in {"post", "deliver"}
     \/ x.at \in {"save", "forget", "settle"} /\ x.note # Nothing /\ x.sent = "no"
Due(x, s) == IF Owes(x, s) THEN 1 ELSE 0
Plain(x, s) == IF Owes(x, s) /\ ~x.exempt THEN 1 ELSE 0

(* What was sent and what is due is counted, and what is due and counts    *)
(* against the cap fits it.                                                *)
RowsOK ==
  \A f, g \in Fires : f # g =>
    \A s \in Senders :
      /\ past.sent[s] + Due(fire[f], s) + Due(fire[g], s) <= disk.out[s]
      /\ past.sent[s] + Plain(fire[f], s) + Plain(fire[g], s) <= MaxReplies

(* Who works alone: x is its record, and what it has read is what there is *)
(* but for what it has done itself.  The daily count is open to who works  *)
(* for a sibling; it lacks what such a fire has just sent, and what it     *)
(* could not write.                                                        *)
Alone(f) == \A g \in Fires \ {f} : IsAt(g, "off")
Sibling(x) == x.note # Nothing /\ ~IsMain(x.note)
Told(x) == Sibling(x) /\ x.sent # "no"
DayOK(x) ==
  /\ x.at = "post" \/ Sibling(x) => disk.day < DailyCap
  /\ x.at = "pick" => \A n \in x.work : IsMain(n) \/ disk.day < DailyCap
  /\ past.sibs <= disk.day + past.lost + 1
  /\ ~Told(x) => past.sibs <= disk.day + past.lost

(* The sessions that a note has had are its failures, recorded or not, and *)
(* the one it is in.  A note of Main whose failures are at the bound has   *)
(* failed to cool down, which is one that is not recorded.                 *)
Fits(n) ==
  /\ past.drafts[n] <= disk.worked[n] + past.failed[n]
  /\ IsMain(n) => past.drafts[n] < MaxWork + past.failed[n]
Open(n) == n \notin disk.cool /\ (IsMain(n) \/ disk.worked[n] < MaxWork)
WorkOK(x) ==
  /\ x.at = "pick" => \A n \in x.work : Open(n)
  /\ x.note # Nothing => /\ Open(x.note)
                         /\ past.drafts[x.note] <= disk.worked[x.note] + past.failed[x.note] + 1
  /\ x.at = "draft" => Fits(x.note)
  /\ x.at = "settle" /\ x.sent = "reply" => x.note \in disk.answered
  /\ \A n \in Notes :
       /\ past.drafts[n] <= MaxWork + past.failed[n]
       /\ x.note # n => n \in disk.answered \cup disk.cool \/ Fits(n)

(* The record of the answered and the replies that landed are those of the *)
(* same notes, but for what the fire is about to write.                    *)
Saving(x, n) == x.at = "save" /\ n \in x.parts /\ (x.note = Nothing \/ x.sent = "reply")
Reading(x) == x.at = "triage" \/ Batched(x)
RecordOK(x) ==
  \A n \in Notes :
    /\ past.landed[n] <= 1
    /\ past.landed[n] > 0 => n \in disk.answered \/ Saving(x, n)
    /\ n \in disk.answered => past.landed[n] > 0 \/ (x.at = "forget" /\ x.note = n)
    /\ IsMain(n) /\ disk.seen[n] = "done" => past.landed[n] > 0
    /\ Saving(x, n) => past.landed[n] > 0
    /\ x.note = n /\ x.sent # "reply" => past.landed[n] = 0
ReadOK(x) ==
  Reading(x) =>
    /\ \A n \in x.answered : past.landed[n] > 0
    /\ \A n \in x.todo \ x.answered : past.landed[n] = 0
    /\ \A n \in x.batch : ~IsMain(n)
    /\ \A n \in x.batch :
         past.landed[n] = 0 \/ (x.at = "save" /\ \E p \in x.parts : From[p] = From[n])

BouncesOK(x) ==
  \A n \in Notes :
    /\ past.bounces[n] <= 1
    /\ past.bounces[n] > 0 => n \in disk.bounced \/ (x.at = "mark" /\ x.note = n)

CalmWith(x) == DayOK(x) /\ WorkOK(x) /\ RecordOK(x) /\ ReadOK(x) /\ BouncesOK(x)
CalmOK ==
  past.hit = {} =>
    /\ \E f \in Fires : Alone(f)
    /\ \A f \in Fires : Alone(f) => CalmWith(fire[f])

----------------------------------------------------------------------------
(* Types.                                                                  *)
(* The bounds of the records are numbers.                                  *)
LEMMA ReplyBounds ==
  /\ PerFire \in Nat /\ MaxReplies \in Nat /\ DailyCap \in Nat /\ MaxTriage \in Nat
  /\ MaxWork \in Nat \ {0} /\ DeferMax \in Nat \ {0, 1} /\ MaxIncidents \in Nat
  /\ MostSibs \in Nat /\ MostDrafts \in Nat
BY ResponderAssumption DEF MostSibs, MostDrafts

(* A fire's record keeps its form when a field is written, and so when     *)
(* several are.                                                            *)
LEMMA FireEdits ==
  ASSUME NEW x \in FireRecord
  PROVE  /\ \A v \in FirePlaces : [x EXCEPT !.at = v] \in FireRecord
         /\ \A v \in BOOLEAN : /\ [x EXCEPT !.ok = v] \in FireRecord
                               /\ [x EXCEPT !.row = v] \in FireRecord
                               /\ [x EXCEPT !.exempt = v] \in FireRecord
         /\ \A v \in 0 .. PerFire : [x EXCEPT !.left = v] \in FireRecord
         /\ \A v \in 0 .. DailyCap : [x EXCEPT !.room = v] \in FireRecord
         /\ \A v \in SUBSET Senders : [x EXCEPT !.capped = v] \in FireRecord
         /\ \A v \in SUBSET Notes :
              /\ [x EXCEPT !.answered = v] \in FireRecord /\ [x EXCEPT !.spent = v] \in FireRecord
              /\ [x EXCEPT !.todo = v] \in FireRecord /\ [x EXCEPT !.batch = v] \in FireRecord
              /\ [x EXCEPT !.work = v] \in FireRecord /\ [x EXCEPT !.parts = v] \in FireRecord
         /\ \A v \in Notes : [x EXCEPT !.note = v] \in FireRecord
         /\ \A v \in {"no", "reply", "bounce"} : [x EXCEPT !.sent = v] \in FireRecord
<1>1. /\ \A v \in FirePlaces : [x EXCEPT !.at = v] \in FireRecord
      /\ \A v \in Notes : [x EXCEPT !.note = v] \in FireRecord
      /\ \A v \in {"no", "reply", "bounce"} : [x EXCEPT !.sent = v] \in FireRecord
  BY DEF FireRecord
<1>2. \A v \in BOOLEAN : /\ [x EXCEPT !.ok = v] \in FireRecord
                         /\ [x EXCEPT !.row = v] \in FireRecord
                         /\ [x EXCEPT !.exempt = v] \in FireRecord
  BY DEF FireRecord
<1>3. /\ \A v \in 0 .. PerFire : [x EXCEPT !.left = v] \in FireRecord
      /\ \A v \in 0 .. DailyCap : [x EXCEPT !.room = v] \in FireRecord
      /\ \A v \in SUBSET Senders : [x EXCEPT !.capped = v] \in FireRecord
  BY DEF FireRecord
<1>4. \A v \in SUBSET Notes : /\ [x EXCEPT !.answered = v] \in FireRecord
                              /\ [x EXCEPT !.spent = v] \in FireRecord
                              /\ [x EXCEPT !.todo = v] \in FireRecord
  BY DEF FireRecord
<1>5. \A v \in SUBSET Notes : /\ [x EXCEPT !.batch = v] \in FireRecord
                              /\ [x EXCEPT !.work = v] \in FireRecord
                              /\ [x EXCEPT !.parts = v] \in FireRecord
  BY DEF FireRecord
<1>6. QED
  BY <1>1, <1>2, <1>3, <1>4, <1>5

(* What a fire's record says.                                              *)
LEMMA FireFields ==
  ASSUME NEW x \in FireRecord
  PROVE  /\ x.at \in FirePlaces /\ x.ok \in BOOLEAN /\ x.left \in 0 .. PerFire
         /\ x.room \in 0 .. DailyCap /\ x.answered \in SUBSET Notes /\ x.capped \in SUBSET Senders
         /\ x.spent \in SUBSET Notes /\ x.todo \in SUBSET Notes /\ x.batch \in SUBSET Notes
         /\ x.work \in SUBSET Notes /\ x.note \in Notes \cup {Nothing} /\ x.exempt \in BOOLEAN
         /\ x.parts \in SUBSET Notes /\ x.row \in BOOLEAN /\ x.sent \in {"no", "reply", "bounce"}
         /\ DOMAIN x = {"at", "ok", "left", "room", "answered", "capped", "spent", "todo", "batch",
                        "work", "note", "exempt", "parts", "row", "sent"}
BY DEF FireRecord

(* The record of who is not there.                                        *)
LEMMA IdleIs == Idle \in FireRecord
BY ReplyBounds DEF Idle, FireRecord, FirePlaces

(* What the records on disk say.                                           *)
LEMMA DiskFields ==
  ASSUME NEW d \in DiskRecord
  PROVE  /\ d.answered \in SUBSET Notes /\ d.bounced \in SUBSET Notes /\ d.cool \in SUBSET Notes
         /\ d.day \in 0 .. DailyCap /\ d.seen \in [Notes -> {"new", "work", "done"}]
         /\ d.tried \in [Notes -> 0 .. MaxTriage] /\ d.worked \in [Notes -> 0 .. MaxWork]
         /\ d.defer \in [Notes -> 0 .. DeferMax] /\ d.out \in [Senders -> Nat]
         /\ DOMAIN d = {"answered", "bounced", "cool", "day", "seen", "tried", "worked", "defer",
                        "out"}
BY DEF DiskRecord

(* They keep their form when one of them is written.                       *)
LEMMA DiskEdits ==
  ASSUME NEW d \in DiskRecord
  PROVE  /\ \A v \in [Notes -> {"new", "work", "done"}] : [d EXCEPT !.seen = v] \in DiskRecord
         /\ \A v \in SUBSET Notes : /\ [d EXCEPT !.answered = v] \in DiskRecord
                                    /\ [d EXCEPT !.bounced = v] \in DiskRecord
                                    /\ [d EXCEPT !.cool = v] \in DiskRecord
         /\ \A v \in [Notes -> 0 .. MaxTriage] : [d EXCEPT !.tried = v] \in DiskRecord
         /\ \A v \in [Notes -> 0 .. MaxWork] : [d EXCEPT !.worked = v] \in DiskRecord
         /\ \A v \in [Notes -> 0 .. DeferMax] : [d EXCEPT !.defer = v] \in DiskRecord
         /\ \A v \in [Senders -> Nat] : [d EXCEPT !.out = v] \in DiskRecord
         /\ \A v \in 0 .. DailyCap : [d EXCEPT !.day = v] \in DiskRecord
BY DEF DiskRecord

(* What the history says.                                                  *)
LEMMA PastFields ==
  ASSUME NEW p \in PastRecord
  PROVE  /\ p.landed \in [Notes -> 0 .. 2] /\ p.bounces \in [Notes -> 0 .. 2]
         /\ p.drafts \in [Notes -> 0 .. MostDrafts] /\ p.sent \in [Senders -> Nat]
         /\ p.sibs \in 0 .. MostSibs /\ p.lost \in Nat /\ p.failed \in [Notes -> Nat]
         /\ p.hit \in SUBSET {"overlap", "unsaved", "unmarked", "crash"}
         /\ DOMAIN p = {"landed", "bounces", "drafts", "sent", "sibs", "lost", "failed", "hit"}
BY DEF PastRecord

(* It keeps its form when something happens.                               *)
LEMMA PastEdits ==
  ASSUME NEW p \in PastRecord
  PROVE  /\ \A v \in SUBSET {"overlap", "unsaved", "unmarked", "crash"} :
              [p EXCEPT !.hit = v] \in PastRecord
         /\ \A v \in [Notes -> 0 .. 2] : /\ [p EXCEPT !.landed = v] \in PastRecord
                                         /\ [p EXCEPT !.bounces = v] \in PastRecord
         /\ \A v \in [Notes -> 0 .. MostDrafts] : [p EXCEPT !.drafts = v] \in PastRecord
         /\ \A v \in [Senders -> Nat] : [p EXCEPT !.sent = v] \in PastRecord
         /\ \A v \in 0 .. MostSibs : [p EXCEPT !.sibs = v] \in PastRecord
         /\ \A v \in Nat : [p EXCEPT !.lost = v] \in PastRecord
         /\ \A v \in [Notes -> Nat] : [p EXCEPT !.failed = v] \in PastRecord
BY DEF PastRecord

----------------------------------------------------------------------------
(* The turns of a fire, in the fields that the invariant is about: x is    *)
(* its record before, y after.                                             *)
InHand(x, y) ==
  y.note = x.note /\ y.parts = x.parts /\ y.row = x.row /\ y.sent = x.sent /\ y.exempt = x.exempt
Counts == <<disk.day, disk.worked, disk.cool>>
Ledgers == <<disk.answered, disk.bounced>>
DoneOf(S) ==
  \A n \in Notes : disk'.seen[n] = "done" /\ disk.seen[n] # "done" => ~IsMain(n) \/ n \in S
Stumbles == past'.hit # {} /\ past'.sent = past.sent

StartTurn(f, x, y) ==
  /\ x.at = "off" /\ y.at = "triage" /\ Fresh(y) /\ y.answered = disk.answered /\ y.batch = {}
  /\ y.todo \subseteq Notes /\ UNCHANGED disk
  /\ \/ UNCHANGED past /\ \A g \in Fires \ {f} : IsAt(g, "off")
     \/ Stumbles

EndTurn(x, y) ==
  /\ y.at = "off" /\ Fresh(y)
  /\ UNCHANGED <<Counts, Ledgers, disk.seen, disk.out>>
  /\ \/ x.at \in {"pick", "draft"} /\ UNCHANGED past
     \/ Stumbles

(* Nothing that the invariant is about: a mark fails.                      *)
SameTurn(x, y) ==
  /\ x.at # "off" /\ y.at = x.at /\ InHand(x, y) /\ UNCHANGED <<disk, past>>
  /\ y.answered = x.answered /\ y.todo = x.todo /\ y.batch = x.batch /\ y.work = x.work

(* A note is read, a session has ended, a batch is not sent.               *)
ReadTurn(x, y) ==
  /\ x.at = "triage" /\ y.at = "triage" /\ InHand(x, y) /\ y.answered = x.answered
  /\ y.todo \subseteq x.todo
  /\ \A n \in y.batch \ x.batch : n \in x.todo \ x.answered /\ ~IsMain(n)
  /\ UNCHANGED <<Counts, Ledgers, disk.out, past>> /\ DoneOf(x.answered)

(* A batch is sent to s: reserved, landed, or taken back.                  *)
BatchTurn(x, y, s) ==
  /\ y.answered = x.answered /\ y.todo = x.todo /\ y.note = x.note /\ y.sent = x.sent
  /\ y.exempt = x.exempt
  /\ \/ /\ x.at = "triage" /\ y.at = "post" /\ y.row /\ x.todo = {} /\ y.batch = x.batch
        /\ y.parts # {} /\ y.parts \subseteq x.batch /\ \A n \in y.parts : From[n] = s
        /\ disk.day < DailyCap /\ disk.out[s] < MaxReplies
        /\ disk'.out = [disk.out EXCEPT ![s] = @ + 1]
        /\ UNCHANGED <<Counts, Ledgers, disk.seen, past>>
     \/ /\ x.at = "post" /\ y.at = "save" /\ y.row = x.row /\ y.parts = x.parts /\ y.batch = x.batch
        /\ \A n \in x.parts : From[n] = s
        /\ \/ disk'.day = Tally(disk.day) /\ past'.lost = past.lost
           \/ disk'.day = disk.day /\ past'.lost = past.lost + 1
        /\ UNCHANGED <<disk.worked, disk.cool, Ledgers, disk.out, disk.seen>>
        /\ past'.landed = [n \in Notes |-> IF n \in x.parts THEN Up(past.landed[n], 2)
                                           ELSE past.landed[n]]
        /\ past'.sent = IF x.row THEN [past.sent EXCEPT ![s] = @ + 1] ELSE past.sent
        /\ past'.sibs \in {past.sibs, Up(past.sibs, MostSibs)}
        /\ UNCHANGED <<past.bounces, past.drafts, past.failed, past.hit>>
     \/ /\ x.at = "post" /\ y.at = "triage" /\ Fresh(y) /\ y.batch = x.batch \ x.parts
        /\ \A n \in x.parts : From[n] = s
        /\ disk'.out = IF x.row THEN [disk.out EXCEPT ![s] = @ - 1] ELSE disk.out
        /\ UNCHANGED <<Counts, Ledgers, past>> /\ DoneOf({})

(* An answered note is remembered, or its write fails.                     *)
SaveTurn(x, y, n) ==
  /\ x.at = "save" /\ n \in x.parts /\ y.parts = x.parts \ {n}
  /\ y.note = x.note /\ y.sent = x.sent /\ y.exempt = x.exempt
  /\ y.answered = x.answered /\ y.todo = x.todo
  /\ UNCHANGED <<Counts, disk.bounced, disk.out>>
  /\ \/ disk'.answered = disk.answered \cup {n} /\ UNCHANGED past
     \/ Stumbles
  /\ DoneOf(IF x.note = Nothing THEN x.batch ELSE {})
  /\ \/ /\ x.note # Nothing /\ y.row = x.row /\ y.batch = x.batch
        /\ y.at = IF x.sent = "reply" THEN "settle" ELSE "forget"
     \/ /\ x.note = Nothing /\ y.parts = {} /\ y.at = "triage" /\ ~y.row
        /\ y.batch = {m \in x.batch : From[m] # From[n]}
     \/ /\ x.note = Nothing /\ y.parts # {} /\ y.at = "save" /\ y.row = x.row /\ y.batch = x.batch

(* A note is taken out of the pool, and a session is had.                  *)
WorkTurn(x, y) ==
  \/ /\ x.at = "triage" /\ y.at = "pick" /\ Fresh(y) /\ UNCHANGED <<disk, past>>
     /\ \A n \in y.work : /\ n \in Notes \ disk.cool
                          /\ IsMain(n) \/ (disk.day < DailyCap /\ disk.worked[n] < MaxWork)
  \/ /\ x.at = "pick" /\ y.at = "draft" /\ y.note \in x.work \ disk.answered
     /\ y.parts = x.parts /\ y.row = x.row /\ y.sent = x.sent
     /\ UNCHANGED <<Counts, Ledgers, disk.seen, disk.out, past>>
  \/ /\ x.at = "draft" /\ y.at \in {"reserve", "bounce", "settle"} /\ InHand(x, y) /\ UNCHANGED disk
     /\ past'.drafts = [past.drafts EXCEPT ![x.note] = Up(@, MostDrafts)]
     /\ UNCHANGED <<past.landed, past.bounces, past.sent, past.sibs, past.lost, past.failed, past.hit>>

(* Its draft is refused, and the sender told.                              *)
BounceTurn(x, y) ==
  /\ y.note = x.note /\ y.parts = x.parts /\ y.row = x.row /\ y.exempt = x.exempt
  /\ \/ x.at = "bounce" /\ y.at = "settle" /\ y.sent = x.sent /\ UNCHANGED <<disk, past>>
     \/ /\ x.at = "bounce" /\ y.at = "mark" /\ y.sent = "bounce" /\ UNCHANGED disk
        /\ x.note \notin disk.bounced
        /\ past'.bounces = [past.bounces EXCEPT ![x.note] = Up(@, 2)]
        /\ past'.sibs = IF IsMain(x.note) THEN past.sibs ELSE Up(past.sibs, MostSibs)
        /\ UNCHANGED <<past.landed, past.drafts, past.sent, past.lost, past.failed, past.hit>>
     \/ /\ x.at = "mark" /\ y.at = "settle" /\ y.sent = x.sent
        /\ UNCHANGED <<Counts, disk.answered, disk.seen, disk.out>>
        /\ \/ disk'.bounced = disk.bounced \cup {x.note} /\ UNCHANGED past
           \/ Stumbles

(* Its reply is reserved and delivered, or not.                            *)
ReplyTurn(x, y) ==
  /\ y.note = x.note /\ y.exempt = x.exempt
  /\ \/ /\ x.at = "reserve" /\ y.at = "deliver" /\ y.row /\ y.parts = {x.note} /\ y.sent = x.sent
        /\ x.exempt \/ disk.out[From[x.note]] < MaxReplies
        /\ disk'.out = [disk.out EXCEPT ![From[x.note]] = @ + 1]
        /\ UNCHANGED <<Counts, Ledgers, disk.seen, past>>
     \/ /\ x.at = "reserve" /\ y.at = "save" /\ y.row = x.row /\ y.parts = {x.note}
        /\ y.sent = x.sent /\ UNCHANGED <<disk, past>>
     \/ /\ x.at = "deliver" /\ y.at = "save" /\ y.row = x.row /\ y.parts = x.parts
        /\ y.sent = "reply" /\ UNCHANGED disk
        /\ past'.landed = [past.landed EXCEPT ![x.note] = Up(@, 2)]
        /\ past'.sent = IF ~x.exempt /\ x.row THEN [past.sent EXCEPT ![From[x.note]] = @ + 1]
                        ELSE past.sent
        /\ past'.sibs = IF From[x.note] # Main THEN Up(past.sibs, MostSibs) ELSE past.sibs
        /\ UNCHANGED <<past.bounces, past.drafts, past.lost, past.failed, past.hit>>
     \/ /\ x.at = "deliver" /\ y.at = "save" /\ InHand(x, y) /\ UNCHANGED <<disk, past>>
     \/ /\ x.at = "forget" /\ y.at = "settle" /\ InHand(x, y)
        /\ UNCHANGED <<Counts, disk.bounced, disk.seen, disk.out>>
        /\ \/ disk'.answered = disk.answered \ {x.note} /\ UNCHANGED past
           \/ Stumbles

(* The cycle is over, and counted or not: the reply or the bounce, and the *)
(* failure of the note.                                                    *)
Telling(x) ==
  \/ x.sent = "no" /\ disk'.day = disk.day /\ past'.lost = past.lost
  \/ x.sent # "no" /\ disk'.day = Tally(disk.day) /\ past'.lost = past.lost
  \/ x.sent # "no" /\ disk'.day = disk.day
     /\ past'.lost = IF IsMain(x.note) THEN past.lost ELSE past.lost + 1
Trying(n) ==
  /\ \A m \in Notes \ {n} : disk'.worked[m] = disk.worked[m] /\ past'.failed[m] = past.failed[m]
  /\ past'.failed[n] \in {past.failed[n], past.failed[n] + 1} /\ disk'.worked[n] \in Nat
  /\ \/ IsMain(n) /\ disk'.cool = disk.cool \cup {n}
     \/ /\ disk'.cool = disk.cool /\ past'.failed[n] = past.failed[n] + 1
        /\ disk'.worked[n] >= disk.worked[n]
     \/ /\ disk'.cool = disk.cool
        /\ disk.worked[n] < MaxWork => disk'.worked[n] = disk.worked[n] + 1
        /\ IsMain(n) => disk.worked[n] + 1 < MaxWork
SettleTurn(x, y) ==
  /\ x.at = "settle" /\ y.at = "off" /\ Fresh(y) /\ UNCHANGED Ledgers
  /\ UNCHANGED <<past.landed, past.bounces, past.drafts, past.sent, past.sibs, past.hit>>
  /\ DoneOf({}) /\ Telling(x)
  /\ disk'.out = IF x.sent = "no" /\ x.row THEN [disk.out EXCEPT ![From[x.note]] = @ - 1]
                 ELSE disk.out
  /\ \/ x.sent = "reply" /\ UNCHANGED <<disk.worked, disk.cool, past.failed>>
     \/ x.sent # "reply" /\ Trying(x.note)

Turn(f) == FireStep(f) \/ Start(f, TRUE) \/ Start(f, FALSE) \/ LedgerFails(f) \/ Crash(f)
Turns(f, x, y) ==
  \/ StartTurn(f, x, y) \/ EndTurn(x, y) \/ SameTurn(x, y) \/ ReadTurn(x, y)
  \/ (\E s \in Senders : BatchTurn(x, y, s)) \/ (\E n \in Notes : SaveTurn(x, y, n))
  \/ WorkTurn(x, y) \/ BounceTurn(x, y) \/ ReplyTurn(x, y) \/ SettleTurn(x, y)

(* A turn writes the record of one fire.                                   *)
LEMMA FireBecomes ==
  ASSUME ReplyTypeOK, NEW f \in Fires, NEW now, Becomes(f, now)
  PROVE  fire'[f] = now /\ \A g \in Fires \ {f} : fire'[g] = fire[g]
BY DEF Becomes, ReplyTypeOK

(* What a hit leaves of the history.                                       *)
LEMMA HitIs ==
  ASSUME ReplyTypeOK, NEW what \in {"overlap", "unsaved", "unmarked", "crash"}, Hit(what)
  PROVE  Stumbles
BY PastFields DEF Hit, Stumbles, ReplyTypeOK

(* What a mark makes of the seen ledger.                                   *)
LEMMA Marks ==
  ASSUME ReplyTypeOK, NEW f \in Fires, NEW S \in SUBSET Notes
  PROVE  /\ \A w \in {"work", "done"} : Marked(f, S, w) \in [Notes -> {"new", "work", "done"}]
         /\ \A n \in Notes : Marked(f, S, "work")[n] = "done" => disk.seen[n] = "done"
         /\ \A n \in Notes : Marked(f, S, "done")[n] = "done" => disk.seen[n] = "done" \/ n \in S
BY DiskFields DEF Marked, ReplyTypeOK

(* A failed triage session is counted; nothing is done by it.              *)
LEMMA Triages ==
  ASSUME ReplyTypeOK, NEW f \in Fires, NEW S \in SUBSET Notes, NEW lost \in SUBSET S
  PROVE  LET d == CountTriage(f, S, lost)
         IN  /\ d.answered = disk.answered /\ d.bounced = disk.bounced /\ d.day = disk.day
             /\ d.worked = disk.worked /\ d.cool = disk.cool /\ d.out = disk.out
             /\ \A n \in Notes : d.seen[n] = "done" => disk.seen[n] = "done"
             /\ d \in DiskRecord
<1>1. disk \in DiskRecord /\ Failed(S, lost) \in SUBSET Notes
  BY DEF ReplyTypeOK, Failed
<1>2. Tried(S \ lost) \in [Notes -> 0 .. MaxTriage]
  BY <1>1, DiskFields, ReplyBounds DEF Tried
<1> DEFINE seen == Marked(f, Failed(S, lost), "work")
<1>3. seen \in [Notes -> {"new", "work", "done"}] /\ \A n \in Notes : seen[n] = "done" => disk.seen[n] = "done"
  BY <1>1, Marks
<1> HIDE DEF seen
<1>4. CountTriage(f, S, lost) = [disk EXCEPT !.tried = Tried(S \ lost), !.seen = seen]
  BY DEF CountTriage, seen
<1>5. CountTriage(f, S, lost) \in DiskRecord
  <2>1. [disk EXCEPT !.tried = Tried(S \ lost)] \in DiskRecord
    BY <1>1, <1>2, DiskEdits
  <2> DEFINE d == [disk EXCEPT !.tried = Tried(S \ lost)]
  <2>2. [d EXCEPT !.seen = seen] \in DiskRecord
    BY <1>3, <2>1, DiskEdits
  <2>3. QED
    BY <1>4, <2>2
<1>6. QED
  BY <1>1, <1>3, <1>4, <1>5, DiskFields

(* A note is read.                                                         *)
LEMMA ReadTurnIs ==
  ASSUME ReplyTypeOK, FormOK, NEW f \in Fires, NEW n \in Notes,
         Dispose(f, n) \/ Wait(f, n) \/ Escalate(f, n) \/ TriageSession(f, n)
  PROVE  ReadTurn(fire[f], fire'[f])
<1>0. fire[f] \in FireRecord /\ disk \in DiskRecord
  BY DEF ReplyTypeOK
<1> DEFINE Same(y) == InHand(fire[f], y) /\ y.answered = fire[f].answered /\ y.at = fire[f].at
<1>1. CASE Dispose(f, n)
  <2> DEFINE work == Kind[n] # "ack" /\ n \notin fire[f].answered
             mark == IF work THEN "work" ELSE "done"
  <2>1. /\ disk' = [disk EXCEPT !.seen = Marked(f, {n}, mark)]
        /\ fire'[f] = [fire[f] EXCEPT !.todo = @ \ {n}, !.left = Budget(f, @),
                                      !.work = IF work THEN @ \cup {n} ELSE @]
        /\ fire[f].at = "triage" /\ UNCHANGED past
    BY <1>1, FireBecomes DEF Dispose, IsAt
  <2>2. DoneOf(fire[f].answered)
    <3>1. disk'.seen = Marked(f, {n}, mark)
      BY <1>0, <2>1, DiskFields
    <3>2. ~work => ~IsMain(n) \/ n \in fire[f].answered
      BY DEF IsMain
    <3>3. QED
      BY <3>1, <3>2, Marks DEF DoneOf
  <2> HIDE DEF work, mark
  <2>3. Same(fire'[f]) /\ fire'[f].todo \subseteq fire[f].todo /\ fire'[f].batch = fire[f].batch
    BY <1>0, <2>1, FireFields DEF InHand
  <2>4. UNCHANGED <<Counts, Ledgers, disk.out>>
    BY <1>0, <2>1, DiskFields DEF Counts, Ledgers
  <2>5. QED
    BY <2>1, <2>2, <2>3, <2>4 DEF ReadTurn
<1>2. CASE Wait(f, n)
  <2>1. /\ fire'[f] = [fire[f] EXCEPT !.todo = @ \ {n}]
        /\ fire[f].at = "triage" /\ UNCHANGED <<disk, past>>
    BY <1>2, FireBecomes DEF Wait, IsAt
  <2>2. QED
    BY <1>0, <2>1, FireFields DEF ReadTurn, InHand, Counts, Ledgers, DoneOf
<1>3. CASE Escalate(f, n)
  <2>1. /\ disk' = [disk EXCEPT !.seen = Marked(f, {n}, "work")]
        /\ fire'[f] = [fire[f] EXCEPT !.todo = @ \ {n}, !.left = Budget(f, @), !.work = @ \cup {n}]
        /\ fire[f].at = "triage" /\ UNCHANGED past
    BY <1>3, FireBecomes DEF Escalate, IsAt
  <2>2. DoneOf(fire[f].answered)
    BY <1>0, <2>1, DiskFields, Marks DEF DoneOf
  <2>3. Same(fire'[f]) /\ fire'[f].todo \subseteq fire[f].todo /\ fire'[f].batch = fire[f].batch
    BY <1>0, <2>1, FireFields DEF InHand
  <2>4. UNCHANGED <<Counts, Ledgers, disk.out>>
    BY <1>0, <2>1, DiskFields DEF Counts, Ledgers
  <2>5. QED
    BY <2>1, <2>2, <2>3, <2>4 DEF ReadTurn
<1>4. CASE TriageSession(f, n)
  <2> DEFINE now == [fire[f] EXCEPT !.todo = @ \ {n}]
  <2>1. /\ fire[f].at = "triage" /\ UNCHANGED past /\ ~IsMain(n)
        /\ n \in fire[f].todo \ fire[f].answered
    BY <1>4 DEF TriageSession, IsAt, IsMain
  <2>2. CASE /\ disk' = [disk EXCEPT !.seen = Marked(f, {n}, "done")]
             /\ Becomes(f, [now EXCEPT !.left = Budget(f, @ - 1)])
    <3>1. fire'[f] = [now EXCEPT !.left = Budget(f, @ - 1)]
      BY <2>2, FireBecomes
    <3>2. DoneOf(fire[f].answered)
      BY <1>0, <2>1, <2>2, DiskFields, Marks DEF DoneOf
    <3>3. Same(fire'[f]) /\ fire'[f].todo \subseteq fire[f].todo /\ fire'[f].batch = fire[f].batch
      BY <1>0, <3>1, FireFields DEF InHand
    <3>4. UNCHANGED <<Counts, Ledgers, disk.out>>
      BY <1>0, <2>2, DiskFields DEF Counts, Ledgers
    <3>5. QED
      BY <2>1, <3>2, <3>3, <3>4 DEF ReadTurn
  <2>3. CASE Becomes(f, [now EXCEPT !.left = @ - 1, !.batch = @ \cup {n}]) /\ UNCHANGED disk
    <3>1. fire'[f] = [now EXCEPT !.left = @ - 1, !.batch = @ \cup {n}]
      BY <2>3, FireBecomes
    <3>2. QED
      BY <1>0, <2>1, <2>3, <3>1, FireFields DEF ReadTurn, InHand, Counts, Ledgers, DoneOf
  <2>4. CASE Becomes(f, [now EXCEPT !.left = 0]) /\ UNCHANGED disk
    <3>1. fire'[f] = [now EXCEPT !.left = 0]
      BY <2>4, FireBecomes
    <3>2. QED
      BY <1>0, <2>1, <2>4, <3>1, FireFields DEF ReadTurn, InHand, Counts, Ledgers, DoneOf
  <2>5. ASSUME NEW lost \in SUBSET {n}, disk' = CountTriage(f, {n}, lost),
               Becomes(f, [now EXCEPT !.left = 0, !.work = @ \cup Failed({n}, lost)])
        PROVE  ReadTurn(fire[f], fire'[f])
    <3>1. fire'[f] = [now EXCEPT !.left = 0, !.work = @ \cup Failed({n}, lost)]
      BY <2>5, FireBecomes
    <3>2. Same(fire'[f]) /\ fire'[f].todo \subseteq fire[f].todo /\ fire'[f].batch = fire[f].batch
      BY <1>0, <3>1, FireFields DEF InHand
    <3>3. UNCHANGED <<Counts, Ledgers, disk.out>> /\ DoneOf(fire[f].answered)
      <4> DEFINE d == CountTriage(f, {n}, lost)
      <4>1. /\ d.answered = disk.answered /\ d.bounced = disk.bounced /\ d.day = disk.day
            /\ d.worked = disk.worked /\ d.cool = disk.cool /\ d.out = disk.out
            /\ \A m \in Notes : d.seen[m] = "done" => disk.seen[m] = "done"
        BY <2>5, Triages
      <4>2. disk' = d
        BY <2>5
      <4> HIDE DEF d
      <4>3. QED
        BY <4>1, <4>2 DEF Counts, Ledgers, DoneOf
    <3>4. QED
      BY <2>1, <3>2, <3>3 DEF ReadTurn
  <2>6. QED
    BY <1>4, <2>2, <2>3, <2>4, <2>5 DEF TriageSession
<1>5. QED
  BY <1>1, <1>2, <1>3, <1>4

(* A batch is sent.                                                        *)
LEMMA SendTurnIs ==
  ASSUME ReplyTypeOK, FormOK, NEW f \in Fires, NEW s \in Senders, Send(f, s)
  PROVE  ReadTurn(fire[f], fire'[f]) \/ BatchTurn(fire[f], fire'[f], s)
<1>0. fire[f] \in FireRecord /\ disk \in DiskRecord
  BY DEF ReplyTypeOK
<1> DEFINE part == {n \in fire[f].batch : From[n] = s}
           rest == [fire[f] EXCEPT !.batch = @ \ part]
<1>1. fire[f].at = "triage" /\ fire[f].todo = {} /\ s \in Planned(f) /\ UNCHANGED past
  BY DEF Send, IsAt
<1>2. part \in SUBSET Notes /\ part # {}
  BY <1>0, <1>1, FireFields DEF Planned
<1>3. ASSUME NEW more \in SUBSET Notes, Becomes(f, [rest EXCEPT !.work = @ \cup more]),
             UNCHANGED <<Counts, Ledgers, disk.out>>, DoneOf(fire[f].answered)
      PROVE  ReadTurn(fire[f], fire'[f])
  <2> HIDE DEF part
  <2>1. fire'[f] = [rest EXCEPT !.work = @ \cup more]
    BY <1>3, FireBecomes
  <2>2. QED
    BY <1>0, <1>1, <1>3, <2>1, FireFields DEF ReadTurn, InHand
<1>4. ASSUME NEW lost \in SUBSET part, disk' = CountTriage(f, part, lost),
             Becomes(f, [rest EXCEPT !.work = @ \cup Failed(part, lost)])
      PROVE  ReadTurn(fire[f], fire'[f])
  <2> HIDE DEF part
  <2>1. UNCHANGED <<Counts, Ledgers, disk.out>> /\ DoneOf(fire[f].answered)
    BY <1>2, <1>4, Triages DEF Counts, Ledgers, DoneOf
  <2>2. Failed(part, lost) \in SUBSET Notes
    BY <1>2, <1>4 DEF Failed
  <2>3. QED
    BY <1>3, <1>4, <2>1, <2>2
<1>5. CASE /\ disk' = [disk EXCEPT !.seen = Marked(f, part, "work")]
           /\ Becomes(f, [rest EXCEPT !.work = @ \cup part])
  <2> HIDE DEF part
  <2>1. UNCHANGED <<Counts, Ledgers, disk.out>>
    BY <1>0, <1>5, DiskFields DEF Counts, Ledgers
  <2>2. DoneOf(fire[f].answered)
    BY <1>0, <1>2, <1>5, DiskFields, Marks DEF DoneOf
  <2>3. QED
    BY <1>2, <1>3, <1>5, <2>1, <2>2
<1>6. CASE /\ disk.day < DailyCap /\ Reserves(f, s, FALSE) /\ CountRow(s)
           /\ Becomes(f, [fire[f] EXCEPT !.at = "post", !.parts = part, !.row = TRUE])
  <2>1. \A n \in part : From[n] = s /\ n \in fire[f].batch
    OBVIOUS
  <2> HIDE DEF part
  <2>2. fire'[f] = [fire[f] EXCEPT !.at = "post", !.parts = part, !.row = TRUE]
    BY <1>6, FireBecomes
  <2>3. disk' = [disk EXCEPT !.out = [disk.out EXCEPT ![s] = @ + 1]]
    BY <1>6 DEF CountRow, Plus
  <2>4. UNCHANGED <<Counts, Ledgers, disk.seen>> /\ disk'.out = [disk.out EXCEPT ![s] = @ + 1]
    BY <1>0, <2>3, DiskFields DEF Counts, Ledgers
  <2>5. QED
    BY <1>0, <1>1, <1>2, <1>6, <2>1, <2>2, <2>4, FireFields DEF BatchTurn, Reserves
<1>7. QED
  BY <1>4, <1>5, <1>6 DEF Send

(* It lands, or is taken back.                                             *)
LEMMA PostTurnIs ==
  ASSUME ReplyTypeOK, FormOK, NEW f \in Fires, Post(f)
  PROVE  \E s \in Senders : BatchTurn(fire[f], fire'[f], s)
<1>0. fire[f] \in FireRecord /\ disk \in DiskRecord /\ past \in PastRecord
  BY DEF ReplyTypeOK
<1> DEFINE s == CHOOSE c \in Senders : \E n \in fire[f].parts : From[n] = c
           parts == fire[f].parts
<1>1. fire[f].at = "post"
  BY DEF Post, IsAt
<1>2. parts \in SUBSET Notes /\ parts # {} /\ OneSender(parts) /\ parts \subseteq fire[f].batch
  BY <1>0, <1>1, FireFields DEF FormOK, Formed, Batched
<1>3. s \in Senders /\ \E n \in parts : From[n] = s
  <2>1. \E c \in Senders : \E n \in parts : From[n] = c
    BY <1>2, ResponderAssumption
  <2>2. QED
    BY <2>1
<1>4. \A n \in parts : From[n] = s
  <2> HIDE DEF s
  <2>1. QED
    BY <1>2, <1>3 DEF OneSender
<1>f. fire[f].sent = "no" /\ ~fire[f].exempt /\ fire[f].note = Nothing /\ fire[f].todo = {}
  BY <1>1 DEF FormOK, Formed, Batched
<1>5. ASSUME NEW tallied \in BOOLEAN, Landed(f, parts, s, TRUE, ~tallied), GoOn(f, "save"),
             disk' = [disk EXCEPT !.day = IF tallied THEN Tally(@) ELSE @]
      PROVE  \E c \in Senders : BatchTurn(fire[f], fire'[f], c)
  <2> HIDE DEF s
  <2>1. fire'[f] = [fire[f] EXCEPT !.at = "save"]
    BY <1>5, FireBecomes DEF GoOn
  <2>2. /\ fire'[f].answered = fire[f].answered /\ fire'[f].todo = fire[f].todo
        /\ fire'[f].batch = fire[f].batch /\ InHand(fire[f], fire'[f]) /\ fire'[f].at = "save"
    BY <1>0, <2>1, FireFields DEF InHand
  <2>3. /\ disk'.day = IF tallied THEN Tally(disk.day) ELSE disk.day
        /\ UNCHANGED <<disk.worked, disk.cool, Ledgers, disk.out, disk.seen>>
    BY <1>0, <1>5, DiskFields DEF Ledgers
  <2>l. past'.lost = IF tallied THEN past.lost ELSE past.lost + 1
    BY <1>0, <1>5, PastFields DEF Landed
  <2>4. /\ past'.landed = [n \in Notes |-> IF n \in parts THEN Up(past.landed[n], 2)
                                           ELSE past.landed[n]]
        /\ past'.sent = IF fire[f].row THEN [past.sent EXCEPT ![s] = @ + 1] ELSE past.sent
        /\ past'.sibs \in {past.sibs, Up(past.sibs, MostSibs)}
        /\ UNCHANGED <<past.bounces, past.drafts, past.failed, past.hit>>
    BY <1>0, <1>5, PastFields DEF Landed, Plus
  <2>5. BatchTurn(fire[f], fire'[f], s)
    BY <1>1, <1>4, <2>2, <2>3, <2>l, <2>4 DEF BatchTurn, InHand
  <2>6. QED
    BY <1>3, <2>5
<1>6. ASSUME NEW lost \in SUBSET parts, UNCHANGED past,
             disk' = [CountTriage(f, parts, lost) EXCEPT !.out = Released(f, s)],
             Becomes(f, [fire[f] EXCEPT !.at = "triage", !.parts = {}, !.row = FALSE,
                           !.batch = @ \ parts, !.work = @ \cup Failed(parts, lost)])
      PROVE  \E c \in Senders : BatchTurn(fire[f], fire'[f], c)
  <2> HIDE DEF s
  <2> DEFINE d == CountTriage(f, parts, lost)
  <2>1. fire'[f] = [fire[f] EXCEPT !.at = "triage", !.parts = {}, !.row = FALSE,
                                   !.batch = @ \ parts, !.work = @ \cup Failed(parts, lost)]
    BY <1>6, FireBecomes
  <2>2. /\ fire'[f].answered = fire[f].answered /\ fire'[f].todo = fire[f].todo
        /\ fire'[f].batch = fire[f].batch \ parts /\ Fresh(fire'[f]) /\ fire'[f].at = "triage"
        /\ fire'[f].exempt = fire[f].exempt /\ fire'[f].note = fire[f].note
        /\ fire'[f].sent = fire[f].sent
    BY <1>0, <1>f, <2>1, FireFields DEF Fresh
  <2>3. /\ d.answered = disk.answered /\ d.bounced = disk.bounced /\ d.day = disk.day
        /\ d.worked = disk.worked /\ d.cool = disk.cool
        /\ \A n \in Notes : d.seen[n] = "done" => disk.seen[n] = "done"
        /\ d \in DiskRecord
    BY <1>2, Triages
  <2> HIDE DEF d
  <2>4. disk' = [d EXCEPT !.out = Released(f, s)]
    BY <1>6 DEF d
  <2>5. /\ UNCHANGED <<Counts, Ledgers>> /\ DoneOf({})
        /\ disk'.out = IF fire[f].row THEN [disk.out EXCEPT ![s] = @ - 1] ELSE disk.out
    BY <2>3, <2>4, DiskFields DEF Counts, Ledgers, DoneOf, Released
  <2>6. BatchTurn(fire[f], fire'[f], s)
    BY <1>1, <1>4, <1>6, <1>f, <2>2, <2>5 DEF BatchTurn
  <2>7. QED
    BY <1>3, <2>6
<1>7. QED
  BY <1>5, <1>6 DEF Post

(* The answered are remembered.                                            *)
LEMMA SaveTurnIs ==
  ASSUME ReplyTypeOK, FormOK, NEW f \in Fires, RememberAnswered(f)
  PROVE  \E n \in Notes : SaveTurn(fire[f], fire'[f], n)
<1>0. fire[f] \in FireRecord /\ disk \in DiskRecord
  BY DEF ReplyTypeOK
<1>1. fire[f].at = "save"
  BY DEF RememberAnswered, IsAt
<1>2. PICK n \in fire[f].parts :
       LET last == fire[f].parts = {n}
           same == {m \in fire[f].batch : From[m] = From[n]}
           now == [fire[f] EXCEPT !.parts = @ \ {n}]
       IN  /\ \E saved \in BOOLEAN :
                /\ disk' = [disk EXCEPT
                     !.answered = IF saved THEN Recorded(n) ELSE @,
                     !.seen = IF last /\ fire[f].note = Nothing
                                THEN Marked(f, same, "done") ELSE @]
                /\ IF saved THEN UNCHANGED <<past, incidents>> ELSE Hit("unsaved") /\ Fault
           /\ Becomes(f,
                IF fire[f].note # Nothing
                  THEN [now EXCEPT !.at = IF fire[f].sent = "reply" THEN "settle" ELSE "forget"]
                ELSE IF last THEN [now EXCEPT !.at = "triage", !.batch = @ \ same, !.row = FALSE]
                ELSE now)
  BY DEF RememberAnswered
<1> DEFINE last == fire[f].parts = {n}
           same == {m \in fire[f].batch : From[m] = From[n]}
           now == [fire[f] EXCEPT !.parts = @ \ {n}]
           seen == IF last /\ fire[f].note = Nothing THEN Marked(f, same, "done") ELSE disk.seen
<1>3. PICK saved \in BOOLEAN :
        /\ disk' = [disk EXCEPT !.answered = IF saved THEN Recorded(n) ELSE @, !.seen = seen]
        /\ IF saved THEN UNCHANGED <<past, incidents>> ELSE Hit("unsaved") /\ Fault
  <2>1. \E saved \in BOOLEAN :
          /\ disk' = [disk EXCEPT !.answered = IF saved THEN Recorded(n) ELSE @, !.seen = seen]
          /\ IF saved THEN UNCHANGED <<past, incidents>> ELSE Hit("unsaved") /\ Fault
    BY <1>2
  <2>2. QED
    BY <2>1
<1>4. n \in Notes /\ same \in SUBSET Notes /\ same \subseteq fire[f].batch
  BY <1>0, FireFields
<1>5. DoneOf(IF fire[f].note = Nothing THEN fire[f].batch ELSE {})
  <2>1. disk'.seen = seen
    BY <1>0, <1>3, DiskFields
  <2> HIDE DEF same
  <2>2. QED
    BY <1>4, <2>1, Marks DEF DoneOf
<1> HIDE DEF seen
<1>6. /\ UNCHANGED <<Counts, disk.bounced, disk.out>>
      /\ \/ disk'.answered = disk.answered \cup {n} /\ UNCHANGED past
         \/ Stumbles
  BY <1>0, <1>3, DiskFields, HitIs DEF Counts, Recorded
<1>7. fire'[f] = IF fire[f].note # Nothing
                   THEN [now EXCEPT !.at = IF fire[f].sent = "reply" THEN "settle" ELSE "forget"]
                 ELSE IF last THEN [now EXCEPT !.at = "triage", !.batch = @ \ same, !.row = FALSE]
                 ELSE now
  BY <1>2, FireBecomes
<1>8. fire[f].batch \ same = {m \in fire[f].batch : From[m] # From[n]}
  OBVIOUS
<1>9. SaveTurn(fire[f], fire'[f], n)
  <2> HIDE DEF same
  <2>1. CASE fire[f].note # Nothing
    BY <1>0, <1>1, <1>5, <1>6, <1>7, <2>1, FireFields DEF SaveTurn
  <2>2. CASE fire[f].note = Nothing /\ last
    BY <1>0, <1>1, <1>5, <1>6, <1>7, <1>8, <2>2, FireFields DEF SaveTurn
  <2>3. CASE fire[f].note = Nothing /\ ~last
    BY <1>0, <1>1, <1>5, <1>6, <1>7, <2>3, FireFields DEF SaveTurn
  <2>4. QED
    BY <2>1, <2>2, <2>3
<1>10. QED
  BY <1>4, <1>9

(* A fire starts.                                                          *)
LEMMA StartTurnIs ==
  ASSUME ReplyTypeOK, NEW f \in Fires, NEW ok \in BOOLEAN, Start(f, ok)
  PROVE  StartTurn(f, fire[f], fire'[f])
<1> DEFINE now == [Idle EXCEPT !.at = "triage", !.ok = ok, !.left = IF ok THEN PerFire ELSE 0,
                     !.room = DailyCap - disk.day, !.answered = disk.answered,
                     !.capped = AtCap, !.spent = {n \in Notes : disk.tried[n] >= MaxTriage},
                     !.todo = {n \in inbox : disk.seen[n] = "new"}]
<1>1. fire'[f] = now /\ fire[f].at = "off" /\ UNCHANGED disk
  BY FireBecomes DEF Start, IsAt
<1>2. /\ now.at = "triage" /\ now.answered = disk.answered /\ now.batch = {} /\ Fresh(now)
      /\ now.todo \subseteq Notes
  BY DEF Idle, Fresh, ReplyTypeOK
<1>3. \/ UNCHANGED past /\ \A g \in Fires \ {f} : IsAt(g, "off")
      \/ Stumbles
  BY HitIs DEF Start
<1> HIDE DEF now
<1>4. QED
  BY <1>1, <1>2, <1>3 DEF StartTurn

(* A fire ends.                                                            *)
LEMMA LeaveIs ==
  ASSUME ReplyTypeOK, NEW f \in Fires, Leave(f)
  PROVE  fire'[f] = Idle /\ Idle.at = "off" /\ Fresh(Idle)
BY FireBecomes DEF Leave, Idle, Fresh

(* It ends without a session, or dies.                                     *)
LEMMA EndTurnIs ==
  ASSUME ReplyTypeOK, NEW f \in Fires, NoSession(f) \/ Crash(f)
  PROVE  EndTurn(fire[f], fire'[f])
<1>1. Leave(f) /\ UNCHANGED disk
  BY DEF NoSession, Crash
<1>2. \/ fire[f].at \in {"pick", "draft"} /\ UNCHANGED past
      \/ Stumbles
  BY HitIs DEF NoSession, Crash, IsAt
<1>3. QED
  BY <1>1, <1>2, LeaveIs DEF EndTurn, Counts, Ledgers

(* Marks fail.                                                             *)
LEMMA SameTurnIs ==
  ASSUME ReplyTypeOK, NEW f \in Fires, LedgerFails(f)
  PROVE  SameTurn(fire[f], fire'[f])
<1>1. fire[f] \in FireRecord
  BY DEF ReplyTypeOK
<1>2. fire'[f] = [fire[f] EXCEPT !.ok = FALSE] /\ UNCHANGED <<disk, past>> /\ fire[f].at # "off"
  BY FireBecomes DEF LedgerFails
<1>3. QED
  BY <1>1, <1>2, FireFields DEF SameTurn, InHand

(* The pool is gathered.                                                   *)
LEMMA GatherTurnIs ==
  ASSUME ReplyTypeOK, NEW f \in Fires, Gather(f)
  PROVE  WorkTurn(fire[f], fire'[f])
<1>1. fire[f] \in FireRecord /\ disk \in DiskRecord
  BY DEF ReplyTypeOK
<1> DEFINE work == {n \in (fire[f].work \cup {m \in Notes : disk.seen[m] = "work"})
                            \ (fire[f].answered \cup disk.cool) : Workable(f, n)}
           now == [Idle EXCEPT !.at = "pick", !.ok = fire[f].ok, !.work = work]
<1>2. fire'[f] = now /\ fire[f].at = "triage" /\ UNCHANGED <<disk, past>>
  BY FireBecomes DEF Gather, IsAt
<1>3. \A n \in work : /\ n \in Notes \ disk.cool
                      /\ IsMain(n) \/ (disk.day < DailyCap /\ disk.worked[n] < MaxWork)
  BY <1>1, FireFields DEF Workable
<1> HIDE DEF work
<1>4. now.at = "pick" /\ now.work = work /\ Fresh(now)
  BY DEF Idle, Fresh
<1> HIDE DEF now
<1>5. QED
  BY <1>2, <1>3, <1>4 DEF WorkTurn

(* A note is picked, or there is none.                                     *)
LEMMA PickTurnIs ==
  ASSUME ReplyTypeOK, NEW f \in Fires, Pick(f)
  PROVE  WorkTurn(fire[f], fire'[f]) \/ EndTurn(fire[f], fire'[f])
<1>1. fire[f] \in FireRecord /\ disk \in DiskRecord
  BY DEF ReplyTypeOK
<1>2. fire[f].at = "pick" /\ UNCHANGED past
  BY DEF Pick, IsAt
<1>3. UNCHANGED <<Counts, Ledgers, disk.seen, disk.out>>
  <2>1. disk' = [disk EXCEPT !.defer = Checked(f)]
    BY DEF Pick
  <2>2. QED
    BY <1>1, <2>1, DiskFields DEF Counts, Ledgers
<1>4. CASE Leave(f)
  BY <1>2, <1>3, <1>4, LeaveIs DEF EndTurn
<1>5. CASE ~Leave(f)
  <2>1. PICK n \in Queue(f) :
          Becomes(f, [fire[f] EXCEPT !.at = "draft", !.note = n, !.work = {}, !.exempt = Exempt(n)])
    BY <1>5 DEF Pick
  <2>2. n \in fire[f].work \ disk.answered
    BY DEF Queue, Candidates
  <2>3. fire'[f] = [fire[f] EXCEPT !.at = "draft", !.note = n, !.work = {}, !.exempt = Exempt(n)]
    BY <2>1, FireBecomes
  <2>4. QED
    BY <1>1, <1>2, <1>3, <2>2, <2>3, FireFields DEF WorkTurn
<1>6. QED
  BY <1>4, <1>5

(* A session is had.                                                       *)
LEMMA DraftTurnIs ==
  ASSUME ReplyTypeOK, NEW f \in Fires, Draft(f)
  PROVE  WorkTurn(fire[f], fire'[f])
<1>1. fire[f] \in FireRecord /\ past \in PastRecord
  BY DEF ReplyTypeOK
<1>2. PICK place \in {"reserve", "bounce", "settle"} : GoOn(f, place)
  BY DEF Draft
<1>3. fire'[f] = [fire[f] EXCEPT !.at = place]
  BY <1>2, FireBecomes DEF GoOn
<1>4. fire[f].at = "draft" /\ UNCHANGED disk
  BY DEF Draft, IsAt
<1>5. /\ past'.drafts = [past.drafts EXCEPT ![fire[f].note] = Up(@, MostDrafts)]
      /\ UNCHANGED <<past.landed, past.bounces, past.sent, past.sibs, past.lost, past.failed, past.hit>>
  BY <1>1, PastFields DEF Draft, Once
<1>6. InHand(fire[f], fire'[f]) /\ fire'[f].at = place
  BY <1>1, <1>3, FireFields DEF InHand
<1>7. QED
  BY <1>4, <1>5, <1>6 DEF WorkTurn

(* A draft is refused.                                                     *)
LEMMA BounceTurnIs ==
  ASSUME ReplyTypeOK, NEW f \in Fires, Bounce(f) \/ MarkBounced(f)
  PROVE  BounceTurn(fire[f], fire'[f])
<1>1. fire[f] \in FireRecord /\ past \in PastRecord /\ disk \in DiskRecord
  BY DEF ReplyTypeOK
<1>2. ASSUME NEW place \in FirePlaces, GoOn(f, place)
      PROVE  InHand(fire[f], fire'[f]) /\ fire'[f].at = place
  <2>1. fire'[f] = [fire[f] EXCEPT !.at = place]
    BY <1>2, FireBecomes DEF GoOn
  <2>2. QED
    BY <1>1, <2>1, FireFields DEF InHand
<1>3. CASE Bounce(f)
  <2>1. fire[f].at = "bounce" /\ UNCHANGED disk
    BY <1>3 DEF Bounce, IsAt
  <2>2. CASE GoOn(f, "settle") /\ UNCHANGED past
    BY <1>2, <2>1, <2>2 DEF BounceTurn, InHand, FirePlaces
  <2>3. CASE /\ fire[f].note \notin disk.bounced
             /\ past' = [past EXCEPT !.bounces = Once(past.bounces, fire[f].note, 2),
                           !.sibs = IF IsMain(fire[f].note) THEN @ ELSE Up(@, MostSibs)]
             /\ Becomes(f, [fire[f] EXCEPT !.at = "mark", !.sent = "bounce"])
    <3>1. fire'[f] = [fire[f] EXCEPT !.at = "mark", !.sent = "bounce"]
      BY <2>3, FireBecomes
    <3>2. /\ past'.bounces = [past.bounces EXCEPT ![fire[f].note] = Up(@, 2)]
          /\ past'.sibs = IF IsMain(fire[f].note) THEN past.sibs ELSE Up(past.sibs, MostSibs)
          /\ UNCHANGED <<past.landed, past.drafts, past.sent, past.lost, past.failed, past.hit>>
      BY <1>1, <2>3, PastFields DEF Once
    <3>3. /\ fire'[f].at = "mark" /\ fire'[f].sent = "bounce" /\ fire'[f].note = fire[f].note
          /\ fire'[f].parts = fire[f].parts /\ fire'[f].row = fire[f].row
          /\ fire'[f].exempt = fire[f].exempt
      BY <1>1, <3>1, FireFields
    <3>4. QED
      BY <2>1, <2>3, <3>2, <3>3 DEF BounceTurn
  <2>4. QED
    BY <1>3, <2>2, <2>3 DEF Bounce
<1>4. CASE MarkBounced(f)
  <2>1. fire[f].at = "mark" /\ GoOn(f, "settle")
    BY <1>4 DEF MarkBounced, IsAt
  <2>2. \/ disk' = [disk EXCEPT !.bounced = @ \cup {fire[f].note}] /\ UNCHANGED past
        \/ Hit("unmarked") /\ UNCHANGED disk
    BY <1>4 DEF MarkBounced
  <2>3. /\ UNCHANGED <<Counts, disk.answered, disk.seen, disk.out>>
        /\ \/ disk'.bounced = disk.bounced \cup {fire[f].note} /\ UNCHANGED past
           \/ Stumbles
    BY <1>1, <2>2, HitIs, DiskFields DEF Counts
  <2>4. QED
    BY <1>2, <2>1, <2>3 DEF BounceTurn, InHand, FirePlaces
<1>5. QED
  BY <1>3, <1>4

(* A reply is reserved, delivered, or forgotten.                           *)
LEMMA ReplyTurnIs ==
  ASSUME ReplyTypeOK, FormOK, NEW f \in Fires, Reserve(f) \/ Deliver(f) \/ ForgetUndelivered(f)
  PROVE  ReplyTurn(fire[f], fire'[f])
<1>1. fire[f] \in FireRecord /\ past \in PastRecord /\ disk \in DiskRecord
  BY DEF ReplyTypeOK
<1> DEFINE n == fire[f].note
<1>2. ASSUME NEW place \in FirePlaces, GoOn(f, place)
      PROVE  InHand(fire[f], fire'[f]) /\ fire'[f].at = place
  <2>1. fire'[f] = [fire[f] EXCEPT !.at = place]
    BY <1>2, FireBecomes DEF GoOn
  <2>2. QED
    BY <1>1, <2>1, FireFields DEF InHand
<1>3. CASE Reserve(f)
  <2> DEFINE now == [fire[f] EXCEPT !.parts = {n}]
  <2>1. fire[f].at = "reserve" /\ UNCHANGED past
    BY <1>3 DEF Reserve, IsAt
  <2>2. CASE /\ Reserves(f, From[n], fire[f].exempt) /\ CountRow(From[n])
             /\ Becomes(f, [now EXCEPT !.at = "deliver", !.row = TRUE])
    <3>1. fire'[f] = [now EXCEPT !.at = "deliver", !.row = TRUE]
      BY <2>2, FireBecomes
    <3>2. /\ fire'[f].at = "deliver" /\ fire'[f].row /\ fire'[f].parts = {n}
          /\ fire'[f].sent = fire[f].sent /\ fire'[f].note = n /\ fire'[f].exempt = fire[f].exempt
      BY <1>1, <3>1, FireFields
    <3>3. disk' = [disk EXCEPT !.out = [disk.out EXCEPT ![From[n]] = @ + 1]]
      BY <2>2 DEF CountRow, Plus
    <3>4. /\ UNCHANGED <<Counts, Ledgers, disk.seen>>
          /\ disk'.out = [disk.out EXCEPT ![From[n]] = @ + 1]
      BY <1>1, <3>3, DiskFields DEF Counts, Ledgers
    <3>5. fire[f].exempt \/ disk.out[From[n]] < MaxReplies
      BY <2>2 DEF Reserves
    <3>6. QED
      BY <2>1, <3>2, <3>4, <3>5 DEF ReplyTurn
  <2>3. CASE Becomes(f, [now EXCEPT !.at = "save"]) /\ UNCHANGED disk
    <3>1. fire'[f] = [now EXCEPT !.at = "save"]
      BY <2>3, FireBecomes
    <3>2. /\ fire'[f].at = "save" /\ fire'[f].row = fire[f].row /\ fire'[f].parts = {n}
          /\ fire'[f].sent = fire[f].sent /\ fire'[f].note = n /\ fire'[f].exempt = fire[f].exempt
      BY <1>1, <3>1, FireFields
    <3>3. QED
      BY <2>1, <2>3, <3>2 DEF ReplyTurn
  <2>4. QED
    BY <1>3, <2>2, <2>3 DEF Reserve
<1>4. CASE Deliver(f)
  <2>1. fire[f].at = "deliver" /\ UNCHANGED disk
    BY <1>4 DEF Deliver, IsAt
  <2>2. CASE /\ Landed(f, {n}, From[n], ~fire[f].exempt, FALSE)
             /\ Becomes(f, [fire[f] EXCEPT !.at = "save", !.sent = "reply"])
    <3>1. fire'[f] = [fire[f] EXCEPT !.at = "save", !.sent = "reply"]
      BY <2>2, FireBecomes
    <3>2. /\ fire'[f].at = "save" /\ fire'[f].sent = "reply" /\ fire'[f].note = n
          /\ fire'[f].parts = fire[f].parts /\ fire'[f].row = fire[f].row
          /\ fire'[f].exempt = fire[f].exempt
      BY <1>1, <3>1, FireFields
    <3>3. /\ past'.landed = [m \in Notes |-> IF m \in {n} THEN Up(past.landed[m], 2)
                                             ELSE past.landed[m]]
          /\ past'.sent = IF ~fire[f].exempt /\ fire[f].row
                            THEN [past.sent EXCEPT ![From[n]] = @ + 1] ELSE past.sent
          /\ past'.sibs = IF From[n] # Main THEN Up(past.sibs, MostSibs) ELSE past.sibs
          /\ UNCHANGED <<past.bounces, past.drafts, past.lost, past.failed, past.hit>>
      BY <1>1, <2>2, PastFields DEF Landed, Plus
    <3>4. past'.landed = [past.landed EXCEPT ![n] = Up(@, 2)]
      BY <1>1, <3>3, PastFields
    <3>5. QED
      BY <2>1, <3>2, <3>3, <3>4 DEF ReplyTurn
  <2>3. CASE GoOn(f, "save") /\ UNCHANGED past
    BY <1>2, <2>1, <2>3 DEF ReplyTurn, InHand, FirePlaces
  <2>4. QED
    BY <1>4, <2>2, <2>3 DEF Deliver
<1>5. CASE ForgetUndelivered(f)
  <2>1. fire[f].at = "forget" /\ GoOn(f, "settle")
    BY <1>5 DEF ForgetUndelivered, IsAt
  <2>2. \/ disk' = [disk EXCEPT !.answered = @ \ {n}] /\ UNCHANGED past
        \/ Hit("unsaved") /\ UNCHANGED disk
    BY <1>5 DEF ForgetUndelivered
  <2>3. /\ UNCHANGED <<Counts, disk.bounced, disk.seen, disk.out>>
        /\ \/ disk'.answered = disk.answered \ {n} /\ UNCHANGED past
           \/ Stumbles
    BY <1>1, <2>2, HitIs, DiskFields DEF Counts
  <2>4. QED
    BY <1>2, <2>1, <2>3 DEF ReplyTurn, InHand, FirePlaces
<1>6. QED
  BY <1>3, <1>4, <1>5

(* A failed session of a note is counted, or not.                          *)
LEMMA CountWorkIs ==
  ASSUME ReplyTypeOK, NEW f \in Fires, NEW n \in Notes, NEW noted \in BOOLEAN,
         NEW cooled \in BOOLEAN
  PROVE  LET d == CountWork(f, n, noted, cooled)
             lost == Uncounted(n, noted, cooled)
         IN  /\ d \in DiskRecord /\ d.answered = disk.answered /\ d.bounced = disk.bounced
             /\ d.out = disk.out /\ d.day = disk.day
             /\ \A m \in Notes : d.seen[m] = "done" /\ disk.seen[m] # "done" => ~IsMain(m)
             /\ \A m \in Notes \ {n} : d.worked[m] = disk.worked[m]
             /\ \/ IsMain(n) /\ d.cool = disk.cool \cup {n}
                \/ lost /\ d.cool = disk.cool /\ d.worked[n] >= disk.worked[n]
                \/ /\ ~lost /\ d.cool = disk.cool
                   /\ disk.worked[n] < MaxWork => d.worked[n] = disk.worked[n] + 1
                   /\ IsMain(n) => disk.worked[n] + 1 < MaxWork
<1> DEFINE worked == IF noted /\ disk.worked[n] < MaxWork THEN Plus(disk.worked, n)
                     ELSE disk.worked
           e == [disk EXCEPT !.worked = worked]
           d == CountWork(f, n, noted, cooled)
<1>0. /\ disk \in DiskRecord /\ disk.worked \in [Notes -> 0 .. MaxWork] /\ disk.cool \in SUBSET Notes
      /\ MaxWork \in Nat \ {0}
  BY DiskFields, ReplyBounds DEF ReplyTypeOK
<1>1. /\ worked \in [Notes -> 0 .. MaxWork]
      /\ \A m \in Notes \ {n} : worked[m] = disk.worked[m]
      /\ worked[n] = IF noted /\ disk.worked[n] < MaxWork THEN disk.worked[n] + 1
                     ELSE disk.worked[n]
  BY <1>0 DEF Plus
<1>2. d = IF ~AtBound(n, noted) THEN e
          ELSE IF ~IsMain(n) THEN [disk EXCEPT !.worked = worked, !.seen = Marked(f, {n}, "done")]
          ELSE IF cooled THEN [disk EXCEPT !.worked = [disk.worked EXCEPT ![n] = 0],
                                           !.cool = @ \cup {n}]
          ELSE e
  BY DEF CountWork
<1> HIDE DEF worked, d
<1>3. /\ e \in DiskRecord /\ e.worked = worked /\ e.cool = disk.cool /\ e.seen = disk.seen
      /\ e.answered = disk.answered /\ e.bounced = disk.bounced /\ e.out = disk.out
      /\ e.day = disk.day
  BY <1>0, <1>1, DiskEdits, DiskFields
<1>4. ASSUME d.worked = worked, d.cool = disk.cool, ~(IsMain(n) /\ cooled /\ AtBound(n, noted))
      PROVE  /\ \A m \in Notes \ {n} : d.worked[m] = disk.worked[m]
             /\ \/ Uncounted(n, noted, cooled) /\ d.worked[n] >= disk.worked[n]
                \/ /\ ~Uncounted(n, noted, cooled)
                   /\ disk.worked[n] < MaxWork => d.worked[n] = disk.worked[n] + 1
                   /\ IsMain(n) => disk.worked[n] + 1 < MaxWork
  <2>1. disk.worked[n] \in Nat
    BY <1>0
  <2>2. d.worked[n] >= disk.worked[n]
    BY <1>1, <1>4, <2>1
  <2>3. CASE Uncounted(n, noted, cooled)
    BY <1>1, <1>4, <2>2, <2>3
  <2>4. CASE ~Uncounted(n, noted, cooled)
    <3>1. noted
      BY <1>4, <2>4 DEF Uncounted, AtBound
    <3>2. IsMain(n) => disk.worked[n] + 1 < MaxWork
      BY <1>0, <1>4, <2>1, <2>4 DEF Uncounted, AtBound
    <3>3. QED
      BY <1>1, <1>4, <2>4, <3>1, <3>2
  <2>5. QED
    BY <2>3, <2>4
<1>5. CASE d = e
  <2>1. ~(IsMain(n) /\ cooled /\ AtBound(n, noted)) \/ d.cool = disk.cool \cup {n}
    BY <1>0, <1>2, DiskFields
  <2>2. CASE ~(IsMain(n) /\ cooled /\ AtBound(n, noted))
    BY <1>3, <1>4, <1>5, <2>2 DEF d
  <2>3. CASE IsMain(n) /\ d.cool = disk.cool \cup {n}
    BY <1>1, <1>3, <1>5, <2>3 DEF d
  <2>4. QED
    BY <2>1, <2>2, <2>3
<1>6. CASE AtBound(n, noted) /\ ~IsMain(n)
  <2> DEFINE seen == Marked(f, {n}, "done")
  <2>1. /\ seen \in [Notes -> {"new", "work", "done"}]
        /\ \A m \in Notes : seen[m] = "done" => disk.seen[m] = "done" \/ m = n
    BY Marks
  <2>2. d = [disk EXCEPT !.worked = worked, !.seen = seen]
    BY <1>2, <1>6
  <2> HIDE DEF seen
  <2>3. d = [e EXCEPT !.seen = seen]
    BY <1>0, <2>2, DiskFields
  <2> HIDE DEF e
  <2>4. [e EXCEPT !.seen = seen] \in DiskRecord
    BY <1>3, <2>1, DiskEdits
  <2>5. /\ d \in DiskRecord /\ d.worked = worked /\ d.cool = disk.cool /\ d.seen = seen
        /\ d.answered = disk.answered /\ d.bounced = disk.bounced /\ d.out = disk.out
        /\ d.day = disk.day
    BY <1>3, <2>3, <2>4, DiskFields
  <2>6. QED
    BY <1>4, <1>6, <2>1, <2>5 DEF d
<1>7. CASE AtBound(n, noted) /\ IsMain(n) /\ cooled
  <2> DEFINE none == [disk.worked EXCEPT ![n] = 0]
             cool == disk.cool \cup {n}
             g == [disk EXCEPT !.worked = none]
  <2>1. none \in [Notes -> 0 .. MaxWork] /\ cool \in SUBSET Notes
        /\ \A m \in Notes \ {n} : none[m] = disk.worked[m]
    BY <1>0
  <2>2. d = [disk EXCEPT !.worked = none, !.cool = cool]
    BY <1>2, <1>7
  <2> HIDE DEF none, cool
  <2>3. g \in DiskRecord
    BY <1>0, <2>1, DiskEdits
  <2>4. d = [g EXCEPT !.cool = cool]
    BY <1>0, <2>2, DiskFields
  <2>5. /\ g.answered = disk.answered /\ g.bounced = disk.bounced /\ g.out = disk.out
        /\ g.day = disk.day /\ g.seen = disk.seen /\ g.worked = none
    BY <1>0, DiskFields
  <2> HIDE DEF g
  <2>6. d \in DiskRecord
    BY <2>1, <2>3, <2>4, DiskEdits
  <2>7. /\ d.worked = none /\ d.cool = cool /\ d.seen = disk.seen
        /\ d.answered = disk.answered /\ d.bounced = disk.bounced /\ d.out = disk.out
        /\ d.day = disk.day
    BY <2>3, <2>4, <2>5, DiskFields
  <2>8. d.cool = disk.cool \cup {n}
    BY <2>7 DEF cool
  <2>9. QED
    BY <1>7, <2>1, <2>6, <2>7, <2>8 DEF d
<1>8. QED
  BY <1>2, <1>5, <1>6, <1>7

(* The cycle is counted.                                                   *)
LEMMA SettleTurnIs ==
  ASSUME ReplyTypeOK, FormOK, NEW f \in Fires, Settle(f)
  PROVE  SettleTurn(fire[f], fire'[f])
<1>1. fire[f] \in FireRecord /\ disk \in DiskRecord /\ past \in PastRecord
  BY DEF ReplyTypeOK
<1> DEFINE n == fire[f].note
           told == fire[f].sent # "no"
           tried == fire[f].sent # "reply"
<1>2. fire[f].at = "settle" /\ Leave(f)
  BY DEF Settle, IsAt
<1>3. n \in Notes
  BY <1>1, <1>2, FireFields DEF FormOK, Formed
<1>4. PICK tallied \in BOOLEAN, noted \in BOOLEAN, cooled \in BOOLEAN :
        LET now == IF tried THEN CountWork(f, n, noted, cooled) ELSE disk
        IN  /\ disk' = Closed(f, now, tallied)
            /\ past' = [past EXCEPT
                 !.lost = IF told /\ ~tallied /\ ~IsMain(n) THEN @ + 1 ELSE @,
                 !.failed = IF tried /\ Uncounted(n, noted, cooled) THEN Plus(@, n) ELSE @]
  BY ZenonT(60) DEF Settle
<1> DEFINE d == IF tried THEN CountWork(f, n, noted, cooled) ELSE disk
           lost == tried /\ Uncounted(n, noted, cooled)
           day == IF told /\ tallied THEN Tally(disk.day) ELSE disk.day
<1>5. /\ d \in DiskRecord /\ d.answered = disk.answered /\ d.bounced = disk.bounced
      /\ d.out = disk.out /\ d.day = disk.day
      /\ \A m \in Notes : d.seen[m] = "done" /\ disk.seen[m] # "done" => ~IsMain(m)
  BY <1>1, <1>3, CountWorkIs
<1>6. \/ fire[f].sent = "reply" /\ d.worked = disk.worked /\ d.cool = disk.cool /\ ~lost
      \/ /\ fire[f].sent # "reply" /\ \A m \in Notes \ {n} : d.worked[m] = disk.worked[m]
         /\ \/ IsMain(n) /\ d.cool = disk.cool \cup {n}
            \/ lost /\ d.cool = disk.cool /\ d.worked[n] >= disk.worked[n]
            \/ /\ ~lost /\ d.cool = disk.cool
               /\ disk.worked[n] < MaxWork => d.worked[n] = disk.worked[n] + 1
               /\ IsMain(n) => disk.worked[n] + 1 < MaxWork
  BY <1>3, CountWorkIs
<1>7. disk' = Closed(f, d, tallied)
  BY <1>4
<1>8. past' = [past EXCEPT !.lost = IF told /\ ~tallied /\ ~IsMain(n) THEN @ + 1 ELSE @,
                           !.failed = IF lost THEN Plus(@, n) ELSE @]
  BY <1>4
<1>9. Telling(fire[f])
  <2> HIDE DEF d
  <2>1. disk'.day = day
    BY <1>5, <1>7, DiskFields DEF Closed
  <2>2. past'.lost = IF told /\ ~tallied /\ ~IsMain(n) THEN past.lost + 1 ELSE past.lost
    BY <1>1, <1>8, PastFields
  <2>3. QED
    BY <2>1, <2>2 DEF Telling
<1>10. /\ \A m \in Notes \ {n} : past'.failed[m] = past.failed[m]
       /\ past'.failed[n] = IF lost THEN past.failed[n] + 1 ELSE past.failed[n]
       /\ ~lost => past'.failed = past.failed
       /\ UNCHANGED <<past.landed, past.bounces, past.drafts, past.sent, past.sibs, past.hit>>
  <2> HIDE DEF lost
  <2>1. past'.failed = IF lost THEN [past.failed EXCEPT ![n] = @ + 1] ELSE past.failed
    BY <1>1, <1>8, PastFields DEF Plus
  <2>2. UNCHANGED <<past.landed, past.bounces, past.drafts, past.sent, past.sibs, past.hit>>
    BY <1>1, <1>8, PastFields
  <2>3. QED
    BY <1>1, <1>3, <2>1, <2>2, PastFields
<1> HIDE DEF d, day, lost
<1>11. /\ disk'.answered = disk.answered
       /\ disk'.bounced = disk.bounced /\ disk'.worked = d.worked /\ disk'.cool = d.cool
       /\ disk'.seen = d.seen
  BY <1>5, <1>7, DiskFields DEF Closed
<1>12. disk'.out = IF fire[f].sent = "no" /\ fire[f].row THEN [disk.out EXCEPT ![From[n]] = @ - 1]
                   ELSE disk.out
  BY <1>5, <1>7, DiskFields DEF Closed, Released
<1>13. DoneOf({}) /\ UNCHANGED Ledgers
  BY <1>5, <1>11 DEF DoneOf, Ledgers
<1>w. d.worked[n] \in Nat
  BY <1>3, <1>5, DiskFields, ReplyBounds
<1>14. \/ fire[f].sent = "reply" /\ UNCHANGED <<disk.worked, disk.cool, past.failed>>
       \/ fire[f].sent # "reply" /\ Trying(n)
  BY <1>6, <1>10, <1>11, <1>w DEF Trying
<1>15. QED
  BY <1>2, <1>9, <1>10, <1>11, <1>12, <1>13, <1>14, LeaveIs DEF SettleTurn

(* Every turn of a fire is one of these.                                   *)
LEMMA TurnIs ==
  ASSUME ReplyTypeOK, FormOK, NEW f \in Fires, Turn(f)
  PROVE  Turns(f, fire[f], fire'[f])
<1>1. CASE \E n \in Notes : Dispose(f, n) \/ Wait(f, n) \/ Escalate(f, n) \/ TriageSession(f, n)
  BY <1>1, ReadTurnIs DEF Turns
<1>2. CASE \E s \in Senders : Send(f, s)
  BY <1>2, SendTurnIs DEF Turns
<1>3. CASE Post(f)
  BY <1>3, PostTurnIs DEF Turns
<1>4. CASE RememberAnswered(f)
  BY <1>4, SaveTurnIs DEF Turns
<1>5. CASE Gather(f) \/ Pick(f) \/ Draft(f)
  BY <1>5, GatherTurnIs, PickTurnIs, DraftTurnIs DEF Turns
<1>6. CASE NoSession(f) \/ Crash(f)
  BY <1>6, EndTurnIs DEF Turns
<1>7. CASE Bounce(f) \/ MarkBounced(f)
  BY <1>7, BounceTurnIs DEF Turns
<1>8. CASE Reserve(f) \/ Deliver(f) \/ ForgetUndelivered(f)
  BY <1>8, ReplyTurnIs DEF Turns
<1>9. CASE Settle(f)
  BY <1>9, SettleTurnIs DEF Turns
<1>10. CASE Start(f, TRUE) \/ Start(f, FALSE)
  BY <1>10, StartTurnIs DEF Turns
<1>11. CASE LedgerFails(f)
  BY <1>11, SameTurnIs DEF Turns
<1>12. QED
  BY <1>1, <1>2, <1>3, <1>4, <1>5, <1>6, <1>7, <1>8, <1>9, <1>10, <1>11 DEF Turn, FireStep

----------------------------------------------------------------------------
(* The rows of the record of replies.                                      *)
(* What is sent and due is counted as it was, and a reply is only due      *)
(* newly, against the cap, below it.                                       *)
RowTurn(x, y, s) ==
  /\ past'.sent[s] + Due(y, s) + disk.out[s] <= past.sent[s] + Due(x, s) + disk'.out[s]
  /\ \/ past'.sent[s] + Plain(y, s) <= past.sent[s] + Plain(x, s)
     \/ past'.sent[s] = past.sent[s] /\ disk.out[s] < MaxReplies

(* The counters are numbers.                                               *)
LEMMA RowNumbers ==
  ASSUME ReplyTypeOK, NEW s \in Senders
  PROVE  past.sent[s] \in Nat /\ disk.out[s] \in Nat
BY PastFields, DiskFields DEF ReplyTypeOK

(* A turn that leaves the counters alone, and has no new debt.             *)
LEMMA RowStays ==
  ASSUME ReplyTypeOK, NEW x, NEW y, NEW s \in Senders, past'.sent = past.sent,
         disk'.out = disk.out, Owes(y, s) => Owes(x, s) /\ y.exempt = x.exempt
  PROVE  RowTurn(x, y, s)
BY RowNumbers DEF RowTurn, Due, Plain

(* The rows of a batch.                                                    *)
LEMMA BatchRow ==
  ASSUME ReplyTypeOK, FormOK, NEW f \in Fires, NEW y, NEW c \in Senders, NEW s \in Senders,
         BatchTurn(fire[f], y, c)
  PROVE  RowTurn(fire[f], y, s)
<1> DEFINE x == fire[f]
<1>0. /\ past.sent[s] \in Nat /\ disk.out[s] \in Nat /\ past.sent[c] \in Nat /\ disk.out[c] \in Nat
      /\ disk.out \in [Senders -> Nat] /\ past.sent \in [Senders -> Nat] /\ x \in FireRecord
  BY RowNumbers, PastFields, DiskFields DEF ReplyTypeOK
<1>1. CASE /\ x.at = "triage" /\ y.at = "post" /\ y.row /\ y.note = x.note /\ y.exempt = x.exempt
           /\ y.parts # {} /\ \A n \in y.parts : From[n] = c
           /\ disk.out[c] < MaxReplies /\ past' = past
           /\ disk'.out = [disk.out EXCEPT ![c] = @ + 1]
  <2>1. ~Owes(x, s) /\ x.note = Nothing
    BY <1>1 DEF Owes, FormOK, Formed, Fresh
  <2>2. Owes(y, s) => s = c
    BY <1>1, <2>1 DEF Owes, Target
  <2>3. CASE s = c
    <3>1. disk'.out[s] = disk.out[s] + 1
      BY <1>0, <1>1, <2>3
    <3>2. QED
      BY <1>0, <1>1, <2>1, <2>3, <3>1 DEF RowTurn, Due, Plain
  <2>4. CASE s # c
    <3>1. disk'.out[s] = disk.out[s]
      BY <1>0, <1>1, <2>4
    <3>2. QED
      BY <1>0, <1>1, <2>1, <2>2, <2>4, <3>1 DEF RowTurn, Due, Plain
  <2>5. QED
    BY <2>3, <2>4
<1>2. CASE /\ x.at = "post" /\ y.at = "save" /\ y.note = x.note /\ \A n \in x.parts : From[n] = c
           /\ disk'.out = disk.out
           /\ past'.sent = IF x.row THEN [past.sent EXCEPT ![c] = @ + 1] ELSE past.sent
  <2>1. ~Owes(y, s) /\ ~x.exempt /\ x.note = Nothing /\ x.parts # {}
    BY <1>2 DEF Owes, FormOK, Formed, Batched
  <2>2. Owes(x, s) <=> (x.row /\ s = c)
    BY <1>2, <2>1 DEF Owes, Target
  <2>3. past'.sent[s] = IF x.row /\ s = c THEN past.sent[s] + 1 ELSE past.sent[s]
    BY <1>0, <1>2
  <2>4. QED
    BY <1>0, <1>2, <2>1, <2>2, <2>3 DEF RowTurn, Due, Plain
<1>3. CASE /\ x.at = "post" /\ Fresh(y) /\ \A n \in x.parts : From[n] = c
           /\ disk'.out = IF x.row THEN [disk.out EXCEPT ![c] = @ - 1] ELSE disk.out
           /\ past' = past
  <2>1. ~Owes(y, s) /\ x.note = Nothing /\ x.parts # {}
    BY <1>3 DEF Owes, FormOK, Formed, Batched, Fresh
  <2>2. Owes(x, s) <=> (x.row /\ s = c)
    BY <1>3, <2>1 DEF Owes, Target
  <2>3. disk'.out[s] = IF x.row /\ s = c THEN disk.out[s] - 1 ELSE disk.out[s]
    BY <1>0, <1>3
  <2>4. QED
    BY <1>0, <1>3, <2>1, <2>2, <2>3 DEF RowTurn, Due, Plain
<1>4. QED
  BY <1>1, <1>2, <1>3 DEF BatchTurn

(* The row of a reply.                                                     *)
LEMMA ReplyRow ==
  ASSUME ReplyTypeOK, FormOK, NEW f \in Fires, NEW y, NEW s \in Senders, ReplyTurn(fire[f], y)
  PROVE  RowTurn(fire[f], y, s)
<1> DEFINE x == fire[f]
           c == From[x.note]
<1>0. /\ past.sent[s] \in Nat /\ disk.out[s] \in Nat
      /\ disk.out \in [Senders -> Nat] /\ past.sent \in [Senders -> Nat] /\ x \in FireRecord
  BY RowNumbers, PastFields, DiskFields DEF ReplyTypeOK
<1>1. CASE /\ x.at = "reserve" /\ y.at = "deliver" /\ y.row /\ y.parts = {x.note}
           /\ y.sent = x.sent /\ y.note = x.note /\ y.exempt = x.exempt
           /\ x.exempt \/ disk.out[c] < MaxReplies
           /\ disk'.out = [disk.out EXCEPT ![c] = @ + 1] /\ past' = past
  <2>1. ~Owes(x, s) /\ x.note # Nothing
    BY <1>1 DEF Owes, FormOK, Formed
  <2>2. Owes(y, s) => s = c
    BY <1>1 DEF Owes, Target
  <2>3. disk'.out[s] = IF s = c THEN disk.out[s] + 1 ELSE disk.out[s]
    BY <1>0, <1>1
  <2>4. x.exempt \/ s # c => Plain(y, s) = 0
    BY <1>1, <2>2 DEF Plain
  <2>5. QED
    BY <1>0, <1>1, <2>1, <2>2, <2>3, <2>4 DEF RowTurn, Due, Plain
<1>2. CASE /\ x.at = "reserve" /\ y.row = x.row /\ disk' = disk /\ past' = past
  <2>1. ~Owes(y, s)
    BY <1>2 DEF Owes, FormOK, Formed
  <2>2. QED
    BY <1>2, <2>1, RowStays
<1>3. CASE /\ x.at = "deliver" /\ y.at = "save" /\ y.sent = "reply" /\ disk' = disk
           /\ past'.sent = IF ~x.exempt /\ x.row THEN [past.sent EXCEPT ![c] = @ + 1]
                           ELSE past.sent
  <2>1. ~Owes(y, s)
    BY <1>3 DEF Owes
  <2>2. x.note # Nothing /\ x.parts = {x.note}
    BY <1>3 DEF FormOK, Formed
  <2>3. Owes(x, s) <=> (x.row /\ s = c)
    BY <1>3, <2>2 DEF Owes, Target
  <2>4. past'.sent[s] = IF ~x.exempt /\ x.row /\ s = c THEN past.sent[s] + 1 ELSE past.sent[s]
    BY <1>0, <1>3
  <2>5. QED
    BY <1>0, <1>3, <2>1, <2>3, <2>4 DEF RowTurn, Due, Plain
<1>4. CASE /\ x.at = "deliver" /\ y.at = "save" /\ InHand(x, y) /\ disk' = disk /\ past' = past
  BY <1>4, RowStays DEF Owes, Target, InHand, FormOK, Formed
<1>5. CASE /\ x.at = "forget" /\ y.at = "settle" /\ InHand(x, y) /\ disk'.out = disk.out
           /\ past'.sent = past.sent
  BY <1>5, RowStays DEF Owes, Target, InHand
<1>6. QED
  BY <1>1, <1>2, <1>3, <1>4, <1>5 DEF ReplyTurn, Stumbles

(* The row of a cycle.                                                     *)
LEMMA SettleRow ==
  ASSUME ReplyTypeOK, FormOK, NEW f \in Fires, NEW y, NEW s \in Senders, SettleTurn(fire[f], y)
  PROVE  RowTurn(fire[f], y, s)
<1> DEFINE x == fire[f]
           c == From[x.note]
<1>0. /\ past.sent[s] \in Nat /\ disk.out[s] \in Nat /\ disk.out \in [Senders -> Nat]
      /\ x \in FireRecord
  BY RowNumbers, DiskFields DEF ReplyTypeOK
<1>1. /\ x.at = "settle" /\ Fresh(y) /\ past'.sent = past.sent
      /\ disk'.out = IF x.sent = "no" /\ x.row THEN [disk.out EXCEPT ![c] = @ - 1] ELSE disk.out
  BY DEF SettleTurn
<1>2. ~Owes(y, s) /\ x.note # Nothing /\ x.parts = {}
  BY <1>1 DEF Owes, FormOK, Formed, Fresh
<1>3. Owes(x, s) <=> (x.sent = "no" /\ x.row /\ s = c)
  BY <1>1, <1>2 DEF Owes, Target
<1>4. disk'.out[s] = IF x.sent = "no" /\ x.row /\ s = c THEN disk.out[s] - 1 ELSE disk.out[s]
  BY <1>0, <1>1
<1>5. QED
  BY <1>0, <1>1, <1>2, <1>3, <1>4 DEF RowTurn, Due, Plain

(* The rows of every turn.                                                 *)
LEMMA TurnRow ==
  ASSUME ReplyTypeOK, FormOK, NEW f \in Fires, NEW y, NEW s \in Senders, Turns(f, fire[f], y)
  PROVE  RowTurn(fire[f], y, s)
<1> DEFINE x == fire[f]
<1>1. CASE StartTurn(f, x, y)
  BY <1>1, RowStays DEF StartTurn, Stumbles, Owes, Fresh
<1>2. CASE EndTurn(x, y)
  BY <1>2, RowStays DEF EndTurn, Stumbles, Owes, Fresh
<1>3. CASE SameTurn(x, y)
  BY <1>3, RowStays DEF SameTurn, InHand, Owes, Target
<1>4. CASE ReadTurn(x, y)
  BY <1>4, RowStays DEF ReadTurn, InHand, Owes, Target
<1>5. CASE \E c \in Senders : BatchTurn(x, y, c)
  BY <1>5, BatchRow
<1>6. CASE \E n \in Notes : SaveTurn(x, y, n)
  <2>1. PICK n \in Notes : SaveTurn(x, y, n)
    BY <1>6
  <2>2. past'.sent = past.sent /\ disk'.out = disk.out
    BY <2>1 DEF SaveTurn, Stumbles
  <2>3. CASE x.note # Nothing
    <3>1. x.parts = {x.note} /\ x.sent \in {"no", "reply"}
      BY <2>1, <2>3 DEF SaveTurn, FormOK, Formed
    <3>2. x.sent = "reply" => ~Owes(y, s)
      BY <2>1, <2>3 DEF SaveTurn, Owes
    <3>3. x.sent = "no" => y.at = "forget" /\ y.row = x.row /\ y.note = x.note /\ y.parts = {}
      BY <2>1, <2>3, <3>1 DEF SaveTurn
    <3>4. y.exempt = x.exempt /\ x.at = "save"
      BY <2>1 DEF SaveTurn
    <3>5. Owes(y, s) => Owes(x, s)
      BY <2>3, <3>1, <3>2, <3>3, <3>4 DEF Owes, Target
    <3>6. QED
      BY <2>2, <3>4, <3>5, RowStays
  <2>4. CASE x.note = Nothing
    <3>1. ~Owes(y, s)
      BY <2>1, <2>4 DEF SaveTurn, Owes
    <3>2. QED
      BY <2>2, <3>1, RowStays
  <2>5. QED
    BY <2>3, <2>4
<1>7. CASE WorkTurn(x, y)
  <2>1. past'.sent = past.sent /\ disk'.out = disk.out
    BY <1>7 DEF WorkTurn
  <2>2. ~Owes(y, s)
    BY <1>7 DEF WorkTurn, Owes, Fresh, FormOK, Formed, InHand
  <2>3. QED
    BY <2>1, <2>2, RowStays
<1>8. CASE BounceTurn(x, y)
  <2>1. past'.sent = past.sent /\ disk'.out = disk.out
    BY <1>8 DEF BounceTurn, Stumbles
  <2>2. ~Owes(y, s)
    BY <1>8 DEF BounceTurn, Owes, FormOK, Formed
  <2>3. QED
    BY <2>1, <2>2, RowStays
<1>9. CASE ReplyTurn(x, y)
  BY <1>9, ReplyRow
<1>10. CASE SettleTurn(x, y)
  BY <1>10, SettleRow
<1>11. QED
  BY <1>1, <1>2, <1>3, <1>4, <1>5, <1>6, <1>7, <1>8, <1>9, <1>10 DEF Turns

(* What is due is none or one.                                             *)
LEMMA Dues ==
  ASSUME NEW x, NEW s
  PROVE  Due(x, s) \in 0 .. 1 /\ Plain(x, s) \in 0 .. Due(x, s)
BY DEF Due, Plain

(* A turn of a fire keeps the rows.                                        *)
LEMMA RowsTurn ==
  ASSUME ReplyTypeOK, ReplyTypeOK', FormOK, RowsOK, NEW f \in Fires,
         Turns(f, fire[f], fire'[f]), \A g \in Fires \ {f} : fire'[g] = fire[g]
  PROVE  RowsOK'
<1>1. SUFFICES ASSUME NEW a \in Fires, NEW b \in Fires, a # b, NEW s \in Senders
               PROVE  /\ past'.sent[s] + Due(fire'[a], s) + Due(fire'[b], s) <= disk'.out[s]
                      /\ past'.sent[s] + Plain(fire'[a], s) + Plain(fire'[b], s) <= MaxReplies
  BY DEF RowsOK, Due, Plain, Owes, Target
<1>2. \A x : Due(x, s) \in 0 .. 1 /\ Plain(x, s) \in 0 .. Due(x, s)
  BY Dues
<1>3. /\ past.sent[s] \in Nat /\ disk.out[s] \in Nat /\ past'.sent[s] \in Nat
      /\ disk'.out[s] \in Nat /\ MaxReplies \in Nat
  BY RowNumbers, PastFields, DiskFields, ReplyBounds DEF ReplyTypeOK
<1>4. ASSUME NEW g \in Fires, g # f
      PROVE  /\ past'.sent[s] + Due(fire'[f], s) + Due(fire'[g], s) <= disk'.out[s]
             /\ past'.sent[s] + Plain(fire'[f], s) + Plain(fire'[g], s) <= MaxReplies
  <2>1. /\ past.sent[s] + Due(fire[f], s) + Due(fire[g], s) <= disk.out[s]
        /\ past.sent[s] + Plain(fire[f], s) + Plain(fire[g], s) <= MaxReplies
    BY <1>4 DEF RowsOK
  <2>2. RowTurn(fire[f], fire'[f], s) /\ fire'[g] = fire[g]
    BY <1>4, TurnRow
  <2> DEFINE dx == Due(fire[f], s)
             dy == Due(fire'[f], s)
             dg == Due(fire[g], s)
             px == Plain(fire[f], s)
             py == Plain(fire'[f], s)
             pg == Plain(fire[g], s)
  <2>3. dx \in 0 .. 1 /\ dy \in 0 .. 1 /\ dg \in 0 .. 1 /\ px \in 0 .. dx /\ py \in 0 .. dy
        /\ pg \in 0 .. dg
    BY <1>2
  <2>4. /\ past'.sent[s] + dy + disk.out[s] <= past.sent[s] + dx + disk'.out[s]
        /\ \/ past'.sent[s] + py <= past.sent[s] + px
           \/ past'.sent[s] = past.sent[s] /\ disk.out[s] < MaxReplies
    BY <2>2 DEF RowTurn
  <2>5. past.sent[s] + dx + dg <= disk.out[s] /\ past.sent[s] + px + pg <= MaxReplies
    BY <2>1
  <2> HIDE DEF dx, dy, dg, px, py, pg
  <2>6. past'.sent[s] + dy + dg <= disk'.out[s] /\ past'.sent[s] + py + pg <= MaxReplies
    BY <1>3, <2>3, <2>4, <2>5
  <2>7. QED
    BY <2>2, <2>6 DEF dy, dg, py, pg
<1>5. \/ a = f /\ b # f
      \/ b = f /\ a # f
  BY <1>1 DEF Fires
<1>6. QED
  BY <1>2, <1>3, <1>4, <1>5

----------------------------------------------------------------------------
(* What a fire carries.                                                    *)
(* A turn leaves a fire's record well formed.                              *)
LEMMA FormTurn ==
  ASSUME ReplyTypeOK, NEW f \in Fires, Formed(fire[f]), NEW y, Turns(f, fire[f], y)
  PROVE  Formed(y)
<1> DEFINE x == fire[f]
<1>0. x \in FireRecord /\ x.parts \in SUBSET Notes /\ x.note \in Notes \cup {Nothing}
      /\ x.at \in FirePlaces /\ x.sent \in {"no", "reply", "bounce"} /\ x.row \in BOOLEAN
      /\ x.exempt \in BOOLEAN
  BY FireFields DEF ReplyTypeOK
<1>1. ASSUME y.at \in {"off", "triage", "pick"}, Fresh(y)
      PROVE  Formed(y)
  BY <1>1 DEF Formed, Batched
<1>2. CASE StartTurn(f, x, y) \/ EndTurn(x, y) \/ SettleTurn(x, y)
  BY <1>1, <1>2 DEF StartTurn, EndTurn, SettleTurn
<1>3. CASE SameTurn(x, y)
  BY <1>3 DEF SameTurn, InHand, Formed, Fresh, Batched
<1>4. CASE ReadTurn(x, y)
  BY <1>1, <1>4 DEF ReadTurn, InHand, Formed, Fresh
<1>5. CASE \E s \in Senders : BatchTurn(x, y, s)
  <2>1. PICK s \in Senders : BatchTurn(x, y, s)
    BY <1>5
  <2>2. CASE x.at = "triage"
    BY <2>1, <2>2 DEF BatchTurn, Formed, Fresh, Batched, OneSender
  <2>3. CASE x.at = "post" /\ y.at = "save"
    BY <2>1, <2>3 DEF BatchTurn, Formed, Fresh, Batched
  <2>4. CASE x.at = "post" /\ y.at = "triage"
    BY <1>1, <2>1, <2>4 DEF BatchTurn
  <2>5. QED
    BY <2>1, <2>2, <2>3, <2>4 DEF BatchTurn
<1>6. CASE \E n \in Notes : SaveTurn(x, y, n)
  <2>1. PICK n \in Notes : SaveTurn(x, y, n)
    BY <1>6
  <2>2. CASE x.note # Nothing
    <3>1. x.parts = {x.note} /\ x.sent \in {"no", "reply"}
      BY <2>1, <2>2 DEF SaveTurn, Formed
    <3>2. y.parts = {} /\ y.note # Nothing /\ y.sent = x.sent
      BY <2>1, <2>2, <3>1 DEF SaveTurn
    <3>3. y.at = IF x.sent = "reply" THEN "settle" ELSE "forget"
      BY <2>1, <2>2 DEF SaveTurn
    <3>4. QED
      BY <3>1, <3>2, <3>3 DEF Formed, Batched
  <2>3. CASE x.note = Nothing
    <3>1. /\ x.sent = "no" /\ ~x.exempt /\ x.todo = {} /\ OneSender(x.parts)
          /\ x.parts \subseteq x.batch
      BY <2>1, <2>3 DEF SaveTurn, Formed, Batched
    <3>2. y.note = Nothing /\ y.sent = "no" /\ ~y.exempt /\ y.todo = {} /\ OneSender(y.parts)
      BY <2>1, <2>3, <3>1 DEF SaveTurn, OneSender
    <3>3. CASE y.at = "triage"
      BY <1>1, <2>1, <2>3, <3>2, <3>3 DEF SaveTurn, Fresh
    <3>4. CASE y.at = "save"
      BY <2>1, <2>3, <3>1, <3>2, <3>4 DEF SaveTurn, Formed
    <3>5. QED
      BY <2>1, <2>3, <3>3, <3>4 DEF SaveTurn
  <2>4. QED
    BY <2>2, <2>3
<1>7. CASE WorkTurn(x, y)
  <2>1. CASE x.at = "triage"
    BY <1>1, <1>7, <2>1 DEF WorkTurn
  <2>2. CASE x.at = "pick"
    <3>1. y.at = "draft" /\ y.note \in Notes /\ y.parts = {} /\ ~y.row /\ y.sent = "no"
      BY <1>0, <1>7, <2>2, FireFields DEF WorkTurn, Formed, Fresh
    <3>2. QED
      BY <3>1, ResponderAssumption DEF Formed, Batched
  <2>3. CASE x.at = "draft"
    BY <1>7, <2>3 DEF WorkTurn, InHand, Formed, Batched
  <2>4. QED
    BY <1>7, <2>1, <2>2, <2>3 DEF WorkTurn
<1>8. CASE BounceTurn(x, y)
  BY <1>8 DEF BounceTurn, Formed, Batched
<1>9. CASE ReplyTurn(x, y)
  BY <1>9 DEF ReplyTurn, InHand, Formed, Batched
<1>10. QED
  BY <1>2, <1>3, <1>4, <1>5, <1>6, <1>7, <1>8, <1>9 DEF Turns

(* Every step but those of a fire leaves the fires alone, but for Roll.    *)
Apart ==
  \/ \E n \in Notes : Arrive(n) \/ OutboxCopy(n) \/ CoolOff(n)
  \/ Midnight \/ Renew

(* The steps.                                                              *)
LEMMA ReplySteps ==
  ASSUME ReplyNext
  PROVE  \/ \E f \in Fires : Turn(f)
         \/ \E s \in Senders : Roll(s)
         \/ Apart
BY DEF ReplyNext, Turn, Apart

(* A turn of a fire, and what it leaves alone.                             *)
LEMMA TurnAlone ==
  ASSUME ReplyTypeOK, NEW f \in Fires, Turn(f)
  PROVE  UNCHANGED <<inbox, outbox>> /\ \A g \in Fires \ {f} : fire'[g] = fire[g]
<1>1. \E now : Becomes(f, now)
  <2>1. CASE \E n \in Notes : Dispose(f, n) \/ Wait(f, n) \/ Escalate(f, n) \/ TriageSession(f, n)
    BY <2>1 DEF Dispose, Wait, Escalate, TriageSession
  <2>2. CASE (\E s \in Senders : Send(f, s)) \/ Post(f)
    BY <2>2 DEF Send, Post, GoOn
  <2>3. CASE RememberAnswered(f)
    BY <2>3 DEF RememberAnswered
  <2>4. CASE Gather(f) \/ Pick(f) \/ Draft(f) \/ NoSession(f)
    BY <2>4 DEF Gather, Pick, Draft, NoSession, Leave, GoOn
  <2>5. CASE Bounce(f) \/ MarkBounced(f) \/ Reserve(f)
    BY <2>5 DEF Bounce, MarkBounced, Reserve, GoOn
  <2>6. CASE Deliver(f) \/ ForgetUndelivered(f) \/ Settle(f)
    BY <2>6 DEF Deliver, ForgetUndelivered, Settle, Leave, GoOn
  <2>7. CASE Start(f, TRUE) \/ Start(f, FALSE) \/ LedgerFails(f) \/ Crash(f)
    BY <2>7 DEF Start, LedgerFails, Crash, Leave
  <2>8. QED
    BY <2>1, <2>2, <2>3, <2>4, <2>5, <2>6, <2>7 DEF Turn, FireStep
<1>2. UNCHANGED <<inbox, outbox>>
  BY DEF Turn, FireStep, Start, LedgerFails, Crash, Dispose, Wait, Escalate, TriageSession, Send,
         Post, RememberAnswered, Gather, Pick, Draft, NoSession, Bounce, MarkBounced, Reserve,
         Deliver, ForgetUndelivered, Settle
<1>3. QED
  BY <1>1, <1>2, FireBecomes

(* The rows of a sender age out, and the fires that had one lose it.       *)
LEMMA RollIs ==
  ASSUME ReplyTypeOK, NEW s \in Senders, Roll(s)
  PROVE  /\ \A f \in Fires :
              LET x == fire[f] y == fire'[f]
              IN  /\ y \in FireRecord /\ y.row = (x.row /\ ~Target(x, s))
                  /\ y.at = x.at /\ y.note = x.note /\ y.parts = x.parts /\ y.sent = x.sent
                  /\ y.exempt = x.exempt /\ y.answered = x.answered /\ y.todo = x.todo
                  /\ y.batch = x.batch /\ y.work = x.work
         /\ disk' = [disk EXCEPT !.out = [disk.out EXCEPT ![s] = 0]]
         /\ past' = [past EXCEPT !.sent = [past.sent EXCEPT ![s] = 0]]
<1>1. ASSUME NEW f \in Fires
      PROVE  LET x == fire[f] y == fire'[f]
             IN  /\ y \in FireRecord /\ y.row = (x.row /\ ~Target(x, s))
                 /\ y.at = x.at /\ y.note = x.note /\ y.parts = x.parts /\ y.sent = x.sent
                 /\ y.exempt = x.exempt /\ y.answered = x.answered /\ y.todo = x.todo
                 /\ y.batch = x.batch /\ y.work = x.work
  <2> DEFINE x == fire[f]
             row == x.row /\ ~Target(x, s)
  <2>1. x \in FireRecord /\ x.row \in BOOLEAN
    BY FireFields DEF ReplyTypeOK
  <2>2. fire'[f] = [x EXCEPT !.row = row]
    BY DEF Roll, Target
  <2>3. row \in BOOLEAN
    BY <2>1
  <2> HIDE DEF row
  <2>4. [x EXCEPT !.row = row] \in FireRecord
    BY <2>1, <2>3, FireEdits
  <2>5. fire'[f].row = row
    BY <2>1, <2>2, FireFields
  <2>6. QED
    BY <2>1, <2>2, <2>4, <2>5, FireFields DEF row
<1>2. QED
  BY <1>1 DEF Roll

(* What a fire carries is well formed after every step.                    *)
LEMMA FormStep ==
  ASSUME ReplyTypeOK, FormOK, ReplyNext
  PROVE  FormOK'
<1>1. CASE \E f \in Fires : Turn(f)
  <2>1. PICK f \in Fires : Turn(f)
    BY <1>1
  <2>2. Formed(fire'[f])
    BY <2>1, TurnIs, FormTurn DEF FormOK
  <2>3. \A g \in Fires \ {f} : Formed(fire'[g])
    BY <2>1, TurnAlone DEF FormOK
  <2>4. QED
    BY <2>2, <2>3 DEF FormOK, Formed, Fresh, Batched, OneSender
<1>2. CASE \E s \in Senders : Roll(s)
  <2>1. PICK s \in Senders : Roll(s)
    BY <1>2
  <2>2. ASSUME NEW f \in Fires
        PROVE  Formed(fire'[f])
    <3>1. Formed(fire[f])
      BY DEF FormOK
    <3>2. QED
      BY <2>1, <3>1, RollIs DEF Formed, Fresh, Batched
  <2>3. QED
    BY <2>2 DEF FormOK, Formed, Fresh, Batched, OneSender
<1>3. CASE Apart
  <2>1. fire' = fire
    BY <1>3 DEF Apart, Arrive, OutboxCopy, CoolOff, Midnight, Renew
  <2>2. QED
    BY <2>1 DEF FormOK, Formed, Fresh, Batched, OneSender
<1>4. QED
  BY <1>1, <1>2, <1>3, ReplySteps

(* The rows fit after every step.                                          *)
LEMMA RowsStep ==
  ASSUME ReplyTypeOK, ReplyTypeOK', FormOK, RowsOK, ReplyNext
  PROVE  RowsOK'
<1>1. CASE \E f \in Fires : Turn(f)
  BY <1>1, TurnIs, TurnAlone, RowsTurn
<1>2. CASE \E s \in Senders : Roll(s)
  <2>1. PICK s \in Senders : Roll(s)
    BY <1>2
  <2>2. SUFFICES ASSUME NEW a \in Fires, NEW b \in Fires, a # b, NEW c \in Senders
                 PROVE  /\ past'.sent[c] + Due(fire'[a], c) + Due(fire'[b], c) <= disk'.out[c]
                        /\ past'.sent[c] + Plain(fire'[a], c) + Plain(fire'[b], c) <= MaxReplies
    BY DEF RowsOK, Due, Plain, Owes, Target
  <2>3. /\ past.sent[c] + Due(fire[a], c) + Due(fire[b], c) <= disk.out[c]
        /\ past.sent[c] + Plain(fire[a], c) + Plain(fire[b], c) <= MaxReplies
    BY <2>2 DEF RowsOK
  <2>4. ASSUME NEW f \in Fires
        PROVE  /\ Owes(fire'[f], c) => Owes(fire[f], c) /\ c # s
               /\ fire'[f].exempt = fire[f].exempt
    <3> DEFINE x == fire[f]
               y == fire'[f]
    <3>1. /\ y.row = (x.row /\ ~Target(x, s)) /\ y.at = x.at /\ y.note = x.note
          /\ y.parts = x.parts /\ y.sent = x.sent /\ y.exempt = x.exempt
      BY <2>1, RollIs
    <3>2. y.row => x.row /\ ~Target(x, s)
      BY <3>1, Zenon
    <3>3. Target(y, c) <=> Target(x, c)
      BY <3>1 DEF Target
    <3>4. QED
      BY <3>1, <3>2, <3>3 DEF Owes
  <2>5. /\ past'.sent[c] = IF c = s THEN 0 ELSE past.sent[c]
        /\ disk'.out[c] = IF c = s THEN 0 ELSE disk.out[c]
    <3>1. past \in PastRecord /\ disk \in DiskRecord
      BY DEF ReplyTypeOK
    <3>2. past'.sent = [past.sent EXCEPT ![s] = 0] /\ disk'.out = [disk.out EXCEPT ![s] = 0]
      BY <2>1, <3>1, RollIs, PastFields, DiskFields
    <3>3. QED
      BY <3>1, <3>2, PastFields, DiskFields
  <2>6. past.sent[c] \in Nat /\ disk.out[c] \in Nat /\ MaxReplies \in Nat
    BY RowNumbers, ReplyBounds
  <2>7. QED
    BY <2>3, <2>4, <2>5, <2>6 DEF Due, Plain
<1>3. CASE Apart
  <2>1. fire' = fire /\ past'.sent = past.sent /\ disk'.out = disk.out
    <3>1. past \in PastRecord /\ disk \in DiskRecord
      BY DEF ReplyTypeOK
    <3>2. QED
      BY <1>3, <3>1, PastFields, DiskFields DEF Apart, Arrive, OutboxCopy, CoolOff, Midnight, Renew
  <2>2. QED
    BY <2>1 DEF RowsOK, Due, Plain, Owes, Target
<1>4. QED
  BY <1>1, <1>2, <1>3, ReplySteps

----------------------------------------------------------------------------
(* Types, step by step.                                                    *)
FiresTyped == fire' \in [Fires -> FireRecord]

(* One record is written, with one.                                        *)
LEMMA OneTyped ==
  ASSUME ReplyTypeOK, NEW f \in Fires, NEW now \in FireRecord, Becomes(f, now)
  PROVE  FiresTyped
BY DEF FiresTyped, Becomes, ReplyTypeOK

(* The place is written.                                                   *)
LEMMA PlaceTyped ==
  ASSUME ReplyTypeOK, NEW f \in Fires, NEW place \in FirePlaces, GoOn(f, place)
  PROVE  FiresTyped
<1>1. [fire[f] EXCEPT !.at = place] \in FireRecord
  BY FireEdits DEF ReplyTypeOK
<1>2. QED
  BY <1>1, OneTyped DEF GoOn

(* Nobody is there.                                                        *)
LEMMA LeaveTyped ==
  ASSUME ReplyTypeOK, NEW f \in Fires, Leave(f)
  PROVE  FiresTyped
BY IdleIs, OneTyped DEF Leave

(* The records of a triage.                                                *)
LEMMA ReadTyped ==
  ASSUME ReplyTypeOK, NEW f \in Fires, NEW n \in Notes,
         Dispose(f, n) \/ Wait(f, n) \/ Escalate(f, n) \/ TriageSession(f, n)
  PROVE  FiresTyped
<1> DEFINE x == fire[f]
           now == [x EXCEPT !.todo = @ \ {n}]
<1>0. x \in FireRecord
  BY DEF ReplyTypeOK
<1>1. /\ now \in FireRecord /\ now.left = x.left /\ now.work = x.work /\ now.batch = x.batch
  <2> DEFINE todo == x.todo \ {n}
  <2>1. todo \in SUBSET Notes
    BY <1>0, FireFields
  <2> HIDE DEF todo
  <2>2. [x EXCEPT !.todo = todo] \in FireRecord
    BY <1>0, <2>1, FireEdits
  <2>3. now.left = x.left /\ now.work = x.work /\ now.batch = x.batch
    BY <1>0, FireFields
  <2>4. QED
    BY <2>2, <2>3 DEF todo
<1>a. x.left \in 0 .. PerFire /\ x.batch \in SUBSET Notes /\ x.work \in SUBSET Notes
  BY <1>0, FireFields
<1> HIDE DEF now
<1>2. ASSUME NEW left \in 0 .. PerFire, NEW work \in SUBSET Notes
      PROVE  [now EXCEPT !.left = left, !.work = work] \in FireRecord
  BY <1>1, <1>2, FireEdits
<1>3. \A left \in 0 .. PerFire : Budget(f, left) \in 0 .. PerFire
  BY ReplyBounds DEF Budget
<1>4. CASE Dispose(f, n)
  <2> DEFINE work == IF Kind[n] # "ack" /\ n \notin x.answered THEN x.work \cup {n} ELSE x.work
  <2>1. Becomes(f, [now EXCEPT !.left = Budget(f, x.left), !.work = work])
    BY <1>0, <1>4, FireFields DEF Dispose, now
  <2>2. work \in SUBSET Notes
    BY <1>a
  <2> HIDE DEF work
  <2>3. QED
    BY <1>2, <1>3, <1>a, <2>1, <2>2, OneTyped
<1>5. CASE Wait(f, n)
  BY <1>1, <1>5, OneTyped DEF Wait, now
<1>6. CASE Escalate(f, n)
  <2>1. Becomes(f, [now EXCEPT !.left = Budget(f, x.left), !.work = x.work \cup {n}])
    BY <1>0, <1>6, FireFields DEF Escalate, now
  <2>2. QED
    BY <1>2, <1>3, <1>a, <2>1, OneTyped
<1>7. CASE TriageSession(f, n)
  <2>1. x.left > 0 /\ x.left - 1 \in 0 .. PerFire /\ 0 \in 0 .. PerFire
    <3>1. HasRoom(f, n)
      BY <1>7, Zenon DEF TriageSession
    <3>2. QED
      BY <1>a, <3>1, ReplyBounds DEF HasRoom
  <2>2. CASE Becomes(f, [now EXCEPT !.left = Budget(f, @ - 1)])
    <3>1. [now EXCEPT !.left = Budget(f, x.left - 1)] \in FireRecord
      BY <1>1, <1>3, <2>1, FireEdits
    <3>2. QED
      BY <1>1, <2>2, <3>1, OneTyped
  <2>3. CASE Becomes(f, [now EXCEPT !.left = @ - 1, !.batch = @ \cup {n}])
    <3>1. [now EXCEPT !.left = x.left - 1, !.batch = x.batch \cup {n}] \in FireRecord
      BY <1>1, <1>a, <2>1, FireEdits
    <3>2. QED
      BY <1>1, <2>3, <3>1, OneTyped
  <2>4. CASE Becomes(f, [now EXCEPT !.left = 0])
    <3>1. [now EXCEPT !.left = 0] \in FireRecord
      BY <1>1, <2>1, FireEdits
    <3>2. QED
      BY <2>4, <3>1, OneTyped
  <2>5. ASSUME NEW lost \in SUBSET {n},
               Becomes(f, [now EXCEPT !.left = 0, !.work = @ \cup Failed({n}, lost)])
        PROVE  FiresTyped
    <3>1. x.work \cup Failed({n}, lost) \in SUBSET Notes
      BY <1>a, <2>5 DEF Failed
    <3>2. [now EXCEPT !.left = 0, !.work = x.work \cup Failed({n}, lost)] \in FireRecord
      BY <1>2, <2>1, <3>1
    <3>3. QED
      BY <1>1, <2>5, <3>2, OneTyped
  <2>6. QED
    BY <1>7, <2>2, <2>3, <2>4, <2>5 DEF TriageSession, now
<1>8. QED
  BY <1>4, <1>5, <1>6, <1>7

(* The records of a batch.                                                 *)
LEMMA BatchTyped ==
  ASSUME ReplyTypeOK, NEW f \in Fires, (\E s \in Senders : Send(f, s)) \/ Post(f)
  PROVE  FiresTyped
<1> DEFINE x == fire[f]
<1>0. /\ x \in FireRecord /\ x.batch \in SUBSET Notes /\ x.work \in SUBSET Notes
      /\ x.parts \in SUBSET Notes
  BY FireFields DEF ReplyTypeOK
<1>1. CASE \E s \in Senders : Send(f, s)
  <2>1. PICK s \in Senders : Send(f, s)
    BY <1>1
  <2> DEFINE part == {n \in x.batch : From[n] = s}
             rest == [x EXCEPT !.batch = @ \ part]
  <2>2. part \in SUBSET Notes /\ \A lost \in SUBSET part : Failed(part, lost) \in SUBSET Notes
    BY <1>0 DEF Failed
  <2>3. \/ \E lost \in SUBSET part : Becomes(f, [rest EXCEPT !.work = @ \cup Failed(part, lost)])
        \/ Becomes(f, [rest EXCEPT !.work = @ \cup part])
        \/ Becomes(f, [x EXCEPT !.at = "post", !.parts = part, !.row = TRUE])
    BY <2>1 DEF Send
  <2> HIDE DEF part
  <2>4. rest \in FireRecord /\ rest.work = x.work
    <3> DEFINE b == x.batch \ part
    <3>1. b \in SUBSET Notes
      BY <1>0
    <3> HIDE DEF b
    <3>2. [x EXCEPT !.batch = b] \in FireRecord
      BY <1>0, <3>1, FireEdits
    <3>3. [x EXCEPT !.batch = b].work = x.work
      BY <1>0, FireFields
    <3>4. QED
      BY <3>2, <3>3 DEF b
  <2> HIDE DEF rest
  <2>5. ASSUME NEW more \in SUBSET Notes, Becomes(f, [rest EXCEPT !.work = @ \cup more])
        PROVE  FiresTyped
    <3>1. [rest EXCEPT !.work = x.work \cup more] \in FireRecord
      BY <1>0, <2>4, FireEdits
    <3>2. QED
      BY <2>4, <2>5, <3>1, OneTyped
  <2>6. [x EXCEPT !.at = "post", !.parts = part, !.row = TRUE] \in FireRecord
    BY <1>0, <2>2, FireEdits DEF FirePlaces
  <2>7. QED
    BY <2>2, <2>3, <2>5, <2>6, OneTyped
<1>2. CASE Post(f)
  <2> DEFINE b == x.batch \ x.parts
             now(w) == [x EXCEPT !.at = "triage", !.parts = {}, !.row = FALSE, !.batch = b,
                                 !.work = w]
  <2>1. GoOn(f, "save") \/ \E w \in SUBSET Notes : Becomes(f, now(w))
    <3>1. GoOn(f, "save") \/ \E lost \in SUBSET x.parts :
             Becomes(f, now(x.work \cup Failed(x.parts, lost)))
      BY <1>2 DEF Post
    <3>2. \A lost \in SUBSET x.parts : x.work \cup Failed(x.parts, lost) \in SUBSET Notes
      BY <1>0 DEF Failed
    <3> HIDE DEF now
    <3>3. QED
      BY <3>1, <3>2
  <2>2. b \in SUBSET Notes
    BY <1>0
  <2> HIDE DEF b
  <2>3. \A w \in SUBSET Notes : now(w) \in FireRecord
    BY <1>0, <2>2, FireEdits DEF FirePlaces
  <2>4. QED
    BY <2>1, <2>3, OneTyped, PlaceTyped DEF FirePlaces
<1>3. QED
  BY <1>1, <1>2

(* The record of one that remembers.                                       *)
LEMMA SaveTyped ==
  ASSUME ReplyTypeOK, NEW f \in Fires, RememberAnswered(f)
  PROVE  FiresTyped
<1> DEFINE x == fire[f]
<1>0. x \in FireRecord /\ x.batch \in SUBSET Notes /\ x.parts \in SUBSET Notes
  BY FireFields DEF ReplyTypeOK
<1>1. PICK n \in x.parts :
        LET same == {m \in x.batch : From[m] = From[n]}
            now == [x EXCEPT !.parts = @ \ {n}]
        IN  \/ Becomes(f, [now EXCEPT !.at = IF x.sent = "reply" THEN "settle" ELSE "forget"])
            \/ Becomes(f, [now EXCEPT !.at = "triage", !.batch = @ \ same, !.row = FALSE])
            \/ Becomes(f, now)
  BY DEF RememberAnswered
<1> DEFINE same == {m \in x.batch : From[m] = From[n]}
           now == [x EXCEPT !.parts = @ \ {n}]
           to == IF x.sent = "reply" THEN "settle" ELSE "forget"
<1>2. now \in FireRecord /\ now.batch = x.batch
  <2> DEFINE p == x.parts \ {n}
  <2>1. p \in SUBSET Notes
    BY <1>0
  <2> HIDE DEF p
  <2>2. [x EXCEPT !.parts = p] \in FireRecord
    BY <1>0, <2>1, FireEdits
  <2>3. [x EXCEPT !.parts = p].batch = x.batch
    BY <1>0, FireFields
  <2>4. QED
    BY <2>2, <2>3 DEF p
<1>3. x.batch \ same \in SUBSET Notes /\ to \in FirePlaces /\ "triage" \in FirePlaces
  BY <1>0 DEF FirePlaces
<1>4. \/ Becomes(f, [now EXCEPT !.at = to])
      \/ Becomes(f, [now EXCEPT !.at = "triage", !.batch = @ \ same, !.row = FALSE])
      \/ Becomes(f, now)
  BY <1>1
<1> HIDE DEF now, same, to
<1>5. [now EXCEPT !.at = to] \in FireRecord
  BY <1>2, <1>3, FireEdits
<1>6. [now EXCEPT !.at = "triage", !.batch = @ \ same, !.row = FALSE] \in FireRecord
  <2>1. [now EXCEPT !.at = "triage", !.batch = x.batch \ same, !.row = FALSE] \in FireRecord
    BY <1>2, <1>3, FireEdits
  <2>2. QED
    BY <1>2, <2>1
<1>7. QED
  BY <1>2, <1>4, <1>5, <1>6, OneTyped

(* The records of a cycle.                                                 *)
LEMMA CycleTyped ==
  ASSUME ReplyTypeOK, FormOK, NEW f \in Fires,
         \/ Gather(f) \/ Pick(f) \/ Draft(f) \/ NoSession(f) \/ Bounce(f) \/ MarkBounced(f)
         \/ Reserve(f) \/ Deliver(f) \/ ForgetUndelivered(f) \/ Settle(f)
         \/ LedgerFails(f) \/ Crash(f)
  PROVE  FiresTyped
<1> DEFINE x == fire[f]
<1>0. x \in FireRecord /\ x.work \in SUBSET Notes /\ x.note \in Notes \cup {Nothing}
      /\ x.ok \in BOOLEAN
  BY FireFields DEF ReplyTypeOK
<1>1. CASE Gather(f)
  <2> DEFINE work == {n \in (x.work \cup {m \in Notes : disk.seen[m] = "work"})
                              \ (x.answered \cup disk.cool) : Workable(f, n)}
  <2>1. Becomes(f, [Idle EXCEPT !.at = "pick", !.ok = x.ok, !.work = work])
    BY <1>1 DEF Gather
  <2>2. work \in SUBSET Notes
    BY <1>0
  <2> HIDE DEF work
  <2>3. [Idle EXCEPT !.at = "pick", !.ok = x.ok, !.work = work] \in FireRecord
    BY <1>0, <2>2, IdleIs, FireEdits DEF FirePlaces
  <2>4. QED
    BY <2>1, <2>3, OneTyped
<1>2. CASE Pick(f)
  <2>1. CASE Leave(f)
    BY <2>1, LeaveTyped
  <2>2. CASE ~Leave(f)
    <3>1. PICK n \in Queue(f) : Becomes(f, [x EXCEPT !.at = "draft", !.note = n, !.work = {},
                                                     !.exempt = Exempt(n)])
      BY <1>2, <2>2 DEF Pick
    <3>2. n \in Notes
      BY <1>0 DEF Queue, Candidates
    <3>3. Exempt(n) \in BOOLEAN
      BY DEF Exempt
    <3>4. [x EXCEPT !.at = "draft", !.note = n, !.work = {}, !.exempt = Exempt(n)] \in FireRecord
      BY <1>0, <3>2, <3>3, FireEdits DEF FirePlaces
    <3>5. QED
      BY <3>1, <3>4, OneTyped
  <2>3. QED
    BY <2>1, <2>2
<1>3. CASE Draft(f) \/ MarkBounced(f) \/ ForgetUndelivered(f)
  <2>1. \E place \in FirePlaces : GoOn(f, place)
    BY <1>3 DEF Draft, MarkBounced, ForgetUndelivered, FirePlaces
  <2>2. QED
    BY <2>1, PlaceTyped
<1>4. CASE NoSession(f) \/ Settle(f) \/ Crash(f)
  BY <1>4, LeaveTyped DEF NoSession, Settle, Crash
<1>5. CASE Bounce(f)
  <2>1. [x EXCEPT !.at = "mark", !.sent = "bounce"] \in FireRecord
    BY <1>0, FireEdits DEF FirePlaces
  <2>2. QED
    BY <1>5, <2>1, OneTyped, PlaceTyped DEF Bounce, FirePlaces
<1>6. CASE Reserve(f)
  <2> DEFINE now == [x EXCEPT !.parts = {x.note}]
  <2>1. \/ Becomes(f, [now EXCEPT !.at = "deliver", !.row = TRUE])
        \/ Becomes(f, [now EXCEPT !.at = "save"])
    BY <1>6 DEF Reserve
  <2>2. x.note \in Notes
    BY <1>0, <1>6 DEF Reserve, IsAt, FormOK, Formed
  <2>3. now \in FireRecord
    BY <1>0, <2>2, FireEdits
  <2> HIDE DEF now
  <2>4. /\ [now EXCEPT !.at = "deliver", !.row = TRUE] \in FireRecord
        /\ [now EXCEPT !.at = "save"] \in FireRecord
    BY <2>3, FireEdits DEF FirePlaces
  <2>5. QED
    BY <2>1, <2>4, OneTyped
<1>7. CASE Deliver(f)
  <2>1. [x EXCEPT !.at = "save", !.sent = "reply"] \in FireRecord
    BY <1>0, FireEdits DEF FirePlaces
  <2>2. QED
    BY <1>7, <2>1, OneTyped, PlaceTyped DEF Deliver, FirePlaces
<1>8. CASE LedgerFails(f)
  <2>1. [x EXCEPT !.ok = FALSE] \in FireRecord
    BY <1>0, FireEdits
  <2>2. QED
    BY <1>8, <2>1, OneTyped DEF LedgerFails
<1>9. QED
  BY <1>1, <1>2, <1>3, <1>4, <1>5, <1>6, <1>7, <1>8

(* The record of one that starts.                                          *)
LEMMA StartTyped ==
  ASSUME ReplyTypeOK, NEW f \in Fires, NEW ok \in BOOLEAN, Start(f, ok)
  PROVE  FiresTyped
<1> DEFINE left == IF ok THEN PerFire ELSE 0
           room == DailyCap - disk.day
           spent == {n \in Notes : disk.tried[n] >= MaxTriage}
           todo == {n \in inbox : disk.seen[n] = "new"}
           answered == disk.answered
           now == [Idle EXCEPT !.at = "triage", !.ok = ok, !.left = left, !.room = room,
                     !.answered = answered, !.capped = AtCap, !.spent = spent, !.todo = todo]
<1>1. Becomes(f, now)
  BY DEF Start
<1>2. left \in 0 .. PerFire /\ room \in 0 .. DailyCap
  BY DiskFields, ReplyBounds DEF ReplyTypeOK
<1>3. /\ spent \in SUBSET Notes /\ todo \in SUBSET Notes /\ answered \in SUBSET Notes
      /\ AtCap \in SUBSET Senders
  BY DiskFields DEF ReplyTypeOK, AtCap
<1> HIDE DEF left, room, spent, todo, answered
<1>4. now \in FireRecord
  <2> DEFINE a == [Idle EXCEPT !.at = "triage", !.ok = ok, !.left = left, !.room = room]
  <2>1. a \in FireRecord
    BY <1>2, IdleIs, FireEdits DEF FirePlaces
  <2> HIDE DEF a
  <2>2. [a EXCEPT !.answered = answered, !.capped = AtCap] \in FireRecord
    BY <1>3, <2>1, FireEdits
  <2>3. [[a EXCEPT !.answered = answered, !.capped = AtCap] EXCEPT !.spent = spent, !.todo = todo]
          \in FireRecord
    <3> DEFINE b == [a EXCEPT !.answered = answered, !.capped = AtCap]
    <3> HIDE DEF b
    <3>1. [b EXCEPT !.spent = spent, !.todo = todo] \in FireRecord
      BY <1>3, <2>2, FireEdits DEF b
    <3>2. QED
      BY <3>1 DEF b
  <2>4. QED
    BY <2>3 DEF a, Idle
<1>5. QED
  BY <1>1, <1>4, OneTyped

DiskTyped == disk' \in DiskRecord

(* A mark is written.                                                      *)
LEMMA MarkTyped ==
  ASSUME ReplyTypeOK, NEW f \in Fires, NEW S \in SUBSET Notes, NEW w \in {"work", "done"},
         disk' = [disk EXCEPT !.seen = Marked(f, S, w)]
  PROVE  DiskTyped
<1>1. Marked(f, S, w) \in [Notes -> {"new", "work", "done"}]
  BY Marks
<1>2. [disk EXCEPT !.seen = Marked(f, S, w)] \in DiskRecord
  BY <1>1, DiskEdits DEF ReplyTypeOK
<1>3. QED
  BY <1>2 DEF DiskTyped

(* A row is written.                                                       *)
LEMMA CountTyped ==
  ASSUME ReplyTypeOK, NEW s \in Senders, CountRow(s)
  PROVE  DiskTyped
<1>1. disk.out \in [Senders -> Nat] /\ disk \in DiskRecord
  BY DiskFields DEF ReplyTypeOK
<1>2. Plus(disk.out, s) \in [Senders -> Nat]
  BY <1>1 DEF Plus
<1>3. [disk EXCEPT !.out = Plus(disk.out, s)] \in DiskRecord
  BY <1>1, <1>2, DiskEdits
<1>4. QED
  BY <1>3 DEF DiskTyped, CountRow

(* A row that is due is there, and can be released.                        *)
LEMMA ReleasedIs ==
  ASSUME ReplyTypeOK, FormOK, RowsOK, NEW f \in Fires, NEW s \in Senders,
         fire[f].row => Owes(fire[f], s)
  PROVE  Released(f, s) \in [Senders -> Nat]
<1>1. disk.out \in [Senders -> Nat] /\ past.sent[s] \in Nat
  BY DiskFields, RowNumbers DEF ReplyTypeOK
<1>2. PICK g \in Fires : g # f
  BY ResponderAssumption DEF Fires
<1>3. past.sent[s] + Due(fire[f], s) + Due(fire[g], s) <= disk.out[s]
  BY <1>2 DEF RowsOK
<1>4. fire[f].row => disk.out[s] > 0
  BY <1>1, <1>3, Dues DEF Due
<1>5. QED
  BY <1>1, <1>4 DEF Released

(* The daily count.                                                        *)
LEMMA Tallied ==
  ASSUME ReplyTypeOK
  PROVE  Tally(disk.day) \in 0 .. DailyCap /\ disk.day \in 0 .. DailyCap
BY DiskFields, ReplyBounds DEF Tally, ReplyTypeOK

(* The records on disk after a triage.                                     *)
LEMMA ReadDisk ==
  ASSUME ReplyTypeOK, NEW f \in Fires, NEW n \in Notes,
         Dispose(f, n) \/ Wait(f, n) \/ Escalate(f, n) \/ TriageSession(f, n)
  PROVE  DiskTyped
<1>1. \/ disk' = disk
      \/ \E w \in {"work", "done"} : disk' = [disk EXCEPT !.seen = Marked(f, {n}, w)]
      \/ \E lost \in SUBSET {n} : disk' = CountTriage(f, {n}, lost)
  BY DEF Dispose, Wait, Escalate, TriageSession
<1>2. CASE \E w \in {"work", "done"} : disk' = [disk EXCEPT !.seen = Marked(f, {n}, w)]
  BY <1>2, MarkTyped
<1>3. CASE \E lost \in SUBSET {n} : disk' = CountTriage(f, {n}, lost)
  BY <1>3, Triages DEF DiskTyped
<1>4. QED
  BY <1>1, <1>2, <1>3 DEF DiskTyped, ReplyTypeOK

(* The records on disk after a batch.                                      *)
LEMMA BatchDisk ==
  ASSUME ReplyTypeOK, FormOK, RowsOK, NEW f \in Fires, (\E s \in Senders : Send(f, s)) \/ Post(f)
  PROVE  DiskTyped
<1> DEFINE x == fire[f]
<1>0. x \in FireRecord /\ disk \in DiskRecord /\ x.batch \in SUBSET Notes /\ x.parts \in SUBSET Notes
  BY FireFields DEF ReplyTypeOK
<1>1. CASE \E s \in Senders : Send(f, s)
  <2>1. PICK s \in Senders : Send(f, s)
    BY <1>1
  <2> DEFINE part == {n \in x.batch : From[n] = s}
  <2>2. part \in SUBSET Notes
    BY <1>0
  <2>3. \/ \E lost \in SUBSET part : disk' = CountTriage(f, part, lost)
        \/ disk' = [disk EXCEPT !.seen = Marked(f, part, "work")]
        \/ CountRow(s)
    BY <2>1 DEF Send
  <2> HIDE DEF part
  <2>4. CASE \E lost \in SUBSET part : disk' = CountTriage(f, part, lost)
    BY <2>2, <2>4, Triages DEF DiskTyped
  <2>5. CASE disk' = [disk EXCEPT !.seen = Marked(f, part, "work")]
    BY <2>2, <2>5, MarkTyped
  <2>6. QED
    BY <2>3, <2>4, <2>5, CountTyped
<1>2. CASE Post(f)
  <2> DEFINE s == CHOOSE c \in Senders : \E n \in x.parts : From[n] = c
  <2>1. \/ disk' = [disk EXCEPT !.day = Tally(@)] \/ disk' = disk
        \/ \E lost \in SUBSET x.parts :
             disk' = [CountTriage(f, x.parts, lost) EXCEPT !.out = Released(f, s)]
    <3>1. ASSUME NEW tallied \in BOOLEAN, disk' = [disk EXCEPT !.day = IF tallied THEN Tally(@) ELSE @]
          PROVE  disk' = [disk EXCEPT !.day = Tally(@)] \/ disk' = disk
      <4>1. CASE tallied
        BY <3>1, <4>1
      <4>2. CASE ~tallied
        <5>1. disk' = [disk EXCEPT !.day = @]
          BY <3>1, <4>2
        <5>2. QED
          BY <1>0, <5>1 DEF DiskRecord
      <4>3. QED
        BY <4>1, <4>2
    <3>2. QED
      BY <1>2, <3>1, Zenon DEF Post
  <2>2. x.at = "post" /\ x.parts # {}
    BY <1>2 DEF Post, IsAt, FormOK, Formed, Batched
  <2>3. s \in Senders /\ \E n \in x.parts : From[n] = s
    <3>1. \E c \in Senders : \E n \in x.parts : From[n] = c
      BY <1>0, <2>2, ResponderAssumption
    <3>2. QED
      BY <3>1
  <2> HIDE DEF s
  <2>4. Released(f, s) \in [Senders -> Nat]
    BY <2>2, <2>3, ReleasedIs DEF Owes, Target
  <2>5. ASSUME NEW lost \in SUBSET x.parts,
               disk' = [CountTriage(f, x.parts, lost) EXCEPT !.out = Released(f, s)]
        PROVE  DiskTyped
    <3> DEFINE d == CountTriage(f, x.parts, lost)
    <3>1. d \in DiskRecord
      BY <1>0, Triages
    <3> HIDE DEF d
    <3>2. [d EXCEPT !.out = Released(f, s)] \in DiskRecord
      BY <2>4, <3>1, DiskEdits
    <3>3. QED
      BY <2>5, <3>2 DEF DiskTyped, d
  <2>6. [disk EXCEPT !.day = Tally(disk.day)] \in DiskRecord
    BY <1>0, Tallied, DiskEdits
  <2>7. QED
    BY <1>0, <2>1, <2>5, <2>6 DEF DiskTyped
<1>3. QED
  BY <1>1, <1>2

(* The records on disk after the answered are remembered.                  *)
LEMMA SaveDisk ==
  ASSUME ReplyTypeOK, NEW f \in Fires, RememberAnswered(f)
  PROVE  DiskTyped
<1> DEFINE x == fire[f]
<1>0. x \in FireRecord /\ disk \in DiskRecord /\ x.batch \in SUBSET Notes /\ x.parts \in SUBSET Notes
  BY FireFields DEF ReplyTypeOK
<1>1. PICK n \in x.parts :
        LET last == x.parts = {n}
            same == {m \in x.batch : From[m] = From[n]}
        IN  \E saved \in BOOLEAN :
              disk' = [disk EXCEPT
                !.answered = IF saved THEN Recorded(n) ELSE @,
                !.seen = IF last /\ x.note = Nothing THEN Marked(f, same, "done") ELSE @]
  BY DEF RememberAnswered
<1> DEFINE same == {m \in x.batch : From[m] = From[n]}
           marks == IF x.parts = {n} /\ x.note = Nothing THEN Marked(f, same, "done") ELSE disk.seen
<1>2. PICK saved \in BOOLEAN :
        disk' = [disk EXCEPT !.answered = IF saved THEN Recorded(n) ELSE @, !.seen = marks]
  BY <1>1
<1> DEFINE answered == IF saved THEN Recorded(n) ELSE disk.answered
<1>3. answered \in SUBSET Notes
  BY <1>0, DiskFields DEF Recorded
<1>4. marks \in [Notes -> {"new", "work", "done"}]
  <2>1. same \in SUBSET Notes
    BY <1>0
  <2> HIDE DEF same
  <2>2. QED
    BY <1>0, <2>1, DiskFields, Marks
<1>5. disk' = [disk EXCEPT !.answered = answered, !.seen = marks]
  BY <1>2
<1> HIDE DEF answered, marks
<1>6. [disk EXCEPT !.answered = answered, !.seen = marks] \in DiskRecord
  BY <1>0, <1>3, <1>4, DiskEdits
<1>7. QED
  BY <1>5, <1>6 DEF DiskTyped

(* The records on disk after a cycle.                                      *)
LEMMA CycleDisk ==
  ASSUME ReplyTypeOK, FormOK, RowsOK, NEW f \in Fires,
         \/ Gather(f) \/ Pick(f) \/ Draft(f) \/ NoSession(f) \/ Bounce(f) \/ MarkBounced(f)
         \/ Reserve(f) \/ Deliver(f) \/ ForgetUndelivered(f) \/ Settle(f)
         \/ LedgerFails(f) \/ Crash(f) \/ Start(f, TRUE) \/ Start(f, FALSE)
  PROVE  DiskTyped
<1> DEFINE x == fire[f]
<1>0. x \in FireRecord /\ disk \in DiskRecord /\ x.note \in Notes \cup {Nothing}
  BY FireFields DEF ReplyTypeOK
<1>a. disk.answered \in SUBSET Notes /\ disk.bounced \in SUBSET Notes
  BY <1>0, DiskFields
<1>1. CASE \/ Gather(f) \/ Draft(f) \/ NoSession(f) \/ Bounce(f) \/ Deliver(f)
           \/ LedgerFails(f) \/ Crash(f) \/ Start(f, TRUE) \/ Start(f, FALSE)
  <2>1. disk' = disk
    BY <1>1 DEF Gather, Draft, NoSession, Bounce, Deliver, LedgerFails, Crash, Start
  <2>2. QED
    BY <1>0, <2>1 DEF DiskTyped
<1>2. CASE Pick(f)
  <2>1. Checked(f) \in [Notes -> 0 .. DeferMax]
    BY <1>0, DiskFields, ReplyBounds DEF Checked
  <2>2. [disk EXCEPT !.defer = Checked(f)] \in DiskRecord
    BY <1>0, <2>1, DiskEdits
  <2>3. QED
    BY <1>2, <2>2 DEF Pick, DiskTyped
<1>3. CASE MarkBounced(f)
  <2>1. x.note \in Notes
    BY <1>0, <1>3 DEF MarkBounced, IsAt, FormOK, Formed
  <2>2. [disk EXCEPT !.bounced = disk.bounced \cup {x.note}] \in DiskRecord
    BY <1>0, <1>a, <2>1, DiskEdits
  <2>3. QED
    BY <1>0, <1>3, <2>2 DEF MarkBounced, DiskTyped
<1>4. CASE Reserve(f)
  <2>1. x.note \in Notes
    BY <1>0, <1>4 DEF Reserve, IsAt, FormOK, Formed
  <2>2. From[x.note] \in Senders
    BY <2>1, ResponderAssumption
  <2>3. disk' = disk \/ CountRow(From[x.note])
    BY <1>4 DEF Reserve
  <2>4. QED
    BY <1>0, <2>2, <2>3, CountTyped DEF DiskTyped
<1>5. CASE ForgetUndelivered(f)
  <2>1. [disk EXCEPT !.answered = disk.answered \ {x.note}] \in DiskRecord
    BY <1>0, <1>a, DiskEdits
  <2>2. QED
    BY <1>0, <1>5, <2>1 DEF ForgetUndelivered, DiskTyped
<1>6. CASE Settle(f)
  <2>1. x.at = "settle" /\ x.note \in Notes
    BY <1>0, <1>6 DEF Settle, IsAt, FormOK, Formed
  <2>2. PICK tallied \in BOOLEAN, noted \in BOOLEAN, cooled \in BOOLEAN :
          LET now == IF x.sent # "reply" THEN CountWork(f, x.note, noted, cooled) ELSE disk
          IN  disk' = Closed(f, now, tallied)
    BY <1>6, Zenon DEF Settle
  <2> DEFINE d == IF x.sent # "reply" THEN CountWork(f, x.note, noted, cooled) ELSE disk
             out == Released(f, From[x.note])
  <2>3. d \in DiskRecord /\ d.day = disk.day
    BY <1>0, <2>1, CountWorkIs
  <2>4. disk' = Closed(f, d, tallied)
    BY <2>2
  <2>5. x.sent = "no" => out \in [Senders -> Nat]
    <3>1. From[x.note] \in Senders /\ x.note # Nothing
      BY <2>1, ResponderAssumption
    <3>2. x.sent = "no" /\ x.row => Owes(x, From[x.note])
      BY <2>1, <3>1 DEF Owes, Target
    <3>3. QED
      BY <1>0, <3>1, <3>2, ReleasedIs, DiskFields
  <2> HIDE DEF d, out
  <2>6. Tally(d.day) \in 0 .. DailyCap
    BY <2>3, Tallied
  <2>7. Closed(f, d, tallied) \in DiskRecord
    <3>1. x.sent = "no" => [d EXCEPT !.out = out] \in DiskRecord
      BY <2>3, <2>5, DiskEdits
    <3>2. [d EXCEPT !.day = Tally(d.day)] \in DiskRecord
      BY <2>3, <2>6, DiskEdits
    <3>3. QED
      BY <2>3, <3>1, <3>2 DEF Closed, out
  <2>8. QED
    BY <2>4, <2>7 DEF DiskTyped
<1>7. QED
  BY <1>1, <1>2, <1>3, <1>4, <1>5, <1>6

PastTyped == past' \in PastRecord

(* What the history counts stays below its top.                            *)
LEMMA Ups ==
  ASSUME NEW top \in Nat, NEW count \in 0 .. top
  PROVE  Up(count, top) \in 0 .. top
BY DEF Up

(* A hit is counted.                                                       *)
LEMMA HitTyped ==
  ASSUME ReplyTypeOK, NEW what \in {"overlap", "unsaved", "unmarked", "crash"}, Hit(what)
  PROVE  PastTyped
<1> DEFINE hit == past.hit \cup {what}
<1>1. past \in PastRecord /\ hit \in SUBSET {"overlap", "unsaved", "unmarked", "crash"}
  BY PastFields DEF ReplyTypeOK
<1>2. NoCount \in [Notes -> 0 .. 2] /\ NoCount \in [Notes -> 0 .. MostDrafts] /\ 0 \in 0 .. MostSibs
  BY ReplyBounds DEF NoCount
<1>3. past' = [past EXCEPT !.hit = hit, !.landed = NoCount, !.bounces = NoCount,
                           !.drafts = NoCount, !.sibs = 0]
  BY DEF Hit
<1> HIDE DEF hit
<1>4. [past EXCEPT !.hit = hit, !.landed = NoCount, !.bounces = NoCount,
                   !.drafts = NoCount, !.sibs = 0] \in PastRecord
  BY <1>1, <1>2, PastEdits
<1>5. QED
  BY <1>3, <1>4 DEF PastTyped

(* A reply is counted.                                                     *)
LEMMA LandedTyped ==
  ASSUME ReplyTypeOK, NEW f \in Fires, NEW S \in SUBSET Notes, NEW s \in Senders,
         NEW plain \in BOOLEAN, NEW missed \in BOOLEAN, Landed(f, S, s, plain, missed)
  PROVE  PastTyped
<1> DEFINE landed == [n \in Notes |-> IF n \in S THEN Up(past.landed[n], 2) ELSE past.landed[n]]
           sent == IF plain /\ fire[f].row THEN Plus(past.sent, s) ELSE past.sent
           sibs == IF s # Main THEN Up(past.sibs, MostSibs) ELSE past.sibs
           lost == IF missed THEN past.lost + 1 ELSE past.lost
<1>1. /\ past \in PastRecord /\ past.landed \in [Notes -> 0 .. 2] /\ past.sent \in [Senders -> Nat]
      /\ past.sibs \in 0 .. MostSibs /\ past.lost \in Nat
  BY PastFields DEF ReplyTypeOK
<1>2. landed \in [Notes -> 0 .. 2]
  BY <1>1, Ups
<1>3. sent \in [Senders -> Nat]
  BY <1>1 DEF Plus
<1>4. sibs \in 0 .. MostSibs
  BY <1>1, Ups, ReplyBounds
<1>l. lost \in Nat
  BY <1>1
<1>5. past' = [past EXCEPT !.landed = landed, !.sent = sent, !.sibs = sibs, !.lost = lost]
  BY DEF Landed
<1> HIDE DEF landed, sent, sibs, lost
<1>6. [past EXCEPT !.landed = landed, !.sent = sent, !.sibs = sibs, !.lost = lost] \in PastRecord
  BY <1>1, <1>2, <1>3, <1>4, <1>l, PastEdits
<1>7. QED
  BY <1>5, <1>6 DEF PastTyped

(* The history after a turn.                                               *)
LEMMA TurnPast ==
  ASSUME ReplyTypeOK, FormOK, NEW f \in Fires, Turn(f)
  PROVE  PastTyped
<1> DEFINE x == fire[f]
           n == x.note
<1>0. /\ x \in FireRecord /\ n \in Notes \cup {Nothing} /\ x.parts \in SUBSET Notes
      /\ x.exempt \in BOOLEAN
  BY FireFields DEF ReplyTypeOK
<1>a. /\ past \in PastRecord /\ past.bounces \in [Notes -> 0 .. 2]
      /\ past.drafts \in [Notes -> 0 .. MostDrafts] /\ past.sibs \in 0 .. MostSibs
      /\ past.lost \in Nat /\ past.failed \in [Notes -> Nat]
  BY PastFields DEF ReplyTypeOK
<1>1. ASSUME past' = past
      PROVE  PastTyped
  BY <1>1, <1>a DEF PastTyped
<1>2. CASE \E m \in Notes : Dispose(f, m) \/ Wait(f, m) \/ Escalate(f, m) \/ TriageSession(f, m)
  BY <1>1, <1>2 DEF Dispose, Wait, Escalate, TriageSession
<1>3. CASE \/ \E s \in Senders : Send(f, s)
           \/ Gather(f) \/ Pick(f) \/ NoSession(f) \/ Reserve(f) \/ LedgerFails(f)
  BY <1>1, <1>3 DEF Send, Gather, Pick, NoSession, Reserve, LedgerFails
<1>4. CASE \/ RememberAnswered(f) \/ MarkBounced(f) \/ ForgetUndelivered(f) \/ Crash(f)
           \/ Start(f, TRUE) \/ Start(f, FALSE)
  <2>1. past' = past \/ \E what \in {"overlap", "unsaved", "unmarked", "crash"} : Hit(what)
    BY <1>4 DEF RememberAnswered, MarkBounced, ForgetUndelivered, Crash, Start
  <2>2. QED
    BY <1>1, <2>1, HitTyped
<1>5. CASE Post(f)
  <2> DEFINE s == CHOOSE c \in Senders : \E m \in x.parts : From[m] = c
  <2>1. past' = past \/ \E tallied \in BOOLEAN : Landed(f, x.parts, s, TRUE, ~tallied)
    BY <1>5 DEF Post
  <2>2. x.parts # {}
    BY <1>5 DEF Post, IsAt, FormOK, Formed, Batched
  <2>3. s \in Senders
    <3>1. \E c \in Senders : \E m \in x.parts : From[m] = c
      BY <1>0, <2>2, ResponderAssumption
    <3>2. QED
      BY <3>1
  <2> HIDE DEF s
  <2>4. QED
    BY <1>0, <1>1, <2>1, <2>3, LandedTyped
<1>6. CASE Deliver(f)
  <2>1. n \in Notes /\ From[n] \in Senders
    <3>1. n \in Notes
      BY <1>0, <1>6 DEF Deliver, IsAt, FormOK, Formed
    <3>2. QED
      BY <3>1, ResponderAssumption
  <2>2. past' = past \/ Landed(f, {n}, From[n], ~x.exempt, FALSE)
    BY <1>6 DEF Deliver
  <2>3. QED
    BY <1>0, <1>1, <2>1, <2>2, LandedTyped
<1>7. CASE Draft(f)
  <2> DEFINE drafts == Once(past.drafts, n, MostDrafts)
  <2>1. n \in Notes
    BY <1>0, <1>7 DEF Draft, IsAt, FormOK, Formed
  <2>2. drafts \in [Notes -> 0 .. MostDrafts]
    BY <1>a, <2>1, Ups, ReplyBounds DEF Once
  <2>3. past' = [past EXCEPT !.drafts = drafts]
    BY <1>7 DEF Draft
  <2> HIDE DEF drafts
  <2>4. QED
    BY <1>a, <2>2, <2>3, PastEdits DEF PastTyped
<1>8. CASE Bounce(f)
  <2> DEFINE bounces == Once(past.bounces, n, 2)
             sibs == IF IsMain(n) THEN past.sibs ELSE Up(past.sibs, MostSibs)
  <2>1. n \in Notes
    BY <1>0, <1>8 DEF Bounce, IsAt, FormOK, Formed
  <2>2. bounces \in [Notes -> 0 .. 2]
    BY <1>a, <2>1, Ups DEF Once
  <2>3. sibs \in 0 .. MostSibs
    BY <1>a, Ups, ReplyBounds
  <2>4. past' = past \/ past' = [past EXCEPT !.bounces = bounces, !.sibs = sibs]
    BY <1>8 DEF Bounce
  <2> HIDE DEF bounces, sibs
  <2>5. [past EXCEPT !.bounces = bounces, !.sibs = sibs] \in PastRecord
    BY <1>a, <2>2, <2>3, PastEdits
  <2>6. QED
    BY <1>1, <2>4, <2>5 DEF PastTyped
<1>9. CASE Settle(f)
  <2>1. PICK lost \in BOOLEAN, failed \in BOOLEAN :
          past' = [past EXCEPT !.lost = IF lost THEN @ + 1 ELSE @,
                               !.failed = IF failed THEN Plus(@, n) ELSE @]
    <3>1. PICK tallied \in BOOLEAN, noted \in BOOLEAN, cooled \in BOOLEAN :
            past' = [past EXCEPT
              !.lost = IF x.sent # "no" /\ ~tallied /\ ~IsMain(n) THEN @ + 1 ELSE @,
              !.failed = IF x.sent # "reply" /\ Uncounted(n, noted, cooled) THEN Plus(@, n) ELSE @]
      BY <1>9, Zenon DEF Settle
    <3> DEFINE lost == x.sent # "no" /\ ~tallied /\ ~IsMain(n)
               failed == x.sent # "reply" /\ Uncounted(n, noted, cooled)
    <3>2. past' = [past EXCEPT !.lost = IF lost THEN @ + 1 ELSE @,
                               !.failed = IF failed THEN Plus(@, n) ELSE @]
      BY <3>1
    <3>3. lost \in BOOLEAN /\ failed \in BOOLEAN
      BY DEF Uncounted
    <3> HIDE DEF lost, failed
    <3>4. QED
      BY <3>2, <3>3
  <2> DEFINE more == IF lost THEN past.lost + 1 ELSE past.lost
             fails == IF failed THEN Plus(past.failed, n) ELSE past.failed
  <2>n. n \in Notes
    BY <1>0, <1>9 DEF Settle, IsAt, FormOK, Formed
  <2>2. more \in Nat /\ fails \in [Notes -> Nat]
    BY <1>a, <2>n DEF Plus
  <2>3. past' = [past EXCEPT !.lost = more, !.failed = fails]
    BY <2>1
  <2> HIDE DEF more, fails
  <2>4. [past EXCEPT !.lost = more, !.failed = fails] \in PastRecord
    BY <1>a, <2>2, PastEdits
  <2>5. QED
    BY <2>3, <2>4 DEF PastTyped
<1>10. QED
  BY <1>2, <1>3, <1>4, <1>5, <1>6, <1>7, <1>8, <1>9 DEF Turn, FireStep

(* The bounded incidents stay within their bound.                          *)
LEMMA TurnIncidents ==
  ASSUME ReplyTypeOK, NEW f \in Fires, Turn(f)
  PROVE  incidents' \in 0 .. MaxIncidents
<1>1. incidents' = incidents \/ Fault
  BY DEF Turn, FireStep, Start, LedgerFails, Crash, Dispose, Wait, Escalate, TriageSession, Send,
         Post, RememberAnswered, Gather, Pick, Draft, NoSession, Bounce, MarkBounced, Reserve,
         Deliver, ForgetUndelivered, Settle, FaultIf
<1>2. QED
  BY <1>1, ReplyBounds DEF Fault, ReplyTypeOK

(* Every turn keeps the types.                                             *)
LEMMA TurnTyped ==
  ASSUME ReplyTypeOK, FormOK, RowsOK, NEW f \in Fires, Turn(f)
  PROVE  ReplyTypeOK'
<1>1. FiresTyped
  <2>1. CASE \E n \in Notes : Dispose(f, n) \/ Wait(f, n) \/ Escalate(f, n) \/ TriageSession(f, n)
    BY <2>1, ReadTyped
  <2>2. CASE (\E s \in Senders : Send(f, s)) \/ Post(f)
    BY <2>2, BatchTyped
  <2>3. CASE RememberAnswered(f)
    BY <2>3, SaveTyped
  <2>4. CASE Start(f, TRUE) \/ Start(f, FALSE)
    BY <2>4, StartTyped
  <2>5. QED
    BY <2>1, <2>2, <2>3, <2>4, CycleTyped DEF Turn, FireStep
<1>2. DiskTyped
  <2>1. CASE \E n \in Notes : Dispose(f, n) \/ Wait(f, n) \/ Escalate(f, n) \/ TriageSession(f, n)
    BY <2>1, ReadDisk
  <2>2. CASE (\E s \in Senders : Send(f, s)) \/ Post(f)
    BY <2>2, BatchDisk
  <2>3. CASE RememberAnswered(f)
    BY <2>3, SaveDisk
  <2>4. QED
    BY <2>1, <2>2, <2>3, CycleDisk DEF Turn, FireStep
<1>3. UNCHANGED <<inbox, outbox>>
  BY TurnAlone
<1>4. QED
  BY <1>1, <1>2, <1>3, TurnPast, TurnIncidents DEF ReplyTypeOK, FiresTyped, DiskTyped, PastTyped

(* Every step keeps the types.                                             *)
LEMMA ReplyTypeStep ==
  ASSUME ReplyTypeOK, FormOK, RowsOK, ReplyNext
  PROVE  ReplyTypeOK'
<1>0. /\ disk \in DiskRecord /\ past \in PastRecord /\ disk.out \in [Senders -> Nat]
      /\ past.sent \in [Senders -> Nat] /\ past.drafts \in [Notes -> 0 .. MostDrafts]
      /\ disk.cool \in SUBSET Notes /\ incidents \in 0 .. MaxIncidents
      /\ past.failed \in [Notes -> Nat]
  BY DiskFields, PastFields DEF ReplyTypeOK
<1>1. CASE \E f \in Fires : Turn(f)
  BY <1>1, TurnTyped
<1>2. CASE \E s \in Senders : Roll(s)
  <2>1. PICK s \in Senders : Roll(s)
    BY <1>2
  <2>2. fire' \in [Fires -> FireRecord]
    <3>1. \A f \in Fires : fire'[f] \in FireRecord
      BY <2>1, RollIs
    <3>2. \E F : fire' = [f \in Fires |-> F[f]]
      <4>1. fire' = [f \in Fires |-> fire'[f]]
        BY <2>1 DEF Roll
      <4>2. QED
        BY <4>1
    <3>3. QED
      BY <3>1, <3>2
  <2>3. /\ [disk.out EXCEPT ![s] = 0] \in [Senders -> Nat]
        /\ [past.sent EXCEPT ![s] = 0] \in [Senders -> Nat]
    BY <1>0
  <2>4. disk' \in DiskRecord
    BY <1>0, <2>1, <2>3, DiskEdits DEF Roll
  <2>5. past' \in PastRecord
    BY <1>0, <2>1, <2>3, PastEdits DEF Roll
  <2>6. QED
    BY <2>1, <2>2, <2>4, <2>5 DEF Roll, ReplyTypeOK
<1>3. CASE \E n \in Notes : Arrive(n) \/ OutboxCopy(n)
  BY <1>3 DEF Arrive, OutboxCopy, ReplyTypeOK
<1>4. CASE \E n \in Notes : CoolOff(n)
  <2>1. PICK n \in Notes : CoolOff(n)
    BY <1>4
  <2>2. /\ [past.drafts EXCEPT ![n] = 0] \in [Notes -> 0 .. MostDrafts]
        /\ [past.failed EXCEPT ![n] = 0] \in [Notes -> Nat]
    BY <1>0, ReplyBounds
  <2>3. past' \in PastRecord
    BY <1>0, <2>1, <2>2, PastEdits DEF CoolOff
  <2>4. [disk EXCEPT !.cool = disk.cool \ {n}] \in DiskRecord
    BY <1>0, DiskEdits
  <2>5. QED
    BY <2>1, <2>3, <2>4 DEF CoolOff, ReplyTypeOK
<1>5. CASE Midnight
  <2>1. disk' \in DiskRecord
    BY <1>0, <1>5, DiskEdits, ReplyBounds DEF Midnight
  <2>p. past' \in PastRecord
    <3>1. 0 \in 0 .. MostSibs /\ 0 \in Nat
      BY ReplyBounds
    <3>2. [past EXCEPT !.sibs = 0, !.lost = 0] \in PastRecord
      BY <1>0, <3>1, PastEdits
    <3>3. QED
      BY <1>5, <3>2 DEF Midnight
  <2>2. QED
    BY <1>5, <2>1, <2>p DEF Midnight, ReplyTypeOK
<1>6. CASE Renew
  <2>1. NoCount \in [Notes -> 0 .. 2]
    BY DEF NoCount
  <2>2. disk' \in DiskRecord /\ past' \in PastRecord
    BY <1>0, <1>6, <2>1, DiskEdits, PastEdits DEF Renew
  <2>3. incidents' \in 0 .. MaxIncidents
    BY <1>0, <1>6, ReplyBounds DEF Renew, Fault
  <2>4. QED
    BY <1>6, <2>2, <2>3 DEF Renew, ReplyTypeOK
<1>7. QED
  BY <1>1, <1>2, <1>3, <1>4, <1>5, <1>6, ReplySteps DEF Apart

----------------------------------------------------------------------------
(* Calm: no fire overlaps another or dies, and every record is written.    *)
(* A calm turn is one of a fire that is alone, and comes after a calm one. *)
LEMMA CalmTurn ==
  ASSUME ReplyTypeOK, FormOK, CalmOK, NEW f \in Fires, Turns(f, fire[f], fire'[f]), past'.hit = {}
  PROVE  past.hit = {} /\ ~Stumbles /\ Alone(f) /\ CalmWith(fire[f])
<1> DEFINE x == fire[f]
           y == fire'[f]
<1>1. ~Stumbles
  BY DEF Stumbles
<1>2. /\ past.hit = {}
      /\ x.at # "off" \/ \A g \in Fires \ {f} : IsAt(g, "off")
  <2>1. CASE StartTurn(f, x, y) \/ EndTurn(x, y) \/ SameTurn(x, y) \/ ReadTurn(x, y)
    BY <1>1, <2>1 DEF StartTurn, EndTurn, SameTurn, ReadTurn
  <2>2. CASE (\E s \in Senders : BatchTurn(x, y, s)) \/ (\E n \in Notes : SaveTurn(x, y, n))
    BY <1>1, <2>2 DEF BatchTurn, SaveTurn
  <2>3. CASE WorkTurn(x, y) \/ BounceTurn(x, y) \/ ReplyTurn(x, y) \/ SettleTurn(x, y)
    BY <1>1, <2>3 DEF WorkTurn, BounceTurn, ReplyTurn, SettleTurn
  <2>4. QED
    BY <2>1, <2>2, <2>3 DEF Turns
<1>3. Alone(f)
  BY <1>2 DEF CalmOK, Alone, IsAt
<1>4. QED
  BY <1>1, <1>2, <1>3 DEF CalmOK

(* The daily count in every calm turn.                                     *)
LEMMA DayTurn ==
  ASSUME ReplyTypeOK, NEW f \in Fires, Formed(fire[f]), DayOK(fire[f]),
         Turns(f, fire[f], fire'[f]), past.hit = {}, ~Stumbles
  PROVE  DayOK(fire[f])'
<1> DEFINE x == fire[f]
           y == fire'[f]
<1>0. /\ disk.day \in 0 .. DailyCap /\ past.sibs \in 0 .. MostSibs /\ DailyCap \in Nat
      /\ x.note \in Notes \cup {Nothing} /\ past.lost \in Nat
  BY DiskFields, PastFields, FireFields, ReplyBounds DEF ReplyTypeOK
<1>1. SUFFICES /\ y.at = "post" \/ Sibling(y) => disk'.day < DailyCap
               /\ y.at = "pick" => \A n \in y.work : IsMain(n) \/ disk'.day < DailyCap
               /\ past'.sibs <= disk'.day + past'.lost + 1
               /\ ~Told(y) => past'.sibs <= disk'.day + past'.lost
  BY DEF DayOK, Sibling, Told, IsMain
<1>2. CASE StartTurn(f, x, y) \/ EndTurn(x, y)
  BY <1>2 DEF StartTurn, EndTurn, Fresh, Sibling, Told, DayOK, Formed, Counts
<1>3. CASE SameTurn(x, y) \/ ReadTurn(x, y)
  BY <1>3 DEF SameTurn, ReadTurn, InHand, Sibling, Told, DayOK, Formed, Fresh, Counts
<1>4. CASE \E s \in Senders : BatchTurn(x, y, s)
  <2>1. PICK s \in Senders : BatchTurn(x, y, s)
    BY <1>4
  <2>2. x.note = Nothing /\ y.note = Nothing
    BY <2>1 DEF BatchTurn, Formed, Fresh, Batched
  <2>3. ~Sibling(x) /\ ~Sibling(y) /\ ~Told(x) /\ ~Told(y)
    BY <2>2 DEF Sibling, Told
  <2>4. CASE x.at = "triage"
    BY <1>0, <2>1, <2>3, <2>4 DEF BatchTurn, DayOK, Counts
  <2>5. CASE x.at = "post" /\ y.at = "save"
    <3>1. disk.day < DailyCap /\ disk'.day + past'.lost = disk.day + past.lost + 1
      BY <1>0, <2>1, <2>5 DEF BatchTurn, DayOK, Tally
    <3>d. disk'.day \in Nat /\ past'.lost \in Nat
      BY <1>0, <2>1, <2>5 DEF BatchTurn, Tally
    <3>2. past'.sibs \in Nat /\ past'.sibs <= past.sibs + 1
      BY <1>0, <2>1, <2>5 DEF BatchTurn, Up
    <3>3. QED
      BY <1>0, <2>1, <2>3, <2>5, <3>1, <3>d, <3>2 DEF BatchTurn, DayOK
  <2>6. CASE x.at = "post" /\ y.at = "triage"
    BY <1>0, <2>1, <2>3, <2>6 DEF BatchTurn, DayOK, Counts
  <2>7. QED
    BY <2>1, <2>4, <2>5, <2>6 DEF BatchTurn
<1>5. CASE \E n \in Notes : SaveTurn(x, y, n)
  <2>1. PICK n \in Notes : SaveTurn(x, y, n)
    BY <1>5
  <2>2. /\ y.note = x.note /\ y.sent = x.sent /\ disk'.day = disk.day /\ past'.sibs = past.sibs
        /\ past'.lost = past.lost /\ y.at \notin {"post", "pick"}
    BY <2>1 DEF SaveTurn, Counts
  <2>3. QED
    BY <2>2 DEF DayOK, Sibling, Told
<1>6. CASE WorkTurn(x, y)
  <2>1. disk'.day = disk.day /\ past'.sibs = past.sibs /\ past'.lost = past.lost
    BY <1>6 DEF WorkTurn, Counts
  <2>2. CASE x.at = "triage"
    BY <1>6, <2>1, <2>2 DEF WorkTurn, Formed, Fresh, Sibling, Told, DayOK
  <2>3. CASE x.at = "pick"
    BY <1>6, <2>1, <2>3 DEF WorkTurn, Formed, Fresh, Sibling, Told, DayOK
  <2>4. CASE x.at = "draft"
    BY <1>6, <2>1, <2>4 DEF WorkTurn, InHand, Sibling, Told, DayOK
  <2>5. QED
    BY <1>6, <2>2, <2>3, <2>4 DEF WorkTurn
<1>7. CASE BounceTurn(x, y)
  <2>1. /\ disk'.day = disk.day /\ y.note = x.note /\ y.at \in {"mark", "settle"}
        /\ past'.lost = past.lost
    BY <1>7 DEF BounceTurn, Counts
  <2>2. CASE y.at = "mark"
    <3>1. ~Told(x) /\ y.sent = "bounce" /\ x.note # Nothing
      BY <1>7, <2>2 DEF BounceTurn, Formed, Told
    <3>2. past'.sibs = IF IsMain(x.note) THEN past.sibs ELSE Up(past.sibs, MostSibs)
      BY <1>7, <2>2 DEF BounceTurn
    <3>3. CASE IsMain(x.note)
      BY <1>0, <2>1, <2>2, <3>1, <3>2, <3>3 DEF DayOK, Sibling, Told
    <3>4. CASE ~IsMain(x.note)
      <4>1. Told(y) /\ past'.sibs <= past.sibs + 1
        BY <1>0, <2>1, <3>1, <3>2, <3>4 DEF Told, Sibling, Up
      <4>2. QED
        BY <1>0, <2>1, <2>2, <3>1, <3>2, <4>1 DEF DayOK, Sibling, Up
    <3>5. QED
      BY <3>3, <3>4
  <2>3. CASE y.at = "settle"
    <3>1. y.sent = x.sent /\ past'.sibs = past.sibs
      BY <1>7, <2>3 DEF BounceTurn
    <3>2. QED
      BY <2>1, <2>3, <3>1 DEF DayOK, Sibling, Told
  <2>4. QED
    BY <2>1, <2>2, <2>3
<1>8. CASE ReplyTurn(x, y)
  <2>1. /\ disk'.day = disk.day /\ y.note = x.note /\ y.at \notin {"post", "pick"}
        /\ past'.lost = past.lost
    BY <1>8 DEF ReplyTurn, Counts
  <2>2. CASE y.sent = x.sent /\ past'.sibs = past.sibs
    BY <2>1, <2>2 DEF DayOK, Sibling, Told
  <2>3. CASE /\ x.at = "deliver" /\ y.sent = "reply"
             /\ past'.sibs = IF From[x.note] # Main THEN Up(past.sibs, MostSibs) ELSE past.sibs
    <3>1. x.note \in Notes /\ x.note # Nothing /\ ~Told(x)
      BY <1>0, <2>3 DEF Formed, Told
    <3>2. CASE IsMain(x.note)
      <4>1. From[x.note] = Main
        BY <3>1, <3>2, ResponderAssumption DEF IsMain
      <4>2. QED
        BY <1>0, <2>1, <2>3, <3>1, <3>2, <4>1 DEF DayOK, Sibling, Told
    <3>3. CASE ~IsMain(x.note)
      <4>1. Told(y) /\ past'.sibs \in Nat /\ past'.sibs <= past.sibs + 1
        <5>1. From[x.note] # Main => past'.sibs = Up(past.sibs, MostSibs)
          BY <2>3
        <5>2. QED
          BY <1>0, <2>1, <2>3, <3>1, <3>3, <5>1 DEF Told, Sibling, Up
      <4>2. QED
        BY <1>0, <2>1, <3>1, <3>3, <4>1 DEF DayOK, Sibling
    <3>4. QED
      BY <3>2, <3>3
  <2>4. QED
    BY <1>8, <2>2, <2>3 DEF ReplyTurn, InHand
<1>9. CASE SettleTurn(x, y)
  <2>1. y.at = "off" /\ ~Sibling(y) /\ ~Told(y) /\ past'.sibs = past.sibs /\ Telling(x)
    BY <1>9 DEF SettleTurn, Fresh, Sibling, Told
  <2>2. disk'.day \in Nat /\ past'.lost \in Nat
    BY <1>0, <2>1 DEF Telling, Tally
  <2>3. CASE Told(x)
    <3>1. disk.day < DailyCap /\ past.sibs <= disk.day + past.lost + 1
      BY <2>3 DEF DayOK, Told
    <3>2. disk'.day + past'.lost = disk.day + past.lost + 1
      BY <1>0, <2>1, <2>3, <3>1 DEF Telling, Told, Sibling, Tally
    <3>3. QED
      BY <1>0, <2>1, <2>2, <3>1, <3>2
  <2>4. CASE ~Told(x)
    <3>1. disk'.day + past'.lost >= disk.day + past.lost
      BY <1>0, <2>1 DEF Telling, Tally
    <3>2. QED
      BY <1>0, <2>1, <2>2, <2>4, <3>1 DEF DayOK
  <2>5. QED
    BY <2>3, <2>4
<1>10. QED
  BY <1>2, <1>3, <1>4, <1>5, <1>6, <1>7, <1>8, <1>9 DEF Turns

(* The bounces in every calm turn.                                         *)
LEMMA BouncesTurn ==
  ASSUME ReplyTypeOK, NEW f \in Fires, Formed(fire[f]), BouncesOK(fire[f]),
         Turns(f, fire[f], fire'[f]), past.hit = {}, ~Stumbles
  PROVE  BouncesOK(fire[f])'
<1> DEFINE x == fire[f]
           y == fire'[f]
<1>0. past.bounces \in [Notes -> 0 .. 2] /\ x.note \in Notes \cup {Nothing}
  BY PastFields, FireFields DEF ReplyTypeOK
<1>1. ASSUME past'.bounces = past.bounces, disk'.bounced = disk.bounced, x.at # "mark"
      PROVE  BouncesOK(fire[f])'
  BY <1>1 DEF BouncesOK
<1>2. CASE StartTurn(f, x, y) \/ EndTurn(x, y) \/ ReadTurn(x, y)
  BY <1>1, <1>2 DEF StartTurn, EndTurn, ReadTurn, Ledgers
<1>3. CASE SameTurn(x, y)
  BY <1>3 DEF SameTurn, InHand, BouncesOK
<1>4. CASE \E s \in Senders : BatchTurn(x, y, s)
  BY <1>1, <1>4 DEF BatchTurn, Ledgers
<1>5. CASE \E n \in Notes : SaveTurn(x, y, n)
  BY <1>1, <1>5 DEF SaveTurn
<1>6. CASE WorkTurn(x, y)
  BY <1>1, <1>6 DEF WorkTurn, Ledgers
<1>7. CASE ReplyTurn(x, y)
  BY <1>1, <1>7 DEF ReplyTurn, Ledgers
<1>8. CASE SettleTurn(x, y)
  BY <1>1, <1>8 DEF SettleTurn, Ledgers
<1>9. CASE BounceTurn(x, y)
  <2>1. CASE x.at = "bounce" /\ y.at = "settle" /\ UNCHANGED <<disk, past>>
    BY <1>1, <2>1
  <2>2. CASE /\ x.at = "bounce" /\ y.at = "mark" /\ disk' = disk /\ x.note \notin disk.bounced
             /\ past'.bounces = [past.bounces EXCEPT ![x.note] = Up(@, 2)] /\ y.note = x.note
    <3>1. x.note \in Notes /\ past.bounces[x.note] = 0
      BY <1>0, <2>2 DEF Formed, BouncesOK
    <3>2. past'.bounces[x.note] = 1 /\ \A n \in Notes \ {x.note} : past'.bounces[n] = past.bounces[n]
      BY <1>0, <2>2, <3>1 DEF Up
    <3>3. QED
      BY <2>2, <3>2 DEF BouncesOK
  <2>3. CASE /\ x.at = "mark" /\ y.at = "settle" /\ disk'.bounced = disk.bounced \cup {x.note}
             /\ past' = past
    BY <2>3 DEF BouncesOK
  <2>4. QED
    BY <1>9, <2>1, <2>2, <2>3 DEF BounceTurn
<1>10. QED
  BY <1>2, <1>3, <1>4, <1>5, <1>6, <1>7, <1>8, <1>9 DEF Turns

(* The sessions of the notes in every calm turn.                           *)
LEMMA WorksTurn ==
  ASSUME ReplyTypeOK, NEW f \in Fires, Formed(fire[f]), WorkOK(fire[f]),
         Turns(f, fire[f], fire'[f]), past.hit = {}, ~Stumbles
  PROVE  WorkOK(fire[f])'
<1> DEFINE x == fire[f]
           y == fire'[f]
           Known(n) == n \in disk.answered \cup disk.cool \/ Fits(n)
           FitsNow(n) == /\ past'.drafts[n] <= disk'.worked[n] + past'.failed[n]
                         /\ IsMain(n) => past'.drafts[n] < MaxWork + past'.failed[n]
           OpenNow(n) == n \notin disk'.cool /\ (IsMain(n) \/ disk'.worked[n] < MaxWork)
<1>0. /\ past.drafts \in [Notes -> 0 .. MostDrafts] /\ disk.worked \in [Notes -> 0 .. MaxWork]
      /\ x.note \in Notes \cup {Nothing} /\ x.work \in SUBSET Notes /\ MaxWork \in Nat \ {0}
      /\ past.failed \in [Notes -> Nat] /\ MostDrafts \in Nat
  BY PastFields, FireFields, DiskFields, ReplyBounds DEF ReplyTypeOK
<1>i. \A n \in Notes : past.drafts[n] \in Nat /\ disk.worked[n] \in Nat /\ past.failed[n] \in Nat
  BY <1>0
<1>a. \A n \in Notes : past.drafts[n] <= MaxWork + past.failed[n] /\ (x.note # n => Known(n))
  BY DEF WorkOK
<1>w. ASSUME y.at = "pick" => \A n \in y.work : OpenNow(n),
             y.note # Nothing =>
               OpenNow(y.note) /\ past'.drafts[y.note] <= disk'.worked[y.note] + past'.failed[y.note] + 1,
             y.at = "draft" => FitsNow(y.note),
             y.at = "settle" /\ y.sent = "reply" => y.note \in disk'.answered,
             \A n \in Notes : /\ past'.drafts[n] <= MaxWork + past'.failed[n]
                              /\ y.note # n => n \in disk'.answered \cup disk'.cool \/ FitsNow(n)
      PROVE  WorkOK(fire[f])'
  BY <1>w DEF WorkOK, Open, Fits, IsMain
(* Who has no note in hand after it, and knew of the one it had.           *)
<1>1. ASSUME Fresh(y), y.at \notin {"draft", "settle"}, x.note \in Notes => Known(x.note),
             disk'.worked = disk.worked, disk'.cool = disk.cool, past'.drafts = past.drafts,
             disk'.answered = disk.answered, past'.failed = past.failed,
             y.at = "pick" => \A n \in y.work : Open(n)
      PROVE  WorkOK(fire[f])'
  <2>1. \A n \in Notes : Known(n)
    BY <1>a, <1>1
  <2>2. QED
    BY <1>a, <1>w, <1>1, <2>1 DEF Fresh, Open, Fits
<1>2. ASSUME y.note = x.note, disk'.worked = disk.worked, disk'.cool = disk.cool,
             past'.drafts = past.drafts, past'.failed = past.failed,
             disk.answered \subseteq disk'.answered \cup {x.note}, y.at \notin {"pick", "draft"},
             y.at = "settle" /\ y.sent = "reply" => x.note \in disk'.answered
      PROVE  WorkOK(fire[f])'
  <2>1. x.note # Nothing => Open(x.note)
             /\ past.drafts[x.note] <= disk.worked[x.note] + past.failed[x.note] + 1
    BY DEF WorkOK
  <2>2. QED
    BY <1>a, <1>w, <1>2, <2>1 DEF Open, Fits
<1>3. CASE StartTurn(f, x, y)
  <2>1. x.note \notin Notes
    BY <1>3, ResponderAssumption DEF StartTurn, Formed, Fresh
  <2>2. QED
    BY <1>1, <1>3, <2>1 DEF StartTurn
<1>4. CASE EndTurn(x, y)
  <2>1. x.note \in Notes => Known(x.note)
    <3>1. CASE x.at = "draft"
      BY <3>1 DEF WorkOK
    <3>2. CASE x.at = "pick"
      BY <3>2, ResponderAssumption DEF Formed, Fresh
    <3>3. QED
      BY <1>4, <3>1, <3>2 DEF EndTurn
  <2>2. QED
    BY <1>1, <1>4, <2>1 DEF EndTurn, Counts, Ledgers
<1>5. CASE SameTurn(x, y)
  BY <1>5 DEF SameTurn, InHand, WorkOK, Open, Fits, IsMain
<1>6. CASE ReadTurn(x, y)
  BY <1>2, <1>6 DEF ReadTurn, InHand, Counts, Ledgers
<1>7. CASE \E s \in Senders : BatchTurn(x, y, s)
  <2>1. PICK s \in Senders : BatchTurn(x, y, s)
    BY <1>7
  <2>2. /\ disk'.worked = disk.worked /\ disk'.cool = disk.cool /\ past'.drafts = past.drafts
        /\ past'.failed = past.failed
        /\ disk'.answered = disk.answered /\ y.note = x.note /\ y.at \in {"post", "save", "triage"}
    BY <2>1 DEF BatchTurn, Counts, Ledgers
  <2>3. QED
    BY <1>2, <2>2
<1>8. CASE \E n \in Notes : SaveTurn(x, y, n)
  <2>1. PICK n \in Notes : SaveTurn(x, y, n)
    BY <1>8
  <2>2. /\ disk'.worked = disk.worked /\ disk'.cool = disk.cool /\ past'.drafts = past.drafts
        /\ past'.failed = past.failed
        /\ disk'.answered = disk.answered \cup {n} /\ y.note = x.note
        /\ y.at \notin {"pick", "draft"}
    BY <2>1 DEF SaveTurn, Counts
  <2>3. y.at = "settle" => x.note \in disk'.answered
    BY <2>1, <2>2 DEF SaveTurn, Formed
  <2>4. QED
    BY <1>2, <2>2, <2>3
<1>9. CASE WorkTurn(x, y)
  <2>1. CASE x.at = "triage"
    <3>1. y.at = "pick" /\ Fresh(y) /\ disk' = disk /\ past' = past
      BY <1>9, <2>1 DEF WorkTurn
    <3>2. \A n \in y.work : Open(n)
      BY <1>9, <2>1 DEF WorkTurn, Open
    <3>3. x.note = Nothing
      BY <2>1 DEF Formed, Fresh
    <3>4. QED
      BY <1>1, <3>1, <3>2, <3>3, ResponderAssumption
  <2>2. CASE x.at = "pick"
    <3>1. /\ y.at = "draft" /\ y.note \in x.work \ disk.answered /\ x.note = Nothing
          /\ disk'.worked = disk.worked /\ disk'.cool = disk.cool /\ past'.drafts = past.drafts
          /\ disk'.answered = disk.answered /\ past'.failed = past.failed
      BY <1>9, <2>2 DEF WorkTurn, Formed, Fresh, Counts, Ledgers
    <3>2. y.note \in Notes /\ Open(y.note) /\ y.note # x.note
      BY <1>0, <2>2, <3>1, ResponderAssumption DEF WorkOK
    <3>3. Fits(y.note)
      BY <1>a, <3>1, <3>2 DEF Open
    <3>4. past.drafts[y.note] <= disk.worked[y.note] + past.failed[y.note] + 1
      BY <1>i, <3>2, <3>3 DEF Fits
    <3>5. \A n \in Notes : Known(n)
      BY <1>a, <3>1, ResponderAssumption
    <3>6. QED
      BY <1>a, <1>w, <3>1, <3>2, <3>3, <3>4, <3>5 DEF Open, Fits
  <2>3. CASE x.at = "draft"
    <3>1. /\ y.at \in {"reserve", "bounce", "settle"} /\ y.note = x.note /\ y.sent = x.sent
          /\ disk' = disk /\ past'.drafts = [past.drafts EXCEPT ![x.note] = Up(@, MostDrafts)]
          /\ past'.failed = past.failed
      BY <1>9, <2>3 DEF WorkTurn, InHand
    <3>2. x.note \in Notes /\ x.sent = "no" /\ Fits(x.note) /\ Open(x.note)
      BY <1>0, <2>3 DEF Formed, WorkOK
    <3>3. /\ past'.drafts[x.note] \in Nat /\ past'.drafts[x.note] <= past.drafts[x.note] + 1
          /\ \A n \in Notes \ {x.note} : past'.drafts[n] = past.drafts[n]
      BY <1>0, <1>i, <3>1, <3>2 DEF Up
    <3>4. past.drafts[x.note] < MaxWork + past.failed[x.note]
      BY <1>0, <1>i, <3>2 DEF Fits, Open
    <3>5. /\ past'.drafts[x.note] <= MaxWork + past.failed[x.note]
          /\ past'.drafts[x.note] <= disk.worked[x.note] + past.failed[x.note] + 1
      BY <1>0, <1>i, <3>2, <3>3, <3>4 DEF Fits
    <3>6. \A n \in Notes : /\ past'.drafts[n] <= MaxWork + past'.failed[n]
                           /\ x.note # n => n \in disk'.answered \cup disk'.cool \/ FitsNow(n)
      BY <1>a, <3>1, <3>3, <3>5 DEF Fits
    <3>7. QED
      BY <1>w, <3>1, <3>2, <3>5, <3>6 DEF Open
  <2>4. QED
    BY <1>9, <2>1, <2>2, <2>3 DEF WorkTurn
<1>10. CASE BounceTurn(x, y)
  <2>1. /\ disk'.worked = disk.worked /\ disk'.cool = disk.cool /\ past'.drafts = past.drafts
        /\ past'.failed = past.failed
        /\ disk'.answered = disk.answered /\ y.note = x.note /\ y.at \in {"mark", "settle"}
    BY <1>10 DEF BounceTurn, Counts
  <2>2. y.sent \in {"no", "bounce"}
    BY <1>10 DEF BounceTurn, Formed
  <2>3. QED
    BY <1>2, <2>1, <2>2
<1>11. CASE ReplyTurn(x, y)
  <2>1. /\ disk'.worked = disk.worked /\ disk'.cool = disk.cool /\ past'.drafts = past.drafts
        /\ past'.failed = past.failed
        /\ disk.answered \subseteq disk'.answered \cup {x.note} /\ y.note = x.note
        /\ y.at \in {"deliver", "save", "settle"}
    BY <1>11 DEF ReplyTurn, Counts, Ledgers
  <2>2. y.at = "settle" => y.sent = "no"
    BY <1>11 DEF ReplyTurn, InHand, Formed
  <2>3. QED
    BY <1>2, <2>1, <2>2
<1>12. CASE SettleTurn(x, y)
  <2> DEFINE n == x.note
  <2>1. /\ n \in Notes /\ y.at = "off" /\ y.note = Nothing /\ past'.drafts = past.drafts
        /\ disk'.answered = disk.answered
    BY <1>0, <1>12 DEF SettleTurn, Fresh, Ledgers, Formed
  <2>2. /\ past.drafts[n] <= disk.worked[n] + past.failed[n] + 1
        /\ past.drafts[n] <= MaxWork + past.failed[n] /\ Open(n)
    BY <1>a, <2>1, ResponderAssumption DEF WorkOK
  <2>3. ASSUME \A m \in Notes \ {n} : /\ disk'.worked[m] = disk.worked[m]
                                      /\ past'.failed[m] = past.failed[m],
               disk.cool \subseteq disk'.cool, past.drafts[n] <= MaxWork + past'.failed[n],
               n \in disk'.answered \cup disk'.cool \/ FitsNow(n)
        PROVE  WorkOK(fire[f])'
    <3>1. \A m \in Notes : /\ past'.drafts[m] <= MaxWork + past'.failed[m]
                           /\ m \in disk'.answered \cup disk'.cool \/ FitsNow(m)
      BY <1>a, <2>1, <2>3 DEF Fits
    <3>2. QED
      BY <1>w, <2>1, <3>1
  <2>4. CASE x.sent = "reply" /\ UNCHANGED <<disk.worked, disk.cool, past.failed>>
    <3>1. n \in disk.answered
      BY <1>12, <2>4 DEF SettleTurn, WorkOK
    <3>2. QED
      BY <2>1, <2>2, <2>3, <2>4, <3>1
  <2>5. CASE Trying(n)
    <3>1. past'.failed[n] \in Nat /\ past'.failed[n] >= past.failed[n]
      BY <1>i, <2>1, <2>5 DEF Trying
    <3>2. past.drafts[n] <= MaxWork + past'.failed[n]
      BY <1>0, <1>i, <2>1, <2>2, <3>1
    <3>3. CASE disk'.cool = disk.cool \cup {n}
      BY <2>1, <2>3, <2>5, <3>2, <3>3 DEF Trying
    <3>4. CASE /\ disk'.cool = disk.cool /\ past'.failed[n] = past.failed[n] + 1
               /\ disk'.worked[n] >= disk.worked[n]
      <4>1. FitsNow(n)
        <5>0. disk'.worked[n] \in Nat
          BY <2>5 DEF Trying
        <5>1. disk'.worked[n] + past'.failed[n] >= disk.worked[n] + past.failed[n] + 1
          BY <1>i, <2>1, <3>4, <5>0
        <5>2. past.drafts[n] < MaxWork + past'.failed[n]
          BY <1>0, <1>i, <2>1, <2>2, <3>4
        <5>3. past.drafts[n] <= disk'.worked[n] + past'.failed[n]
          BY <1>i, <2>1, <2>2, <3>4, <5>0, <5>1
        <5>4. QED
          BY <2>1, <5>2, <5>3
      <4>2. QED
        BY <2>3, <2>5, <3>2, <3>4, <4>1 DEF Trying
    <3>5. CASE /\ disk'.cool = disk.cool
               /\ disk.worked[n] < MaxWork => disk'.worked[n] = disk.worked[n] + 1
               /\ IsMain(n) => disk.worked[n] + 1 < MaxWork
      <4>1. disk.worked[n] < MaxWork
        BY <1>0, <1>i, <2>1, <2>2, <3>5 DEF Open
      <4>2. disk'.worked[n] = disk.worked[n] + 1
        BY <3>5, <4>1
      <4>3. past.drafts[n] <= disk'.worked[n] + past'.failed[n]
        BY <1>i, <2>1, <2>2, <3>1, <4>2
      <4>4. IsMain(n) => past.drafts[n] < MaxWork + past'.failed[n]
        BY <1>0, <1>i, <2>1, <2>2, <3>1, <3>5
      <4>5. QED
        BY <2>1, <2>3, <2>5, <3>2, <3>5, <4>3, <4>4 DEF Trying
    <3>6. QED
      BY <2>5, <3>3, <3>4, <3>5 DEF Trying
  <2>6. QED
    BY <1>12, <2>4, <2>5 DEF SettleTurn
<1>13. QED
  BY <1>3, <1>4, <1>5, <1>6, <1>7, <1>8, <1>9, <1>10, <1>11, <1>12 DEF Turns

(* The record of the answered in every calm turn.                          *)
LEMMA RecordTurn ==
  ASSUME ReplyTypeOK, NEW f \in Fires, Formed(fire[f]), RecordOK(fire[f]), ReadOK(fire[f]),
         Turns(f, fire[f], fire'[f]), past.hit = {}, ~Stumbles
  PROVE  RecordOK(fire[f])'
<1> DEFINE x == fire[f]
           y == fire'[f]
           Hand(z, n) == z.note = n /\ z.sent # "reply"
<1>0. /\ past.landed \in [Notes -> 0 .. 2] /\ x.note \in Notes \cup {Nothing}
      /\ x.parts \in SUBSET Notes /\ x.batch \in SUBSET Notes /\ Nothing \notin Notes
  BY PastFields, FireFields, ResponderAssumption DEF ReplyTypeOK
<1>a. \A n \in Notes :
        /\ past.landed[n] \in 0 .. 1
        /\ past.landed[n] > 0 => n \in disk.answered \/ Saving(x, n)
        /\ n \in disk.answered => past.landed[n] > 0 \/ (x.at = "forget" /\ x.note = n)
        /\ IsMain(n) /\ disk.seen[n] = "done" => past.landed[n] > 0
        /\ Saving(x, n) => past.landed[n] > 0
        /\ Hand(x, n) => past.landed[n] = 0
  BY <1>0 DEF RecordOK
<1>1. ASSUME \A n \in Notes :
               /\ past'.landed[n] <= 1
               /\ past'.landed[n] > 0 => n \in disk'.answered \/ Saving(y, n)
               /\ n \in disk'.answered => past'.landed[n] > 0 \/ (y.at = "forget" /\ y.note = n)
               /\ IsMain(n) /\ disk'.seen[n] = "done" => past'.landed[n] > 0
               /\ Saving(y, n) => past'.landed[n] > 0
               /\ Hand(y, n) => past'.landed[n] = 0
      PROVE  RecordOK(fire[f])'
  BY <1>1 DEF RecordOK, Saving, IsMain
<1> HIDE DEF Hand
<1>2. ASSUME past'.landed = past.landed, disk'.answered = disk.answered,
             \A n \in Notes : /\ Saving(y, n) <=> Saving(x, n)
                              /\ Hand(y, n) => past.landed[n] = 0
                              /\ disk'.seen[n] = "done" /\ disk.seen[n] # "done" =>
                                   ~IsMain(n) \/ past.landed[n] > 0,
             x.at # "forget"
      PROVE  RecordOK(fire[f])'
  BY <1>a, <1>1, <1>2
<1>3. CASE StartTurn(f, x, y)
  <2>1. /\ x.at = "off" /\ y.at = "triage" /\ y.note = Nothing /\ disk' = disk /\ past' = past
    BY <1>3 DEF StartTurn, Fresh
  <2>2. QED
    BY <1>0, <1>2, <2>1 DEF Saving, Hand
<1>4. CASE EndTurn(x, y)
  <2>1. /\ x.at \in {"pick", "draft"} /\ y.at = "off" /\ y.note = Nothing /\ past' = past
        /\ disk'.answered = disk.answered /\ disk'.seen = disk.seen
    BY <1>4 DEF EndTurn, Fresh, Ledgers
  <2>2. QED
    BY <1>0, <1>2, <2>1 DEF Saving, Hand
<1>5. CASE SameTurn(x, y)
  BY <1>5 DEF SameTurn, InHand, RecordOK, Saving, IsMain
<1>6. CASE ReadTurn(x, y)
  <2>1. /\ x.at = "triage" /\ y.at = "triage" /\ y.note = x.note /\ y.sent = x.sent /\ past' = past
        /\ disk'.answered = disk.answered /\ DoneOf(x.answered)
    BY <1>6 DEF ReadTurn, InHand, Ledgers
  <2>2. \A n \in x.answered : past.landed[n] > 0
    BY <2>1 DEF ReadOK, Reading
  <2>3. \A n \in Notes : disk'.seen[n] = "done" /\ disk.seen[n] # "done" =>
                           ~IsMain(n) \/ past.landed[n] > 0
    BY <2>1, <2>2 DEF DoneOf
  <2>4. \A n \in Notes : (Saving(y, n) <=> Saving(x, n)) /\ (Hand(y, n) => past.landed[n] = 0)
    BY <1>a, <2>1 DEF Saving, Hand
  <2>5. QED
    BY <1>2, <2>1, <2>3, <2>4
<1>7. CASE \E s \in Senders : BatchTurn(x, y, s)
  <2>1. PICK s \in Senders : BatchTurn(x, y, s)
    BY <1>7
  <2>2. x.note = Nothing /\ y.note = Nothing
    BY <2>1 DEF BatchTurn, Formed, Fresh, Batched
  <2>3. CASE x.at = "triage"
    <3>1. /\ y.at = "post" /\ past' = past /\ disk'.answered = disk.answered
          /\ disk'.seen = disk.seen
      BY <2>1, <2>3 DEF BatchTurn, Ledgers
    <3>2. QED
      BY <1>0, <1>2, <2>2, <2>3, <3>1 DEF Saving, Hand
  <2>4. CASE x.at = "post" /\ y.at = "triage"
    <3>1. past' = past /\ disk'.answered = disk.answered /\ DoneOf({})
      BY <2>1, <2>4 DEF BatchTurn, Ledgers
    <3>2. QED
      BY <1>0, <1>2, <2>2, <2>4, <3>1 DEF Saving, Hand, DoneOf
  <2>5. CASE x.at = "post" /\ y.at = "save"
    <3>1. /\ disk'.answered = disk.answered /\ disk'.seen = disk.seen /\ y.parts = x.parts
          /\ past'.landed = [n \in Notes |-> IF n \in x.parts THEN Up(past.landed[n], 2)
                                             ELSE past.landed[n]]
      BY <2>1, <2>5 DEF BatchTurn, Ledgers
    <3>2. \A n \in x.parts : past.landed[n] = 0
      BY <1>0, <2>5 DEF ReadOK, Reading, Formed, Batched
    <3>3. \A n \in Notes : past'.landed[n] = IF n \in x.parts THEN 1 ELSE past.landed[n]
      BY <3>1, <3>2 DEF Up
    <3>4. \A n \in Notes : (Saving(y, n) <=> n \in x.parts) /\ ~Saving(x, n)
      BY <2>2, <2>5, <3>1 DEF Saving
    <3>5. \A n \in Notes : ~Hand(y, n)
      BY <1>0, <2>2 DEF Hand
    <3>6. QED
      BY <1>a, <1>1, <2>5, <3>1, <3>3, <3>4, <3>5
  <2>6. QED
    BY <2>1, <2>3, <2>4, <2>5 DEF BatchTurn
<1>8. CASE \E n \in Notes : SaveTurn(x, y, n)
  <2>1. PICK n \in Notes : SaveTurn(x, y, n)
    BY <1>8
  <2>2. /\ x.at = "save" /\ n \in x.parts /\ y.parts = x.parts \ {n} /\ y.note = x.note
        /\ y.sent = x.sent /\ disk'.answered = disk.answered \cup {n} /\ past' = past
    BY <2>1 DEF SaveTurn
  <2>3. CASE x.note = Nothing
    <3>1. \A m \in x.batch : ~IsMain(m)
      BY <2>2, <2>3 DEF ReadOK, Reading, Batched
    <3>2. \A m \in Notes : disk'.seen[m] = "done" /\ IsMain(m) => disk.seen[m] = "done"
      BY <2>1, <2>3, <3>1 DEF SaveTurn, DoneOf
    <3>3. \A m \in Notes : (Saving(x, m) <=> m \in x.parts) /\ ~Hand(y, m)
      BY <1>0, <2>2, <2>3 DEF Saving, Hand
    <3>4. y.parts = {} \/ y.at = "save"
      BY <2>1, <2>3 DEF SaveTurn
    <3>5. \A m \in Notes : Saving(y, m) <=> (m \in x.parts /\ m # n)
      BY <2>2, <2>3, <3>4 DEF Saving
    <3>6. QED
      BY <1>a, <1>1, <2>2, <3>2, <3>3, <3>5
  <2>4. CASE x.note # Nothing
    <3>1. x.parts = {x.note} /\ x.note = n /\ x.sent \in {"no", "reply"}
      BY <2>2, <2>4 DEF Formed
    <3>2. \A m \in Notes : disk'.seen[m] = "done" /\ IsMain(m) => disk.seen[m] = "done"
      BY <2>1, <2>4 DEF SaveTurn, DoneOf
    <3>3. y.at = IF x.sent = "reply" THEN "settle" ELSE "forget"
      BY <2>1, <2>4 DEF SaveTurn
    <3>4. \A m \in Notes : ~Saving(y, m) /\ (Saving(x, m) <=> (m = n /\ x.sent = "reply"))
      BY <2>2, <2>4, <3>1, <3>3 DEF Saving
    <3>5. \A m \in Notes : Hand(y, m) <=> Hand(x, m)
      BY <2>2 DEF Hand
    <3>6. QED
      BY <1>a, <1>1, <2>2, <3>1, <3>2, <3>3, <3>4, <3>5
  <2>5. QED
    BY <2>3, <2>4
<1>9. CASE WorkTurn(x, y)
  <2>1. /\ x.at \in {"triage", "pick", "draft"} /\ y.at \notin {"save", "forget"}
        /\ past'.landed = past.landed /\ disk'.answered = disk.answered /\ disk'.seen = disk.seen
    BY <1>9 DEF WorkTurn, Ledgers
  <2>2. \A n \in Notes : Hand(y, n) => past.landed[n] = 0
    <3>1. CASE x.at = "triage"
      BY <1>0, <1>9, <3>1 DEF WorkTurn, Fresh, Hand
    <3>2. CASE x.at = "pick"
      <4>1. y.note \notin disk.answered
        BY <1>9, <3>2 DEF WorkTurn
      <4>2. \A n \in Notes : n \notin disk.answered => ~(past.landed[n] > 0)
        BY <1>a, <3>2 DEF Saving
      <4>3. QED
        BY <1>a, <4>1, <4>2 DEF Hand
    <3>3. CASE x.at = "draft"
      BY <1>9, <1>a, <3>3 DEF WorkTurn, InHand, Hand
    <3>4. QED
      BY <2>1, <3>1, <3>2, <3>3
  <2>3. \A n \in Notes : Saving(y, n) <=> Saving(x, n)
    BY <2>1 DEF Saving
  <2>4. QED
    BY <1>2, <2>1, <2>2, <2>3
<1>10. CASE BounceTurn(x, y)
  <2>1. /\ x.at \in {"bounce", "mark"} /\ y.at \in {"mark", "settle"}
        /\ past'.landed = past.landed /\ disk'.answered = disk.answered /\ disk'.seen = disk.seen
        /\ y.note = x.note /\ x.sent # "reply"
    BY <1>10 DEF BounceTurn, Formed
  <2>2. QED
    BY <1>2, <1>a, <2>1 DEF Saving, Hand
<1>11. CASE ReplyTurn(x, y)
  <2>0. y.note = x.note /\ x.note \in Notes /\ x.sent = "no" /\ Hand(x, x.note)
    BY <1>0, <1>11 DEF ReplyTurn, Formed, Hand
  <2>1. CASE /\ x.at \in {"reserve", "deliver"} /\ y.sent = x.sent /\ past' = past
             /\ disk'.answered = disk.answered /\ disk'.seen = disk.seen
    BY <1>0, <1>2, <1>a, <2>0, <2>1 DEF Saving, Hand
  <2>2. CASE /\ x.at = "deliver" /\ y.at = "save" /\ y.sent = "reply" /\ disk' = disk
             /\ y.parts = x.parts /\ past'.landed = [past.landed EXCEPT ![x.note] = Up(@, 2)]
    <3>1. past.landed[x.note] = 0 /\ x.parts = {x.note}
      BY <1>0, <1>a, <2>0, <2>2 DEF Formed
    <3>2. \A n \in Notes : past'.landed[n] = IF n = x.note THEN 1 ELSE past.landed[n]
      BY <1>0, <2>2, <3>1 DEF Up
    <3>3. \A n \in Notes : (Saving(y, n) <=> n = x.note) /\ ~Saving(x, n) /\ ~Hand(y, n)
      BY <2>0, <2>2, <3>1 DEF Saving, Hand
    <3>4. QED
      BY <1>1, <1>a, <2>2, <3>2, <3>3
  <2>3. CASE /\ x.at = "forget" /\ y.at = "settle" /\ y.sent = x.sent /\ disk'.seen = disk.seen
             /\ disk'.answered = disk.answered \ {x.note} /\ past' = past
    <3>1. past.landed[x.note] = 0
      BY <1>a, <2>0
    <3>2. \A n \in Notes : ~Saving(y, n) /\ ~Saving(x, n) /\ (Hand(y, n) => Hand(x, n))
      BY <2>0, <2>3 DEF Saving, Hand
    <3>3. QED
      BY <1>1, <1>a, <2>3, <3>1, <3>2
  <2>4. QED
    BY <1>11, <2>1, <2>2, <2>3 DEF ReplyTurn, InHand, Ledgers
<1>12. CASE SettleTurn(x, y)
  <2>1. /\ x.at = "settle" /\ y.at = "off" /\ y.note = Nothing /\ past'.landed = past.landed
        /\ disk'.answered = disk.answered /\ DoneOf({})
    BY <1>12 DEF SettleTurn, Fresh, Ledgers
  <2>2. QED
    BY <1>0, <1>2, <2>1 DEF Saving, Hand, DoneOf
<1>13. QED
  BY <1>3, <1>4, <1>5, <1>6, <1>7, <1>8, <1>9, <1>10, <1>11, <1>12 DEF Turns

(* What a triage has read in every calm turn.                              *)
LEMMA PlansTurn ==
  ASSUME ReplyTypeOK, NEW f \in Fires, Formed(fire[f]), Formed(fire'[f]), RecordOK(fire[f]),
         ReadOK(fire[f]), Turns(f, fire[f], fire'[f]), past.hit = {}, ~Stumbles
  PROVE  ReadOK(fire[f])'
<1> DEFINE x == fire[f]
           y == fire'[f]
<1>0. /\ past.landed \in [Notes -> 0 .. 2] /\ x.note \in Notes \cup {Nothing}
      /\ x.parts \in SUBSET Notes /\ x.batch \in SUBSET Notes /\ x.todo \in SUBSET Notes
      /\ x.answered \in SUBSET Notes /\ disk.answered \in SUBSET Notes /\ Nothing \notin Notes
  BY PastFields, FireFields, DiskFields, ResponderAssumption DEF ReplyTypeOK
<1>1. ASSUME ~Reading(y)
      PROVE  ReadOK(fire[f])'
  BY <1>1 DEF ReadOK, Reading, Batched
<1>2. ASSUME \A n \in y.answered : past'.landed[n] > 0,
             \A n \in y.todo \ y.answered : past'.landed[n] = 0,
             \A n \in y.batch : ~IsMain(n),
             \A n \in y.batch : \/ past'.landed[n] = 0
                                \/ y.at = "save" /\ \E p \in y.parts : From[p] = From[n]
      PROVE  ReadOK(fire[f])'
  BY <1>2 DEF ReadOK, IsMain
<1>3. CASE StartTurn(f, x, y)
  <2>1. /\ x.at = "off" /\ y.answered = disk.answered /\ y.batch = {} /\ past' = past
    BY <1>3 DEF StartTurn
  <2>2. \A n \in disk.answered : past.landed[n] > 0
    BY <1>0, <2>1 DEF RecordOK
  <2>3. \A n \in Notes \ disk.answered : past.landed[n] = 0
    BY <1>0, <2>1 DEF RecordOK, Saving
  <2>4. y.todo \subseteq Notes
    BY <1>3 DEF StartTurn
  <2>5. QED
    BY <1>2, <2>1, <2>2, <2>3, <2>4
<1>4. CASE EndTurn(x, y) \/ SettleTurn(x, y)
  BY <1>1, <1>4 DEF EndTurn, SettleTurn, Reading, Batched
<1>5. CASE SameTurn(x, y)
  BY <1>5 DEF SameTurn, InHand, ReadOK, Reading, Batched, IsMain
<1>6. CASE ReadTurn(x, y)
  <2>1. /\ x.at = "triage" /\ y.at = "triage" /\ y.answered = x.answered /\ y.todo \subseteq x.todo
        /\ \A n \in y.batch \ x.batch : n \in x.todo \ x.answered /\ ~IsMain(n)
        /\ past' = past
    BY <1>6 DEF ReadTurn
  <2>2. /\ \A n \in x.answered : past.landed[n] > 0
        /\ \A n \in x.todo \ x.answered : past.landed[n] = 0
        /\ \A n \in x.batch : ~IsMain(n) /\ past.landed[n] = 0
    BY <2>1 DEF ReadOK, Reading
  <2>3. QED
    BY <1>2, <2>1, <2>2
<1>7. CASE \E s \in Senders : BatchTurn(x, y, s)
  <2>1. PICK s \in Senders : BatchTurn(x, y, s)
    BY <1>7
  <2>2. /\ x.at \in {"triage", "post"} /\ y.answered = x.answered /\ y.todo = x.todo /\ x.todo = {}
    BY <2>1 DEF BatchTurn, Formed, Batched
  <2>3. /\ \A n \in x.answered : past.landed[n] > 0
        /\ \A n \in x.batch : ~IsMain(n) /\ past.landed[n] = 0
    BY <2>2 DEF ReadOK, Reading, Batched
  <2>4. CASE past' = past /\ y.batch \subseteq x.batch
    BY <1>2, <2>2, <2>3, <2>4
  <2>5. CASE /\ y.at = "save" /\ y.parts = x.parts /\ y.batch = x.batch
             /\ past'.landed = [n \in Notes |-> IF n \in x.parts THEN Up(past.landed[n], 2)
                                                ELSE past.landed[n]]
    <3>1. \A n \in x.answered : past'.landed[n] > 0
      BY <1>0, <2>3, <2>5 DEF Up
    <3>2. \A n \in x.batch \ x.parts : past'.landed[n] = 0
      BY <1>0, <2>3, <2>5
    <3>3. QED
      BY <1>2, <2>2, <2>3, <2>5, <3>1, <3>2
  <2>6. QED
    BY <2>1, <2>4, <2>5 DEF BatchTurn
<1>8. CASE \E n \in Notes : SaveTurn(x, y, n)
  <2>1. PICK n \in Notes : SaveTurn(x, y, n)
    BY <1>8
  <2>2. /\ x.at = "save" /\ n \in x.parts /\ y.parts = x.parts \ {n} /\ y.note = x.note
        /\ y.answered = x.answered /\ y.todo = x.todo /\ past' = past
    BY <2>1 DEF SaveTurn
  <2>3. CASE x.note # Nothing
    <3>1. y.at \in {"settle", "forget"}
      BY <2>1, <2>3 DEF SaveTurn
    <3>2. QED
      BY <1>1, <3>1 DEF Reading, Batched
  <2>4. CASE x.note = Nothing
    <3>1. x.todo = {} /\ OneSender(x.parts)
      BY <2>2, <2>4 DEF Formed, Batched
    <3>2. /\ \A m \in x.answered : past.landed[m] > 0
          /\ \A m \in x.batch : ~IsMain(m)
          /\ \A m \in x.batch : past.landed[m] = 0 \/ \E p \in x.parts : From[p] = From[m]
      BY <2>2, <2>4 DEF ReadOK, Reading, Batched
    <3>3. \A p \in x.parts : From[p] = From[n]
      BY <2>2, <3>1 DEF OneSender
    <3>4. CASE y.batch = {m \in x.batch : From[m] # From[n]}
      <4>1. \A m \in y.batch : past.landed[m] = 0 /\ m \in x.batch
        BY <3>2, <3>3, <3>4
      <4>2. QED
        BY <1>2, <2>2, <3>1, <3>2, <4>1
    <3>5. CASE y.parts # {} /\ y.at = "save" /\ y.batch = x.batch
      <4>1. \A m \in x.batch : past.landed[m] = 0 \/ \E p \in y.parts : From[p] = From[m]
        BY <2>2, <3>2, <3>3, <3>5
      <4>2. QED
        BY <1>2, <2>2, <3>1, <3>2, <3>5, <4>1
    <3>6. QED
      BY <2>1, <2>4, <3>4, <3>5 DEF SaveTurn
  <2>5. QED
    BY <2>3, <2>4
<1>9. CASE WorkTurn(x, y)
  <2>1. y.at \in {"pick", "draft", "reserve", "bounce", "settle"}
    BY <1>9 DEF WorkTurn
  <2>2. QED
    BY <1>1, <2>1 DEF Reading, Batched
<1>10. CASE BounceTurn(x, y)
  <2>1. y.at \in {"mark", "settle"}
    BY <1>10 DEF BounceTurn
  <2>2. QED
    BY <1>1, <2>1 DEF Reading, Batched
<1>11. CASE ReplyTurn(x, y)
  <2>1. y.at \in {"deliver", "save", "settle"} /\ y.note # Nothing
    BY <1>11 DEF ReplyTurn, Formed
  <2>2. QED
    BY <1>1, <2>1 DEF Reading, Batched
<1>12. QED
  BY <1>3, <1>4, <1>5, <1>6, <1>7, <1>8, <1>9, <1>10, <1>11 DEF Turns

(* Whoever is not there, what is calm with one is calm with the other.     *)
LEMMA AnyIdle ==
  ASSUME NEW f \in Fires, NEW g \in Fires, CalmWith(fire[f])', Nothing \notin Notes,
         fire'[f].at = "off", fire'[g].at = "off", Fresh(fire'[f]), Fresh(fire'[g])
  PROVE  CalmWith(fire[g])'
<1>1. DayOK(fire[g])' /\ BouncesOK(fire[g])'
  BY DEF CalmWith, DayOK, BouncesOK, Fresh, Sibling, Told, IsMain
<1>2. WorkOK(fire[g])' /\ ReadOK(fire[g])'
  BY DEF CalmWith, WorkOK, Open, Fits, ReadOK, Reading, Batched, Fresh, IsMain
<1>3. RecordOK(fire[g])'
  BY DEF CalmWith, RecordOK, Saving, Fresh, IsMain
<1>4. QED
  BY <1>1, <1>2, <1>3 DEF CalmWith

(* A turn of a fire keeps calm.                                            *)
LEMMA TurnIsCalm ==
  ASSUME ReplyTypeOK, FormOK, FormOK', CalmOK, NEW f \in Fires,
         Turns(f, fire[f], fire'[f]), \A g \in Fires \ {f} : fire'[g] = fire[g]
  PROVE  CalmOK'
<1>1. SUFFICES ASSUME past'.hit = {}
               PROVE  /\ \E g \in Fires : Alone(g)'
                      /\ \A g \in Fires : Alone(g)' => CalmWith(fire[g])'
  BY DEF CalmOK, Alone, CalmWith, DayOK, WorkOK, Open, Fits, RecordOK, ReadOK, BouncesOK, Sibling, Told,
         IsMain,
         Saving, Reading, Batched, IsAt
<1>2. past.hit = {} /\ ~Stumbles /\ Alone(f) /\ CalmWith(fire[f])
  BY <1>1, CalmTurn
<1>3. Formed(fire[f]) /\ \A g \in Fires : Formed(fire'[g])
  BY DEF FormOK, Formed, Fresh, Batched, OneSender
<1>4. CalmWith(fire[f])'
  BY <1>2, <1>3, DayTurn, WorksTurn, RecordTurn, PlansTurn, BouncesTurn DEF CalmWith
<1>5. Alone(f)'
  BY <1>2 DEF Alone, IsAt
<1>6. ASSUME NEW g \in Fires, g # f, Alone(g)'
      PROVE  CalmWith(fire[g])'
  <2>1. fire'[f].at = "off" /\ fire'[g].at = "off"
    BY <1>5, <1>6 DEF Alone, IsAt
  <2>2. Fresh(fire'[f]) /\ Fresh(fire'[g])
    BY <1>3, <2>1 DEF Formed
  <2>3. QED
    BY <1>4, <2>1, <2>2, AnyIdle, ResponderAssumption
<1>7. QED
  BY <1>4, <1>5, <1>6

(* The other steps keep calm.                                              *)
LEMMA ApartIsCalm ==
  ASSUME ReplyTypeOK, FormOK, CalmOK, Apart
  PROVE  CalmOK'
<1>0. /\ disk \in DiskRecord /\ past \in PastRecord /\ past.drafts \in [Notes -> 0 .. MostDrafts]
      /\ disk.worked \in [Notes -> 0 .. MaxWork] /\ DailyCap \in Nat /\ disk.day \in Nat
      /\ \A f \in Fires : fire[f].note \in Notes \cup {Nothing}
      /\ MaxWork \in Nat \ {0} /\ past.failed \in [Notes -> Nat]
  BY DiskFields, PastFields, FireFields, ReplyBounds DEF ReplyTypeOK
<1>1. fire' = fire /\ past'.hit = past.hit
  <2>1. fire' = fire
    BY DEF Apart, Arrive, OutboxCopy, CoolOff, Midnight, Renew
  <2>2. past'.hit = past.hit
    BY <1>0, PastFields DEF Apart, Arrive, OutboxCopy, CoolOff, Midnight, Renew
  <2>3. QED
    BY <2>1, <2>2
<1>2. SUFFICES ASSUME NEW f \in Fires, CalmWith(fire[f])
               PROVE  CalmWith(fire[f])'
  BY <1>1 DEF CalmOK, Alone, IsAt
<1>3. ASSUME disk' = disk, past' = past
      PROVE  CalmWith(fire[f])'
  BY <1>1, <1>2, <1>3 DEF CalmWith, DayOK, WorkOK, Open, Fits, RecordOK, ReadOK, BouncesOK, Sibling, Told,
         IsMain,
         Saving, Reading, Batched
<1>4. CASE \E n \in Notes : Arrive(n) \/ OutboxCopy(n)
  BY <1>3, <1>4 DEF Arrive, OutboxCopy
<1>5. CASE \E n \in Notes : CoolOff(n)
  <2>1. PICK n \in Notes : CoolOff(n)
    BY <1>5
  <2>2. /\ disk'.cool = disk.cool \ {n} /\ disk'.day = disk.day /\ disk'.worked = disk.worked
        /\ disk'.answered = disk.answered /\ disk'.seen = disk.seen /\ disk'.bounced = disk.bounced
    BY <1>0, <2>1, DiskFields DEF CoolOff
  <2>3. /\ past'.drafts = [past.drafts EXCEPT ![n] = 0] /\ past'.sibs = past.sibs
        /\ past'.landed = past.landed /\ past'.bounces = past.bounces /\ past'.lost = past.lost
        /\ past'.failed = [past.failed EXCEPT ![n] = 0]
    BY <1>0, <2>1, PastFields DEF CoolOff
  <2>4. \A m \in Notes : /\ past'.drafts[m] = IF m = n THEN 0 ELSE past.drafts[m]
                         /\ past'.failed[m] = IF m = n THEN 0 ELSE past.failed[m]
    BY <1>0, <2>3
  <2>5. /\ DayOK(fire[f])' /\ RecordOK(fire[f])' /\ ReadOK(fire[f])' /\ BouncesOK(fire[f])'
    BY <1>1, <1>2, <2>2, <2>3 DEF CalmWith, DayOK, RecordOK, ReadOK, BouncesOK, Sibling, Told, IsMain,
         Saving, Reading, Batched
  <2>6. WorkOK(fire[f])'
    <3>1. WorkOK(fire[f])
      BY <1>2 DEF CalmWith
    <3>2. n \in disk.cool
      BY <2>1 DEF CoolOff
    <3> DEFINE FitsNow(m) == /\ past'.drafts[m] <= disk'.worked[m] + past'.failed[m]
                             /\ IsMain(m) => past'.drafts[m] < MaxWork + past'.failed[m]
    <3>3. FitsNow(n) /\ past'.drafts[n] <= MaxWork + past'.failed[n]
      BY <1>0, <2>1, <2>2, <2>4
    <3>4. \A m \in Notes : /\ past'.drafts[m] <= MaxWork + past'.failed[m]
                           /\ fire[f].note # m =>
                                m \in disk'.answered \cup disk'.cool \/ FitsNow(m)
      <4>1. TAKE m \in Notes
      <4>2. CASE m = n
        BY <3>3, <4>2
      <4>3. CASE m # n
        BY <2>2, <2>4, <3>1, <4>3 DEF WorkOK, Fits
      <4>4. QED
        BY <4>2, <4>3
    <3>5. fire[f].note # Nothing => fire[f].note # n /\ fire[f].note \in Notes
      BY <1>0, <3>1, <3>2 DEF WorkOK, Open
    <3>6. QED
      <4> DEFINE x == fire[f]
                 OpenNow(m) == m \notin disk'.cool /\ (IsMain(m) \/ disk'.worked[m] < MaxWork)
      <4>1. \A m : Open(m) => OpenNow(m)
        BY <2>2 DEF Open
      <4>2. x.note # Nothing =>
              /\ OpenNow(x.note)
              /\ past'.drafts[x.note] <= disk'.worked[x.note] + past'.failed[x.note] + 1
              /\ x.at = "draft" => FitsNow(x.note)
        BY <2>2, <2>4, <3>1, <3>5, <4>1 DEF WorkOK, Fits
      <4>3. x.at = "draft" => x.note # Nothing
        BY DEF FormOK, Formed
      <4>4. x.at = "pick" => \A m \in x.work : OpenNow(m)
        BY <3>1, <4>1 DEF WorkOK
      <4>5. x.at = "settle" /\ x.sent = "reply" => x.note \in disk'.answered
        BY <2>2, <3>1 DEF WorkOK
      <4>6. QED
        BY <1>1, <3>4, <4>2, <4>3, <4>4, <4>5 DEF WorkOK, Open, Fits, IsMain
  <2>7. QED
    BY <2>5, <2>6 DEF CalmWith
<1>6. CASE Midnight
  <2>1. /\ disk'.day = 0 /\ disk'.cool = disk.cool /\ disk'.worked = disk.worked
        /\ disk'.answered = disk.answered /\ disk'.seen = disk.seen /\ disk'.bounced = disk.bounced
        /\ disk.day > 0
    BY <1>0, <1>6, DiskFields DEF Midnight
  <2>2. /\ past'.drafts = past.drafts /\ past'.sibs = 0 /\ past'.landed = past.landed
        /\ past'.bounces = past.bounces /\ past'.lost = 0 /\ past'.failed = past.failed
    BY <1>0, <1>6, PastFields DEF Midnight
  <2>3. WorkOK(fire[f])' /\ RecordOK(fire[f])' /\ ReadOK(fire[f])' /\ BouncesOK(fire[f])'
    BY <1>1, <1>2, <2>1, <2>2 DEF CalmWith, WorkOK, Open, Fits, RecordOK, ReadOK, BouncesOK, IsMain,
         Saving, Reading, Batched
  <2>4. 0 < DailyCap
    <3>1. disk.day <= DailyCap
      BY DiskFields, ReplyBounds DEF ReplyTypeOK
    <3>2. QED
      BY <1>0, <2>1, <3>1
  <2>5. DayOK(fire[f])'
    BY <1>1, <1>2, <2>1, <2>2, <2>4 DEF CalmWith, DayOK, Sibling, Told, IsMain
  <2>6. QED
    BY <2>3, <2>5 DEF CalmWith
<1>7. CASE Renew
  <2>1. /\ disk'.day = disk.day /\ disk'.cool = disk.cool /\ disk'.worked = disk.worked
        /\ disk'.answered = disk.answered /\ disk'.seen = disk.seen
    BY <1>0, <1>7, DiskFields DEF Renew
  <2>2. /\ past'.drafts = past.drafts /\ past'.sibs = past.sibs /\ past'.landed = past.landed
        /\ past'.bounces = NoCount /\ past'.lost = past.lost /\ past'.failed = past.failed
    BY <1>0, <1>7, PastFields DEF Renew
  <2>3. /\ DayOK(fire[f])' /\ WorkOK(fire[f])' /\ RecordOK(fire[f])' /\ ReadOK(fire[f])'
    BY <1>1, <1>2, <2>1, <2>2 DEF CalmWith, DayOK, WorkOK, Open, Fits, RecordOK, ReadOK, Sibling,
         Told, IsMain, Saving, Reading, Batched
  <2>4. BouncesOK(fire[f])'
    BY <2>2 DEF BouncesOK, NoCount
  <2>5. QED
    BY <2>3, <2>4 DEF CalmWith
<1>8. QED
  BY <1>4, <1>5, <1>6, <1>7 DEF Apart

(* A sender's rows age out calmly.                                         *)
LEMMA RollIsCalm ==
  ASSUME ReplyTypeOK, CalmOK, NEW s \in Senders, Roll(s)
  PROVE  CalmOK'
<1>0. disk \in DiskRecord /\ past \in PastRecord
  BY DEF ReplyTypeOK
<1>1. /\ disk'.day = disk.day /\ disk'.cool = disk.cool /\ disk'.worked = disk.worked
      /\ disk'.answered = disk.answered /\ disk'.seen = disk.seen /\ disk'.bounced = disk.bounced
  BY <1>0, RollIs, DiskFields
<1>2. /\ past'.drafts = past.drafts /\ past'.sibs = past.sibs /\ past'.landed = past.landed
      /\ past'.bounces = past.bounces /\ past'.hit = past.hit /\ past'.lost = past.lost
      /\ past'.failed = past.failed
  BY <1>0, RollIs, PastFields
<1>3. ASSUME NEW f \in Fires
      PROVE  LET x == fire[f] y == fire'[f]
             IN  /\ y.at = x.at /\ y.note = x.note /\ y.parts = x.parts /\ y.sent = x.sent
                 /\ y.answered = x.answered /\ y.todo = x.todo /\ y.batch = x.batch /\ y.work = x.work
  BY RollIs
<1>4. ASSUME NEW f \in Fires, CalmWith(fire[f])
      PROVE  CalmWith(fire[f])'
  <2>1. DayOK(fire[f])' /\ BouncesOK(fire[f])'
    BY <1>1, <1>2, <1>3, <1>4 DEF CalmWith, DayOK, BouncesOK, Sibling, Told, IsMain
  <2>2. WorkOK(fire[f])'
    BY <1>1, <1>2, <1>3, <1>4 DEF CalmWith, WorkOK, Open, Fits, IsMain
  <2>3. RecordOK(fire[f])'
    BY <1>1, <1>2, <1>3, <1>4 DEF CalmWith, RecordOK, Saving, IsMain
  <2>4. ReadOK(fire[f])'
    BY <1>1, <1>2, <1>3, <1>4 DEF CalmWith, ReadOK, Reading, Batched, IsMain
  <2>5. QED
    BY <2>1, <2>2, <2>3, <2>4 DEF CalmWith
<1>5. \A f \in Fires : Alone(f)' <=> Alone(f)
  BY <1>3 DEF Alone, IsAt
<1>6. QED
  BY <1>2, <1>4, <1>5 DEF CalmOK

(* Every step keeps calm.                                                  *)
LEMMA CalmStep ==
  ASSUME ReplyTypeOK, FormOK, FormOK', CalmOK, ReplyNext
  PROVE  CalmOK'
<1>1. CASE \E f \in Fires : Turn(f)
  BY <1>1, TurnIs, TurnAlone, TurnIsCalm
<1>2. CASE \E s \in Senders : Roll(s)
  BY <1>2, RollIsCalm
<1>3. QED
  BY <1>1, <1>2, ApartIsCalm, ReplySteps

----------------------------------------------------------------------------
ReplyInv == ReplyTypeOK /\ FormOK /\ RowsOK /\ CalmOK

(* Nobody is there and nothing has been sent.                              *)
LEMMA ReplyInits ==
  ASSUME ReplyInit
  PROVE  ReplyInv
<1>1. ReplyTypeOK
  <2>1. fire \in [Fires -> FireRecord]
    BY IdleIs DEF ReplyInit
  <2>2. disk \in DiskRecord
    BY ReplyBounds DEF ReplyInit, DiskRecord
  <2>3. past \in PastRecord
    BY ReplyBounds DEF ReplyInit, PastRecord
  <2>4. QED
    BY <2>1, <2>2, <2>3, ReplyBounds DEF ReplyInit, ReplyTypeOK
<1>2. \A f \in Fires : fire[f].at = "off" /\ Fresh(fire[f])
  BY DEF ReplyInit, Idle, Fresh
<1>3. FormOK
  BY <1>2 DEF FormOK, Formed, Batched
<1>4. RowsOK
  <2>1. \A s \in Senders : past.sent[s] = 0 /\ disk.out[s] = 0
    BY DEF ReplyInit
  <2>2. \A f \in Fires, s \in Senders : ~Owes(fire[f], s)
    BY <1>2 DEF Owes, Fresh
  <2>3. QED
    BY <2>1, <2>2, ReplyBounds DEF RowsOK, Due, Plain
<1>5. CalmOK
  <2>1. \A n \in Notes : /\ past.landed[n] = 0 /\ past.bounces[n] = 0 /\ past.drafts[n] = 0
                         /\ disk.worked[n] = 0 /\ disk.seen[n] = "new" /\ past.failed[n] = 0
    BY DEF ReplyInit
  <2>2. past.sibs = 0 /\ past.lost = 0 /\ disk.day = 0 /\ disk.answered = {} /\ disk.cool = {}
    BY DEF ReplyInit
  <2>3. ASSUME NEW f \in Fires
        PROVE  CalmWith(fire[f])
    <3>1. DayOK(fire[f]) /\ BouncesOK(fire[f])
      BY <1>2, <2>1, <2>2 DEF DayOK, BouncesOK, Fresh, Sibling, Told
    <3>2. WorkOK(fire[f])
      BY <1>2, <2>1, <2>2, ReplyBounds DEF WorkOK, Fits, Fresh
    <3>3. RecordOK(fire[f]) /\ ReadOK(fire[f])
      BY <1>2, <2>1, <2>2 DEF RecordOK, ReadOK, Saving, Reading, Batched, Fresh
    <3>4. QED
      BY <3>1, <3>2, <3>3 DEF CalmWith
  <2>4. \E f \in Fires : Alone(f)
    BY <1>2 DEF Alone, IsAt, Fires
  <2>5. QED
    BY <2>3, <2>4 DEF CalmOK
<1>6. QED
  BY <1>1, <1>3, <1>4, <1>5 DEF ReplyInv

(* A step that does nothing keeps everything.                              *)
LEMMA ReplyStutters ==
  ASSUME ReplyInv, UNCHANGED replyVars
  PROVE  ReplyInv'
<1>1. disk' = disk /\ fire' = fire /\ past' = past
  BY DEF replyVars
<1>2. ReplyTypeOK' /\ FormOK'
  BY <1>1 DEF ReplyInv, replyVars, ReplyTypeOK, FormOK, Formed, Fresh, Batched, OneSender
<1>3. RowsOK'
  BY <1>1 DEF ReplyInv, RowsOK, Due, Plain, Owes, Target
<1>4. CalmOK'
  <2>1. \A f \in Fires : Alone(f)' <=> Alone(f)
    BY <1>1 DEF Alone, IsAt
  <2>2. \A f \in Fires : CalmWith(fire[f]) => CalmWith(fire[f])'
    BY <1>1 DEF CalmWith, DayOK, WorkOK, Open, Fits, RecordOK, ReadOK, BouncesOK, Sibling, Told,
         IsMain, Saving,
         Reading, Batched
  <2>3. QED
    BY <1>1, <2>1, <2>2 DEF ReplyInv, CalmOK
<1>5. QED
  BY <1>2, <1>3, <1>4 DEF ReplyInv

(* The inductive invariant: the records on disk, what each fire carries    *)
(* and what has been sent agree, with the types, however fires overlap and *)
(* whatever fails, and in full while nothing has gone wrong.               *)
THEOREM ResponderInvariant == ReplySpec => []ReplyInv
<1>1. ReplyInit => ReplyInv
  BY ReplyInits
<1>2. ReplyInv /\ [ReplyNext]_replyVars => ReplyInv'
  <2>1. CASE ReplyInv /\ ReplyNext
    <3>1. ReplyTypeOK' /\ FormOK'
      BY <2>1, ReplyTypeStep, FormStep DEF ReplyInv
    <3>2. QED
      BY <2>1, <3>1, RowsStep, CalmStep DEF ReplyInv
  <2>2. QED
    BY <2>1, ReplyStutters
<1>3. QED
  BY <1>1, <1>2, PTL DEF ReplySpec

(* Every variable of the responder keeps its type.                         *)
THEOREM ResponderTypeCorrect == ReplySpec => []ReplyTypeOK
<1>1. ReplyInv => ReplyTypeOK
  BY DEF ReplyInv
<1>2. QED
  BY <1>1, ResponderInvariant, PTL

(* The caps hold: no sender gets more than MAX_REPLIES_PER_SENDER replies  *)
(* in a rolling day but for verified orders, however fires overlap and     *)
(* whatever fails; and while no fire overlaps another or dies before it    *)
(* counts, siblings no more than the daily cap and one for each reply      *)
(* whose count was not written, and a note no more than MAX_WORK_ATTEMPTS  *)
(* sessions and one for each that could not be recorded.                   *)
THEOREM RepliesAreCapped == ReplySpec => []CapHolds
<1>1. ASSUME ReplyInv
      PROVE  CapHolds
  <2>1. ASSUME NEW s \in Senders
        PROVE  past.sent[s] <= MaxReplies
    <3>1. Tick \in Fires /\ Manual \in Fires /\ Tick # Manual
      BY ResponderAssumption DEF Fires
    <3>2. past.sent[s] + Plain(fire[Tick], s) + Plain(fire[Manual], s) <= MaxReplies
      BY <1>1, <3>1 DEF ReplyInv, RowsOK
    <3>3. past.sent[s] \in Nat /\ MaxReplies \in Nat
      BY <1>1, RowNumbers, ReplyBounds DEF ReplyInv
    <3>4. QED
      BY <3>2, <3>3 DEF Plain
  <2>2. ASSUME past.hit = {}
        PROVE  /\ past.sibs <= DailyCap + past.lost
               /\ \A n \in Notes : past.drafts[n] <= MaxWork + past.failed[n]
    <3>1. PICK f \in Fires : CalmWith(fire[f])
      BY <1>1, <2>2 DEF ReplyInv, CalmOK
    <3>2. /\ disk.day \in 0 .. DailyCap /\ past.sibs \in 0 .. MostSibs /\ DailyCap \in Nat
          /\ past.lost \in Nat
      BY <1>1, DiskFields, PastFields, ReplyBounds DEF ReplyInv, ReplyTypeOK
    <3>3. past.sibs <= DailyCap + past.lost
      BY <3>1, <3>2 DEF CalmWith, DayOK, Told
    <3>4. QED
      BY <3>1, <3>3 DEF CalmWith, WorkOK
  <2>3. QED
    BY <2>1, <2>2 DEF CapHolds
<1>2. ReplyInv => CapHolds
  BY <1>1
<1>3. QED
  BY <1>2, ResponderInvariant, PTL

(* While nothing has gone wrong, a note gets at most one reply and one     *)
(* bounce an agreement, the record holds it as answered only when its      *)
(* reply landed, and none of Main is left seen but neither answered nor    *)
(* replied to.                                                             *)
THEOREM NotesAreAnsweredOnce == ReplySpec => []AnsweredOnce
<1>1. ASSUME ReplyInv, past.hit = {}
      PROVE  /\ \A n \in Notes : past.landed[n] <= 1 /\ past.bounces[n] <= 1
             /\ \A n \in disk.answered : past.landed[n] > 0 \/ Busy(n)
             /\ \A n \in Notes : IsMain(n) /\ disk.seen[n] = "done" =>
                   n \in disk.answered \/ past.landed[n] > 0
  <2>1. PICK f \in Fires : CalmWith(fire[f])
    BY <1>1 DEF ReplyInv, CalmOK
  <2>2. disk.answered \in SUBSET Notes
    BY <1>1, DiskFields DEF ReplyInv, ReplyTypeOK
  <2>3. QED
    BY <2>1, <2>2 DEF CalmWith, RecordOK, BouncesOK, Busy, IsAt
<1>2. ReplyInv => AnsweredOnce
  BY <1>1 DEF AnsweredOnce
<1>3. QED
  BY <1>2, ResponderInvariant, PTL
=============================================================================
