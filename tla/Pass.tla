-------------------------------- MODULE Pass --------------------------------
(***************************************************************************)
(* The path of the account data: from the profile service through the      *)
(* response cache of ingest/enka_client.py and the jobs of                 *)
(* headless/jobs.py to the snapshot file that the dashboard shows.  Every  *)
(* file is written as core/atomic_io.py does; the temporary files of dead  *)
(* writers are swept by the next pass.                                     *)
(*                                                                         *)
(* A roster is the number of the version the service showed when it        *)
(* answered.  The account has one uid.  Passes run under the lanes of      *)
(* Slots, here a bound on how many run.  Time passes in Tick steps, while  *)
(* answers are under way and between passes; the jobs take none.           *)
(***************************************************************************)
EXTENDS Integers, FiniteSets

CONSTANTS
  Procs,        \* the processes that run live passes
  Width,        \* how many lanes there are
  Rows,         \* the rows of the operator's observations file
  Ttls,         \* the ttl values the service states; 0 is one of no use
  MaxTtl,       \* the longest of them
  DefaultTtl,   \* DEFAULT_TTL_SECONDS
  Timeout,      \* timeout_seconds of a request
  MaxRetries,   \* max_retries
  Selective,    \* whether a pass may be offline or leave jobs out
  MaxVersions,  \* bound: how many rosters the service shows
  MaxKills      \* bound: how many processes are killed

ASSUME PassAssumption ==
  /\ IsFiniteSet(Procs) /\ Width \in Nat \ {0} /\ Rows \in Nat \ {0}
  /\ MaxTtl \in Nat /\ Ttls \subseteq 0 .. MaxTtl /\ DefaultTtl \in 1 .. MaxTtl
  /\ Timeout \in Nat /\ MaxRetries \in Nat /\ Selective \in BOOLEAN
  /\ MaxVersions \in Nat \ {0} /\ MaxKills \in Nat

VARIABLES
  version,   \* the roster the service shows
  oldFor,    \* history: for how long it has not shown an earlier one
  cache,     \* the cached response: its roster and the seconds it is valid
  misread,   \* history: the processes whose request is out beside a valid one
  outlived,  \* history: a valid response was not replaced by a later one
  pc,        \* where each process is
  life,      \* history: how many processes ran in its place before
  tries,     \* attempts
  flight,    \* how long an answer has been under way
  profile,   \* what the service answered, then context.profile
  state,     \* the roster of context.state; 0 is None
  ledger,    \* how many rows its ledger holds
  temps,     \* the temporary files beside the snapshot
  snap       \* account_state.json

vars == <<version, oldFor, cache, misread, outlived, pc, life, tries, flight, profile, state,
          ledger, temps, snap>>

cached == <<cache, misread, outlived>>
service == <<version, oldFor>>
context == <<profile, state, ledger>>
request == <<tries, flight>>
files == <<temps, snap>>

Versions == 1 .. MaxVersions
None == 0

(* Answers that are no roster: one worth another attempt, any other.       *)
Again == -1
Refused == 0

(* The job a process is at, or what it is doing in it.                     *)
Computing == {"reconcile", "fold", "folding", "persist", "publish"}
InPass == Computing \cup {"sync", "asking", "answered", "rest"}
Locations == {"idle", "lane"} \cup InPass

(* _coerce_ttl.                                                            *)
Coerced(ttl) == IF ttl > 0 THEN ttl ELSE DefaultTtl
Ttl == {Coerced(ttl) : ttl \in Ttls}

(* One second more than a response may be shown after the service changed. *)
AgeBound == MaxTtl + Timeout + 1

NoSnapshot == [roster |-> None, rows |-> 0, dated |-> FALSE]

(* A temporary file: which process in which life of it wrote it, and       *)
(* whether the write was under way when that process was last seen.        *)
Temps == [writer : Procs, life : 0 .. MaxKills, open : BOOLEAN]
Fresh(p) == [writer |-> p, life |-> life[p], open |-> TRUE]
Left(p) == [writer |-> p, life |-> life[p], open |-> FALSE]

Set(f, p, value) == [f EXCEPT ![p] = value]

Init ==
  /\ version = 1 /\ oldFor = [v \in Versions |-> 0]
  /\ cache = [roster |-> None, left |-> 0] /\ misread = {} /\ outlived = FALSE
  /\ pc = [p \in Procs |-> "idle"] /\ life = [p \in Procs |-> 0]
  /\ tries = [p \in Procs |-> 0] /\ flight = [p \in Procs |-> 0]
  /\ profile = [p \in Procs |-> None] /\ state = [p \in Procs |-> None]
  /\ ledger = [p \in Procs |-> 0]
  /\ temps = {} /\ snap = NoSnapshot

----------------------------------------------------------------------------
(* Mutant of Orphan: the pid is not looked at.                             *)
Orphan_AnyPid(t) == TRUE

(* _sweep_one: its writer is dead.                                         *)
Orphan(t) == t.life < life[t.writer]

(* A live pass begins: sweep_orphan_temps, where a file may be too young,  *)
(* or its pid be in use again, or the system refuse to remove it.  Then    *)
(* the pass waits for a lane.                                              *)
Sweep(p) ==
  /\ pc[p] = "idle" /\ pc' = Set(pc, p, "lane")
  /\ \E gone \in SUBSET {t \in temps : Orphan(t)} : temps' = temps \ gone
  /\ UNCHANGED <<service, cached, life, request, context, snap>>

(* Mutant of Enter: no lane is taken.                                      *)
Enter_Unbounded(p) ==
  /\ pc[p] = "lane" /\ pc' = Set(pc, p, "sync")
  /\ UNCHANGED <<service, cached, life, request, context, files>>

Enter(p) ==
  /\ pc[p] = "lane"
  /\ Cardinality({q \in Procs : pc[q] \in InPass}) < Width
  /\ pc' = Set(pc, p, "sync")
  /\ UNCHANGED <<service, cached, life, request, context, files>>

----------------------------------------------------------------------------
(* sync_profile.                                                           *)

(* No uid, no user agent or offline: nothing is asked.                     *)
SyncSkips(p) ==
  /\ pc[p] = "sync" /\ Selective
  /\ pc' = Set(pc, p, "reconcile")
  /\ UNCHANGED <<service, cached, life, request, context, files>>

(* Mutant of CacheHit: the expiry is not looked at.                        *)
CacheHit_Expired(p) ==
  /\ pc[p] = "sync" /\ cache.roster # None
  /\ profile' = Set(profile, p, cache.roster)
  /\ pc' = Set(pc, p, "reconcile")
  /\ UNCHANGED <<service, cached, life, request, state, ledger, files>>

CacheHit(p) ==
  /\ pc[p] = "sync" /\ cache.left > 0
  /\ profile' = Set(profile, p, cache.roster)
  /\ pc' = Set(pc, p, "reconcile")
  /\ UNCHANGED <<service, cached, life, request, state, ledger, files>>

(* The cached response is missing or expired, or it could not be read this *)
(* time: the file stays, and is valid for the next reader.                 *)
Ask(p) ==
  /\ pc[p] = "sync" /\ pc' = Set(pc, p, "asking")
  /\ misread' = IF cache.left > 0 THEN misread \cup {p} ELSE misread
  /\ UNCHANGED <<service, cache, outlived, life, request, context, files>>

(* The service answers: its roster, to come again, or no.                  *)
Answer(p) ==
  /\ pc[p] = "asking"
  /\ \E a \in {version, Again, Refused} : profile' = Set(profile, p, a)
  /\ flight' = Set(flight, p, 0)
  /\ pc' = Set(pc, p, "answered")
  /\ UNCHANGED <<service, cached, life, tries, state, ledger, files>>

(* _write_cache.                                                           *)
Fill(p, ttl) ==
  cache' = [roster |-> profile[p], left |-> ttl] /\ outlived' = FALSE

(* _write_cache fails: what is in the cache stays, valid or not.           *)
FillFails == outlived' = (cache.left > 0) /\ UNCHANGED cache

(* A roster arrives, and is cached unless that fails.                      *)
Arrive(p) ==
  /\ pc[p] = "answered" /\ profile[p] \in Versions
  /\ (\E ttl \in Ttl : Fill(p, ttl)) \/ FillFails
  /\ misread' = misread \ {p}
  /\ flight' = Set(flight, p, 0) /\ tries' = Set(tries, p, 0)
  /\ pc' = Set(pc, p, "reconcile")
  /\ UNCHANGED <<service, life, context, files>>

(* _fetch_with_retries backs off and asks again.                           *)
Retry(p) ==
  /\ pc[p] = "answered" /\ profile[p] = Again /\ tries[p] < MaxRetries
  /\ tries' = Set(tries, p, tries[p] + 1)
  /\ flight' = Set(flight, p, 0) /\ profile' = Set(profile, p, None)
  /\ pc' = Set(pc, p, "asking")
  /\ UNCHANGED <<service, cached, life, state, ledger, files>>

(* The job fails and leaves no profile.                                    *)
GiveUp(p) ==
  /\ pc[p] = "answered"
  /\ profile[p] = Refused \/ (profile[p] = Again /\ tries[p] >= MaxRetries)
  /\ flight' = Set(flight, p, 0) /\ tries' = Set(tries, p, 0)
  /\ profile' = Set(profile, p, None) /\ misread' = misread \ {p}
  /\ pc' = Set(pc, p, "reconcile")
  /\ UNCHANGED <<service, cache, outlived, life, state, ledger, files>>

----------------------------------------------------------------------------
(* A job that was not asked for or is quarantined.                         *)
LeftOut(p, job, next) ==
  /\ Selective /\ pc[p] = job /\ pc' = Set(pc, p, next)
  /\ UNCHANGED <<service, cached, life, request, context, files>>

(* reconcile_state: a new aggregate, its ledger empty, if there is a       *)
(* profile.                                                                *)
Reconcile(p) ==
  /\ pc[p] = "reconcile" /\ pc' = Set(pc, p, "fold")
  /\ state' = Set(state, p, profile[p]) /\ ledger' = Set(ledger, p, 0)
  /\ UNCHANGED <<service, cached, life, request, profile, files>>

(* reconcile_ledger skips, or fails on a file it does not accept.  The     *)
(* operator may have changed the file at any time.                         *)
NothingToFold(p) ==
  /\ pc[p] = "fold" /\ pc' = Set(pc, p, "persist")
  /\ UNCHANGED <<service, cached, life, request, context, files>>

(* All rows were read and are valid.                                       *)
Validated(p) ==
  /\ pc[p] = "fold" /\ state[p] # None
  /\ pc' = Set(pc, p, "folding")
  /\ UNCHANGED <<service, cached, life, request, context, files>>

FoldRow(p) ==
  /\ pc[p] = "folding" /\ ledger[p] < Rows
  /\ ledger' = Set(ledger, p, ledger[p] + 1)
  /\ UNCHANGED <<service, cached, pc, life, request, profile, state, files>>

(* record or estimate_velocity raises: the fold is taken back.             *)
FoldRaises(p) ==
  /\ pc[p] = "folding" /\ pc' = Set(pc, p, "persist")
  /\ ledger' = Set(ledger, p, 0)
  /\ UNCHANGED <<service, cached, life, request, profile, state, files>>

Folded(p) ==
  /\ pc[p] = "folding" /\ ledger[p] = Rows
  /\ pc' = Set(pc, p, "persist")
  /\ UNCHANGED <<service, cached, life, request, context, files>>

----------------------------------------------------------------------------
(* persist_state.                                                          *)

(* map_profile is called without fetched_at, which stays None.             *)
Stamped == FALSE

Document(p) ==
  [roster |-> state[p], rows |-> ledger[p], dated |-> Stamped]

NothingToPersist(p) ==
  /\ pc[p] = "persist" /\ state[p] = None
  /\ pc' = Set(pc, p, "rest")
  /\ UNCHANGED <<service, cached, life, request, context, files>>

(* atomic_write_text: the temporary file.                                  *)
WriteTemp(p) ==
  /\ pc[p] = "persist" /\ state[p] # None
  /\ pc' = Set(pc, p, "publish") /\ temps' = temps \cup {Fresh(p)}
  /\ UNCHANGED <<service, cached, life, request, context, snap>>

(* The rename; without the temporary file it fails.                        *)
Publish(p) ==
  /\ pc[p] = "publish" /\ Fresh(p) \in temps
  /\ snap' = Document(p) /\ temps' = temps \ {Fresh(p)}
  /\ pc' = Set(pc, p, "rest")
  /\ UNCHANGED <<service, cached, life, request, context>>

(* The write or the rename fails: the temporary file is discarded, which   *)
(* may fail too.                                                           *)
WriteFails(p) ==
  /\ pc[p] = "publish"
  /\ \/ temps' = temps \ {Fresh(p)}
     \/ Fresh(p) \in temps /\ temps' = (temps \ {Fresh(p)}) \cup {Left(p)}
  /\ pc' = Set(pc, p, "rest")
  /\ UNCHANGED <<service, cached, life, request, context, snap>>

(* The remaining jobs read the state and write no file of this module; the *)
(* pass ends and leaves its lane.                                          *)
Leave(p) ==
  /\ pc[p] = "rest" /\ pc' = Set(pc, p, "idle")
  /\ profile' = Set(profile, p, None) /\ state' = Set(state, p, None)
  /\ ledger' = Set(ledger, p, 0)
  /\ UNCHANGED <<service, cached, life, request, files>>

----------------------------------------------------------------------------
(* The process is killed, or exits on an abandoned job: no finally runs,   *)
(* another process takes its place.                                        *)
Kill(p) ==
  /\ pc[p] # "idle" /\ life[p] < MaxKills
  /\ life' = Set(life, p, life[p] + 1) /\ pc' = Set(pc, p, "idle")
  /\ tries' = Set(tries, p, 0) /\ flight' = Set(flight, p, 0)
  /\ profile' = Set(profile, p, None) /\ misread' = misread \ {p}
  /\ state' = Set(state, p, None) /\ ledger' = Set(ledger, p, 0)
  /\ UNCHANGED <<service, cache, outlived, files>>

(* The player changes the showcase.                                        *)
Change ==
  /\ version < MaxVersions
  /\ version' = version + 1
  /\ UNCHANGED <<oldFor, cached, pc, life, request, context, files>>

(* The cached response is deleted.                                         *)
LoseCache ==
  /\ cache.left > 0 /\ cache' = [roster |-> cache.roster, left |-> 0]
  /\ UNCHANGED <<service, misread, outlived, pc, life, request, context, files>>

Older(v) == IF v < version /\ oldFor[v] < AgeBound THEN oldFor[v] + 1 ELSE oldFor[v]

Tick ==
  /\ \A p \in Procs : pc[p] \notin Computing
  /\ \A p \in Procs : pc[p] = "answered" => flight[p] < Timeout
  /\ oldFor' = [v \in Versions |-> Older(v)]
  /\ cache' = [roster |-> cache.roster,
               left |-> IF cache.left > 0 THEN cache.left - 1 ELSE 0]
  /\ outlived' = (outlived /\ cache'.left > 0)
  /\ flight' = [p \in Procs |->
                  IF pc[p] = "answered" THEN flight[p] + 1 ELSE flight[p]]
  /\ UNCHANGED <<version, misread, pc, life, tries, context, files>>

Sync(p) ==
  SyncSkips(p) \/ CacheHit(p) \/ Ask(p) \/ Arrive(p) \/ Retry(p) \/ GiveUp(p)

Fold(p) ==
  \/ LeftOut(p, "fold", "persist")
  \/ NothingToFold(p) \/ Validated(p) \/ FoldRow(p) \/ FoldRaises(p) \/ Folded(p)

Persist(p) ==
  \/ LeftOut(p, "persist", "rest")
  \/ NothingToPersist(p) \/ WriteTemp(p) \/ Publish(p) \/ WriteFails(p)

Advance(p) ==
  \/ Enter(p) \/ Sync(p) \/ Answer(p)
  \/ LeftOut(p, "reconcile", "fold") \/ Reconcile(p)
  \/ Fold(p) \/ Persist(p) \/ Leave(p)

Next ==
  \/ \E p \in Procs : Sweep(p) \/ Advance(p) \/ Kill(p)
  \/ Change \/ LoseCache \/ Tick

Spec == Init /\ [][Next]_vars

----------------------------------------------------------------------------
TypeOK ==
  /\ version \in Versions /\ oldFor \in [Versions -> 0 .. AgeBound]
  /\ cache \in [roster : Versions \cup {None}, left : 0 .. MaxTtl]
  /\ misread \subseteq Procs /\ outlived \in BOOLEAN
  /\ pc \in [Procs -> Locations] /\ life \in [Procs -> 0 .. MaxKills]
  /\ tries \in [Procs -> 0 .. MaxRetries] /\ flight \in [Procs -> 0 .. Timeout]
  /\ profile \in [Procs -> Versions \cup {None, Again}]
  /\ state \in [Procs -> Versions \cup {None}] /\ ledger \in [Procs -> 0 .. Rows]
  /\ temps \subseteq Temps
  /\ snap \in [roster : Versions \cup {None}, rows : 0 .. Rows, dated : BOOLEAN]

(* Whatever is killed or fails, the snapshot holds all the rows of the     *)
(* observations file or none.                                              *)
LedgerWhole == snap.rows \in {0, Rows}

(* Live state first: what a pass reconciles and writes down is a roster    *)
(* that the service showed within the last ttl and one request.            *)
LiveFirst ==
  \A p \in Procs : pc[p] \in Computing /\ state[p] # None =>
                    oldFor[state[p]] <= MaxTtl + Timeout

(* Under one lane, the snapshot never goes back to an earlier roster, nor  *)
(* to none, while no valid response has outlived a later one: that takes a *)
(* read of the cache that failed, and then a write of it that failed.      *)
NeverBack == [][~outlived => snap'.roster >= snap.roster]_vars

(* Under one lane, no request and no retry of one is out while a cached    *)
(* response is valid, but for a process that could not read it.            *)
Suppressed ==
  \A p \in Procs : pc[p] = "asking" => cache.left = 0 \/ p \in misread

(* A write under way is never swept: its temporary file is there when it   *)
(* is renamed.                                                             *)
WriteSpared == \A p \in Procs : pc[p] = "publish" => Fresh(p) \in temps

(* The dashboard can say how old the snapshot is.                          *)
Dated == snap.roster # None => snap.dated
=============================================================================
