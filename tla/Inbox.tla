-------------------------------- MODULE Inbox --------------------------------
(***************************************************************************)
(* The inbox reader, scripts/watch_inbox.py: hooks of several sessions and *)
(* runs by hand that report what a directory of notes holds, over three    *)
(* files: the watermark of what was acknowledged (inbox_seen.json), the    *)
(* record of what was shown (inbox_reported.json) and the cache of what    *)
(* each session has been shown (inbox_sessions.json).                      *)
(*                                                                         *)
(* A reader is one process.  A note is a name and a version, which stands  *)
(* for the digest of its content.  A file is written by renaming, so a     *)
(* read finds it whole; that it cannot be used is a fault from outside.    *)
(***************************************************************************)
EXTENDS Integers, FiniteSets, Sequences

CONSTANTS
  Names, Versions,
  Sessions,    \* validated session ids
  Readers,     \* processes that may run at the same time
  SessionOf,   \* the session of each, or NoSession
  Modes,       \* what each may be started as
  MaxListed,   \* MAX_LISTED_NAMES
  MaxTracked,  \* MAX_TRACKED_SESSIONS
  MaxChanges,  \* bound: how often the inbox changes
  MaxMishaps   \* bound: how often something fails or is killed

NoSession == "no session"
Absent == "absent"

ASSUME InboxAssumption ==
  /\ IsFiniteSet(Names) /\ NoSession \notin Sessions /\ Absent \notin Versions
  /\ SessionOf \in [Readers -> Sessions \cup {NoSession}]
  /\ Modes \in [Readers -> SUBSET {"quiet", "report", "mark"}]
  /\ {MaxListed, MaxTracked, MaxChanges, MaxMishaps} \subseteq Nat /\ MaxTracked > 0

VARIABLES
  notes,     \* notes[n]: the version of n in the inbox, or Absent
  listable,  \* the inbox can be listed
  seen,      \* the watermark: the version of n that was marked read, or Absent
  reported,  \* the names that were shown, and whether the file can be used
  rows,      \* the cache: sessions and what they were shown, oldest first
  reader,    \* reader[r]: where it is, and what it has read
  told,      \* history: the versions that some report has named or counted
  printed,   \* history: the events that a session has been shown
  owed,      \* history: names shown or marked, and not acknowledged as gone
  mishap,    \* history: what went wrong
  changes, mishaps \* history: how often the inbox changed, or something failed

inboxVars ==
  <<notes, listable, seen, reported, rows, reader, told, printed, owed, mishap, changes, mishaps>>

Off == [at |-> "off", mode |-> "report", entries |-> {}, gone |-> {}, usable |-> TRUE,
        shown |-> {}, known |-> {}, keys |-> {}]

InboxInit ==
  /\ notes = [n \in Names |-> Absent] /\ listable = TRUE /\ seen = [n \in Names |-> Absent]
  /\ reported = [keys |-> {}, usable |-> TRUE] /\ rows = <<>>
  /\ reader = [r \in Readers |-> Off]
  /\ told = {} /\ printed = [s \in Sessions |-> {}] /\ owed = {}
  /\ mishap = {} /\ changes = 0 /\ mishaps = 0

----------------------------------------------------------------------------
Here == {n \in Names : notes[n] # Absent}
Marked == {n \in Names : seen[n] # Absent}
NamesOf(entries) == {e[1] : e \in entries}

(* SHOWN_UNREAD, SHOWN_GONE, SHOWN_UNLISTABLE_INBOX: events, not entries.  *)
UnreadKey(e) == <<"unread", e[1], e[2]>>
GoneKey(n) == <<"gone", n>>
BlindKey == <<"unlistable">>

(* Mutant of IsSeen: by the name alone, as the older watermark had it.     *)
IsSeen_ByName(n) == seen[n] # Absent

(* _is_seen: a note is read at the version that was marked.                *)
IsSeen(n) == seen[n] = notes[n]

(* The quiet hook of a known session holds back what it has shown before.  *)
Suppresses(r) == reader[r].mode = "quiet" /\ SessionOf[r] # NoSession

(* read_shown: the row of the session, if it has one.                      *)
RowOf(id) == {i \in DOMAIN rows : rows[i].id = id}
Shown(r) == UNION {rows[i].shown : i \in RowOf(SessionOf[r])}
Already(r) == IF Suppresses(r) THEN Shown(r) ELSE {}

Turn(r, now) == reader' = [reader EXCEPT ![r] = now]
Exit(r) == Turn(r, Off)
Mishap == mishaps < MaxMishaps /\ mishaps' = mishaps + 1
MayFail(fails) == IF fails THEN Mishap ELSE UNCHANGED mishaps

Open(r) ==
  /\ reader[r].at = "off"
  /\ \E mode \in Modes[r] : Turn(r, [Off EXCEPT !.at = "list", !.mode = mode])
  /\ UNCHANGED <<notes, listable, seen, reported, rows, told, printed, owed, mishap, changes, mishaps>>

(* survey: what is not read at its version.  An inbox that cannot be       *)
(* listed is told in one line, once a session, and ends the run.           *)
List(r) ==
  /\ reader[r].at = "list"
  /\ LET unread == {n \in Here : ~IsSeen(n)}
     IN  IF listable
           THEN Turn(r, [reader[r] EXCEPT !.at = "gone",
                                          !.entries = {<<n, notes[n]>> : n \in unread}])
         ELSE IF BlindKey \in Already(r) THEN Exit(r)
         ELSE Turn(r, [reader[r] EXCEPT !.at = "blind"])
  /\ UNCHANGED <<notes, listable, seen, reported, rows, told, printed, owed, mishap, changes, mishaps>>

(* What a session has been shown, with its row, of which it has one at     *)
(* most, moved to the end, and the oldest rows dropped: record_shown.      *)
Last(s, count) == IF Len(s) <= count THEN s ELSE SubSeq(s, Len(s) - count + 1, Len(s))
Without(s, i) == SubSeq(s, 1, i - 1) \o SubSeq(s, i + 1, Len(s))
Renewed(r, keys) ==
  LET mine == RowOf(SessionOf[r])
      other == IF mine = {} THEN rows ELSE Without(rows, CHOOSE i \in mine : TRUE)
      own == [id |-> SessionOf[r], shown |-> Shown(r) \cup keys]
  IN  Last(Append(other, own), MaxTracked)

Prints(r, keys) ==
  printed' = IF SessionOf[r] = NoSession THEN printed
             ELSE [printed EXCEPT ![SessionOf[r]] = @ \cup keys]

(* The line is printed and flushed, and then recorded by the quiet hook.   *)
SayBlind(r) ==
  /\ reader[r].at = "blind"
  /\ Prints(r, {BlindKey})
  /\ IF Suppresses(r) THEN Turn(r, [reader[r] EXCEPT !.at = "cache", !.keys = {BlindKey}]) ELSE Exit(r)
  /\ UNCHANGED <<notes, listable, seen, reported, rows, told, owed, mishap, changes, mishaps>>

(* withdrawn lists the inbox anew: what was marked or shown and is not     *)
(* there; nothing, if it cannot be listed now.  The quiet hook leaves out  *)
(* what the session was shown.                                             *)
Withdrawn(r) ==
  /\ reader[r].at = "gone"
  /\ LET base == Marked \cup (IF reported.usable THEN reported.keys ELSE {})
         gone == IF listable THEN base \ Here ELSE {}
     IN  Turn(r, [reader[r] EXCEPT
           !.at = "print", !.usable = reported.usable,
           !.entries = {e \in @ : UnreadKey(e) \notin Already(r)},
           !.gone = {n \in gone : GoneKey(n) \notin Already(r)}])
  /\ mishap' = IF listable THEN mishap ELSE mishap \cup {"blind"}
  /\ UNCHANGED <<notes, listable, seen, reported, rows, told, printed, owed, changes, mishaps>>

(* The history goes no further than GoneCarried tells apart.               *)
Owed(names) == IF mishap = {} THEN names ELSE {}

(* What counts as shown: the names listed, and those beyond the cap if the *)
(* report with the whole list was written.                                 *)
ShownNow(listed, entries, written) == IF written THEN entries ELSE listed

(* The overflow report, then the lines, flushed.  Which notes are newest   *)
(* is a choice.  A run that has nothing to say ends or marks.              *)
Report(r) ==
  /\ reader[r].at = "print"
  /\ LET entries == reader[r].entries
         over == Cardinality(entries) > MaxListed
     IN  \E listed \in SUBSET entries, written \in BOOLEAN :
           /\ IF over THEN Cardinality(listed) = MaxListed ELSE listed = entries
           /\ written => over /\ SessionOf[r] # NoSession
           /\ MayFail(over /\ SessionOf[r] # NoSession /\ ~written)
           /\ LET shown == ShownNow(listed, entries, written)
                  keys == {UnreadKey(e) : e \in shown} \cup {GoneKey(n) : n \in reader[r].gone}
              IN  /\ Prints(r, keys)
                  /\ Turn(r, [reader[r] EXCEPT
                       !.entries = {}, !.shown = NamesOf(shown),
                       !.keys = IF Suppresses(r) THEN keys ELSE {},
                       !.gone = IF reader[r].mode = "mark" THEN @ ELSE {},
                       !.at = IF shown # {} THEN "record" ELSE "cache"])
           /\ told' = IF "raced" \in mishap THEN {} ELSE told \cup entries
  /\ UNCHANGED <<notes, listable, seen, reported, rows, owed, mishap, changes>>

(* record_reported reads the record.  One that cannot be used is left.     *)
RecordRead(r) ==
  /\ reader[r].at = "record"
  /\ Turn(r, [reader[r] EXCEPT !.known = reported.keys,
                               !.at = IF reported.usable THEN "add" ELSE "cache"])
  /\ UNCHANGED <<notes, listable, seen, reported, rows, told, printed, owed, mishap, changes, mishaps>>

(* A --mark is between what it reported and its last write.                *)
Marking == \E r \in Readers : reader[r].mode = "mark" /\ reader[r].at \notin {"off", "list", "gone"}

(* Another run has changed the record since it was read, or changes it     *)
(* under a --mark.                                                         *)
Crosses(r) ==
  mishap' = IF reported.keys = reader[r].known /\ (reader[r].mode = "mark" \/ ~Marking)
              THEN mishap ELSE mishap \cup {"crossed"}

(* Mutant of Merged: what was just shown takes the place of the record.    *)
Merged_New(r) == reader[r].shown

(* Union, never a rewrite.                                                 *)
Merged(r) == reader[r].known \cup reader[r].shown

(* record_reported writes the union, or its write fails.                   *)
RecordAdd(r) ==
  /\ reader[r].at = "add"
  /\ \/ /\ reported' = [keys |-> Merged(r), usable |-> TRUE]
        /\ owed' = Owed(owed \cup reader[r].shown)
        /\ Crosses(r) /\ UNCHANGED mishaps
     \/ Mishap /\ UNCHANGED <<reported, owed, mishap>>
  /\ Turn(r, [reader[r] EXCEPT !.at = "cache", !.known = {}, !.shown = {}])
  /\ UNCHANGED <<notes, listable, seen, rows, told, printed, changes>>

(* record_shown, after the flush: by the quiet hook, if it showed anything.*)
Cache(r) ==
  /\ reader[r].at = "cache"
  /\ rows' = IF Suppresses(r) /\ reader[r].keys # {} THEN Renewed(r, reader[r].keys) ELSE rows
  /\ IF reader[r].mode = "mark" THEN Turn(r, [reader[r] EXCEPT !.at = "mark", !.shown = {}])
     ELSE Exit(r)
  /\ UNCHANGED <<notes, listable, seen, reported, told, printed, owed, mishap, changes, mishaps>>

(* --mark: refused if the record could not be used.  Else mark_seen lists  *)
(* anew and rewrites the watermark, or cannot.                             *)
MarkSeen(r) ==
  /\ reader[r].at = "mark"
  /\ \/ /\ reader[r].usable /\ listable
        /\ seen' = notes
        /\ owed' = Owed((owed \ reader[r].gone) \cup Here)
        /\ Turn(r, [reader[r] EXCEPT !.at = "prune", !.gone = {}])
        /\ UNCHANGED mishaps
     \/ Exit(r) /\ MayFail(reader[r].usable /\ listable) /\ UNCHANGED <<seen, owed>>
  /\ UNCHANGED <<notes, listable, reported, rows, told, printed, mishap, changes>>

(* What stays in the record: what is still in the inbox.                   *)
Kept(r) == reader[r].known \cap Here

(* prune_records reads the record and lists the inbox once more, or is     *)
(* refused.                                                                *)
PruneRead(r) ==
  /\ reader[r].at = "prune"
  /\ \/ /\ reported.usable /\ listable
        /\ Turn(r, [reader[r] EXCEPT !.at = "drop", !.known = reported.keys])
        /\ UNCHANGED mishaps
     \/ Exit(r) /\ MayFail(reported.usable /\ listable)
  /\ UNCHANGED <<notes, listable, seen, reported, rows, told, printed, owed, mishap, changes>>

PruneDrop(r) ==
  /\ reader[r].at = "drop"
  /\ \/ reported' = [keys |-> Kept(r), usable |-> TRUE] /\ Crosses(r) /\ UNCHANGED mishaps
     \/ Mishap /\ UNCHANGED <<reported, mishap>>
  /\ Exit(r)
  /\ UNCHANGED <<notes, listable, seen, rows, told, printed, owed, changes>>

(* The hook has a ceiling of five seconds.                                 *)
Killed(r) ==
  /\ reader[r].at # "off" /\ Mishap /\ Exit(r)
  /\ UNCHANGED <<notes, listable, seen, reported, rows, told, printed, owed, mishap, changes>>

Run(r) ==
  \/ Open(r) \/ List(r) \/ SayBlind(r) \/ Withdrawn(r) \/ Report(r) \/ RecordRead(r)
  \/ RecordAdd(r) \/ Cache(r) \/ MarkSeen(r) \/ PruneRead(r) \/ PruneDrop(r) \/ Killed(r)

----------------------------------------------------------------------------
(* A sibling delivers a note, corrects it in place or withdraws it.        *)
Change(n) ==
  /\ changes < MaxChanges /\ changes' = changes + 1
  /\ \E v \in (Versions \cup {Absent}) \ {notes[n]} : notes' = [notes EXCEPT ![n] = v]
  /\ mishap' = IF \E r \in Readers : reader[r].mode = "mark" /\ reader[r].at \notin {"off", "list"}
                 THEN mishap \cup {"raced"} ELSE mishap
  /\ UNCHANGED <<listable, seen, reported, rows, reader, told, printed, owed, mishaps>>

(* A file is damaged; the record of what was shown is repaired later.      *)
Damage ==
  /\ \/ reported.usable /\ reported' = [reported EXCEPT !.usable = FALSE] /\ UNCHANGED <<rows, seen, mishap>>
     \/ rows # <<>> /\ rows' = <<>> /\ UNCHANGED <<reported, seen, mishap>>
     \/ /\ Marked # {} /\ seen' = [n \in Names |-> Absent]
        /\ mishap' = mishap \cup {"unmarked"} /\ UNCHANGED <<reported, rows>>
  /\ Mishap
  /\ UNCHANGED <<notes, listable, reader, told, printed, owed, changes>>

Repair ==
  /\ ~reported.usable /\ reported' = [reported EXCEPT !.usable = TRUE]
  /\ UNCHANGED <<notes, listable, seen, rows, reader, told, printed, owed, mishap, changes, mishaps>>

(* Access to the inbox is denied, and given back.                          *)
Access ==
  /\ listable' = ~listable
  /\ IF listable THEN Mishap ELSE UNCHANGED mishaps
  /\ UNCHANGED <<notes, seen, reported, rows, reader, told, printed, owed, mishap, changes>>

InboxNext ==
  \/ \E r \in Readers : Run(r)
  \/ \E n \in Names : Change(n)
  \/ Damage \/ Repair \/ Access

InboxSpec == InboxInit /\ [][InboxNext]_inboxVars

----------------------------------------------------------------------------
Events == {<<"unlistable">>} \cup {<<"gone", n>> : n \in Names}
            \cup {<<"unread", n, v>> : n \in Names, v \in Versions}

Places == {"off", "list", "blind", "gone", "print", "record", "add", "cache", "mark", "prune", "drop"}
ReaderStates ==
  [at : Places, mode : {"quiet", "report", "mark"}, entries : SUBSET (Names \X Versions),
   gone : SUBSET Names, usable : BOOLEAN, shown : SUBSET Names, known : SUBSET Names,
   keys : SUBSET Events]
Rows == [id : Sessions, shown : SUBSET Events]

(* Every variable keeps its type.                                          *)
InboxTypeOK ==
  /\ notes \in [Names -> Versions \cup {Absent}] /\ seen \in [Names -> Versions \cup {Absent}]
  /\ listable \in BOOLEAN /\ reported \in [keys : SUBSET Names, usable : BOOLEAN]
  /\ rows \in Seq(Rows) /\ Len(rows) <= MaxTracked
  /\ reader \in [Readers -> ReaderStates]
  /\ told \in SUBSET (Names \X Versions) /\ printed \in [Sessions -> SUBSET Events]
  /\ owed \in SUBSET Names /\ mishap \in SUBSET {"crossed", "raced", "blind", "unmarked"}
  /\ changes \in 0 .. MaxChanges /\ mishaps \in 0 .. MaxMishaps

(* Nothing is taken as read or shown that nobody was told of: a version    *)
(* that the watermark holds was named or counted by a report before,       *)
(* unless the inbox changed between a --mark's report and its mark; and    *)
(* the hook holds back only what this session has been shown, wherever it  *)
(* is killed and although the list is capped.                              *)
ShownFirst ==
  /\ "raced" \in mishap \/ \A n \in Here : IsSeen(n) => <<n, notes[n]>> \in told
  /\ \A i \in DOMAIN rows : rows[i].shown \subseteq printed[rows[i].id]

(* A withdrawal is carried: a note that was shown or marked stays in one   *)
(* of the two records, so that its loss is reported, until a --mark that   *)
(* reported the loss; unless two runs crossed in the record, the inbox     *)
(* changed during a --mark, withdrawals could not be looked for after the  *)
(* survey, or the watermark was damaged.                                   *)
GoneCarried == mishap = {} => owed \subseteq reported.keys \cup Marked
=============================================================================
