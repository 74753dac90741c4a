-------------------------------- MODULE Disk --------------------------------
(***************************************************************************)
(* The on-disk store of internal/storage: hourly segment files, the append *)
(* path of Write with its rollback and repair, EvictExpired, Close, a      *)
(* crash at any point, and OpenDisk's replay.                              *)
(*                                                                         *)
(* A file is a sequence of records; a record whose bytes do not decode (a  *)
(* torn write, or damage) is not good.  Sizes count records.  synced is    *)
(* how much of a file survives a crash for certain; of the rest any prefix *)
(* may survive, ending in part of a record.  Truncating and deleting are   *)
(* durable when they return, and so is what a crash left behind.           *)
(*                                                                         *)
(* Write holds Disk.mu from WriteStart until it returns, so the steps of a *)
(* Write interleave with crashes, the clock and Memory's eviction only.    *)
(* The in-memory store is abstracted to the set of spans it serves.        *)
(***************************************************************************)
EXTENDS Integers, Sequences, FiniteSets

CONSTANTS
  Span, TraceOf,
  EndOf,             \* when each span ended, by the clock of the store
  Retention,         \* 0 keeps everything
  HourLen,           \* how many clock values make an hour
  Oversized,         \* the spans that encode to more than maxRecord bytes
  MaxBatch,          \* bound: spans in one Write
  MaxClock,          \* bound: the last clock value
  MaxFaults,         \* bound: file operations that fail
  MaxRestarts        \* bound: crashes and closes

ASSUME DiskAssumption ==
  /\ EndOf \in [Span -> Nat] /\ Oversized \subseteq Span
  /\ Retention \in Nat /\ HourLen \in Nat \ {0} /\ MaxBatch \in Nat \ {0}
  /\ MaxClock \in Nat /\ MaxFaults \in Nat /\ MaxRestarts \in Nat

Hour(t) == t \div HourLen
Hours == 0..Hour(MaxClock)
None == -1

VARIABLES
  clock,
  exists,     \* the hours that have a segment file
  recs,       \* the records in each file, << >> if there is none
  synced,     \* how many of them have been synced
  up,         \* the store is open
  refused,    \* OpenDisk has returned ErrCorruptSegment
  seg,        \* the hour of d.seg, None if it is nil
  segBroken,  \* d.seg is not nil but closing it has failed
  segSize,    \* d.segSize
  dirty, dirtyHour, dirtySize,
  visible,    \* the spans the in-memory store serves
  wpc,        \* where Write is
  writing,    \* the spans of that Write
  hour,       \* the hour its roll read
  epc,        \* where EvictExpired is
  cutoffHour, \* its cutoff
  acked, failed,          \* history: the spans Write returned nil for, or an error
  cutShort,               \* history: the spans of a Write that a crash cut short
  damaged,                \* history: the spans whose record was damaged
  faults, restarts        \* how much of the bounds is used

files == <<exists, recs, synced>>
segment == <<seg, segBroken, segSize>>
dirt == <<dirty, dirtyHour, dirtySize>>
evictor == <<epc, cutoffHour>>
history == <<acked, failed, cutShort, damaged>>
vars == <<clock, files, up, refused, segment, dirt, visible, wpc, writing, hour,
          evictor, history, faults, restarts>>

Init ==
  /\ clock = 0
  /\ exists = {} /\ recs = [h \in Hours |-> << >>] /\ synced = [h \in Hours |-> 0]
  /\ up = TRUE /\ refused = FALSE
  /\ seg = None /\ segBroken = FALSE /\ segSize = 0
  /\ dirty = FALSE /\ dirtyHour = 0 /\ dirtySize = 0
  /\ visible = {}
  /\ wpc = "idle" /\ writing = << >> /\ hour = 0
  /\ epc = "idle" /\ cutoffHour = 0
  /\ acked = {} /\ failed = {} /\ cutShort = {} /\ damaged = {}
  /\ faults = 0 /\ restarts = 0

Elems(q) == {q[i] : i \in DOMAIN q}
Record(s, good) == [span |-> s, good |-> good]
Records(q) == [i \in DOMAIN q |-> Record(q[i], TRUE)]

\* intactPrefix: the length of the longest prefix of good records.
Intact(q) == CHOOSE n \in 0..Len(q) :
  /\ \A i \in 1..n : q[i].good
  /\ n < Len(q) => ~q[n + 1].good

\* What may be in a file after writing q to the end of f stopped part of the way.
PartOf(f, q) ==
  {f \o SubSeq(q, 1, k) : k \in 0..Len(q)} \cup
  {f \o SubSeq(q, 1, k) \o <<Record(q[k + 1].span, FALSE)>> : k \in 0..(Len(q) - 1)}

Cut(f, n) == SubSeq(f, 1, n)
Smaller(a, b) == IF a < b THEN a ELSE b

Truncate(h, n) ==
  /\ recs' = [recs EXCEPT ![h] = Cut(@, n)]
  /\ synced' = [synced EXCEPT ![h] = Smaller(@, n)]

\* A file operation of Write either works or uses up one fault.
Works == UNCHANGED faults
Fails == faults < MaxFaults /\ faults' = faults + 1

(***************************************************************************)
(* Write.                                                                  *)
(***************************************************************************)

Known == acked \cup failed \cup Elems(writing)

\* Write returns an error.
WriteFails ==
  /\ failed' = failed \cup Elems(writing)
  /\ wpc' = "idle" /\ writing' = << >> /\ hour' = 0
  /\ UNCHANGED <<clock, up, refused, visible, evictor, acked, cutShort, damaged, restarts>>

StepTo(next) ==
  /\ wpc' = next
  /\ UNCHANGED <<clock, up, refused, visible, writing, hour, evictor, history, restarts>>

\* Write takes the lock and roll reads the clock.
WriteStart(q) ==
  /\ up /\ wpc = "idle"
  /\ \A s \in Elems(q) : s \notin Known /\ EndOf[s] <= clock
  /\ writing' = q /\ hour' = Hour(clock)
  /\ wpc' = IF seg = Hour(clock) THEN "append" ELSE "close"
  /\ UNCHANGED <<clock, files, up, refused, segment, dirt, visible, evictor, history, faults, restarts>>

\* roll closes the segment of another hour.  A file whose Close has failed is
\* closed all the same: closing it again fails again.
CloseSegment ==
  /\ wpc = "close"
  /\ \/ /\ seg = None \/ ~segBroken
        /\ Works
        /\ seg' = None /\ UNCHANGED <<segBroken, segSize>>
        /\ StepTo("repair")
     \/ /\ seg # None
        /\ IF segBroken THEN Works ELSE Fails
        /\ segBroken' = TRUE /\ UNCHANGED <<seg, segSize>>
        /\ WriteFails
  /\ UNCHANGED <<files, dirt>>

\* Mutant of Repair: only the segment about to be opened is cut back.
RepairSameHour ==
  /\ wpc = "repair" /\ Works
  /\ IF dirty /\ dirtyHour \in exists /\ dirtyHour = hour
     THEN Truncate(dirtyHour, dirtySize)
     ELSE UNCHANGED <<recs, synced>>
  /\ dirty' = FALSE /\ dirtyHour' = 0 /\ dirtySize' = 0
  /\ StepTo("open")
  /\ UNCHANGED <<exists, segment>>

\* repair, if the last failed append could not be rolled back; the file may
\* have been deleted since.
Repair ==
  /\ wpc = "repair"
  /\ \/ /\ Works
        /\ IF dirty /\ dirtyHour \in exists
           THEN Truncate(dirtyHour, dirtySize)
           ELSE UNCHANGED <<recs, synced>>
        /\ dirty' = FALSE /\ dirtyHour' = 0 /\ dirtySize' = 0
        /\ StepTo("open")
     \/ /\ dirty /\ Fails
        /\ UNCHANGED <<recs, synced, dirt>>
        /\ WriteFails
  /\ UNCHANGED <<exists, segment>>

\* roll opens the segment of this hour, creating it if need be; opening it, or
\* seeking its end, may fail.
OpenSegment ==
  /\ wpc = "open"
  /\ \/ /\ Works
        /\ exists' = exists \cup {hour}
        /\ seg' = hour /\ segBroken' = FALSE /\ segSize' = Len(recs[hour])
        /\ StepTo("append")
     \/ /\ Fails
        /\ exists' \in {exists, exists \cup {hour}}
        /\ UNCHANGED segment
        /\ WriteFails
  /\ UNCHANGED <<recs, synced, dirt>>

\* One span over the limit fails the Write before anything of it is appended.
TooLarge ==
  /\ wpc = "append" /\ Elems(writing) \cap Oversized # {}
  /\ WriteFails
  /\ UNCHANGED <<files, segment, dirt, faults>>

\* append writes the batch, or part of it; nothing goes into a closed file.
AppendBatch ==
  /\ wpc = "append" /\ Elems(writing) \cap Oversized = {}
  /\ \/ /\ ~segBroken /\ Works
        /\ recs' = [recs EXCEPT ![seg] = @ \o Records(writing)]
        /\ StepTo("sync")
     \/ /\ segBroken /\ Works
        /\ UNCHANGED recs
        /\ StepTo("rollback")
     \/ /\ ~segBroken /\ Fails
        /\ \E f \in PartOf(recs[seg], Records(writing)) : recs' = [recs EXCEPT ![seg] = f]
        /\ StepTo("rollback")
  /\ UNCHANGED <<exists, synced, segment, dirt>>

Sync ==
  /\ wpc = "sync"
  /\ \/ /\ Works
        /\ synced' = [synced EXCEPT ![seg] = Len(recs[seg])]
        /\ segSize' = Len(recs[seg])
        /\ StepTo("show")
     \/ /\ Fails
        /\ UNCHANGED <<synced, segSize>>
        /\ StepTo("rollback")
  /\ UNCHANGED <<exists, recs, seg, segBroken, dirt>>

\* Mutant of Rollback: the segment is forgotten before its hour is remembered.
RollbackSwapped ==
  /\ wpc = "rollback"
  /\ \/ /\ ~segBroken /\ Works
        /\ Truncate(seg, segSize)
        /\ UNCHANGED <<segment, dirt>>
     \/ /\ IF segBroken THEN Works ELSE Fails
        /\ UNCHANGED <<recs, synced>>
        /\ seg' = None /\ segBroken' = FALSE /\ segSize' = 0
        /\ dirty' = TRUE /\ dirtyHour' = seg' /\ dirtySize' = segSize
  /\ WriteFails
  /\ UNCHANGED exists

\* rollback: truncate back to segSize and seek there, or else close the
\* segment and remember where its acknowledged records end.
Rollback ==
  /\ wpc = "rollback"
  /\ \/ /\ ~segBroken /\ Works
        /\ Truncate(seg, segSize)
        /\ UNCHANGED <<segment, dirt>>
     \/ /\ IF segBroken THEN Works ELSE Fails
        /\ \/ UNCHANGED <<recs, synced>>
           \/ ~segBroken /\ Truncate(seg, segSize)
        /\ dirty' = TRUE /\ dirtyHour' = seg /\ dirtySize' = segSize
        /\ seg' = None /\ segBroken' = FALSE /\ segSize' = 0
  /\ WriteFails
  /\ UNCHANGED exists

\* The synced spans become visible and Write returns nil.
Show ==
  /\ wpc = "show"
  /\ visible' = visible \cup Elems(writing)
  /\ acked' = acked \cup Elems(writing)
  /\ wpc' = "idle" /\ writing' = << >> /\ hour' = 0
  /\ UNCHANGED <<clock, files, up, refused, segment, dirt, evictor, failed, cutShort, damaged, faults, restarts>>

(***************************************************************************)
(* EvictExpired.                                                           *)
(***************************************************************************)

\* Mutant of Unexpired: a trace goes as its last span reaches the end of the window.
UnexpiredEarly(S) ==
  {s \in S : \E u \in S : TraceOf[u] = TraceOf[s] /\ EndOf[u] > clock - Retention}

\* The spans of S that Memory.EvictExpired leaves: those of traces with a span
\* that ended inside the retention window.
Unexpired(S) ==
  IF Retention = 0 THEN S
  ELSE {s \in S : \E u \in S : TraceOf[u] = TraceOf[s] /\ EndOf[u] >= clock - Retention}

Cutoff == Hour(clock - Retention)

\* Mutant of Expired: a segment goes once the cutoff has reached its hour.
ExpiredEarly(cutoff, open) == {h \in exists : Retention > 0 /\ h <= cutoff /\ h # open}

\* The segments EvictExpired deletes, given its cutoff and the open segment.
Expired(cutoff, open) == {h \in exists : Retention > 0 /\ h + 1 <= cutoff /\ h # open}

\* Memory.EvictExpired, and the clock reading that follows it.
EvictMemory ==
  /\ up /\ Retention > 0 /\ epc = "idle"
  /\ visible' = Unexpired(visible)
  /\ epc' = "segments" /\ cutoffHour' = Cutoff
  /\ UNCHANGED <<clock, files, up, refused, segment, dirt, wpc, writing, hour, history, faults, restarts>>

Remove(H) ==
  /\ exists' = exists \ H
  /\ recs' = [h \in Hours |-> IF h \in H THEN << >> ELSE recs[h]]
  /\ synced' = [h \in Hours |-> IF h \in H THEN 0 ELSE synced[h]]

\* The rest of EvictExpired, under the lock; a file that cannot be deleted is left.
EvictSegments ==
  /\ up /\ epc = "segments" /\ wpc = "idle"
  /\ \E H \in SUBSET Expired(cutoffHour, seg) :
       /\ IF H = Expired(cutoffHour, seg) THEN UNCHANGED faults
          ELSE faults < MaxFaults /\ faults' = faults + 1
       /\ Remove(H)
  /\ epc' = "idle" /\ cutoffHour' = 0
  /\ UNCHANGED <<clock, up, refused, segment, dirt, visible, wpc, writing, hour, history, restarts>>

(***************************************************************************)
(* Close, crash and OpenDisk.                                              *)
(***************************************************************************)

\* The process is gone, and everything in memory with it.
Down ==
  /\ up /\ restarts < MaxRestarts
  /\ restarts' = restarts + 1
  /\ up' = FALSE
  /\ seg' = None /\ segBroken' = FALSE /\ segSize' = 0
  /\ dirty' = FALSE /\ dirtyHour' = 0 /\ dirtySize' = 0
  /\ visible' = {}
  /\ wpc' = "idle" /\ writing' = << >> /\ hour' = 0
  /\ epc' = "idle" /\ cutoffHour' = 0
  /\ cutShort' = cutShort \cup Elems(writing)
  /\ UNCHANGED <<clock, exists, refused, acked, failed, damaged, faults>>

\* Close waits for the lock; it syncs and closes the open segment.
Close ==
  /\ wpc = "idle"
  /\ Down
  /\ synced' = [h \in Hours |-> Len(recs[h])]
  /\ UNCHANGED recs

\* A crash.  Only the file being appended to, or the one a failed rollback
\* left, has records that were not synced.
Crash ==
  LET h == IF dirty THEN dirtyHour ELSE seg
      unsynced == SubSeq(recs[h], synced[h] + 1, Len(recs[h]))
  IN /\ Down
     /\ IF h = None
        THEN UNCHANGED <<recs, synced>>
        ELSE \E f \in PartOf(Cut(recs[h], synced[h]), unsynced) :
               /\ recs' = [recs EXCEPT ![h] = f]
               /\ synced' = [synced EXCEPT ![h] = Len(f)]

Newest == CHOOSE h \in exists : \A g \in exists : g <= h
Bad(h) == Intact(recs[h]) < Len(recs[h])

\* OpenDisk: replay every segment, oldest first; a bad record anywhere but in
\* the newest one is refused, there the file is cut.  Then EvictExpired.
OpenDisk ==
  /\ ~up /\ ~refused
  /\ IF \E h \in exists : Bad(h) /\ h # Newest
     THEN /\ refused' = TRUE
          /\ UNCHANGED <<up, visible, files>>
     ELSE LET whole == [h \in Hours |-> Cut(recs[h], Intact(recs[h]))]
              gone == Expired(Cutoff, None)
          IN /\ up' = TRUE
             /\ visible' = Unexpired({r.span : r \in UNION {Elems(whole[h]) : h \in exists}})
             /\ exists' = exists \ gone
             /\ recs' = [h \in Hours |-> IF h \in gone THEN << >> ELSE whole[h]]
             /\ synced' = [h \in Hours |-> IF h \in gone THEN 0 ELSE Len(whole[h])]
             /\ UNCHANGED refused
  /\ UNCHANGED <<clock, segment, dirt, wpc, writing, hour, evictor, history, faults, restarts>>

Tick ==
  /\ clock < MaxClock
  /\ clock' = clock + 1
  /\ UNCHANGED <<files, up, refused, segment, dirt, visible, wpc, writing, hour, evictor,
                 history, faults, restarts>>

Batches == {q \in UNION {[1..n -> Span] : n \in 1..MaxBatch} :
              \A i, j \in DOMAIN q : i # j => q[i] # q[j]}

Next ==
  \/ \E q \in Batches : WriteStart(q)
  \/ CloseSegment \/ Repair \/ OpenSegment \/ TooLarge \/ AppendBatch \/ Sync \/ Rollback \/ Show
  \/ EvictMemory \/ EvictSegments \/ Close \/ Crash \/ OpenDisk \/ Tick

Spec == Init /\ [][Next]_vars

\* The wall clock is set back.
StepBack ==
  /\ clock > 0
  /\ clock' = clock - 1
  /\ UNCHANGED <<files, up, refused, segment, dirt, visible, wpc, writing, hour, evictor,
                 history, faults, restarts>>

StepBackSpec == Init /\ [][Next \/ StepBack]_vars

\* A record of a file at rest no longer reads back.
Damage ==
  /\ ~up /\ damaged = {}
  /\ \E h \in exists : \E i \in DOMAIN recs[h] :
       /\ recs' = [recs EXCEPT ![h][i].good = FALSE]
       /\ damaged' = {recs[h][i].span}
  /\ UNCHANGED <<clock, exists, synced, up, refused, segment, dirt, visible, wpc, writing, hour,
                 evictor, acked, failed, cutShort, faults, restarts>>

DamageSpec == Init /\ [][Next \/ Damage]_vars

(***************************************************************************)
(* Properties.                                                             *)
(***************************************************************************)

\* The type of every variable.
TypeOK ==
  /\ clock \in 0..MaxClock /\ exists \subseteq Hours
  /\ recs \in [Hours -> Seq([span : Span, good : BOOLEAN])] /\ synced \in [Hours -> Nat]
  /\ up \in BOOLEAN /\ refused \in BOOLEAN
  /\ seg \in Hours \cup {None} /\ segBroken \in BOOLEAN /\ segSize \in Nat
  /\ dirty \in BOOLEAN /\ dirtyHour \in Hours /\ dirtySize \in Nat
  /\ visible \subseteq Span
  /\ wpc \in {"idle", "close", "repair", "open", "append", "sync", "rollback", "show"}
  /\ writing \in Seq(Span) /\ hour \in Hours
  /\ epc \in {"idle", "segments"} /\ cutoffHour \in Int
  /\ acked \subseteq Span /\ failed \subseteq Span /\ cutShort \subseteq Span /\ damaged \subseteq Span
  /\ faults \in 0..MaxFaults /\ restarts \in 0..MaxRestarts

\* Replaying the files as they are would find the span, whatever a crash does.
OnDisk(s) ==
  \E h \in exists : \E i \in 1..Intact(recs[h]) : i <= synced[h] /\ recs[h][i].span = s

Fresh(s) == Retention = 0 \/ EndOf[s] >= clock - Retention

\* A span a client was told was accepted, and any span a search can return, is
\* on disk and would be found after a crash at this very point, until it has
\* itself left the retention window: through failed writes and syncs, failed
\* rollbacks, repairs, hour changes, evictions and earlier crashes.
AcknowledgedIsDurable == \A s \in acked \cup visible : Fresh(s) => OnDisk(s)

\* A crash never leaves files that OpenDisk refuses to open.
CrashIsNotCorruption == ~refused

\* The store opens after damage only if it serves everything else that was
\* acknowledged: it never skips good records behind a bad one.
DamageIsNotSkipped == up => \A s \in acked \ damaged : Fresh(s) => OnDisk(s)

\* A span whose Write reported a failure does not come back.
FailedStaysGone == failed \cap visible = {}

Promise == INSTANCE Store WITH
  open <- up, inWrite <- Elems(writing), promised <- acked,
  doubtful <- failed \cup cutShort, served <- visible

\* The files, the rollback, the repair and the replay together keep the
\* promise of module Store.
ImplementsStore == Promise!Spec
=============================================================================
