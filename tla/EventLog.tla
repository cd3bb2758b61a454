------------------------------- MODULE EventLog --------------------------------
(***************************************************************************)
(* The durable event log (src/event-log.ts): segment files of events with  *)
(* sequence numbers, and two pointer files, segments.json and              *)
(* current-segment.json, written after the segment.  The process may crash *)
(* between any two writes and rebuilds what it needs when it starts again. *)
(*                                                                         *)
(* Appends are serialized by the write queue, so at most one is under way. *)
(* A segment file is named after its creation time: files are numbered in  *)
(* that order.  A segment is replaced by rename(2); a pointer file that a  *)
(* crash interrupts may be unreadable afterwards.                          *)
(***************************************************************************)
EXTENDS Naturals, SequencesExt

CONSTANTS Events,       \* the events appended, each once
          NoEvent,
          MaxSegments,  \* bound: segment files created
          MaxLogCrashes,   \* bound: crashes
          MaxFailures   \* bound: writes that fail

ASSUME LogAssumption ==
  /\ NoEvent \notin Events
  /\ {MaxSegments, MaxLogCrashes, MaxFailures} \subseteq Nat

VARIABLES files,         \* the segment files: sequences of [id, seq]
          absent,        \* the segments whose file could not be created: they read as empty
          diskIndex,     \* segments.json, Unreadable when missing or torn
          diskCurrent,   \* current-segment.json, likewise
          index,         \* segmentsIndex
          current,       \* currentSegment
          step,          \* the next write of the append or the start under way
          writing,       \* the event being appended
          logged,        \* history: the events whose append returned
          crashes,       \* history: crashes
          failures,      \* history: failed writes
          lostPointers   \* history: a crash left pointers that agree but lag behind the segment

segmentVars == <<files, absent>>
diskVars == <<segmentVars, diskIndex, diskCurrent>>
logVars == <<diskVars, index, current, step, writing, logged, crashes, failures, lostPointers>>

Unreadable == [unreadable |-> TRUE]

LogSteps == {"down", "fresh", "rebuilt", "rebuiltCurrent", "idle", "rotated", "create", "created",
          "write", "renamed", "currentSaved"}

LogInit ==
  /\ files = <<>> /\ absent = {}
  /\ diskIndex = Unreadable /\ diskCurrent = Unreadable
  /\ index = Unreadable /\ current = Unreadable
  /\ step = "down"
  /\ writing = NoEvent
  /\ logged = {} /\ crashes = 0 /\ failures = 0 /\ lostPointers = FALSE

--------------------------------------------------------------------------------
\* The entry of a segment in the index, or of the current one when it is archived.
Segment(f, start, end) == [file |-> f, start |-> start, end |-> end]

NonEmpty == {f \in DOMAIN files : files[f] # <<>>}

\* rebuildStateFromDisk: one entry per file that holds an event.  The archive is
\* a set of entries: it is read and searched as a whole.
Scanned == {Segment(f, Head(files[f]).seq, Last(files[f]).seq) : f \in NonEmpty}

RebuiltIndex == [segments |-> Scanned, last |-> Max({0} \cup {s.end : s \in Scanned})]

\* The last entry in name order.
Newest == CHOOSE s \in Scanned : \A t \in Scanned : t.file <= s.file

\* validateAndRepairState: the pointers are readable and agree on the next number.
Agree(ix, cur) == Unreadable \notin {ix, cur} /\ cur.next = ix.last + 1

\* ... and every segment they name has its file.
Archived(ix) == {s.file : s \in ix.segments}

Trusted == Agree(diskIndex, diskCurrent) /\ absent \cap (Archived(diskIndex) \cup {diskCurrent.file}) = {}

\* createNewSegment: an empty file, then the pointer to it.
NewFile == Len(files) + 1

\* Slip: pointers that can be read are taken as they are.
StartLogTrusting ==
  /\ step = "down"
  /\ IF Unreadable \notin {diskIndex, diskCurrent}
       THEN /\ index' = diskIndex /\ current' = diskCurrent
            /\ step' = "idle"
            /\ UNCHANGED files
       ELSE /\ index' = RebuiltIndex
            /\ step' = "rebuilt"
            /\ current' = [file |-> NewFile, start |-> RebuiltIndex.last + 1,
                           next |-> RebuiltIndex.last + 1]
            /\ files' = Append(files, <<>>)
  /\ UNCHANGED <<absent, diskIndex, diskCurrent, writing, logged, crashes, failures, lostPointers>>

\* initEventLog: load the pointers, or rebuild them from the segment files.
StartLog ==
  /\ step = "down"
  /\ IF Trusted
       THEN /\ index' = diskIndex /\ current' = diskCurrent
            /\ step' = "idle"
            /\ UNCHANGED files
       ELSE /\ index' = RebuiltIndex
            /\ step' = IF Scanned = {} THEN "fresh" ELSE "rebuilt"
            /\ IF Scanned # {}
                 THEN /\ current' = [file |-> Newest.file, start |-> Newest.start, next |-> Newest.end + 1]
                      /\ UNCHANGED files
                 ELSE /\ NewFile <= MaxSegments
                      /\ current' = [file |-> NewFile, start |-> 1, next |-> 1]
                      /\ files' = Append(files, <<>>)
  /\ UNCHANGED <<absent, diskIndex, diskCurrent, writing, logged, crashes, failures, lostPointers>>

\* createNewSegment saves the pointer to a first segment.
SaveFreshCurrent ==
  /\ step = "fresh"
  /\ diskCurrent' = current
  /\ step' = "rebuilt"
  /\ UNCHANGED <<segmentVars, diskIndex, index, current, writing, logged, crashes, failures, lostPointers>>

\* The rebuild saves the index, then the current segment.
SaveRebuiltIndex ==
  /\ step = "rebuilt"
  /\ diskIndex' = index
  /\ step' = "rebuiltCurrent"
  /\ UNCHANGED <<segmentVars, diskCurrent, index, current, writing, logged, crashes, failures, lostPointers>>

SaveRebuiltCurrent ==
  /\ step = "rebuiltCurrent"
  /\ diskCurrent' = current
  /\ step' = "idle"
  /\ UNCHANGED <<segmentVars, diskIndex, index, current, writing, logged, crashes, failures, lostPointers>>

--------------------------------------------------------------------------------
\* The events the segment files hold.
Stored == UNION {{files[f][k].id : k \in DOMAIN files[f]} : f \in DOMAIN files}

\* append reaches the head of the write queue with the current segment in use.
AppendEvent(e) ==
  /\ step = "idle"
  /\ e \notin Stored
  /\ writing' = e
  /\ step' = "write"
  /\ UNCHANGED <<diskVars, index, current, logged, crashes, failures, lostPointers>>

\* append finds the current segment too large or of another day: rotateSegment
\* archives it in the index first.
AppendRotating(e) ==
  /\ step = "idle"
  /\ NewFile <= MaxSegments
  /\ e \notin Stored
  /\ writing' = e
  /\ index' = [segments |-> index.segments \cup {Segment(current.file, current.start, current.next - 1)},
               last |-> current.next - 1]
  /\ step' = "rotated"
  /\ UNCHANGED <<diskVars, current, logged, crashes, failures, lostPointers>>

SaveRotatedIndex ==
  /\ step = "rotated"
  /\ diskIndex' = index
  /\ step' = "create"
  /\ UNCHANGED <<segmentVars, diskCurrent, index, current, writing, logged, crashes, failures, lostPointers>>

\* Slip: the new segment takes the name of the one just archived.
CreateSegmentOver ==
  /\ step = "create"
  /\ current' = [current EXCEPT !.start = current.next]
  /\ files' = [files EXCEPT ![current.file] = <<>>]
  /\ step' = "created"
  /\ UNCHANGED <<absent, diskIndex, diskCurrent, index, writing, logged, crashes, failures, lostPointers>>

NewSegment ==
  /\ step = "create"
  /\ current' = [file |-> NewFile, start |-> current.next, next |-> current.next]
  /\ files' = Append(files, <<>>)

CreateSegment ==
  /\ NewSegment
  /\ step' = "created"
  /\ UNCHANGED <<absent, diskIndex, diskCurrent, index, writing, logged, crashes, failures, lostPointers>>

SaveNewCurrent ==
  /\ step = "created"
  /\ diskCurrent' = current
  /\ step' = "write"
  /\ UNCHANGED <<segmentVars, diskIndex, index, current, writing, logged, crashes, failures, lostPointers>>

\* The segment is read, extended by the event and renamed into place; then the
\* number is taken in memory.
RenameSegment ==
  /\ step = "write"
  /\ files' = [files EXCEPT ![current.file] = Append(@, [id |-> writing, seq |-> current.next])]
  /\ absent' = absent \ {current.file}
  /\ current' = [current EXCEPT !.next = @ + 1]
  /\ index' = [index EXCEPT !.last = current.next]
  /\ step' = "renamed"
  /\ UNCHANGED <<diskIndex, diskCurrent, writing, logged, crashes, failures, lostPointers>>

SaveCurrent ==
  /\ step = "renamed"
  /\ diskCurrent' = current
  /\ step' = "currentSaved"
  /\ UNCHANGED <<segmentVars, diskIndex, index, current, writing, logged, crashes, failures, lostPointers>>

\* The index is saved and append returns the record.
SaveIndex ==
  /\ step = "currentSaved"
  /\ diskIndex' = index
  /\ step' = "idle"
  /\ logged' = logged \cup {writing}
  /\ writing' = NoEvent
  /\ UNCHANGED <<segmentVars, diskCurrent, index, current, crashes, failures, lostPointers>>

--------------------------------------------------------------------------------
\* The pointer files a crash may tear: the one whose write comes next.
Tears(next, disk) == IF step \in next THEN {disk, Unreadable} ELSE {disk}

TearsAny ==
  /\ diskIndex' \in Tears({"rebuilt", "rotated", "currentSaved"}, diskIndex)
  /\ diskCurrent' \in Tears({"fresh", "rebuiltCurrent", "created", "renamed"}, diskCurrent)

CrashLog ==
  /\ step # "down" /\ crashes < MaxLogCrashes
  /\ TearsAny
  /\ step' = "down"
  /\ index' = Unreadable /\ current' = Unreadable
  /\ writing' = NoEvent
  /\ crashes' = crashes + 1
  /\ UNCHANGED <<segmentVars, logged, failures>>
  /\ lostPointers' = (lostPointers \/ (Trusted' /\ diskCurrent'.next < current.next))

\* A write fails (a full disk): the append under way throws, what it did before
\* stays, and a pointer file may be left torn.
Throws ==
  /\ failures < MaxFailures
  /\ step' = "idle"
  /\ writing' = NoEvent
  /\ failures' = failures + 1

FailSave ==
  /\ step \in {"rotated", "created", "write", "renamed", "currentSaved"}
  /\ Throws
  /\ TearsAny
  /\ UNCHANGED <<segmentVars, index, current, logged, crashes, lostPointers>>

\* The empty file of a new segment: the segment is current in memory already.
FailCreate ==
  /\ NewSegment
  /\ Throws
  /\ absent' = absent \cup {NewFile}
  /\ UNCHANGED <<diskIndex, diskCurrent, index, logged, crashes, lostPointers>>

LogNext ==
  \/ StartLog \/ SaveFreshCurrent \/ SaveRebuiltIndex \/ SaveRebuiltCurrent
  \/ \E e \in Events : AppendEvent(e) \/ AppendRotating(e)
  \/ SaveRotatedIndex \/ CreateSegment \/ SaveNewCurrent
  \/ RenameSegment \/ SaveCurrent \/ SaveIndex
  \/ CrashLog \/ FailSave \/ FailCreate

LogSpec == LogInit /\ [][LogNext]_logVars

--------------------------------------------------------------------------------
Pointers(S) == {Unreadable} \cup S
Indexes == [segments : SUBSET [file : Nat, start : Nat, end : Nat], last : Nat]
Currents == [file : Nat, start : Nat, next : Nat]

LogTypeOK ==
  /\ files \in Seq(Seq([id : Events, seq : Nat]))
  /\ absent \subseteq DOMAIN files
  /\ diskIndex \in Pointers(Indexes) /\ index \in Pointers(Indexes)
  /\ diskCurrent \in Pointers(Currents) /\ current \in Pointers(Currents)
  /\ step \in LogSteps
  /\ writing \in Events \cup {NoEvent}
  /\ logged \subseteq Events
  /\ {crashes, failures} \subseteq Nat /\ lostPointers \in BOOLEAN

\* All that is on disk.
Records == UNION {ToSet(files[f]) : f \in DOMAIN files}

\* event-log.ts promises "monotonic sequence numbers", "allocated atomically with
\* the write operation": along the files in the order they are named.
SeqsIncrease ==
  \A f, g \in DOMAIN files : \A i \in DOMAIN files[f], j \in DOMAIN files[g] :
    (f < g \/ (f = g /\ i < j)) => files[f][i].seq < files[g][j].seq

\* No number is used twice, also when a rotation, a rebuild or an append was cut
\* short by a crash or a failed write, unless the pointers it left lag and agree.
SeqsIncreaseUnlessLost == lostPointers \/ SeqsIncrease

\* findEventById: the archived segments and the current one.
Searched == Archived(index) \cup {current.file}

\* readFrom(n): the archived segments that reach n, then the current segment if
\* it starts no later than n.
ReadSegment(f, n) == {r \in ToSet(files[f]) : r.seq >= n}

ReadFrom(n) ==
  (UNION {ReadSegment(s.file, n) : s \in {t \in index.segments : t.end >= n}})
  \cup (IF current.start <= n THEN ReadSegment(current.file, n) ELSE {})

\* After any crashes, failed writes, rebuilds and interrupted rotations a running
\* log finds every event whose append returned, and a reader that has reached the
\* current segment is given all that follows (unless lagging pointers were left).
RunningLogFindsAll ==
  step = "idle" =>
    /\ \A f \in DOMAIN files : 
         (\E k \in DOMAIN files[f] : files[f][k].id \in logged) => f \in Searched
    /\ lostPointers \/ \A r \in Records, n \in current.start .. current.next :
         r.seq >= n => r \in ReadFrom(n)

\* Both, over the same crashes and failed writes.
LogSafety == SeqsIncreaseUnlessLost /\ RunningLogFindsAll

\* event-log.ts says of readFrom that it "Handles reading across segment
\* boundaries": a reader that starts at 1 is given every event.
ReadsAcrossSegments == step = "idle" => ReadFrom(1) = Records

\* The segment files keep what they were given: no crash, failed write, rotation
\* or rebuild takes an event away, or lets append return one that is not kept.
Durable == INSTANCE DurableLog WITH kept <- Stored, returned <- logged

ImplementsDurableLog == Durable!Spec
================================================================================
