-------------------------- MODULE RawFrameRetention --------------------------
(***************************************************************************)
(* Retention of provider raw frames: hot rows are archived to files, the    *)
(* archive is indexed and the rows deleted, and expired archives are purged *)
(* (runtime_raw_frame_retention.py), while frames are appended and read     *)
(* (runtime_event_store.py).                                                *)
(*                                                                          *)
(* The retention pass runs in a thread with its own connection, so the      *)
(* program appends, reads and changes turn states between any two of its    *)
(* steps, and the process can die between any two.  An archive is named by  *)
(* the hash of its records, that is, by the set of its frames.  The pass is *)
(* the periodic one: the operator's migration runs the same steps inside a  *)
(* maintenance window.                                                      *)
(***************************************************************************)
EXTENDS Naturals, FiniteSets, FiniteSetsExt

CONSTANTS Turns,       \* native turns
          MaxFrames,   \* bound: frames appended
          MaxCrashes,  \* bound: crashes of the process
          BatchSize    \* policy.batch_size

None == {}             \* no archive: a batch is never empty
Frames == 1 .. MaxFrames

VARIABLES
  count,     \* frames appended: ids 1 .. count
  turn, seq, \* of each frame: its turn, its sequence number in the turn
  hot,       \* ids in provider_raw_frames
  aged,      \* frames older than the hot retention
  active,    \* turns the database shows as active
  cursor,    \* provider_raw_frame_sequence_cursors
  gz, man,   \* archives whose payload, whose manifest file exists
  archives,  \* rows of provider_raw_frame_archives
  index,     \* provider_raw_frame_archive_index: the archive of each frame, or None
  tomb,      \* archives with purge_pending_at
  expired,   \* archives whose manifest's expires_at has passed
  retired,   \* frames whose archive was retired after its retention (history)
  work,      \* the retention pass: step and the batch or archive it is at
  reader,    \* a reader of one frame: step, frame and the archive it looked up
  crashes

vars == <<count, turn, seq, hot, aged, active, cursor, gz, man, archives, index, tomb,
          expired, retired, work, reader, crashes>>
files == <<gz, man, expired>>
rows == <<hot, cursor, archives, index, tomb, retired>>
input == <<count, turn, seq, aged, active>>

Idle == [step |-> "idle", batch |-> None]
NoReader == [step |-> "idle", frame |-> 0, archive |-> None]
At(step, b) == [step |-> step, batch |-> b]

TypeOK ==
  /\ count \in 0 .. MaxFrames
  /\ turn \in [Frames -> Turns] /\ seq \in [Frames -> 0 .. MaxFrames]
  /\ hot \subseteq 1 .. count /\ aged \subseteq 1 .. count /\ retired \subseteq 1 .. count
  /\ active \subseteq Turns /\ cursor \in [Turns -> 0 .. MaxFrames]
  /\ \A s \in {gz, man, archives, tomb, expired} : s \subseteq SUBSET (1 .. count)
  /\ index \in [Frames -> SUBSET Frames] /\ tomb \subseteq archives
  /\ work.step \in {"idle", "picked", "payload", "manifest", "tombed", "unlinked", "kept", "gone"}
  /\ work.batch \subseteq Frames /\ Cardinality(work.batch) <= BatchSize
  /\ reader.step \in {"idle", "found", "failed", "corrupt"}
  /\ crashes \in 0 .. MaxCrashes

Init ==
  /\ count = 0 /\ turn \in [Frames -> Turns] /\ seq = [f \in Frames |-> 0]
  /\ hot = {} /\ aged = {} /\ retired = {}
  /\ active = {} /\ cursor = [t \in Turns |-> 0]
  /\ gz = {} /\ man = {} /\ archives = {} /\ tomb = {} /\ expired = {}
  /\ index = [f \in Frames |-> None]
  /\ work = Idle /\ reader = NoReader /\ crashes = 0
-----------------------------------------------------------------------------
(* Appending *)

SeqsOf(t, S) == {seq[f] : f \in {g \in S : turn[g] = t}} \cup {0}

(* next_provider_raw_frame_sequence: past the cursor, the hot rows and the index *)
NextSequence(t) ==
  Max({cursor[t]} \cup SeqsOf(t, hot) \cup SeqsOf(t, {f \in Frames : index[f] # None})) + 1

(* append_provider_raw_frame: row and cursor in one transaction; before the cursors   *)
(* existed (legacy) only the row                                                      *)
AppendFrame(legacy) ==
  /\ count < MaxFrames
  /\ legacy => count = 0
  /\ LET f == count + 1
         t == turn[f] IN
       /\ count' = f
       /\ seq' = [seq EXCEPT ![f] = NextSequence(t)]
       /\ hot' = hot \cup {f}
       /\ cursor' = IF legacy THEN cursor ELSE [cursor EXCEPT ![t] = Max({@, NextSequence(t)})]
  /\ UNCHANGED <<turn, aged, active, files, archives, index, tomb, retired, work, reader, crashes>>

(* time passes for a frame, for an archive; a turn starts or ends *)
Age(f) ==
  /\ f \in hot \ aged
  /\ aged' = aged \cup {f}
  /\ UNCHANGED <<count, turn, seq, active, files, rows, work, reader, crashes>>

ArchiveExpires(a) ==
  /\ a \in man \ expired
  /\ expired' = expired \cup {a}
  /\ UNCHANGED <<input, gz, man, rows, work, reader, crashes>>

TurnChanges(t) ==
  /\ active' = IF t \in active THEN active \ {t} ELSE active \cup {t}
  /\ UNCHANGED <<count, turn, seq, aged, files, rows, work, reader, crashes>>
-----------------------------------------------------------------------------
(* Archiving: _eligible_frame_page and _archive_batch *)

Quiet(S) == {f \in S : turn[f] \notin active}

(* a page: the oldest aged rows after the place c which the pass has reached *)
Behind(c) == {f \in hot \cap aged : f > c}
Page(c) == {f \in Behind(c) : Cardinality({g \in Behind(c) : g <= f}) <= BatchSize}

(* _eligible_frame_page, without the rows of active turns; a pass goes on from any place, *)
(* a crashed or finished one begins again                                                 *)
PickBatch(c) ==
  /\ work = Idle
  /\ Quiet(Page(c)) # {}
  /\ work' = At("picked", Quiet(Page(c)))
  /\ UNCHANGED <<input, files, rows, reader, crashes>>

(* mutation: the payload is written before the rows that became active are dropped *)
WritePayloadOfBatch ==
  /\ work.step = "picked"
  /\ LET safe == Quiet(work.batch) IN
       /\ gz' = gz \cup {work.batch}
       /\ work' = IF safe = {} THEN Idle ELSE At("payload", safe)
  /\ UNCHANGED <<input, man, expired, rows, reader, crashes>>

(* _archive_batch drops what became active meanwhile and writes or reuses the payload *)
WritePayload ==
  /\ work.step = "picked"
  /\ LET safe == Quiet(work.batch) IN
       /\ gz' = IF safe = {} THEN gz ELSE gz \cup {safe}
       /\ work' = IF safe = {} THEN Idle ELSE At("payload", safe)
  /\ UNCHANGED <<input, man, expired, rows, reader, crashes>>

(* the manifest beside it; one left by a crash keeps its retention dates *)
WriteManifest ==
  /\ work.step = "payload"
  /\ man' = man \cup {work.batch}
  /\ expired' = IF work.batch \in man THEN expired ELSE expired \ {work.batch}
  /\ work' = At("manifest", work.batch)
  /\ UNCHANGED <<input, gz, rows, reader, crashes>>

Archive(b) ==
  /\ archives' = archives \cup {b}
  /\ index' = [f \in Frames |-> IF f \in b THEN b ELSE index[f]]
  /\ cursor' = [t \in Turns |-> Max({cursor[t]} \cup SeqsOf(t, b))]
  /\ hot' = hot \ b

(* mutation: the rows are deleted on the strength of the check made before the files  *)
(* were written                                                                       *)
CommitArchiveStale ==
  /\ work.step = "manifest"
  /\ Archive(work.batch)
  /\ work' = Idle
  /\ UNCHANGED <<input, files, tomb, retired, reader, crashes>>

(* mutation: the sequence numbers of the deleted rows are not kept *)
CommitArchiveUnseeded ==
  /\ work.step = "manifest"
  /\ IF Quiet(work.batch) = work.batch
       THEN /\ archives' = archives \cup {work.batch}
            /\ index' = [f \in Frames |-> IF f \in work.batch THEN work.batch ELSE index[f]]
            /\ hot' = hot \ work.batch /\ cursor' = cursor
       ELSE UNCHANGED <<archives, index, cursor, hot>>
  /\ work' = Idle
  /\ UNCHANGED <<input, files, tomb, retired, reader, crashes>>

(* the transaction: the activity check under the write lock, then manifest row, index,  *)
(* cursors and the deletion of the hot rows together                                    *)
CommitArchive ==
  /\ work.step = "manifest"
  /\ IF Quiet(work.batch) = work.batch
       THEN Archive(work.batch)
       ELSE UNCHANGED <<archives, index, cursor, hot>>
  /\ work' = Idle
  /\ UNCHANGED <<input, files, tomb, retired, reader, crashes>>
-----------------------------------------------------------------------------
(* Purging: _purge_expired_archives *)

(* mutation: the files are removed without a tombstone *)
PurgeUnmarked(a) ==
  /\ work = Idle
  /\ a \in archives \cap expired
  /\ retired' = retired \cup a
  /\ work' = At("tombed", a)
  /\ UNCHANGED <<input, files, hot, cursor, archives, index, tomb, reader, crashes>>

(* the tombstone is committed before a file is touched *)
Purge(a) ==
  /\ work = Idle
  /\ a \in archives \cap expired
  /\ tomb' = tomb \cup {a}
  /\ retired' = retired \cup a
  /\ work' = At("tombed", a)
  /\ UNCHANGED <<input, files, hot, cursor, archives, index, reader, crashes>>

(* the two unlinks; a failed one (~ok) does not keep the other from being tried *)
UnlinkPayload(ok) ==
  /\ work.step = "tombed"
  /\ gz' = IF ok THEN gz \ {work.batch} ELSE gz
  /\ work' = At(IF ok THEN "unlinked" ELSE "kept", work.batch)
  /\ UNCHANGED <<input, man, expired, rows, reader, crashes>>

UnlinkManifest(ok) ==
  /\ work.step \in {"unlinked", "kept"}
  /\ man' = IF ok THEN man \ {work.batch} ELSE man
  /\ work' = IF ok /\ work.step = "unlinked" THEN At("gone", work.batch) ELSE Idle
  /\ UNCHANGED <<input, gz, expired, rows, reader, crashes>>

(* both gone: index and manifest rows are deleted in one transaction *)
ForgetArchive ==
  /\ work.step = "gone"
  /\ index' = [f \in Frames |-> IF index[f] = work.batch THEN None ELSE index[f]]
  /\ archives' = archives \ {work.batch}
  /\ tomb' = tomb \ {work.batch}
  /\ work' = Idle
  /\ UNCHANGED <<input, files, hot, cursor, retired, reader, crashes>>
-----------------------------------------------------------------------------
(* Reading: get_provider_raw_frame, read_archived_provider_raw_frame *)

(* a hot row is returned at once; otherwise the index row and its archive are read *)
Look(f) ==
  /\ reader.step = "idle" /\ f \in (1 .. count) \ hot
  /\ index[f] # None /\ index[f] \notin tomb
  /\ reader' = [step |-> "found", frame |-> f, archive |-> index[f]]
  /\ UNCHANGED <<input, files, rows, work, crashes>>

(* manifest and payload are opened and validated *)
OpenFiles ==
  /\ reader.step = "found"
  /\ reader' = IF reader.archive \in gz \cap man THEN NoReader
               ELSE [reader EXCEPT !.step = "failed"]
  /\ UNCHANGED <<input, files, rows, work, crashes>>

(* _archive_is_retired_or_missing decides between "no such frame" and corruption *)
Recheck ==
  /\ reader.step = "failed"
  /\ reader' = IF reader.archive \notin archives \/ reader.archive \in tomb THEN NoReader
               ELSE [reader EXCEPT !.step = "corrupt"]
  /\ UNCHANGED <<input, files, rows, work, crashes>>

Crash ==
  /\ crashes < MaxCrashes
  /\ crashes' = crashes + 1
  /\ work' = Idle /\ reader' = NoReader
  /\ UNCHANGED <<input, files, rows>>

Next ==
  \/ \E legacy \in BOOLEAN : AppendFrame(legacy)
  \/ \E f \in Frames : Age(f) \/ Look(f)
  \/ \E a \in man \cup archives : ArchiveExpires(a) \/ Purge(a)
  \/ \E t \in Turns : TurnChanges(t)
  \/ \E c \in 0 .. count : PickBatch(c)
  \/ WritePayload \/ WriteManifest \/ CommitArchive
  \/ \E ok \in BOOLEAN : UnlinkPayload(ok) \/ UnlinkManifest(ok)
  \/ ForgetArchive \/ OpenFiles \/ Recheck \/ Crash

Spec == Init /\ [][Next]_vars
-----------------------------------------------------------------------------
(* No frame is lost before its time: at every moment, between any two steps of a pass  *)
(* and after a crash at any of them, a frame is a hot row, or its index leads to an     *)
(* archive whose payload and manifest are both on disk, or it was retired after its     *)
(* archive expired ("file durability precedes DB mutation").                            *)
FrameKept ==
  \A f \in 1 .. count :
    \/ f \in hot
    \/ f \in retired
    \/ index[f] \in archives \cap gz \cap man

(* A reader that raced the purge gets "no such frame", never an error about a missing   *)
(* or damaged archive (the tombstone is looked up again after a failure).               *)
NeverCorrupt == reader.step # "corrupt"

(* A frame of an active turn stays hot: a turn that became active while the archive was  *)
(* being written keeps its rows (the check repeated under the write lock).               *)
KeepsActiveHot == \A f \in hot \ hot' : turn[f] \notin active
ActiveStaysHot == [][KeepsActiveHot]_vars

(* Sequence numbers of a turn are never used twice, also after all its rows and index    *)
(* entries are gone and for rows older than the cursor table ("a reused provider turn    *)
(* can never restart at sequence 1").                                                    *)
SequenceFresh ==
  \A f, g \in 1 .. count : f # g /\ turn[f] = turn[g] => seq[f] # seq[g]
=============================================================================
