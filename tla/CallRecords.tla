----------------------------- MODULE CallRecords -----------------------------
(***************************************************************************)
(* What a domain's cdr.db and recording directory keep of its calls: the   *)
(* call trace written by the trace writer thread, the recording made by a  *)
(* recorder thread fed by the RTP relays, the batch that stores both when  *)
(* the call is finalized, the retention of traces, the hourly cleanup of   *)
(* recordings, and the migration of the rows an older version kept in the  *)
(* system database.  The process may crash between any two steps.          *)
(*                                                                         *)
(* The spool that carries a batch to the database is module CdrSpool: here *)
(* a batch is spooled, stored and acknowledged.                            *)
(***************************************************************************)
EXTENDS Integers, FiniteSets, Sequences

CONSTANTS
  Calls,          \* the calls of the domain: numbers, ordered as call ids
  Recorded,       \* the answered calls whose policy asks for a recording
  MaxMessages,    \* bound on the signalling messages of a call
  QueueCapacity,  \* CALL_TRACE_QUEUE_CAPACITY
  RecCapacity,    \* RECORDING_QUEUE_CAPACITY
  MaxPackets,     \* bound on the RTP packets tapped of a call
  Keep,           \* traces kept after their call ended, 100 in the code
  LegacyDomains,  \* domains with rows in the tables of the system database
  MaxEvents,      \* bound on crashes, failed writes and changes of the setting
  Races           \* interleavings a run lets happen, out of AllRaces

AllRaces == {"StartDuringStop"}

ASSUME RecordsAssumption ==
  /\ Calls \subseteq Nat /\ IsFiniteSet(Calls) /\ Recorded \subseteq Calls
  /\ MaxMessages \in Nat /\ MaxPackets \in Nat /\ MaxEvents \in Nat /\ Keep \in Nat
  /\ QueueCapacity \in Nat \ {0} /\ RecCapacity \in Nat \ {0}
  /\ Races \subseteq AllRaces

VARIABLES
  up,         \* "down", "migrating" or "running"
  legacy,     \* the system database: runtime tables present, domains in them
  migrated,   \* legacy domains whose rows are in the domain's database
  tracing,    \* call_trace_enabled of the snapshot
  observed,   \* number of messages of each call so far
  tracked,    \* tracked_calls of the trace writer
  traceQueue, \* its channel
  marking,    \* calls whose incomplete marker is about to be sent
  traceCall,  \* table call_trace_call: ended 0 is NULL
  traceMsg,   \* table call_trace_message
  rec,        \* recorder of each call, see Idle
  file,       \* calls with a finished WAV file on disk
  batch,      \* the CdrWriteCommand of each call
  row,        \* table call_recording
  cdr,        \* table call_cdr: trace_available of each call
  aged,       \* calls whose recording is past the retention or the size limit
  sweep,      \* rows the cleanup has read and not yet dealt with
  removed,    \* rows whose file it removed and whose status it has not updated
  events

vars == <<up, legacy, migrated, tracing, observed, tracked, traceQueue, marking,
          traceCall, traceMsg, rec, file, batch, row, cdr, aged, sweep, removed, events>>
boot == <<up, legacy, migrated>>
trace == <<tracing, observed, tracked, traceQueue, marking>>
traceDb == <<traceCall, traceMsg>>
cleanup == <<aged, sweep, removed>>
tables == <<row, cdr>>

None == [none |-> TRUE]
Running == up = "running"

\* start: start_recording; stop: MediaBridge::stop; slot: the session is in
\* the bridge; tap: recording_tap holds a sender; clone: a relay holds one;
\* queue: packets in the channel; seen: packets tapped; written: samples were
\* written; dropped: packets_dropped; status: what the thread returned, where
\* "no_media" is an incomplete recording without a file.
Idle == [start |-> "no", stop |-> "no", slot |-> FALSE, tap |-> FALSE, clone |-> FALSE,
         queue |-> 0, seen |-> 0, written |-> FALSE, dropped |-> FALSE, status |-> "none"]

NoBatch == [state |-> "active", ended |-> 0, available |-> FALSE, status |-> "none"]

Active(c) == batch[c].state = "active"

\* LegacyRuntimeTables, with the domains that have rows in them
Legacy(domains) == [tables |-> domains # {}, rows |-> domains]

----------------------------------------------------------------------------
(* health_check: migrate_legacy_runtime_data *)

Boot ==
  /\ up = "down"
  /\ up' = IF legacy.tables THEN "migrating" ELSE "running"
  /\ UNCHANGED <<legacy, migrated, trace, traceDb, rec, file, batch, tables, cleanup, events>>

\* migrate_legacy_domain copies and deletes the rows of one domain in one
\* transaction over both databases, in the order of the domain ids
MigrateDomain(d) ==
  /\ up = "migrating" /\ d \in legacy.rows /\ \A o \in legacy.rows : d <= o
  /\ migrated' = migrated \cup {d}
  /\ legacy' = [legacy EXCEPT !.rows = @ \ {d}]
  /\ UNCHANGED <<up, trace, traceDb, rec, file, batch, tables, cleanup, events>>

\* An id that is no directory name, or a failed statement, ends the start
MigrateFails ==
  /\ up = "migrating" /\ legacy.rows # {} /\ events < MaxEvents
  /\ events' = events + 1
  /\ up' = "down"
  /\ UNCHANGED <<legacy, migrated, trace, traceDb, rec, file, batch, tables, cleanup>>

\* drop_legacy_runtime_tables, after the last domain
DropTables ==
  /\ up = "migrating" /\ legacy.rows = {}
  /\ legacy' = Legacy({})
  /\ up' = "running"
  /\ UNCHANGED <<migrated, trace, traceDb, rec, file, batch, tables, cleanup, events>>

----------------------------------------------------------------------------
(* The trace writer *)

HasRoom == Len(traceQueue) < QueueCapacity
Command(kind, c, n) == [kind |-> kind, call |-> c, seq |-> n]

\* record_call_trace with the trace on: record sends the message; a message
\* that finds the queue full is dropped and the call is to be marked
Record(c) ==
  /\ Running /\ tracing /\ Active(c) /\ observed[c] < MaxMessages /\ c \notin marking
  /\ observed' = [observed EXCEPT ![c] = @ + 1]
  /\ tracked' = tracked \cup {c}
  /\ IF HasRoom
     THEN /\ traceQueue' = Append(traceQueue, Command("record", c, observed[c] + 1))
          /\ UNCHANGED marking
     ELSE /\ marking' = marking \cup {c}
          /\ UNCHANGED traceQueue
  /\ UNCHANGED <<boot, tracing, traceDb, rec, file, batch, tables, cleanup, events>>

\* record_call_trace with the trace off
Unrecorded(c) ==
  /\ Running /\ ~tracing /\ Active(c) /\ observed[c] < MaxMessages /\ c \notin marking
  /\ observed' = [observed EXCEPT ![c] = @ + 1]
  /\ marking' = marking \cup {c}
  /\ UNCHANGED <<boot, tracing, tracked, traceQueue, traceDb, rec, file, batch, tables,
                 cleanup, events>>

\* The operator turns the trace off: the active calls are marked
TraceOff ==
  /\ Running /\ tracing /\ events < MaxEvents
  /\ events' = events + 1
  /\ tracing' = FALSE
  /\ marking' = marking \cup {c \in Calls : Active(c)}
  /\ UNCHANGED <<boot, observed, tracked, traceQueue, traceDb, rec, file, batch, tables, cleanup>>

\* mark_incomplete: a marker that finds the queue full is lost
MarkIncomplete(c) ==
  /\ Running /\ c \in marking
  /\ marking' = marking \ {c}
  /\ traceQueue' = IF HasRoom THEN Append(traceQueue, Command("mark", c, 0)) ELSE traceQueue
  /\ UNCHANGED <<boot, tracing, observed, tracked, traceDb, rec, file, batch, tables,
                 cleanup, events>>

\* insert_call_trace_message: the call's row is there before its messages
InsertMessage(m) ==
  /\ traceCall' = [traceCall EXCEPT ![m.call] =
                     IF @ = None THEN [ended |-> 0, incomplete |-> FALSE] ELSE @]
  /\ traceMsg' = traceMsg \cup {<<m.call, m.seq>>}

\* mark_call_trace_incomplete is an UPDATE: no row, no effect
MarkRow(c) ==
  /\ traceCall' = [traceCall EXCEPT ![c] = IF @ = None THEN @ ELSE [@ EXCEPT !.incomplete = TRUE]]
  /\ UNCHANGED traceMsg

\* The writer thread takes the next command
WriteTrace ==
  /\ Running /\ traceQueue # << >>
  /\ traceQueue' = Tail(traceQueue)
  /\ LET m == Head(traceQueue) IN
       IF m.kind = "record" THEN InsertMessage(m) ELSE MarkRow(m.call)
  /\ UNCHANGED <<boot, tracing, observed, tracked, marking, rec, file, batch, tables,
                 cleanup, events>>

\* A statement fails: the writer logs it and goes on
WriteTraceFails ==
  /\ Running /\ traceQueue # << >> /\ events < MaxEvents
  /\ events' = events + 1
  /\ traceQueue' = Tail(traceQueue)
  /\ UNCHANGED <<boot, tracing, observed, tracked, marking, traceDb, rec, file, batch, tables,
                 cleanup>>

----------------------------------------------------------------------------
(* The recorder *)

SetRec(c, r) ==
  /\ rec' = [rec EXCEPT ![c] = r]
  /\ UNCHANGED <<boot, trace, traceDb, file, batch, tables, cleanup, events>>

\* start_recording takes the slot, finds the bridge not stopped and opens the
\* files in a blocking task ...
StartRecording(c) ==
  /\ Running /\ c \in Recorded /\ Active(c) /\ rec[c].start = "no"
  /\ SetRec(c, [rec[c] EXCEPT !.start = IF rec[c].stop = "no" THEN "opening" ELSE "refused"])

\* No codec of the recorder's, or the files cannot be created
OpenFails(r) == [r EXCEPT !.start = "refused"]

\* ... and then publishes the tap and fills the slot, or fails
StartedRecording(c) ==
  /\ Running /\ rec[c].start = "opening"
  /\ \/ SetRec(c, [rec[c] EXCEPT !.start = "started", !.tap = TRUE, !.slot = TRUE])
     \/ SetRec(c, OpenFails(rec[c]))

\* A relay forwards a packet: it clones the tap under the read lock ...
CloneTap(c) ==
  /\ Running /\ rec[c].tap /\ ~rec[c].clone /\ rec[c].stop \in {"no", "cleared"}
  /\ rec[c].seen < MaxPackets
  /\ SetRec(c, [rec[c] EXCEPT !.clone = TRUE, !.seen = @ + 1])

\* ... and tap sends it; a full queue, or a thread that is gone, drops it
Tap(c) ==
  /\ Running /\ rec[c].clone
  /\ SetRec(c, IF rec[c].queue < RecCapacity /\ rec[c].status = "none"
               THEN [rec[c] EXCEPT !.clone = FALSE, !.queue = @ + 1]
               ELSE [rec[c] EXCEPT !.clone = FALSE, !.dropped = TRUE])

\* write_packet
Written(r) == [r EXCEPT !.written = TRUE]

\* run_recorder takes a packet; one of no payload type of the call is skipped
RecordPacket(c) ==
  /\ Running /\ rec[c].queue > 0 /\ rec[c].status = "none"
  /\ LET taken == [rec[c] EXCEPT !.queue = @ - 1] IN
       SetRec(c, taken) \/ SetRec(c, Written(taken))

\* Mutant: the thread ends with the bridge, not with its last sender.
MutantSenders(c) == rec[c].stop = "no"

\* The senders that keep the recorder's channel open
Senders(c) == rec[c].slot \/ rec[c].tap \/ rec[c].clone

\* interleave_wav renames the finished file into place
Interleaved(c) == file \cup {c}

\* recv ends when the channel is empty and without a sender: the WAV is
\* made unless nothing was written, and then the counters are read
FinishRecorder(c) ==
  /\ Running /\ rec[c].start = "started" /\ rec[c].status = "none"
  /\ rec[c].queue = 0 /\ ~Senders(c)
  /\ file' = IF rec[c].written THEN Interleaved(c) ELSE file
  /\ rec' = [rec EXCEPT ![c].status =
               CASE ~rec[c].written -> "no_media"
                 [] rec[c].written /\ rec[c].dropped -> "incomplete"
                 [] OTHER -> "complete"]
  /\ UNCHANGED <<boot, trace, traceDb, batch, tables, cleanup, events>>

\* An I/O error: failed_record removes the parts.  The queue is gone.
RecorderFails(c) ==
  /\ Running /\ rec[c].start = "started" /\ rec[c].status = "none" /\ events < MaxEvents
  /\ events' = events + 1
  /\ rec' = [rec EXCEPT ![c].status = "failed", ![c].queue = 0]
  /\ UNCHANGED <<boot, trace, traceDb, file, batch, tables, cleanup>>

\* MediaBridge::stop: the bridge is stopped and the tap cleared; without a
\* recording nothing below waits ...
StopBridge(c) ==
  /\ Running /\ Active(c) /\ rec[c].stop = "no"
  /\ "StartDuringStop" \in Races \/ rec[c].start # "opening"
  /\ SetRec(c, [rec[c] EXCEPT !.stop = IF c \in Recorded THEN "cleared" ELSE "stopped",
                              !.tap = FALSE])

\* ... the relays are aborted and awaited ...
AwaitRelays(c) ==
  /\ Running /\ rec[c].stop = "cleared" /\ ~rec[c].clone
  /\ SetRec(c, [rec[c] EXCEPT !.stop = "quiet"])

\* Mutant: finish joins the thread while the session still holds a sender.
MutantTakeRecording(c) ==
  /\ Running /\ rec[c].stop = "quiet" /\ rec[c].start # "opening"
  /\ SetRec(c, [rec[c] EXCEPT !.stop = IF rec[c].slot THEN "joining" ELSE "stopped"])

\* ... the session is taken from the slot, waiting for a start under way, and
\* finish drops its senders and joins the thread
TakeRecording(c) ==
  /\ Running /\ rec[c].stop = "quiet" /\ rec[c].start # "opening"
  /\ SetRec(c, [rec[c] EXCEPT !.stop = IF rec[c].slot THEN "joining" ELSE "stopped",
                              !.slot = FALSE])

JoinRecorder(c) ==
  /\ Running /\ rec[c].stop = "joining" /\ rec[c].status # "none"
  /\ SetRec(c, [rec[c] EXCEPT !.stop = "stopped"])

----------------------------------------------------------------------------
(* The batch of a call *)

\* The status finalize_call puts into the batch: a recording that was asked
\* for and did not start is a failed one
RecordingStatus(c) ==
  IF rec[c].status = "none" /\ c \in Recorded THEN "failed" ELSE rec[c].status

\* finalize_call, after the bridge stopped
FinalizeCall(c) ==
  /\ Running /\ Active(c) /\ rec[c].stop = "stopped"
  /\ batch' = [batch EXCEPT ![c] = [state |-> "spooled",
                                    ended |-> Cardinality({d \in Calls : batch[d].ended > 0}) + 1,
                                    available |-> c \in tracked,
                                    status |-> RecordingStatus(c)]]
  /\ UNCHANGED <<boot, trace, traceDb, rec, file, tables, cleanup, events>>

\* Mutant: the completion takes over the incomplete flag of the batch.
MutantCompleteTrace(table, c, ended) ==
  [table EXCEPT ![c] = [ended |-> ended, incomplete |-> FALSE]]

\* complete_trace_statement, with the flag a batch always clears
CompleteTrace(table, c, ended) ==
  [table EXCEPT ![c] = [ended |-> ended,
                        incomplete |-> table[c] # None /\ table[c].incomplete]]

\* Mutant: one trace too few is kept.
MutantKeepsFewer(table) ==
  LET ended == {c \in Calls : table[c] # None /\ table[c].ended > 0}
      Newer(d, c) == table[d].ended > table[c].ended \/ (table[d].ended = table[c].ended /\ d > c)
  IN {c \in ended : Cardinality({d \in ended : Newer(d, c)}) + 1 >= Keep}

\* The calls both statements of trace_retention_statements select: the ended
\* ones after the first Keep, newest first
Expired(table) ==
  LET ended == {c \in Calls : table[c] # None /\ table[c].ended > 0}
      Newer(d, c) == table[d].ended > table[c].ended \/ (table[d].ended = table[c].ended /\ d > c)
  IN {c \in ended : Cardinality({d \in ended : Newer(d, c)}) >= Keep}

\* The messages go, and then the calls
Retain(table) ==
  /\ traceMsg' = {m \in traceMsg : m[1] \notin Expired(table)}
  /\ traceCall' = [c \in Calls |-> IF c \in Expired(table) THEN None ELSE table[c]]

HasFile(status) == status \in {"complete", "incomplete"}

\* recording_upsert_statement: a replay overwrites the status and the path
UpsertRecording(c) ==
  row' = IF batch[c].status = "none" THEN row
         ELSE [row EXCEPT ![c] = [status |-> batch[c].status, path |-> HasFile(batch[c].status)]]

\* cdr_upsert_statement: a replay never takes trace_available back
UpsertCdr(c) ==
  cdr' = [cdr EXCEPT ![c] =
            [available |-> batch[c].available \/ (cdr[c] # None /\ cdr[c].available)]]

\* persist_cdr_batch: one transaction
PersistBatch(c) ==
  /\ Running /\ batch[c].state = "spooled"
  /\ UpsertRecording(c) /\ UpsertCdr(c)
  /\ IF batch[c].available
     THEN Retain(CompleteTrace(traceCall, c, batch[c].ended))
     ELSE UNCHANGED traceDb
  /\ batch' = [batch EXCEPT ![c].state = "stored"]
  /\ UNCHANGED <<boot, trace, rec, file, cleanup, events>>

\* The spool worker moves its checkpoint past the batch
Acknowledge(c) ==
  /\ Running /\ batch[c].state = "stored"
  /\ batch' = [batch EXCEPT ![c].state = "acked"]
  /\ UNCHANGED <<boot, trace, traceDb, rec, file, tables, cleanup, events>>

----------------------------------------------------------------------------
(* cleanup_recordings, every hour *)

\* A row gets older than the retention, or the files exceed the size limit
Age(c) ==
  /\ row[c] # None /\ c \notin aged
  /\ aged' = aged \cup {c}
  /\ UNCHANGED <<boot, trace, traceDb, rec, file, batch, tables, sweep, removed, events>>

Cleanable(c) == row[c] # None /\ row[c].status \in {"complete", "incomplete", "failed", "no_media"}

\* The rows are read once ...
BeginCleanup ==
  /\ Running /\ sweep = {} /\ removed = {}
  /\ \E c \in aged : Cleanable(c)
  /\ sweep' = {c \in aged : Cleanable(c)}
  /\ UNCHANGED <<boot, trace, traceDb, rec, file, batch, tables, aged, removed, events>>

\* Mutant: a file that is gone is no reason to update the row.
MutantRemoveFile(c) ==
  /\ Running /\ removed = {} /\ c \in sweep
  /\ sweep' = sweep \ {c}
  /\ removed' = IF row[c].path /\ c \notin file THEN {} ELSE {c}
  /\ file' = file \ {c}
  /\ UNCHANGED <<boot, trace, traceDb, rec, batch, tables, aged, events>>

\* ... then, row by row, the file is removed; one that is gone already is
\* not an error ...
RemoveFile(c) ==
  /\ Running /\ removed = {} /\ c \in sweep
  /\ sweep' = sweep \ {c}
  /\ removed' = {c}
  /\ file' = file \ {c}
  /\ UNCHANGED <<boot, trace, traceDb, rec, batch, tables, aged, events>>

\* ... an error removing it ends the cleanup ...
RemoveFileFails(c) ==
  /\ Running /\ removed = {} /\ c \in sweep /\ c \in file /\ events < MaxEvents
  /\ events' = events + 1
  /\ sweep' = {}
  /\ UNCHANGED <<boot, trace, traceDb, rec, file, batch, tables, aged, removed>>

\* ... and the row expires
ExpireRow(c) ==
  /\ Running /\ c \in removed
  /\ removed' = {}
  /\ row' = [row EXCEPT ![c] = [status |-> "expired", path |-> FALSE]]
  /\ UNCHANGED <<boot, trace, traceDb, rec, file, batch, cdr, aged, sweep, events>>

----------------------------------------------------------------------------

\* Memory is gone: queued messages, recorders and the cleanup.  A batch whose
\* acknowledgement was not written is replayed; an active call has no batch.
Crash ==
  /\ up # "down" /\ events < MaxEvents
  /\ events' = events + 1
  /\ up' = "down"
  /\ tracked' = {} /\ traceQueue' = << >> /\ marking' = {}
  /\ rec' = [c \in Calls |-> Idle]
  /\ batch' = [c \in Calls |->
                 CASE batch[c].state = "stored" -> [batch[c] EXCEPT !.state = "spooled"]
                   [] Active(c) -> [batch[c] EXCEPT !.state = "lost"]
                   [] OTHER -> batch[c]]
  /\ sweep' = {} /\ removed' = {}
  /\ UNCHANGED <<legacy, migrated, tracing, observed, traceDb, file, tables, aged>>

Init ==
  /\ up = "down" /\ migrated = {} /\ events = 0
  /\ legacy = Legacy(LegacyDomains)
  /\ tracing = TRUE /\ observed = [c \in Calls |-> 0]
  /\ tracked = {} /\ traceQueue = << >> /\ marking = {}
  /\ traceCall = [c \in Calls |-> None] /\ traceMsg = {}
  /\ rec = [c \in Calls |-> Idle] /\ file = {}
  /\ batch = [c \in Calls |-> NoBatch] /\ row = [c \in Calls |-> None]
  /\ cdr = [c \in Calls |-> None]
  /\ aged = {} /\ sweep = {} /\ removed = {}

Recorder(c) == StartedRecording(c) \/ Tap(c) \/ RecordPacket(c) \/ FinishRecorder(c)
Stopping(c) == AwaitRelays(c) \/ TakeRecording(c) \/ JoinRecorder(c)
Finalizing(c) == FinalizeCall(c) \/ PersistBatch(c) \/ Acknowledge(c)
Cleaning == BeginCleanup \/ \E c \in Calls : RemoveFile(c) \/ ExpireRow(c)
Starting == Boot \/ DropTables \/ \E d \in LegacyDomains : MigrateDomain(d)
Writing == WriteTrace \/ \E c \in Calls : MarkIncomplete(c)

Next ==
  \/ Starting \/ MigrateFails \/ TraceOff \/ Writing \/ WriteTraceFails \/ Cleaning \/ Crash
  \/ \E c \in Calls :
       \/ Record(c) \/ Unrecorded(c)
       \/ StartRecording(c) \/ CloneTap(c) \/ Recorder(c) \/ RecorderFails(c)
       \/ StopBridge(c) \/ Stopping(c) \/ Finalizing(c)
       \/ Age(c) \/ RemoveFileFails(c)

Spec == Init /\ [][Next]_vars

\* The process is restarted, its threads run, and the cleanup task wakes up
\* every hour; calls, messages and packets may or may not come.
FairSpec ==
  /\ Spec
  /\ WF_vars(Starting) /\ WF_vars(Writing) /\ WF_vars(Cleaning)
  /\ \A c \in Calls : WF_vars(Recorder(c)) /\ WF_vars(Stopping(c)) /\ WF_vars(Finalizing(c))

----------------------------------------------------------------------------
(* Properties *)

\* The variables have their types
TypeOK ==
  /\ up \in {"down", "migrating", "running"}
  /\ legacy \in [tables : BOOLEAN, rows : SUBSET LegacyDomains] /\ migrated \subseteq LegacyDomains
  /\ tracing \in BOOLEAN /\ observed \in [Calls -> 0..MaxMessages]
  /\ tracked \subseteq Calls /\ marking \subseteq Calls
  /\ Len(traceQueue) <= QueueCapacity
  /\ \A i \in DOMAIN traceQueue : traceQueue[i] \in
       [kind : {"record", "mark"}, call : Calls, seq : 0..MaxMessages]
  /\ traceCall \in [Calls -> {None} \cup [ended : 0..Cardinality(Calls), incomplete : BOOLEAN]]
  /\ traceMsg \subseteq Calls \X (1..MaxMessages)
  /\ \A c \in Calls : rec[c].queue \in 0..RecCapacity /\ rec[c].seen \in 0..MaxPackets
  /\ file \subseteq Calls /\ aged \subseteq Calls /\ sweep \subseteq Calls /\ removed \subseteq Calls
  /\ \A c \in Calls : batch[c].state \in {"active", "spooled", "stored", "acked", "lost"}
  /\ events \in 0..MaxEvents

\* A stored message belongs to a stored call: a message written late, after the
\* retention removed its call, brings the call's row back with it
NoOrphanMessages == \A m \in traceMsg : traceCall[m[1]] # None

\* Ended traces never exceed the retention, whatever replays and crashes do
RetentionBound == Cardinality({c \in Calls : traceCall[c] # None /\ traceCall[c].ended > 0}) <= Keep

\* A stored trace that was marked incomplete is never shown as complete later,
\* and the retention removes the trace of no call that has not ended
TraceNotRewritten ==
  [][\A c \in Calls : traceCall[c] # None =>
       IF traceCall'[c] = None THEN batch[c].ended > 0
       ELSE traceCall[c].incomplete => traceCall'[c].incomplete]_vars

\* A CDR that shows a trace has one, or newer traces have taken its place:
\* neither a replay nor a message written late makes the index point to nothing
TraceIndexed ==
  \A c \in Calls : cdr[c] # None /\ cdr[c].available /\ traceCall[c] = None =>
    Cardinality({d \in Calls : traceCall[d] # None /\ traceCall[d].ended > 0}) >= Keep

\* A recording stored as complete lost no packet, though the relays tap from
\* other threads while the bridge stops, and no packet comes after it
CompleteLostNothing == \A c \in Calls : rec[c].status = "complete" => ~rec[c].dropped

\* An expired row has no file left that nobody would ever remove
ExpiredHasNoFile == \A c \in Calls : row[c] # None /\ row[c].status = "expired" => c \notin file

\* The rows of an older version are in the system database or in their
\* domain's, wherever a start was cut short
LegacyKept == legacy.rows \cup migrated = LegacyDomains

\* The tables and the files agree at every moment: the type invariant and the
\* facts above about traces, expired recordings and migrated rows
StoreConsistent ==
  TypeOK /\ NoOrphanMessages /\ RetentionBound /\ TraceIndexed /\ ExpiredHasNoFile /\ LegacyKept

\* A row whose file is gone -- the cleanup was cut short between the two, or a
\* replayed batch wrote the row again -- expires in the end
MissingFileHeals ==
  \A c \in Calls : (row[c] # None /\ row[c].path /\ c \notin file) ~> (row[c] # None /\ row[c].status = "expired")

\* A bridge that is being stopped stops: the recorder's thread sees its last
\* sender go, and the call gets its batch
StopEnds == \A c \in Calls : rec[c].stop # "no" ~> batch[c].state # "active"
=============================================================================
