------------------------------ MODULE CdrSpool ------------------------------
(***************************************************************************)
(* The CDR pipeline of one domain: finalizers hand records to the writer   *)
(* task, which appends them to the segments of a durable spool; a worker   *)
(* replays the spool into the database and moves a checkpoint.  The        *)
(* process may crash between any two steps and inside an append.           *)
(*                                                                         *)
(* A frame of a segment is one record; offsets count frames.               *)
(***************************************************************************)
EXTENDS Integers, FiniteSets, Sequences

CONSTANTS
  Cdrs,           \* the records of the domain's calls
  SegmentFrames,  \* SEGMENT_SIZE_LIMIT, in frames
  Capacity,       \* CDR_WRITER_QUEUE_CAPACITY, the permits of the domain
  Limits,         \* the watermarks an operator may set, in frames
  DefaultLimits,  \* the watermarks in force at the start
  MaxEvents,      \* bound on crashes, shutdowns, failed appends, corrupted
                  \* frames and changes of the limits
  Races           \* interleavings a run lets happen, out of AllRaces

AllRaces == {"AppendBeforeReplay", "StaleBacklog"}

ASSUME SpoolAssumption ==
  /\ SegmentFrames \in Nat \ {0} /\ Capacity \in Nat \ {0} /\ MaxEvents \in Nat
  /\ DefaultLimits \in Limits /\ Limits \subseteq [resume : Nat, reject : Nat]
  /\ \A l \in Limits : 0 < l.resume /\ l.resume <= l.reject
  /\ Races \subseteq AllRaces

VARIABLES
  call,        \* what the finalizer of each call knows of its record
  queue,       \* records the writer task has and has not appended
  stop,        \* the shutdown of the writer
  segs,        \* the segment files, in order; a removed one is empty
  checkpoint,  \* checkpoint.json
  quarantine,  \* records set aside in the quarantine directory
  db,          \* records in the database
  worker,      \* the domain worker: step, end of its replay, backlog it read
  wake,        \* the token in the worker's wake channel
  written,     \* backlog the writer read under the lock, to be reported
  adm,         \* SpoolAdmission: limits, last backlog, flags, update under way
  up,          \* the process runs
  recovered,   \* the worker has replayed the spool since the process started
  events

vars == <<call, queue, stop, segs, checkpoint, quarantine, db, worker, wake,
          written, adm, up, recovered, events>>
disk == <<segs, checkpoint, quarantine, db>>

None == -1
Frames == [kind : {"ok", "bad", "torn"}, cdr : Cdrs]
Frame(kind, r) == [kind |-> kind, cdr |-> r]

----------------------------------------------------------------------------
(* Positions in the spool *)

Position(s, i) == [seg |-> s, off |-> i]
Before(p, q) == p.seg < q.seg \/ (p.seg = q.seg /\ p.off < q.off)

FramesOf(log) == UNION {{Position(s, i) : i \in DOMAIN log[s]} : s \in DOMAIN log}
FrameAt(p) == segs[p.seg][p.off]

\* The frames that were not acknowledged
Unread == {p \in FramesOf(segs) : Before(checkpoint, p)}

\* backlog_bytes
Backlog == Cardinality(Unread)

\* The frame that follows the checkpoint
NextUnread == CHOOSE p \in Unread : \A q \in Unread : q = p \/ Before(p, q)

\* The worker and the writer take the domain's spool_lock for every file
\* operation; a reported backlog is applied after the lock was given back.
SpoolFree ==
  /\ worker.step # "purge"
  /\ "StaleBacklog" \in Races \/ (written = None /\ worker.step # "report" /\ adm.update = None)

----------------------------------------------------------------------------
(* SpoolAdmission *)

\* Mutant: the resume watermark is never looked at.
MutantUpdate(a, backlog) ==
  [a EXCEPT !.backlog = backlog, !.rejecting = @ \/ backlog >= a.limits.reject]

\* SpoolAdmission::update: the warning watermark only logs
Update(a, backlog) ==
  [a EXCEPT !.backlog = backlog,
            !.rejecting = IF @ THEN backlog >= a.limits.resume ELSE backlog >= a.limits.reject]

AppendFailure(a, failed) == [a EXCEPT !.appendFailed = failed]

AdmitsNewCall == ~adm.rejecting /\ ~adm.appendFailed

\* set_limits stores the limits and collects the backlogs ...
SetLimits(l) ==
  /\ up /\ adm.update = None /\ l # adm.limits /\ events < MaxEvents
  /\ SpoolFree
  /\ events' = events + 1
  /\ adm' = [adm EXCEPT !.limits = l, !.update = adm.backlog]
  /\ UNCHANGED <<call, queue, stop, disk, worker, wake, written, up, recovered>>

\* ... and then updates each domain with the backlog it collected
ApplyLimits ==
  /\ up /\ adm.update # None
  /\ adm' = [Update(adm, adm.update) EXCEPT !.update = None]
  /\ UNCHANGED <<call, queue, stop, disk, worker, wake, written, up, recovered, events>>

----------------------------------------------------------------------------
(* The finalizers: enqueue_durable *)

Waiting == {r \in Cdrs : call[r] \in {"permit", "queued"}}

StartCall(r) ==
  /\ up /\ stop = "no" /\ call[r] = "none" /\ AdmitsNewCall
  /\ call' = [call EXCEPT ![r] = "active"]
  /\ UNCHANGED <<queue, stop, disk, worker, wake, written, adm, up, recovered, events>>

AcquirePermit(r) ==
  /\ up /\ call[r] = "active"
  /\ stop = "no" => Cardinality(Waiting) < Capacity
  /\ call' = [call EXCEPT ![r] = IF stop = "no" THEN "permit" ELSE "refused"]
  /\ UNCHANGED <<queue, stop, disk, worker, wake, written, adm, up, recovered, events>>

SendWrite(r) ==
  /\ up /\ call[r] = "permit"
  /\ IF stop \in {"no", "asked"}
     THEN call' = [call EXCEPT ![r] = "queued"] /\ queue' = Append(queue, r)
     ELSE call' = [call EXCEPT ![r] = "refused"] /\ UNCHANGED queue
  /\ UNCHANGED <<stop, disk, worker, wake, written, adm, up, recovered, events>>

----------------------------------------------------------------------------
(* The writer task *)

LastSegment == Len(segs)

\* The segments after a frame was written: a full segment is closed
WithFrame(f) ==
  IF LastSegment = 0 \/ Len(segs[LastSegment]) >= SegmentFrames
  THEN Append(segs, <<f>>)
  ELSE [segs EXCEPT ![LastSegment] = Append(@, f)]

\* Nothing keeps the writer from appending to a segment whose tail the worker
\* has not recovered yet.
MayAppend ==
  /\ up /\ queue # <<>> /\ written = None /\ SpoolFree
  /\ recovered \/ "AppendBeforeReplay" \in Races

\* append_and_wake up to the end of its blocking task
AppendFrame ==
  /\ MayAppend
  /\ segs' = WithFrame(Frame("ok", Head(queue)))
  /\ written' = Backlog + 1
  /\ UNCHANGED <<call, queue, stop, checkpoint, quarantine, db, worker, wake, adm, up,
                 recovered, events>>

\* Mutant: the finalizer is told Ok when the append has failed.
MutantAppendFails(frameStays) ==
  /\ MayAppend /\ events < MaxEvents
  /\ segs' = IF frameStays THEN WithFrame(Frame("ok", Head(queue))) ELSE segs
  /\ call' = [call EXCEPT ![Head(queue)] = "durable"]
  /\ queue' = Tail(queue)
  /\ adm' = AppendFailure(adm, TRUE)
  /\ events' = events + 1
  /\ UNCHANGED <<stop, checkpoint, quarantine, db, worker, wake, written, up, recovered>>

\* A failed append keeps the record at the head of the queue for the retry
\* tick; the frame stays when only the sync of the directory failed.
AppendFails(frameStays) ==
  /\ MayAppend /\ events < MaxEvents
  /\ segs' = IF frameStays THEN WithFrame(Frame("ok", Head(queue))) ELSE segs
  /\ adm' = AppendFailure(adm, TRUE)
  /\ events' = events + 1
  /\ UNCHANGED <<call, queue, stop, checkpoint, quarantine, db, worker, wake, written, up,
                 recovered>>

\* Mutant: the worker is not woken.
MutantReportAppend ==
  /\ up /\ written # None
  /\ adm' = AppendFailure(Update(adm, written), FALSE)
  /\ call' = [call EXCEPT ![Head(queue)] = "durable"]
  /\ queue' = Tail(queue)
  /\ written' = None
  /\ UNCHANGED <<stop, disk, worker, wake, up, recovered, events>>

\* The tail of append_and_wake and of flush_pending_domain
ReportAppend ==
  /\ up /\ written # None
  /\ adm' = AppendFailure(Update(adm, written), FALSE)
  /\ wake' = TRUE
  /\ call' = [call EXCEPT ![Head(queue)] = "durable"]
  /\ queue' = Tail(queue)
  /\ written' = None
  /\ UNCHANGED <<stop, disk, worker, up, recovered, events>>

----------------------------------------------------------------------------
(* The domain worker *)

Idle == [step |-> "idle", end |-> Position(0, 0), backlog |-> 0]

WorkerWakes ==
  /\ up /\ worker.step = "idle" /\ wake
  /\ wake' = FALSE
  /\ worker' = [worker EXCEPT !.step = "load"]
  /\ UNCHANGED <<call, queue, stop, disk, written, adm, up, recovered, events>>

\* The incomplete frames a replay comes across
Torn(s) ==
  {i \in DOMAIN segs[s] : segs[s][i].kind = "torn" /\ Before(checkpoint, Position(s, i))}

\* Where the replay cuts a segment: at its first incomplete frame
CutOf(s) == CHOOSE i \in Torn(s) : \A k \in Torn(s) : i <= k
Kept(s) == IF Torn(s) = {} THEN segs[s] ELSE SubSeq(segs[s], 1, CutOf(s) - 1)
Recovered == [s \in DOMAIN segs |-> Kept(s)]

\* What follows an incomplete frame cannot be read as frames any more.
Behind(s) ==
  IF s \notin DOMAIN segs \/ Torn(s) = {} THEN {} ELSE {segs[s][i].cdr : i \in (CutOf(s) + 1)..Len(segs[s])}

Invalid == {FrameAt(p).cdr : p \in {q \in Unread \cap FramesOf(Recovered) : FrameAt(q).kind = "bad"}}

\* replay: invalid frames and the rest of a closed segment are quarantined.
\* In the latest segment the bytes after the cut are dropped, or quarantined
\* when they read as a frame of an impossible length.
LoadEntries(keep) ==
  LET unread == {p \in FramesOf(Recovered) : Before(checkpoint, p)}
  IN /\ up /\ worker.step = "load" /\ SpoolFree
     /\ segs' = Recovered
     /\ quarantine' = quarantine \cup Invalid
                        \cup (UNION {Behind(s) : s \in 1..(LastSegment - 1)})
                        \cup (IF keep THEN Behind(LastSegment) ELSE {})
     /\ worker' = IF unread = {} THEN Idle
                  ELSE [worker EXCEPT !.step = "work",
                          !.end = CHOOSE p \in unread : \A q \in unread : q = p \/ Before(q, p)]
     /\ recovered' = TRUE
     /\ UNCHANGED <<call, queue, stop, checkpoint, db, wake, written, adm, up, events>>

\* persist_cdr_batch is one transaction of upserts
PersistRecord ==
  /\ up /\ worker.step = "work" /\ FrameAt(NextUnread).kind = "ok"
  /\ db' = db \cup {FrameAt(NextUnread).cdr}
  /\ worker' = [worker EXCEPT !.step = "ack"]
  /\ UNCHANGED <<call, queue, stop, segs, checkpoint, quarantine, wake, written, adm, up,
                 recovered, events>>

SkipQuarantined ==
  /\ up /\ worker.step = "work" /\ FrameAt(NextUnread).kind = "bad"
  /\ worker' = [worker EXCEPT !.step = "ack"]
  /\ UNCHANGED <<call, queue, stop, disk, wake, written, adm, up, recovered, events>>

\* Mutant: the next entry is taken when the retries are exhausted.
MutantRetryLater ==
  /\ up /\ worker.step = "work"
  /\ worker' = [worker EXCEPT !.step = "ack"]
  /\ UNCHANGED <<call, queue, stop, disk, wake, written, adm, up, recovered, events>>

\* The database or the checkpoint failed: the spool is replayed again later
RetryLater ==
  /\ up
  /\ worker.step = "ack" \/ (worker.step = "work" /\ FrameAt(NextUnread).kind = "ok")
  /\ worker' = [worker EXCEPT !.step = "load"]
  /\ UNCHANGED <<call, queue, stop, disk, wake, written, adm, up, recovered, events>>

\* acknowledge: the checkpoint file is replaced ...
Acknowledge ==
  /\ up /\ worker.step = "ack" /\ SpoolFree
  /\ checkpoint' = NextUnread
  /\ worker' = [worker EXCEPT !.step = "purge"]
  /\ UNCHANGED <<call, queue, stop, segs, quarantine, db, wake, written, adm, up, recovered,
                 events>>

\* ... and the segments before it are removed
PurgeSegments ==
  /\ up /\ worker.step = "purge"
  /\ segs' = [s \in DOMAIN segs |-> IF s < checkpoint.seg THEN <<>> ELSE segs[s]]
  /\ worker' = [worker EXCEPT !.step = "refresh"]
  /\ UNCHANGED <<call, queue, stop, checkpoint, quarantine, db, wake, written, adm, up, recovered,
                 events>>

ReadBacklog ==
  /\ up /\ worker.step = "refresh" /\ SpoolFree
  /\ worker' = [worker EXCEPT !.step = "report", !.backlog = Backlog]
  /\ UNCHANGED <<call, queue, stop, disk, wake, written, adm, up, recovered, events>>

ReportBacklog ==
  /\ up /\ worker.step = "report"
  /\ adm' = Update(adm, worker.backlog)
  /\ worker' = [worker EXCEPT !.step = IF Before(checkpoint, worker.end) THEN "work" ELSE "load",
                              !.backlog = 0]
  /\ UNCHANGED <<call, queue, stop, disk, wake, written, up, recovered, events>>

----------------------------------------------------------------------------
(* Shutdown, crashes and restarts *)

\* CdrWriter::shutdown closes the permits and sends the Shutdown message
AskShutdown ==
  /\ up /\ stop = "no" /\ events < MaxEvents
  /\ events' = events + 1
  /\ stop' = "asked"
  /\ UNCHANGED <<call, queue, disk, worker, wake, written, adm, up, recovered>>

CloseQueue ==
  /\ up /\ stop = "asked"
  /\ stop' = "closed"
  /\ UNCHANGED <<call, queue, disk, worker, wake, written, adm, up, recovered, events>>

DrainWorkers ==
  /\ up /\ stop = "closed" /\ queue = <<>>
  /\ stop' = "draining"
  /\ wake' = TRUE
  /\ UNCHANGED <<call, queue, disk, worker, written, adm, up, recovered, events>>

\* The memory of the process is gone: nobody waits for an answer any more
Down ==
  /\ call' = [r \in Cdrs |-> IF call[r] \in {"active", "permit", "queued"} THEN "lost" ELSE call[r]]
  /\ queue' = <<>> /\ written' = None /\ worker' = Idle /\ wake' = FALSE /\ stop' = "no"
  /\ adm' = [adm EXCEPT !.backlog = 0, !.rejecting = FALSE, !.appendFailed = FALSE, !.update = None]
  /\ up' = FALSE /\ recovered' = FALSE

\* The process ends once the workers have drained or their deadline passed
Exit ==
  /\ up /\ stop = "draining"
  /\ Down
  /\ UNCHANGED <<disk, events>>

Crash ==
  /\ up /\ events < MaxEvents
  /\ Down
  /\ events' = events + 1
  /\ UNCHANGED disk

\* A crash inside the append leaves an incomplete frame, or a whole one that
\* nobody was told of
CrashInAppend(kind) ==
  /\ MayAppend /\ events < MaxEvents
  /\ segs' = WithFrame(Frame(kind, Head(queue)))
  /\ Down
  /\ events' = events + 1
  /\ UNCHANGED <<checkpoint, quarantine, db>>

\* A stored frame does not pass its check sum any more
Corrupt(p) ==
  /\ ~up /\ events < MaxEvents
  /\ FrameAt(p).kind = "ok"
  /\ segs' = [segs EXCEPT ![p.seg][p.off].kind = "bad"]
  /\ events' = events + 1
  /\ UNCHANGED <<call, queue, stop, checkpoint, quarantine, db, worker, wake, written, adm, up,
                 recovered>>

\* spawn and start_replay_workers
Restart ==
  /\ ~up
  /\ up' = TRUE
  /\ adm' = Update(adm, Backlog)
  /\ wake' = TRUE
  /\ UNCHANGED <<call, queue, stop, disk, worker, written, recovered, events>>

----------------------------------------------------------------------------
Init ==
  /\ call = [r \in Cdrs |-> "none"] /\ queue = <<>> /\ stop = "no"
  /\ segs = <<>> /\ checkpoint = Position(0, 0)
  /\ quarantine = {} /\ db = {}
  /\ worker = Idle /\ wake = FALSE /\ written = None
  /\ adm = [limits |-> DefaultLimits, backlog |-> 0, rejecting |-> FALSE, appendFailed |-> FALSE,
            update |-> None]
  /\ up = TRUE /\ recovered = TRUE /\ events = 0

WorkerStep ==
  \/ WorkerWakes \/ PersistRecord \/ SkipQuarantined \/ RetryLater \/ Acknowledge
  \/ PurgeSegments \/ ReadBacklog \/ ReportBacklog
  \/ \E keep \in BOOLEAN :
       (keep \/ Behind(LastSegment) # {}) /\ LoadEntries(keep)

Next ==
  \/ \E r \in Cdrs : StartCall(r) \/ AcquirePermit(r) \/ SendWrite(r)
  \/ \E l \in Limits : SetLimits(l)
  \/ ApplyLimits
  \/ AppendFrame \/ ReportAppend
  \/ \E stays \in BOOLEAN : AppendFails(stays)
  \/ WorkerStep
  \/ AskShutdown \/ CloseQueue \/ DrainWorkers \/ Exit
  \/ Crash \/ Restart
  \/ \E kind \in {"ok", "torn"} : CrashInAppend(kind)
  \/ \E p \in FramesOf(segs) : Corrupt(p)

Spec == Init /\ [][Next]_vars

\* Tasks of a running process go on, the process is started again, and a
\* database or a disk that fails works again before the retries end for good.
FairSpec ==
  /\ Spec
  /\ WF_vars(AppendFrame) /\ WF_vars(ReportAppend) /\ WF_vars(ApplyLimits)
  /\ WF_vars(WorkerStep) /\ SF_vars(PersistRecord) /\ SF_vars(Acknowledge)
  /\ WF_vars(CloseQueue \/ DrainWorkers \/ Exit \/ Restart)

----------------------------------------------------------------------------
(* Properties *)

\* The finalizers, the writer, the worker and the files are typed, and the
\* writer never holds more records than it gave permits.
TypeOK ==
  /\ call \in [Cdrs -> {"none", "active", "permit", "queued", "durable", "refused", "lost"}]
  /\ queue \in Seq(Cdrs) /\ Len(queue) <= Capacity
  /\ stop \in {"no", "asked", "closed", "draining"}
  /\ segs \in Seq(Seq(Frames))
  /\ checkpoint \in [seg : Nat, off : Nat]
  /\ quarantine \subseteq Cdrs /\ db \subseteq Cdrs
  /\ worker \in [step : {"idle", "load", "work", "ack", "purge", "refresh", "report"},
                 end : [seg : Nat, off : Nat], backlog : Nat]
  /\ wake \in BOOLEAN /\ written \in Nat \cup {None}
  /\ adm \in [limits : Limits, backlog : Nat, rejecting : BOOLEAN, appendFailed : BOOLEAN,
              update : Nat \cup {None}]
  /\ up \in BOOLEAN /\ recovered \in BOOLEAN /\ events \in 0..MaxEvents

\* A record whose finalizer was told Ok is in the database, in quarantine or
\* still in a frame the next replay reads, through crashes inside an append,
\* between persist_cdr_batch and acknowledge and between checkpoint and purge.
DurableIsKept ==
  \A r \in Cdrs : call[r] = "durable" =>
    r \in db \cup quarantine \cup {FrameAt(p).cdr : p \in {q \in Unread : FrameAt(q).kind # "torn"}}

\* The checkpoint never passes a frame that was neither persisted nor set
\* aside, whichever of the retries and failures the worker went through.
CheckpointIsSettled ==
  \A p \in FramesOf(segs) \ Unread : FrameAt(p).kind # "torn" => FrameAt(p).cdr \in db \cup quarantine

\* Calls are rejected for the spool's size only as long as the spool is
\* large: after the backlog was replayed the domain admits calls again.
AdmissionRecovers == (adm.rejecting /\ Backlog = 0) ~> (AdmitsNewCall \/ Backlog > 0 \/ ~up)

\* The writer stops only when every record it took has its answer, those that
\* were sent while the shutdown was under way included.
ShutdownAnswersAll == stop = "draining" => \A r \in Cdrs : call[r] # "queued"

\* The writer and the worker keep their accounts: the type invariant, and the
\* two facts above about the checkpoint and about the shutdown.
PipelineSafe == TypeOK /\ CheckpointIsSettled /\ ShutdownAnswersAll

Promised == {r \in Cdrs : call[r] = "durable"}
Settled == db \cup quarantine
Log == INSTANCE CdrLog WITH promised <- Promised, settled <- Settled

\* The pipeline implements CdrLog: what was promised stays promised and is
\* settled in the end, over any number of crashes, retries and replays.
ImplementsLog == Log!Spec
=============================================================================
