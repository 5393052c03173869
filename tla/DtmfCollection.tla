---------------------------- MODULE DtmfCollection ----------------------------
(***************************************************************************)
(* Digit collection on one leg of one call: the operation service behind   *)
(* the dtmf commands, the collectors of the call's coordinator, the media  *)
(* worker with its capability leases, the RFC 4733 parser in the relay and *)
(* the arbitration between RFC 4733 and SIP INFO digits.                   *)
(*                                                                         *)
(* A press is a key the user pushes: its packets, of which any may be      *)
(* lost, are one or more of its beginning, then its end, then the end      *)
(* again; the phone may send it by SIP INFO too.                           *)
(***************************************************************************)
EXTENDS Integers, FiniteSets, Sequences

CONSTANTS
  Ops,               \* operations, 1..n, in the order they are started
  MaxDigits,         \* max_digits of each operation; min_digits is 1
  Presses,           \* key presses, 1..n, one after the other
  Terminators,       \* the presses of a terminator key, for each operation
  InfoPresses,       \* the presses the phone may send by SIP INFO too
  MaxNegotiations,   \* bound on the SDP negotiations during the call
  MaxWork,           \* bound on all of: operations, cancellations, presses, negotiations, faults, end
  OpCapacity,        \* DTMF_OPERATION_QUEUE_CAPACITY
  HistoryCapacity,   \* DTMF_OPERATION_HISTORY_CAPACITY
  EventCapacity,     \* COORDINATOR_EVENT_MAILBOX_CAPACITY
  CollectorCapacity, \* DTMF_COLLECTOR_CAPACITY
  MediaCapacity,     \* MEDIA_ACTION_QUEUE_CAPACITY
  Races              \* interleavings a run lets happen, out of AllRaces

AllRaces == {"CancelAfterResult", "LateObservation", "RepeatAcrossModes"}

ASSUME DtmfAssumption ==
  /\ IsFiniteSet(Ops) /\ Ops = 1..Cardinality(Ops)
  /\ IsFiniteSet(Presses) /\ Presses = 1..Cardinality(Presses)
  /\ MaxDigits \in [Ops -> Nat \ {0}] /\ Terminators \in [Ops -> SUBSET Presses] /\ InfoPresses \subseteq Presses
  /\ {MaxNegotiations, MaxWork} \subseteq Nat /\ Races \subseteq AllRaces
  /\ {OpCapacity, HistoryCapacity, EventCapacity, CollectorCapacity, MediaCapacity} \subseteq Nat \ {0}

VARIABLES
  status,     \* DtmfOperationView.status of each operation
  order,      \* the operations in the service's history
  attached,   \* the service is attached to the adapter's connection
  opq,        \* DtmfRuntimeOperations on their way to the connection
  evq,        \* StartDigitCollection and CancelDigitCollection for the coordinator
  task,       \* the task that awaits the replies of each operation
  ready,      \* its ready_reply
  result,     \* its result_reply
  reply,      \* the reply to its cancellation
  call,       \* the call: talking, ending, gone
  mgen,       \* the actor's media_generation
  col,        \* dtmf_collectors
  mq,         \* the media worker's queue
  worker,     \* what the media worker is doing
  results,    \* the media worker's results on their way to the coordinator
  heard,      \* digits on their way to the coordinator
  lease,      \* the capability leases
  config,     \* the parser configuration of the leg
  spent,      \* how much of MaxWork is spent
  stopped,    \* the media bridge stopped
  parser,     \* the configuration the relay has applied
  parsed,     \* the parser's state of each press: no, active, recent
  press,      \* how far each press is: 0, 1 down, 2 end sent, 3 end sent again
  lock,       \* DtmfSourceState: the transport and generation digits come by
  recent,     \* DtmfSourceState: the events of that generation
  relayed,    \* <<transport, press>>: its end, or its INFO, went on to the peer
  consumed    \* <<transport, press>>: a collector of mode collect took it

service == <<status, order, attached, opq>>
replies == <<task, ready, result, reply>>
media == <<mq, worker, lease, config>>
relay == <<parser, parsed, press, relayed>>
source == <<lock, recent, consumed>>
vars == <<service, evq, replies, call, mgen, col, media, results, heard, spent, stopped, relay, source>>

Terminal == {"completed", "cancelled", "failed", "disconnected", "unreachable", "notFound"}
NoCollector == [phase |-> "none", mode |-> "observe", digits |-> << >>, cancel |-> FALSE, code |-> "none"]
NoLease == [state |-> "none", mode |-> "observe"]
Idle == [step |-> "idle", op |-> 0, gen |-> 0]

----------------------------------------------------------------------------
(* DtmfOperationService *)

\* update: an operation in the history that is not terminal gets a new status
Updated(f, o, new) == IF f[o] \in Terminal \cup {"none", "forgotten"} THEN f ELSE [f EXCEPT ![o] = new]

Update(o, new) == status' = Updated(status, o, new)

\* What comes from outside takes a share of the bound
Spend == spent < MaxWork /\ spent' = spent + 1

HasRoom == attached /\ Len(opq) < OpCapacity

\* trim_history, which looks at no status
Forgets(kept) == Len(kept) > HistoryCapacity

\* The modes of the dtmf command
Modes == {"observe", "collect"}

\* start
Start(o, mode) ==
  /\ HasRoom /\ status[o] = "none" /\ \A p \in 1..(o - 1) : status[p] # "none"
  /\ opq' = Append(opq, [kind |-> "start", op |-> o, mode |-> mode])
  /\ LET kept == Append(order, o)
         full == Forgets(kept)
     IN /\ order' = IF full THEN Tail(kept) ELSE kept
        /\ status' = LET added == [status EXCEPT ![o] = "pending"]
                     IN IF full THEN [added EXCEPT ![Head(kept)] = "forgotten"] ELSE added
  /\ Spend
  /\ UNCHANGED <<attached, evq, replies, call, mgen, col, media, results, heard, stopped, relay, source>>

\* cancel
Cancel(o) ==
  /\ HasRoom /\ status[o] \notin Terminal \cup {"none", "forgotten", "cancelling"}
  /\ opq' = Append(opq, [kind |-> "cancel", op |-> o, mode |-> "observe"])
  /\ status' = [status EXCEPT ![o] = "cancelling"]
  /\ Spend
  /\ UNCHANGED <<order, attached, evq, replies, call, mgen, col, media, results, heard, stopped, relay, source>>

\* Mutant: the operations stay as they are.
MutantDetached == status

\* Mutant: what was reported is lost.
MutantDetachedAll == [o \in Ops |-> IF status[o] \in {"none", "forgotten"} THEN status[o] ELSE "disconnected"]

\* detach_runtime fails every operation that is not terminal
Detached == [o \in Ops |-> Updated(status, o, "disconnected")[o]]

\* The connection's loop has ended, and has told its calls to end
Detach ==
  /\ attached /\ call # "talking"
  /\ attached' = FALSE /\ status' = Detached /\ opq' = << >>
  /\ UNCHANGED <<order, evq, replies, call, mgen, col, media, results, heard, spent, stopped, relay, source>>

\* handle_dtmf_runtime_operation
HandleOperation ==
  /\ attached /\ opq # << >>
  /\ opq' = Tail(opq)
  /\ LET m == Head(opq)
         reachable == call # "gone" /\ Len(evq) < EventCapacity
     IN /\ evq' = IF reachable THEN Append(evq, m) ELSE evq
        /\ Update(m.op, CASE ~reachable -> "unreachable"
                          [] reachable /\ m.kind = "start" -> "acquiring"
                          [] OTHER -> status[m.op])
        /\ task' = IF reachable /\ m.kind = "start" THEN [task EXCEPT ![m.op] = "ready"] ELSE task
        /\ reply' = IF reachable /\ m.kind = "cancel" THEN [reply EXCEPT ![m.op] = "wait"] ELSE reply
  /\ UNCHANGED <<order, attached, ready, result, call, mgen, col, media, results, heard, spent, stopped, relay, source>>

\* The task has the ready reply ...
TaskReady(o) ==
  /\ task[o] = "ready" /\ ready[o] # "wait"
  /\ task' = [task EXCEPT ![o] = "result"]
  /\ IF ready[o] = "ok" THEN Update(o, "ready") ELSE UNCHANGED status
  /\ UNCHANGED <<order, attached, opq, evq, ready, result, reply, call, mgen, col, media, results, heard,
                 spent, stopped, relay, source>>

\* ... and the result
TaskResult(o) ==
  /\ task[o] = "result" /\ result[o] # "wait"
  /\ task' = [task EXCEPT ![o] = "done"]
  /\ Update(o, CASE result[o] \in {"Completed", "Timeout"} -> "completed"
                 [] result[o] = "Cancelled" -> "cancelled"
                 [] OTHER -> "failed")
  /\ UNCHANGED <<order, attached, opq, evq, ready, result, reply, call, mgen, col, media, results, heard,
                 spent, stopped, relay, source>>

\* The cancellation was refused: no such collector, or no coordinator
CancelRefused(o) ==
  /\ reply[o] = "err"
  /\ task[o] # "done" => "CancelAfterResult" \in Races
  /\ reply' = [reply EXCEPT ![o] = "none"]
  /\ Update(o, "notFound")
  /\ UNCHANGED <<order, attached, opq, evq, task, ready, result, call, mgen, col, media, results, heard,
                 spent, stopped, relay, source>>

----------------------------------------------------------------------------
(* The coordinator's collectors *)

Collectors == {o \in Ops : col[o].phase # "none"}
Answer(f, o, value) == [f EXCEPT ![o] = IF @ = "wait" THEN value ELSE @]
Action(kind, o) == [kind |-> kind, op |-> o, mode |-> col[o].mode, gen |-> mgen]

\* The collectors of S whose release still fits in the media worker's queue: they
\* are taken in the order of dtmf_collectors
Before(S, o) == {p \in S : p < o}
Fitting(S) == {o \in S : Len(mq) + Cardinality(Before(S, o)) < MediaCapacity}

\* release_dtmf_capability, for each of S in that order
Releases(S) ==
  [i \in 1..Cardinality(S) |-> Action("release", CHOOSE o \in S : Cardinality(Before(S, o)) = i - 1)]

\* finish_digit_collection, for the operations of codes, of the collectors c: the
\* outcome waits for the release of the lease, and is a failure if that does not fit
Finish(c, codes) ==
  LET due == {o \in DOMAIN codes : c[o].phase = "active"}
      releasing == Fitting(due)
  IN [col |-> [o \in Ops |-> CASE o \in releasing -> [c[o] EXCEPT !.phase = "releasing", !.code = codes[o]]
                               [] o \in due \ releasing -> NoCollector
                               [] OTHER -> c[o]],
      mq |-> mq \o Releases(releasing),
      result |-> [o \in Ops |-> IF o \in due \ releasing THEN Answer(result, o, "Failed")[o] ELSE result[o]]]

Becomes(s) == col' = s.col /\ mq' = s.mq /\ result' = s.result
Finishes(codes) == Becomes(Finish(col, codes))

\* validate_digit_collector_registration and the checks around it
Registers(o, mode) ==
  /\ call = "talking" /\ col[o].phase = "none" /\ Cardinality(Collectors) < CollectorCapacity
  /\ mode = "collect" => \A p \in Collectors : col[p].mode # "collect"

\* start_digit_collection, cancel_digit_collection
TakeEvent ==
  /\ call # "gone" /\ evq # << >>
  /\ evq' = Tail(evq)
  /\ LET m == Head(evq)
         o == m.op
     IN \/ /\ m.kind = "start"
           /\ LET starts == Registers(o, m.mode) /\ Len(mq) < MediaCapacity IN
              /\ col' = IF starts THEN [col EXCEPT ![o] = [NoCollector EXCEPT !.phase = "acquiring",
                                                                             !.mode = m.mode]] ELSE col
              /\ mq' = IF starts THEN Append(mq, [kind |-> "acquire", op |-> o, mode |-> m.mode, gen |-> mgen])
                       ELSE mq
              /\ ready' = IF starts THEN ready ELSE Answer(ready, o, "err")
              /\ result' = IF starts THEN result ELSE Answer(result, o, "Failed")
           /\ UNCHANGED reply
        \/ /\ m.kind = "cancel" /\ col[o].phase = "none"
           /\ reply' = [reply EXCEPT ![o] = "err"]
           /\ UNCHANGED <<col, mq, ready, result>>
        \/ /\ m.kind = "cancel" /\ col[o].phase = "acquiring"
           /\ col' = [col EXCEPT ![o].cancel = TRUE]
           /\ ready' = Answer(ready, o, "err")
           /\ reply' = [reply EXCEPT ![o] = "none"]
           /\ UNCHANGED <<mq, result>>
        \/ /\ m.kind = "cancel" /\ col[o].phase \in {"active", "releasing"}
           /\ reply' = [reply EXCEPT ![o] = "none"]
           /\ Finishes([p \in {o} |-> "Cancelled"])
           /\ UNCHANGED ready
  /\ UNCHANGED <<service, task, call, mgen, worker, lease, config, results, heard, spent, stopped, relay, source>>

\* The timer runs from the activation on
Due(o) == call = "talking" /\ col[o].phase = "active"

\* handle_digit_collector_timeout, for whichever deadline comes first
Timeout(o) ==
  /\ Due(o)
  /\ Finishes([p \in {o} |-> "Timeout"])
  /\ UNCHANGED <<service, evq, task, ready, reply, call, mgen, worker, lease, config, results, heard, spent, stopped,
                 relay, source>>

\* Mutant: a cancelled acquisition that succeeds is forgotten.
MutantActivate(o) ==
  IF col[o].cancel
  THEN [col |-> [col EXCEPT ![o] = NoCollector], mq |-> mq, result |-> Answer(result, o, "Cancelled")]
  ELSE [col |-> [col EXCEPT ![o].phase = "active"], mq |-> mq, result |-> result]

\* activate, or finish what was cancelled in the meantime
Activate(o) ==
  LET active == [col EXCEPT ![o].phase = "active"]
  IN IF col[o].cancel THEN Finish(active, [p \in {o} |-> "Cancelled"])
     ELSE [col |-> active, mq |-> mq, result |-> result]

\* fail_digit_collection_start
Refused(o) ==
  /\ col' = [col EXCEPT ![o] = NoCollector]
  /\ result' = Answer(result, o, IF col[o].cancel THEN "Cancelled" ELSE "Failed")
  /\ UNCHANGED mq

\* handle_dtmf_capability_acquired: refused, or active
Acquired(m) ==
  /\ col[m.op].phase = "acquiring"
  /\ ready' = Answer(ready, m.op, IF m.ok THEN "ok" ELSE "err")
  /\ \/ ~m.ok /\ Refused(m.op)
     \/ m.ok /\ Becomes(Activate(m.op))

\* handle_dtmf_capability_released
Released(m) ==
  LET o == m.op
      known == col[o].phase = "releasing"
  IN /\ col' = IF known THEN [col EXCEPT ![o] = NoCollector] ELSE col
     /\ result' = IF known THEN Answer(result, o, IF m.ok THEN col[o].code ELSE "Failed") ELSE result
     /\ UNCHANGED <<mq, ready>>

\* Mutant: an event of the other transport is taken as well.
MutantArbitrate(m) ==
  CASE m.gen < lock.gen -> "stale"
    [] <<m.tr, m.gen, m.press>> \in recent -> "duplicate"
    [] OTHER -> "accepted"

\* DtmfSourceState::accept
Arbitrate(m) ==
  CASE lock.tr \notin {"unset", m.tr} -> "conflict"
    [] lock.tr = m.tr /\ m.gen < lock.gen -> "stale"
    [] lock.tr = m.tr /\ m.gen = lock.gen /\ <<m.tr, m.gen, m.press>> \in recent -> "duplicate"
    [] OTHER -> "accepted"

\* apply_digit: what a digit makes of an active collector
Takes(o, p) == col[o].phase = "active" /\ p \notin Terminators[o]

\* apply_digit_to_collectors: the collectors a digit finishes, with the code
Completions(p) ==
  [o \in {q \in Ops : /\ col[q].phase = "active"
                      /\ p \in Terminators[q] \/ Len(col[q].digits) + 1 >= MaxDigits[q]} |->
     IF p \in Terminators[o] /\ col[o].digits = << >> THEN "Failed" ELSE "Completed"]

\* route_digit: the collectors first; an INFO they leave alone goes to the peer
RouteDigit(m) ==
  LET p == m.press
      taken == [o \in Ops |-> IF Takes(o, p) THEN [col[o] EXCEPT !.digits = Append(@, p)] ELSE col[o]]
      consumes == \E o \in Ops : col[o].phase = "active" /\ col[o].mode = "collect"
  IN /\ Becomes(Finish(taken, Completions(p)))
     /\ consumed' = IF consumes THEN consumed \cup {<<m.tr, p>>} ELSE consumed
     /\ relayed' = IF ~consumes /\ m.tr = "info" THEN relayed \cup {<<m.tr, p>>} ELSE relayed

\* The source is locked to the event's transport and generation
Locked(m) ==
  /\ lock' = [tr |-> m.tr, gen |-> m.gen]
  /\ recent' = (IF lock = [tr |-> m.tr, gen |-> m.gen] THEN recent ELSE {})
               \cup {<<m.tr, m.gen, m.press>>}

\* handle_source_digit
SourceDigit(m) ==
  IF Arbitrate(m) = "accepted"
  THEN Locked(m) /\ RouteDigit(m)
  ELSE UNCHANGED <<lock, recent, consumed, relayed, col, mq, result>>

\* The coordinator takes a digit; a call that ends ignores it
TakeDigit ==
  /\ call # "gone" /\ heard # << >>
  /\ heard' = Tail(heard)
  /\ \/ call = "talking" /\ SourceDigit(Head(heard))
     \/ call = "ending" /\ UNCHANGED <<lock, recent, consumed, relayed, col, mq, result>>
  /\ UNCHANGED <<service, evq, task, ready, reply, call, mgen, worker, lease, config, results, spent, stopped,
                 parser, parsed, press>>

\* The coordinator takes a media result
TakeResult ==
  /\ call # "gone" /\ results # << >>
  /\ LET m == Head(results) IN
     /\ m.kind = "acquired" /\ (\E i \in DOMAIN heard : heard[i].tr = "rfc") => "LateObservation" \in Races
     /\ \/ call = "talking" /\ m.kind = "acquired" /\ Acquired(m)
        \/ call = "talking" /\ m.kind = "released" /\ Released(m)
        \/ /\ call = "ending" \/ (m.kind = "acquired" /\ col[m.op].phase # "acquiring")
           /\ UNCHANGED <<col, mq, ready, result>>
  /\ results' = Tail(results)
  /\ UNCHANGED <<service, evq, task, reply, call, mgen, worker, lease, config, heard, spent, stopped, relay,
                 source>>

\* Mutant: an acquisition under way is left alone.
MutantAborted == Fitting({o \in Collectors : col[o].phase # "acquiring"})

\* abort_digit_collection queues a release behind an acquisition under way as well
Aborted == Fitting(Collectors)

\* begin_finish_call
BeginFinish ==
  /\ call = "talking" /\ call' = "ending" /\ Spend
  /\ mq' = mq \o Releases(Aborted)
  /\ col' = [o \in Ops |-> NoCollector]
  /\ ready' = [o \in Ops |-> IF o \in Collectors THEN Answer(ready, o, "err")[o] ELSE ready[o]]
  /\ result' = [o \in Ops |-> IF o \in Collectors THEN Answer(result, o, "Failed")[o] ELSE result[o]]
  /\ mgen' = mgen + 1
  /\ UNCHANGED <<service, evq, task, reply, worker, lease, config, results, heard, stopped, relay, source>>

\* MediaBridge::stop, in the finalizer
StopMedia ==
  /\ call = "ending" /\ ~stopped /\ stopped' = TRUE
  /\ UNCHANGED <<service, evq, replies, call, mgen, col, media, results, heard, spent, relay, source>>

\* The actor ends; the messages it did not take are dropped with their replies
EndActor ==
  /\ call = "ending" /\ stopped /\ call' = "gone"
  /\ LET lostStart(o) == \E i \in DOMAIN evq : evq[i].kind = "start" /\ evq[i].op = o
         lostCancel(o) == \E i \in DOMAIN evq : evq[i].kind = "cancel" /\ evq[i].op = o
     IN /\ ready' = [o \in Ops |-> IF lostStart(o) THEN Answer(ready, o, "err")[o] ELSE ready[o]]
        /\ result' = [o \in Ops |-> IF lostStart(o) THEN Answer(result, o, "Failed")[o] ELSE result[o]]
        /\ reply' = [o \in Ops |-> IF lostCancel(o) THEN "err" ELSE reply[o]]
  /\ evq' = << >> /\ results' = << >> /\ heard' = << >>
  /\ UNCHANGED <<service, task, mgen, col, media, spent, stopped, relay, source>>

\* An SDP of a transfer or of the agent is prepared again
Negotiate ==
  /\ call = "talking" /\ mgen < 1 + MaxNegotiations /\ Len(mq) < MediaCapacity
  /\ mgen' = mgen + 1
  /\ mq' = Append(mq, [kind |-> "prepare", op |-> 0, mode |-> "observe", gen |-> mgen + 1])
  /\ Spend
  /\ UNCHANGED <<service, evq, replies, call, col, worker, lease, config, results, heard, stopped, relay, source>>

----------------------------------------------------------------------------
(* The media worker: MediaActionExecutor, and the leases of MediaBridge *)

Held(l, mode) == \E o \in Ops : l[o] = [state |-> "active", mode |-> mode]
Desired(l) == IF Held(l, "collect") THEN "collect" ELSE IF Held(l, "observe") THEN "observe" ELSE "transparent"

\* set_dtmf_mode
WithMode(mode) == IF config.mode = mode THEN config ELSE [gen |-> config.gen + 1, mode |-> mode]

\* Between the end of a press and its repetition
Repeating == ~stopped /\ \E p \in Presses : press[p] = 2
\* A wait times out when the relay has stopped, or as a fault
Late == (stopped /\ UNCHANGED spent) \/ (~stopped /\ Spend)
Undisturbed == Repeating => "RepeatAcrossModes" \in Races

WorkerHas(kind) == worker.step = "idle" /\ mq # << >> /\ Head(mq).kind = kind

\* The worker sends its result, and ends when the actor is gone
Post(kind, o, ok) ==
  /\ results' = IF call = "gone" THEN results ELSE Append(results, [kind |-> kind, op |-> o, ok |-> ok])
  /\ worker' = IF call = "gone" THEN [Idle EXCEPT !.step = "gone"] ELSE Idle

\* acquire_dtmf_capability: the checks on the state of the bridge
CanAcquire ==
  /\ ~stopped /\ Head(mq).gen <= config.gen
  /\ Head(mq).mode = "collect" => ~Held(lease, "collect")

\* acquire_dtmf_capability: stopped, a stale generation, a conflict, no
\* telephone-event negotiated, no binding for the leg, a failed demotion
AcquireRefused ==
  /\ WorkerHas("acquire")
  /\ \/ ~CanAcquire /\ UNCHANGED spent
     \/ CanAcquire /\ Spend
  /\ mq' = Tail(mq)
  /\ Post("acquired", Head(mq).op, FALSE)
  /\ UNCHANGED <<service, evq, replies, call, mgen, col, lease, config, heard, stopped, relay, source>>

\* acquire_dtmf_capability up to the wait for the relay
Acquire ==
  /\ WorkerHas("acquire") /\ CanAcquire /\ Undisturbed
  /\ LET m == Head(mq)
         held == [lease EXCEPT ![m.op] = [state |-> "active", mode |-> m.mode]]
         new == WithMode(Desired(held))
     IN /\ lease' = held /\ config' = new
        /\ worker' = [step |-> "acquiring", op |-> m.op, gen |-> new.gen]
  /\ mq' = Tail(mq)
  /\ UNCHANGED <<service, evq, replies, call, mgen, col, results, heard, spent, stopped, relay, source>>

\* wait_dtmf_policy_applied returns
Applied ==
  /\ worker.step \in {"acquiring", "releasing"} /\ parser.gen >= worker.gen
  /\ Post(IF worker.step = "acquiring" THEN "acquired" ELSE "released", worker.op, TRUE)
  /\ UNCHANGED <<service, evq, replies, call, mgen, col, mq, lease, config, heard, spent, stopped, relay, source>>

\* ... or times out: the relay has stopped, or was notified between the load
\* of the applied generation and the wait
AcquireTimesOut ==
  /\ worker.step = "acquiring" /\ Undisturbed
  /\ LET left == [lease EXCEPT ![worker.op] = NoLease] IN
     lease' = left /\ config' = WithMode(Desired(left))
  /\ Post("acquired", worker.op, FALSE)
  /\ Late
  /\ UNCHANGED <<service, evq, replies, call, mgen, col, mq, heard, stopped, relay, source>>

ReleaseTimesOut ==
  /\ worker.step = "releasing"
  /\ Post("released", worker.op, FALSE)
  /\ Late
  /\ UNCHANGED <<service, evq, replies, call, mgen, col, mq, lease, config, heard, stopped, relay, source>>

\* release_dtmf_capability of a lease that is unknown or released already
ReleaseAgain ==
  /\ WorkerHas("release") /\ lease[Head(mq).op].state # "active"
  /\ mq' = Tail(mq)
  /\ Post("released", Head(mq).op, lease[Head(mq).op].state = "inactive")
  /\ UNCHANGED <<service, evq, replies, call, mgen, col, lease, config, heard, spent, stopped, relay, source>>

\* drain_collect_retransmissions
Drains(l) == config.mode = "collect" /\ Desired(l) # "collect"

\* release_dtmf_capability, up to the drain or the new mode
Release ==
  /\ WorkerHas("release")
  /\ LET o == Head(mq).op
         left == [lease EXCEPT ![o].state = "inactive"]
     IN /\ lease[o].state = "active" /\ lease' = left
        /\ \/ Drains(left) /\ worker' = [step |-> "draining", op |-> o, gen |-> 0] /\ UNCHANGED config
           \/ /\ ~Drains(left) /\ config' = WithMode(Desired(left))
              /\ worker' = [step |-> "releasing", op |-> o, gen |-> config'.gen]
  /\ mq' = Tail(mq)
  /\ UNCHANGED <<service, evq, replies, call, mgen, col, results, heard, spent, stopped, relay, source>>

\* DTMF_COLLECT_RELEASE_DRAIN outlasts the repetition of an end
Drained ==
  /\ worker.step = "draining" /\ ~Repeating
  /\ config' = WithMode(Desired(lease))
  /\ worker' = [worker EXCEPT !.step = "releasing", !.gen = config'.gen]
  /\ UNCHANGED <<service, evq, replies, call, mgen, col, mq, lease, results, heard, spent, stopped, relay, source>>

\* update_dtmf_negotiation
Negotiated(gen) == [config EXCEPT !.gen = gen]

\* ... in the preparation of an SDP, which may fail first
Prepare ==
  /\ WorkerHas("prepare") /\ Undisturbed
  /\ mq' = Tail(mq)
  /\ \/ config' = Negotiated(Head(mq).gen) /\ UNCHANGED spent
     \/ Spend /\ UNCHANGED config
  /\ worker' = IF call = "gone" THEN [Idle EXCEPT !.step = "gone"] ELSE Idle
  /\ UNCHANGED <<service, evq, replies, call, mgen, col, lease, results, heard, stopped, relay, source>>

----------------------------------------------------------------------------
(* The relay, its parser, and the phone *)

\* emit_dtmf_observations, the monitor's queue and the coordinator's
Emit(digit) == Append(heard, digit)

\* update_config forgets every press when the configuration is another
Reset == [p \in Presses |-> "no"]

\* The relay sees the new configuration
ApplyConfig ==
  /\ ~stopped /\ parser # config
  /\ parser' = config /\ parsed' = Reset
  /\ UNCHANGED <<service, evq, replies, call, mgen, col, media, results, heard, spent, stopped, press, relayed,
                 source>>

Digit(tr, gen, p) == [tr |-> tr, gen |-> gen, press |-> p]

\* observe_packet takes the event for a new one
Hears(p) == parser.mode # "transparent" /\ parsed[p] # "recent"

\* observe_packet and suppresses_packet, of a packet that ends the press
EndPacket(p) ==
  /\ heard' = IF Hears(p) THEN Emit(Digit("rfc", parser.gen, p)) ELSE heard
  /\ parsed' = IF Hears(p) THEN [parsed EXCEPT ![p] = "recent"] ELSE parsed
  /\ relayed' = IF parser.mode = "collect" THEN relayed ELSE relayed \cup {<<"rfc", p>>}

\* A key goes down
PressBegins(p) ==
  /\ press[p] = 0 /\ \A q \in 1..(p - 1) : press[q] = 3
  /\ call = "talking"
  /\ press' = [press EXCEPT ![p] = 1]
  /\ \/ parsed' = (IF Hears(p) THEN [parsed EXCEPT ![p] = "active"] ELSE parsed)
     \/ UNCHANGED parsed
  /\ Spend
  /\ UNCHANGED <<service, evq, replies, call, mgen, col, media, results, heard, stopped, parser, relayed,
                 source>>

\* ... and up: its end is sent, and then again
PressEnds(p) ==
  /\ ~stopped /\ press[p] \in {1, 2} /\ (press[p] = 1 => call = "talking")
  /\ parser # config => "RepeatAcrossModes" \in Races
  /\ press' = [press EXCEPT ![p] = @ + 1]
  /\ \/ EndPacket(p) /\ UNCHANGED spent
     \/ Spend /\ UNCHANGED <<heard, parsed, relayed>>
  /\ UNCHANGED <<service, evq, replies, call, mgen, col, media, results, stopped, parser, source>>

\* expire: nothing more was heard of the press for IDLE_TIMEOUT
Expire(p) ==
  /\ ~stopped /\ parsed[p] = "active"
  /\ press' = [press EXCEPT ![p] = 3]
  /\ heard' = Emit(Digit("rfc", parser.gen, p))
  /\ parsed' = [parsed EXCEPT ![p] = "recent"]
  /\ UNCHANGED <<service, evq, replies, call, mgen, col, media, results, spent, stopped, parser, relayed, source>>

\* The phone sends the digit by SIP INFO, or sends the INFO again, on the first
\* dialog generation
PressInfo(p) ==
  /\ p \in InfoPresses /\ press[p] # 0 /\ attached /\ call # "gone"
  /\ heard' = Emit(Digit("info", 1, p))
  /\ Spend
  /\ UNCHANGED <<service, evq, replies, call, mgen, col, media, results, stopped, relay, source>>

----------------------------------------------------------------------------
(* The specification *)

Init ==
  /\ status = [o \in Ops |-> "none"] /\ order = << >>
  /\ attached = TRUE /\ opq = << >>
  /\ evq = << >> /\ task = [o \in Ops |-> "none"]
  /\ ready = [o \in Ops |-> "wait"] /\ result = [o \in Ops |-> "wait"] /\ reply = [o \in Ops |-> "none"]
  /\ spent = 0 /\ call = "talking" /\ mgen = 1 /\ col = [o \in Ops |-> NoCollector]
  /\ mq = << >> /\ worker = Idle /\ results = << >> /\ heard = << >>
  /\ lease = [o \in Ops |-> NoLease]
  /\ config = [gen |-> 1, mode |-> "transparent"] /\ parser = config /\ stopped = FALSE
  /\ parsed = Reset /\ press = [p \in Presses |-> 0]
  /\ lock = [tr |-> "unset", gen |-> 0] /\ recent = {} /\ relayed = {} /\ consumed = {}

ServiceStep ==
  \/ \E o \in Ops : (\E mode \in Modes : Start(o, mode)) \/ Cancel(o) \/ CancelRefused(o)
  \/ \E o \in Ops : TaskReady(o) \/ TaskResult(o)
  \/ Detach \/ HandleOperation

ActorStep ==
  \/ TakeEvent \/ TakeDigit \/ TakeResult \/ (\E o \in Ops : Timeout(o))
  \/ BeginFinish \/ StopMedia \/ EndActor \/ Negotiate

WorkerStep ==
  \/ AcquireRefused \/ Acquire \/ Applied \/ AcquireTimesOut \/ ReleaseTimesOut \/ ReleaseAgain
  \/ Release \/ Drained \/ Prepare

RelayStep == ApplyConfig \/ \E p \in Presses : PressBegins(p) \/ PressEnds(p) \/ Expire(p) \/ PressInfo(p)

Next == ServiceStep \/ ActorStep \/ WorkerStep \/ RelayStep

Spec == Init /\ [][Next]_vars

\* Every task goes on, every deadline comes, a key that goes up is repeated or
\* not within the drain, and a call that ends is finalized.
Fairness ==
  /\ \A o \in Ops : WF_vars(TaskReady(o)) /\ WF_vars(TaskResult(o)) /\ WF_vars(CancelRefused(o))
  /\ WF_vars(HandleOperation)
  /\ WF_vars(TakeEvent) /\ WF_vars(TakeDigit) /\ WF_vars(TakeResult)
  /\ \A o \in Ops : WF_vars(Timeout(o))
  /\ WF_vars(StopMedia) /\ WF_vars(EndActor)
  /\ WF_vars(WorkerStep) /\ WF_vars(ApplyConfig)
  /\ \A p \in Presses : WF_vars(press[p] = 2 /\ PressEnds(p))

FairSpec == Spec /\ Fairness

----------------------------------------------------------------------------
(* Properties *)

\* Every variable keeps its shape; the queues keep to their capacities.
TypeOK ==
  /\ status \in [Ops -> Terminal \cup {"none", "forgotten", "pending", "acquiring", "ready", "cancelling"}]
  /\ order \in Seq(Ops) /\ Len(order) <= HistoryCapacity
  /\ attached \in BOOLEAN /\ Len(opq) <= OpCapacity /\ Len(evq) <= EventCapacity /\ Len(mq) <= MediaCapacity
  /\ Cardinality(Collectors) <= CollectorCapacity
  /\ \A o \in Ops : /\ col[o].phase \in {"none", "acquiring", "active", "releasing"}
                    /\ col[o].digits \in Seq(Presses) /\ Len(col[o].digits) <= MaxDigits[o]
                    /\ lease[o].state \in {"none", "active", "inactive"}
                    /\ task[o] \in {"none", "ready", "result", "done"}
                    /\ ready[o] \in {"wait", "ok", "err"} /\ reply[o] \in {"none", "wait", "err"}
  /\ call \in {"talking", "ending", "gone"} /\ mgen \in Nat /\ stopped \in BOOLEAN
  /\ worker.step \in {"idle", "acquiring", "draining", "releasing", "gone"}
  /\ {config.mode, parser.mode} \subseteq {"transparent", "observe", "collect"}

Queued(kind, o) == \E i \in DOMAIN mq : mq[i].kind = kind /\ mq[i].op = o

\* An active lease has an owner: a collector that has not finished, or a
\* release behind it in the worker's queue, so that a late Ready leaks no
\* capability lease (abort_digit_collection).
LeaseHasOwner ==
  \A o \in Ops : lease[o].state = "active" /\ worker.step # "gone" =>
    \/ col[o].phase \in {"acquiring", "active"}
    \/ Queued("release", o)

\* The parser is never asked for less, or for longer, than the leases want.
ModeFollowsLeases ==
  worker.step \notin {"draining", "gone"} => config.mode = Desired(lease)

\* A collector takes a press once, whether it comes by RFC 4733, by SIP INFO or
\* by both, is repeated, or is parsed before and after a change of the mode.
PressOnce ==
  \A o \in Ops : \A i, j \in DOMAIN col[o].digits : col[o].digits[i] = col[o].digits[j] => i = j

\* A digit that was consumed does not reach the peer as well (route_digit,
\* suppresses_packet and the drain after a collection).
NotBoth == consumed \cap relayed = {}

\* A collection that came to an end by itself is not reported as unknown because
\* a cancellation came too late.
OutcomeKept == \A o \in Ops : result[o] \in {"Completed", "Timeout"} => status[o] # "notFound"

\* A collection is reported as complete when its lease has been released.
CompletedReleased == \A o \in Ops : status[o] = "completed" => lease[o].state # "active"

\* A press counts once: for a collector, and for collector and peer together
DigitOnce == PressOnce /\ NotBoth

\* Leases, the parser's mode and what the service reports fit together: the
\* type invariant and the facts above about them
CollectionConsistent ==
  TypeOK /\ LeaseHasOwner /\ ModeFollowsLeases /\ OutcomeKept /\ CompletedReleased

\* What was reported of an operation as its outcome does not change.
OutcomeFinal == [][\A o \in Ops : status[o] \in Terminal => status'[o] \in {status[o], "forgotten"}]_vars

\* Every operation comes to an end, unless the history has forgotten it.
OperationSettles ==
  \A o \in Ops : status[o] = "pending" ~> status[o] \in Terminal \cup {"forgotten"}

\* A leg goes back to transparent relay.
ModeReturns == config.mode # "transparent" ~> (config.mode = "transparent" \/ worker.step = "gone")

===============================================================================
