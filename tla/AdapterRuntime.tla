---------------------------- MODULE AdapterRuntime ----------------------------
(***************************************************************************)
(* The runtime of one adapter connection: the loop that owns the session   *)
(* manager, admits calls, routes leg events, registers callee attempts,    *)
(* hands a call's coordinator over to another leg and drains at shutdown;  *)
(* the critical control dispatcher; and the actors at the other end of the *)
(* mailboxes, as far as they exchange lifecycle messages.  What a call's   *)
(* coordinator does with the messages is module CallCoordinator.           *)
(*                                                                         *)
(* Session <<c, 0>> is the caller of call c, <<c, n>> its n-th callee; the *)
(* mailbox of the call's coordinator is <<c, Hub>>.                        *)
(***************************************************************************)
EXTENDS Integers, FiniteSets, Sequences, SequencesExt

CONSTANTS
  Calls,               \* the calls offered on the connection
  Busy,                \* the calls whose legs send events and hand over
  MaxAttempts,         \* bound on the callee attempts of a call
  MaxInputs,           \* bound on the leg events, hand-over requests and attempts
  MaxHandoffs,         \* bound on the hand-over requests
  AdmissionCapacity,   \* CALL_ADMISSION_CAPACITY
  MailboxCapacity,     \* CONTROL_MAILBOX_CAPACITY
  DispatcherCapacity,  \* CRITICAL_DISPATCHER_CAPACITY
  Races                \* interleavings a run lets happen, out of AllRaces

AllRaces == {"ReadyAtClose", "ResentAfterHandoff", "AttemptAfterHandoff"}

ASSUME RuntimeAssumption ==
  /\ IsFiniteSet(Calls) /\ Busy \subseteq Calls /\ Races \subseteq AllRaces
  /\ MaxAttempts \in Nat \ {0} /\ MaxInputs \in Nat /\ MaxHandoffs \in Nat
  /\ {AdmissionCapacity, MailboxCapacity, DispatcherCapacity} \subseteq Nat \ {0}

VARIABLES
  invite,    \* the INVITE of each call
  owner,     \* call_coordinators: session and generation
  sessions,  \* the sessions in the manager
  pending,   \* pending_coordinator_handoffs: a hand-over, or 0
  hub,       \* the SessionActor of each call, see Hub states in NoHub
  leg,       \* the CalleeSessionActor of each callee session
  mbox,      \* the control mailboxes
  queue,     \* the dispatcher's queue
  reg,       \* the attempt registration each coordinator waits for
  handoff,   \* the hand-overs
  fin,       \* the finalizer of each call
  finished,  \* calls in the finished channel
  loop,      \* phase of the connection, and the coordinators it has yet to tell
  shutdown,  \* the process shuts down
  inputs,    \* number of leg events, hand-over requests and attempts so far
  sent,      \* the last sequence number of each leg
  applied    \* how often each event reached the call's state

traffic == <<inputs, sent, applied>>
manager == <<owner, sessions, pending>>
actors == <<hub, leg, mbox, queue>>
vars == <<invite, manager, actors, reg, handoff, fin, finished, loop, shutdown, traffic>>

Hub == MaxAttempts + 1
Sessions == Calls \X (0..MaxAttempts)
Callees == Calls \X (1..MaxAttempts)
Boxes == Calls \X (0..Hub)
Handoffs == 1..MaxHandoffs

NoOwner == [sess |-> -1, gen |-> 0]
NoHub == [at |-> "none", sess |-> 0, gen |-> 1, phase |-> "talking", callee |-> 1,
          told |-> FALSE, seen |-> 0]
NoLeg == [at |-> "none", seen |-> 0, out |-> << >>]
NoReg == [attempt |-> 0, sess |-> 0, gen |-> 0]
NoHandoff == [state |-> "none", call |-> 0, source |-> 0, target |-> 0, gen |-> 0,
              src |-> "wait", tgt |-> "wait"]

Msg(kind, from, arg) == [kind |-> kind, from |-> from, arg |-> arg]
Shutdown == Msg("shutdown", 0, 0)
ForceShutdown == Msg("force", 0, 0)

----------------------------------------------------------------------------
(* Mailboxes and the dispatcher *)

HubAlive(c) == hub[c].at \in {"running", "handed", "leaving"}
LegAlive(s) == leg[s].at \in {"running", "handed"}

\* The receiver of a mailbox exists
Open(b) ==
  CASE b[2] = Hub -> HubAlive(b[1])
    [] b[2] = 0 -> HubAlive(b[1]) /\ hub[b[1]].sess = 0
    [] OTHER -> LegAlive(b) \/ (HubAlive(b[1]) /\ hub[b[1]].sess = b[2])

\* Someone can still send to a session's mailbox: the manager, the coordinator
\* by its callee_control_tx, or a message on its way
HasSender(s) ==
  \/ s \in sessions
  \/ HubAlive(s[1]) /\ hub[s[1]].callee = s[2]
  \/ reg[s[1]].attempt = s[2] /\ s[2] > 0
  \/ \E i \in DOMAIN queue : queue[i].to = s

Dispatching == loop.phase # "closed"

\* The dispatcher's queue takes n more messages
Room(n) == Len(queue) + n <= DispatcherCapacity
Dispatch(b, m) == [to |-> b, msg |-> m]

\* Mutant: a message to an actor that is gone stays at the head.
MutantDeliver ==
  /\ Dispatching /\ queue # << >>
  /\ LET d == Head(queue) IN
       /\ Open(d.to) /\ Len(mbox[d.to]) < MailboxCapacity
       /\ mbox' = [mbox EXCEPT ![d.to] = Append(@, d.msg)]
  /\ queue' = Tail(queue)
  /\ UNCHANGED <<invite, manager, hub, leg, reg, handoff, fin, finished, loop, shutdown, traffic>>

\* The dispatcher's task: first in, first out; it waits for room in a full
\* mailbox and drops what is addressed to an actor that is gone
Deliver ==
  /\ Dispatching /\ queue # << >>
  /\ LET d == Head(queue) IN
       IF ~Open(d.to)
       THEN UNCHANGED mbox
       ELSE /\ Len(mbox[d.to]) < MailboxCapacity
            /\ mbox' = [mbox EXCEPT ![d.to] = Append(@, d.msg)]
  /\ queue' = Tail(queue)
  /\ UNCHANGED <<invite, manager, hub, leg, reg, handoff, fin, finished, loop, shutdown, traffic>>

----------------------------------------------------------------------------
(* SessionManager *)

\* unregister_session forgets the hand-overs from and to the session
WithoutHandoffs(s) ==
  [c \in Calls |->
     IF pending[c] # 0 /\ c = s[1] /\ s[2] \in {handoff[pending[c]].source, handoff[pending[c]].target}
     THEN 0 ELSE pending[c]]

\* destroy_call
Destroy(c) ==
  /\ sessions' = {s \in sessions : s[1] # c}
  /\ owner' = [owner EXCEPT ![c] = NoOwner]
  /\ pending' = [pending EXCEPT ![c] = 0]

Registered == {c \in Calls : owner[c] # NoOwner}

\* prepare_coordinator_handoff, after the lookups of begin_coordinator_handoff
CanPrepare(c, target) ==
  /\ owner[c] # NoOwner /\ HubAlive(c) /\ <<c, target>> \in sessions
  /\ pending[c] = 0 /\ target # owner[c].sess

\* Mutant: the token need not be the pending one, nor its target registered.
MutantCanCommit(h) ==
  LET c == handoff[h].call IN owner[c] = [sess |-> handoff[h].source, gen |-> handoff[h].gen]

\* commit_coordinator_handoff
CanCommit(h) ==
  LET c == handoff[h].call IN
  /\ pending[c] = h
  /\ owner[c] = [sess |-> handoff[h].source, gen |-> handoff[h].gen]
  /\ <<c, handoff[h].target>> \in sessions

----------------------------------------------------------------------------
(* The loop: admission *)

LoopFree == loop.tell = {}
Serving == loop.phase \in {"open", "draining", "forced"} /\ LoopFree
Creating == {c \in Calls : invite[c] = "creating"}
Inflight == {c \in Calls : invite[c] \in {"creating", "created"}}

\* InboundInviteOffered: refused while draining or without a permit
Offer(c) ==
  /\ Serving /\ invite[c] = "none"
  /\ invite' = [invite EXCEPT ![c] =
       IF loop.phase # "open" \/ shutdown \/ Cardinality(Creating) >= AdmissionCapacity
       THEN "rejected" ELSE "creating"]
  /\ UNCHANGED <<manager, actors, reg, handoff, fin, finished, loop, shutdown, traffic>>

\* create_call returns a call, or has refused the INVITE itself
CreateCall(c) ==
  /\ invite[c] = "creating"
  /\ \E result \in {"created", "rejected"} : invite' = [invite EXCEPT ![c] = result]
  /\ UNCHANGED <<manager, actors, reg, handoff, fin, finished, loop, shutdown, traffic>>

\* The created call is registered, told of a shutdown, and its actors start;
\* during the teardown only the caller is registered
Admit(c) ==
  /\ LoopFree /\ loop.phase # "closed" /\ invite[c] = "created" /\ Room(1)
  /\ invite' = [invite EXCEPT ![c] = "call"]
  /\ owner' = [owner EXCEPT ![c] = [sess |-> 0, gen |-> 1]]
  /\ sessions' = sessions \cup (IF loop.phase = "closing" THEN {<<c, 0>>} ELSE {<<c, 0>>, <<c, 1>>})
  /\ hub' = [hub EXCEPT ![c].at = "running"]
  /\ leg' = [leg EXCEPT ![<<c, 1>>].at = "running"]
  /\ queue' = CASE loop.phase = "open" -> queue
                [] loop.phase = "draining" -> Append(queue, Dispatch(<<c, Hub>>, Shutdown))
                [] OTHER -> Append(queue, Dispatch(<<c, Hub>>, ForceShutdown))
  /\ UNCHANGED <<pending, mbox, reg, handoff, fin, finished, loop, shutdown, traffic>>

\* The actor that will read the leg's events drops duplicates: a callee's own
\* actor, and the coordinator for the caller
Deduplicated(s) ==
  s \in Callees => LegAlive(s) /\ \A h \in Handoffs :
    <<handoff[h].call, handoff[h].target>> = s => handoff[h].state \notin {"asked", "ready"}

\* The adapter sends an event of a leg, or sends its last one again
LegEvent(s) ==
  /\ Serving /\ s \in sessions /\ s[1] \in Busy /\ Open(s) /\ Room(1) /\ inputs < MaxInputs
  /\ \E again \in BOOLEAN, kind \in {"event", "end"} :
       /\ again => /\ sent[s] > 0 /\ kind = "event"
                   /\ ~Deduplicated(s) => "ResentAfterHandoff" \in Races
       /\ LET n == IF again THEN sent[s] ELSE sent[s] + 1 IN
            /\ sent' = [sent EXCEPT ![s] = n]
            /\ inputs' = inputs + 1
            /\ queue' = Append(queue, Dispatch(s, Msg(kind, s[2], n)))
  /\ UNCHANGED <<invite, manager, hub, leg, mbox, reg, handoff, fin, finished, loop, shutdown,
                 applied>>

\* finished_rx
DestroyCall(c) ==
  /\ LoopFree /\ loop.phase # "closed" /\ c \in finished
  /\ finished' = finished \ {c}
  /\ Destroy(c)
  /\ UNCHANGED <<invite, actors, reg, handoff, fin, loop, shutdown, traffic>>

\* handle_attempt_registration: the coordinator that asks must still be the
\* registered one; the attempt before is unregistered and shut down
RegisterAttempt(c) ==
  /\ Serving /\ reg[c].attempt # 0 /\ Room(2)
  /\ LET n == reg[c].attempt
         old == <<c, n - 1>>
         answer == Dispatch(<<c, Hub>>, Msg("reg", 0, n))
         goodbye == Dispatch(old, Shutdown)
     IN IF owner[c] = [sess |-> reg[c].sess, gen |-> reg[c].gen] /\ HubAlive(c)
        THEN /\ sessions' = (sessions \ {old}) \cup {<<c, n>>}
             /\ pending' = WithoutHandoffs(old)
             /\ leg' = [leg EXCEPT ![<<c, n>>].at = "running"]
             /\ queue' = IF old \in sessions THEN queue \o <<goodbye, answer>> ELSE Append(queue, answer)
        ELSE /\ queue' = IF HubAlive(c) THEN Append(queue, Dispatch(<<c, Hub>>, Msg("refused", 0, n)))
                         ELSE queue
             /\ UNCHANGED <<sessions, pending, leg>>
  /\ reg' = [reg EXCEPT ![c] = NoReg]
  /\ UNCHANGED <<invite, owner, hub, mbox, handoff, fin, finished, loop, shutdown, traffic>>

----------------------------------------------------------------------------
(* The loop: the end of the connection *)

EnterPhase(phase) == loop' = [phase |-> phase, tell |-> Registered]

RequestShutdown ==
  /\ ~shutdown /\ shutdown' = TRUE
  /\ UNCHANGED <<invite, manager, actors, reg, handoff, fin, finished, loop, traffic>>

\* shutdown.changed, or the tick that finds it set
Drain ==
  /\ loop.phase = "open" /\ LoopFree /\ shutdown
  /\ EnterPhase("draining")
  /\ UNCHANGED <<invite, manager, actors, reg, handoff, fin, finished, shutdown, traffic>>

\* Five seconds later
ForceDrain ==
  /\ loop.phase = "draining" /\ LoopFree
  /\ EnterPhase("forced")
  /\ UNCHANGED <<invite, manager, actors, reg, handoff, fin, finished, shutdown, traffic>>

Outstanding(h) == handoff[h].state \in {"asked", "ready"}

\* Nothing is left, or seven seconds are over, or the adapter is gone
LeaveLoop ==
  /\ Serving
  /\ (\E h \in Handoffs : Outstanding(h)) => "ReadyAtClose" \in Races
  /\ EnterPhase("closing")
  /\ UNCHANGED <<invite, manager, actors, reg, handoff, fin, finished, shutdown, traffic>>

\* shutdown_coordinators tells one coordinator after the other
TellCoordinator(c) ==
  /\ c \in loop.tell /\ Room(1)
  /\ loop' = [loop EXCEPT !.tell = @ \ {c}]
  /\ queue' = IF HubAlive(c)
              THEN Append(queue, Dispatch(<<c, Hub>>, IF loop.phase = "draining" THEN Shutdown ELSE ForceShutdown))
              ELSE queue
  /\ UNCHANGED <<invite, manager, hub, leg, mbox, reg, handoff, fin, finished, shutdown, traffic>>

\* The dispatcher waits for an actor that does not read its mailbox
DispatcherIdle ==
  queue # << >> => LET b == Head(queue).to IN Open(b) /\ Len(mbox[b]) >= MailboxCapacity

Ready(h) == handoff[h].state = "ready"

\* The teardown ends when no call is left or after five seconds, which are
\* enough for the dispatcher: its task is aborted, and the manager and the
\* channels of the loop are dropped, with the Shutdown messages dispatched to
\* the sessions just before.  A hand-over that waits in one of them
\* takes its two actors with it.
Close ==
  /\ loop.phase = "closing" /\ LoopFree
  /\ DispatcherIdle
  /\ loop' = [loop EXCEPT !.phase = "closed"]
  /\ queue' = << >> /\ sessions' = {} /\ finished' = {}
  /\ owner' = [c \in Calls |-> NoOwner] /\ pending' = [c \in Calls |-> 0]
  /\ invite' = [c \in Calls |-> IF c \in Inflight THEN "rejected" ELSE invite[c]]
  /\ reg' = [c \in Calls |-> NoReg]
  /\ handoff' = [h \in Handoffs |-> IF Ready(h) THEN [handoff[h] EXCEPT !.state = "replied"] ELSE handoff[h]]
  /\ hub' = [c \in Calls |->
               IF \E h \in Handoffs : Ready(h) /\ handoff[h].call = c /\ handoff[h].src = "ok"
               THEN [hub[c] EXCEPT !.at = "dropped"] ELSE hub[c]]
  /\ UNCHANGED <<leg, mbox, fin, shutdown, traffic>>

----------------------------------------------------------------------------
(* The coordinator's actor *)

\* Mutant: a call that was already ending is not finalized.
MutantBeginFinish(c, h) ==
  /\ hub' = [hub EXCEPT ![c] = [h EXCEPT !.phase = "finalizing"]]
  /\ fin' = [fin EXCEPT ![c] = IF @ = "none" /\ h.phase = "talking" THEN "running" ELSE @]

\* begin_finish_call starts the finalizer once
BeginFinish(c, h) ==
  /\ hub' = [hub EXCEPT ![c] = [h EXCEPT !.phase = "finalizing"]]
  /\ fin' = [fin EXCEPT ![c] = IF @ = "none" THEN "running" ELSE @]

End(h) == [h EXCEPT !.phase = IF @ = "talking" THEN "ending" ELSE @]

\* Mutant: an event with the sequence number of the last one is new.
MutantFresh(seen, m) == m.arg >= seen

\* LegEventDeduper::accept
Fresh(seen, m) == m.arg > seen

Count(c, m) == applied' = [applied EXCEPT ![<<c, m.from>>][m.arg] = @ + 1]

\* handle_control outside of the finalization.  An event of the owned leg is
\* checked for a duplicate only while the owned leg is the caller.
HubHandles(c, m) ==
  LET h == hub[c] IN
  CASE m.kind = "force" ->
         BeginFinish(c, [h EXCEPT !.at = "leaving"]) /\ UNCHANGED <<applied, handoff>>
    [] m.kind \in {"event", "end", "peer", "peerEnd"} /\ ((m.from = 0 /\ Fresh(h.seen, m)) \/ m.from = h.callee) ->
         /\ hub' = [hub EXCEPT ![c] =
              LET read == IF m.from = 0 THEN [h EXCEPT !.seen = m.arg] ELSE h IN
              IF m.kind \in {"end", "peerEnd"} THEN End(read) ELSE read]
         /\ Count(c, m)
         /\ UNCHANGED <<fin, handoff>>
    [] m.kind \in {"shutdown", "refused"} ->
         hub' = [hub EXCEPT ![c] = End(h)] /\ UNCHANGED <<fin, applied, handoff>>
    [] m.kind = "reg" /\ h.phase = "talking" ->
         hub' = [hub EXCEPT ![c].callee = m.arg] /\ UNCHANGED <<fin, applied, handoff>>
    [] OTHER -> UNCHANGED <<hub, fin, applied, handoff>>

\* prepare_handoff: the token must name this owner, its generation and a leg
\* that is still in the call
HubPrepares(c, i) ==
  LET h == hub[c]
      fits == /\ handoff[i].source = h.sess /\ handoff[i].gen = h.gen
              /\ handoff[i].target = h.callee /\ h.phase # "finalizing"
  IN /\ handoff' = [handoff EXCEPT ![i].src = IF fits THEN "ok" ELSE "failed"]
     /\ hub' = [hub EXCEPT ![c].at = IF fits THEN "handed" ELSE @]
     /\ UNCHANGED <<fin, applied>>

\* The actor takes a message: its own leg's mailbox comes first
HubTakes(c) ==
  /\ hub[c].at = "running"
  /\ LET own == <<c, hub[c].sess>>
         b == IF mbox[own] # << >> THEN own ELSE <<c, Hub>>
     IN /\ mbox[b] # << >>
        /\ LET m == Head(mbox[b]) IN
             /\ CASE m.kind = "prepare" -> HubPrepares(c, m.arg)
                  [] m.kind # "prepare" /\ hub[c].phase = "finalizing" ->
                       /\ hub' = [hub EXCEPT ![c].at = IF m.kind \in {"force", "final"} THEN "leaving" ELSE @]
                       /\ UNCHANGED <<fin, applied, handoff>>
                  [] OTHER -> HubHandles(c, m)
             \* an attempt registered for a call that ended is sent away
             /\ mbox' = IF m.kind = "reg" /\ hub[c].phase # "talking" /\ Open(<<c, m.arg>>)
                           /\ Len(mbox[<<c, m.arg>>]) < MailboxCapacity
                        THEN [[mbox EXCEPT ![b] = Tail(@)] EXCEPT ![<<c, m.arg>>] = Append(@, Shutdown)]
                        ELSE [mbox EXCEPT ![b] = Tail(@)]
  /\ UNCHANGED <<invite, manager, leg, queue, reg, finished, loop, shutdown, inputs, sent>>

\* begin_shutdown, on the watch or when the actor starts or is started again
HubSeesShutdown(c) ==
  /\ hub[c].at = "running" /\ shutdown /\ ~hub[c].told
  /\ hub' = [hub EXCEPT ![c] = [End(hub[c]) EXCEPT !.told = TRUE]]
  /\ UNCHANGED <<invite, manager, leg, mbox, queue, reg, handoff, fin, finished, loop, shutdown, traffic>>

\* The last leg ends, or the cleanup timer fires
FinishCall(c) ==
  /\ hub[c].at = "running" /\ hub[c].phase = "ending"
  /\ BeginFinish(c, hub[c])
  /\ UNCHANGED <<invite, manager, leg, mbox, queue, reg, handoff, finished, loop, shutdown, traffic>>

\* The last sender of the own leg's mailbox is gone: the actor's loop ends
LoseMailbox(c) ==
  /\ hub[c].at = "running" /\ mbox[<<c, hub[c].sess>>] = << >> /\ ~HasSender(<<c, hub[c].sess>>)
  /\ BeginFinish(c, [hub[c] EXCEPT !.at = "leaving"])
  /\ UNCHANGED <<invite, manager, leg, mbox, queue, reg, handoff, finished, loop, shutdown, traffic>>

\* A hunt goes on: the coordinator asks for the next attempt's registration
StartAttempt(c) ==
  /\ hub[c].at = "running" /\ hub[c].phase = "talking" /\ c \in Busy /\ loop.phase = "open"
  /\ hub[c].callee < MaxAttempts /\ reg[c] = NoReg /\ leg[<<c, hub[c].callee + 1>>].at = "none"
  /\ "AttemptAfterHandoff" \in Races \/ hub[c].sess = 0
  /\ inputs < MaxInputs /\ inputs' = inputs + 1
  /\ reg' = [reg EXCEPT ![c] = [attempt |-> hub[c].callee + 1, sess |-> hub[c].sess, gen |-> hub[c].gen]]
  /\ UNCHANGED <<invite, manager, actors, handoff, fin, finished, loop, shutdown, sent, applied>>

\* The end of run: the callee's actor is shut down, the loop is told
LeaveHub(c) ==
  /\ hub[c].at = "leaving"
  /\ LET callee == <<c, hub[c].callee>>
         tells == hub[c].sess # hub[c].callee /\ Open(callee)
     IN /\ tells => Len(mbox[callee]) < MailboxCapacity
        /\ mbox' = [b \in Boxes |->
             CASE b = callee /\ tells -> Append(mbox[b], Shutdown)
               [] b \in {<<c, hub[c].sess>>, <<c, Hub>>} -> << >>
               [] OTHER -> mbox[b]]
  /\ hub' = [hub EXCEPT ![c].at = "gone"]
  /\ finished' = IF loop.phase = "closed" THEN finished ELSE finished \cup {c}
  /\ UNCHANGED <<invite, manager, leg, queue, reg, handoff, fin, loop, shutdown, traffic>>

\* finalize_call: media stopped and CDR spooled
FinalizeCall(c) ==
  /\ fin[c] = "running"
  /\ fin' = [fin EXCEPT ![c] = "stored"]
  /\ UNCHANGED <<invite, manager, actors, reg, handoff, finished, loop, shutdown, traffic>>

\* ... and CallFinalized dispatched
NotifyFinalized(c) ==
  /\ fin[c] = "stored" /\ (Dispatching /\ HubAlive(c) => Room(1))
  /\ fin' = [fin EXCEPT ![c] = "done"]
  /\ queue' = IF Dispatching /\ HubAlive(c)
              THEN Append(queue, Dispatch(<<c, Hub>>, Msg("final", 0, 0))) ELSE queue
  /\ UNCHANGED <<invite, manager, hub, leg, mbox, reg, handoff, finished, loop, shutdown, traffic>>

----------------------------------------------------------------------------
(* A callee's actor *)

LegExits(s) == [leg EXCEPT ![s] = [NoLeg EXCEPT !.at = "gone"]]

\* The actor takes a message; an event it accepts is to be forwarded
LegTakes(s) ==
  /\ leg[s].at = "running" /\ leg[s].out = << >> /\ mbox[s] # << >>
  /\ LET m == Head(mbox[s]) IN
       /\ CASE m.kind \in {"event", "end"} ->
                 /\ leg' = IF Fresh(leg[s].seen, m)
                           THEN [leg EXCEPT ![s].seen = m.arg,
                                            ![s].out = <<Msg(IF m.kind = "end" THEN "peerEnd" ELSE "peer",
                                                             s[2], m.arg)>>]
                           ELSE leg
                 /\ UNCHANGED handoff
            [] m.kind = "target" ->
                 /\ leg' = [leg EXCEPT ![s].at = "handed"]
                 /\ handoff' = [handoff EXCEPT ![m.arg].tgt = "ok"]
            [] OTHER -> leg' = LegExits(s) /\ UNCHANGED handoff
       /\ mbox' = [mbox EXCEPT ![s] = IF m.kind \in {"shutdown", "force"} THEN << >> ELSE Tail(@)]
  /\ UNCHANGED <<invite, manager, hub, queue, reg, fin, finished, loop, shutdown, traffic>>

\* The event goes to the coordinator by the dispatcher; after the end of the
\* leg, or without a coordinator, the actor ends
LegForwards(s) ==
  /\ leg[s].at = "running" /\ leg[s].out # << >>
  /\ LET m == Head(leg[s].out)
         sends == Dispatching /\ HubAlive(s[1])
         stays == sends /\ m.kind # "peerEnd"
     IN /\ sends => Room(1)
        /\ queue' = IF sends THEN Append(queue, Dispatch(<<s[1], Hub>>, m)) ELSE queue
        /\ leg' = IF stays THEN [leg EXCEPT ![s].out = << >>] ELSE LegExits(s)
        /\ mbox' = IF stays THEN mbox ELSE [mbox EXCEPT ![s] = << >>]
  /\ UNCHANGED <<invite, manager, hub, reg, handoff, fin, finished, loop, shutdown, traffic>>

LegLosesMailbox(s) ==
  /\ leg[s].at = "running" /\ leg[s].out = << >> /\ mbox[s] = << >> /\ ~HasSender(s)
  /\ leg' = LegExits(s)
  /\ UNCHANGED <<invite, manager, hub, mbox, queue, reg, handoff, fin, finished, loop, shutdown, traffic>>

----------------------------------------------------------------------------
(* The hand-over of the coordinator *)

\* request_owner_exit_handoff and begin_coordinator_handoff
RequestHandoff(h, c, target) ==
  /\ Serving /\ c \in Busy /\ handoff[h] = NoHandoff /\ \A g \in 1..(h - 1) : handoff[g] # NoHandoff
  /\ invite[c] = "call" /\ Room(2)
  /\ inputs < MaxInputs /\ inputs' = inputs + 1
  /\ IF loop.phase = "open" /\ ~shutdown /\ CanPrepare(c, target)
     THEN /\ pending' = [pending EXCEPT ![c] = h]
          /\ handoff' = [handoff EXCEPT ![h] =
               [state |-> "asked", call |-> c, source |-> owner[c].sess, target |-> target,
                gen |-> owner[c].gen, src |-> "wait", tgt |-> "wait"]]
          /\ queue' = queue \o <<Dispatch(<<c, Hub>>, Msg("prepare", 0, h)),
                                 Dispatch(<<c, target>>, Msg("target", 0, h))>>
     ELSE /\ handoff' = [handoff EXCEPT ![h].state = "replied"]
          /\ UNCHANGED <<pending, queue>>
  /\ UNCHANGED <<invite, owner, sessions, hub, leg, mbox, reg, fin, finished, loop, shutdown,
                 sent, applied>>

\* The message that carries an actor's reply channel is on its way
Carried(kind, h) ==
  \/ \E i \in DOMAIN queue : queue[i].msg.kind = kind /\ queue[i].msg.arg = h
  \/ \E b \in Boxes : \E i \in DOMAIN mbox[b] : mbox[b][i].kind = kind /\ mbox[b][i].arg = h

\* A reply channel that was dropped counts as a refusal
LoseReply(h) ==
  /\ handoff[h].state = "asked"
  /\ \/ /\ handoff[h].src = "wait" /\ ~Carried("prepare", h)
        /\ handoff' = [handoff EXCEPT ![h].src = "failed"]
     \/ /\ handoff[h].tgt = "wait" /\ ~Carried("target", h)
        /\ handoff' = [handoff EXCEPT ![h].tgt = "failed"]
  /\ UNCHANGED <<invite, manager, actors, reg, fin, finished, loop, shutdown, traffic>>

\* Mutant: only the target is started again.
MutantRecover(i) ==
  /\ leg' = IF handoff[i].tgt = "ok"
            THEN [leg EXCEPT ![<<handoff[i].call, handoff[i].target>>].at = "running"] ELSE leg
  /\ UNCHANGED hub

\* recover_actors: run starts again, and looks for a shutdown first
Recover(i) ==
  /\ hub' = IF handoff[i].src = "ok"
            THEN [hub EXCEPT ![handoff[i].call].at = "running", ![handoff[i].call].told = FALSE] ELSE hub
  /\ leg' = IF handoff[i].tgt = "ok"
            THEN [leg EXCEPT ![<<handoff[i].call, handoff[i].target>>].at = "running"] ELSE leg

\* await_actor_readiness: both replies are in; without a loop to take them
\* both actors are started again
AwaitReadiness(h) ==
  /\ handoff[h].state = "asked" /\ handoff[h].src # "wait" /\ handoff[h].tgt # "wait"
  /\ IF loop.phase = "closed"
     THEN handoff' = [handoff EXCEPT ![h].state = "replied"] /\ Recover(h)
     ELSE handoff' = [handoff EXCEPT ![h].state = "ready"] /\ UNCHANGED <<hub, leg>>
  /\ UNCHANGED <<invite, manager, mbox, queue, reg, fin, finished, loop, shutdown, traffic>>

\* install_on: the coordinator takes over the target's mailboxes and what its
\* actor has seen, and runs again
Installed(h) ==
  LET c == handoff[h].call
      target == handoff[h].target
  IN [hub[c] EXCEPT !.at = "running", !.sess = target, !.gen = handoff[h].gen + 1,
                    !.told = FALSE, !.seen = leg[<<c, target>>].seen]

\* complete_coordinator_handoff: commit, install the coordinator on the
\* target's mailboxes and unregister the source, or abort
CompleteHandoff(h) ==
  /\ Serving /\ Ready(h)
  /\ LET c == handoff[h].call
         source == <<c, handoff[h].source>>
         target == <<c, handoff[h].target>>
     IN IF handoff[h].src = "ok" /\ handoff[h].tgt = "ok" /\ CanCommit(h)
        THEN /\ owner' = [owner EXCEPT ![c] = [sess |-> target[2], gen |-> handoff[h].gen + 1]]
             /\ sessions' = sessions \ {source}
             /\ pending' = [pending EXCEPT ![c] = 0]
             /\ hub' = [hub EXCEPT ![c] = Installed(h)]
             /\ leg' = [leg EXCEPT ![target] = [NoLeg EXCEPT !.at = "merged"]]
             /\ mbox' = [mbox EXCEPT ![source] = << >>]
        ELSE /\ pending' = [pending EXCEPT ![c] = IF @ = h THEN 0 ELSE @]
             /\ Recover(h)
             /\ UNCHANGED <<owner, sessions, mbox>>
  /\ handoff' = [handoff EXCEPT ![h].state = "replied"]
  /\ UNCHANGED <<invite, queue, reg, fin, finished, loop, shutdown, traffic>>

----------------------------------------------------------------------------

Init ==
  /\ invite = [c \in Calls |-> "none"]
  /\ owner = [c \in Calls |-> NoOwner] /\ sessions = {} /\ pending = [c \in Calls |-> 0]
  /\ hub = [c \in Calls |-> NoHub] /\ leg = [s \in Callees |-> NoLeg]
  /\ mbox = [b \in Boxes |-> << >>] /\ queue = << >>
  /\ reg = [c \in Calls |-> NoReg] /\ handoff = [h \in Handoffs |-> NoHandoff]
  /\ fin = [c \in Calls |-> "none"] /\ finished = {}
  /\ loop = [phase |-> "open", tell |-> {}] /\ shutdown = FALSE
  /\ sent = [s \in Sessions |-> 0] /\ inputs = 0
  /\ applied = [s \in Sessions |-> [n \in 1..MaxInputs |-> 0]]

HubStep(c) == HubTakes(c) \/ HubSeesShutdown(c) \/ FinishCall(c) \/ LoseMailbox(c) \/ LeaveHub(c)
LegActor(s) == LegTakes(s) \/ LegForwards(s) \/ LegLosesMailbox(s)
Finalizer(c) == FinalizeCall(c) \/ NotifyFinalized(c)
HandoffTask(h) == LoseReply(h) \/ AwaitReadiness(h)
LoopInput ==
  \/ \E c \in Calls : TellCoordinator(c) \/ Admit(c) \/ DestroyCall(c) \/ RegisterAttempt(c)
  \/ \E h \in Handoffs : CompleteHandoff(h)
LoopEnd == Drain \/ ForceDrain \/ Close

Next ==
  \/ Deliver \/ LoopInput \/ LoopEnd \/ LeaveLoop \/ RequestShutdown
  \/ \E c \in Calls :
       \/ Offer(c) \/ CreateCall(c) \/ HubStep(c) \/ StartAttempt(c) \/ Finalizer(c)
       \/ \E h \in Handoffs, n \in 1..MaxAttempts : RequestHandoff(h, c, n)
  \/ \E s \in Sessions : LegEvent(s)
  \/ \E s \in Callees : LegActor(s)
  \/ \E h \in Handoffs : HandoffTask(h)

Spec == Init /\ [][Next]_vars

\* Every task runs; the adapter, the operator and the business modules do as
\* they like, but a connection that drains comes to its deadline.
FairSpec ==
  /\ Spec
  /\ WF_vars(Deliver) /\ WF_vars(LoopInput) /\ WF_vars(LoopEnd)
  /\ WF_vars(loop.phase \in {"draining", "forced"} /\ LeaveLoop)
  /\ \A c \in Calls : WF_vars(CreateCall(c)) /\ WF_vars(HubStep(c)) /\ WF_vars(Finalizer(c))
  /\ \A s \in Callees : WF_vars(LegActor(s))
  /\ \A h \in Handoffs : WF_vars(HandoffTask(h))

----------------------------------------------------------------------------
(* Properties *)

\* The variables have their types and the queues their bounds
TypeOK ==
  /\ \A c \in Calls : invite[c] \in {"none", "creating", "created", "rejected", "call"}
  /\ Cardinality(Creating) <= AdmissionCapacity
  /\ sessions \subseteq Sessions /\ pending \in [Calls -> 0..MaxHandoffs]
  /\ \A c \in Calls : hub[c].at \in {"none", "running", "handed", "leaving", "gone", "dropped"}
  /\ \A s \in Callees : leg[s].at \in {"none", "running", "handed", "merged", "gone"}
  /\ Len(queue) <= DispatcherCapacity /\ \A b \in Boxes : Len(mbox[b]) <= MailboxCapacity
  /\ loop.phase \in {"open", "draining", "forced", "closing", "closed"}
  /\ \A h \in Handoffs : handoff[h].state \in {"none", "asked", "ready", "replied"}

\* A pending hand-over is one of the registered owner to a registered session:
\* the manager forgets it with either of them
TokenIsCurrent ==
  \A c \in Calls : pending[c] # 0 =>
    LET h == handoff[pending[c]] IN
    /\ h.call = c /\ owner[c] = [sess |-> h.source, gen |-> h.gen]
    /\ <<c, h.target>> \in sessions

\* The owner of a call in the manager is the session its coordinator's actor
\* owns, of the same generation, and events of that session reach it
OwnerReachable ==
  \A c \in Calls : owner[c] # NoOwner /\ HubAlive(c) =>
    owner[c] = [sess |-> hub[c].sess, gen |-> hub[c].gen] /\ <<c, owner[c].sess>> \in sessions

\* A call has one owner, reachable and known to its hand-over: the type
\* invariant and the two facts above
OneOwner == TypeOK /\ TokenIsCurrent /\ OwnerReachable

\* An event the adapter sends twice changes the call once, across hand-overs
EventsOnce == \A s \in Sessions, n \in 1..MaxInputs : applied[s][n] <= 1

\* An actor that was quiesced for a hand-over runs again: as the coordinator
\* on the new leg, or as before
HandedComesBack == \A c \in Calls : hub[c].at = "handed" ~> hub[c].at # "handed"

\* A call that began to end gets its record, whatever the hand-over, the
\* registration of an attempt or the end of the connection do meanwhile; and
\* the end of the connection ends all of its calls
CallsAreFinalized ==
  \A c \in Calls :
    (hub[c].phase = "ending" \/ (loop.phase = "closed" /\ hub[c].at # "none")) ~> fin[c] = "done"

\* A lifecycle message reaches its actor, or the actor is gone: the
\* dispatcher's queue is worked off again and again
DispatcherProgress == []<>(queue = << >>)
===============================================================================
