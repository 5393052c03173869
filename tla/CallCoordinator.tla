-------------------------- MODULE CallCoordinator --------------------------
(***************************************************************************)
(* The coordinator of one call (voipswitchd `SessionActor`): the caller's  *)
(* leg, a sequential hunt over callee attempts or the transfer of an AI    *)
(* agent's call, the SDP jobs of the media worker, the registration of new *)
(* attempts, the dial, ring and cleanup timers, and the drain of the       *)
(* switch.  The coordinator handles one message at a time, so one action   *)
(* is one whole handler; what interleaves are the SIP legs, the media      *)
(* worker, the registrar, the AI gateway and the timers.                   *)
(*                                                                         *)
(* The fields the handlers read and write are one record, `c`, and a       *)
(* handler's helper is an operator on such records, as the methods of      *)
(* `SessionActor` are on `self`.  The topology is that of CallAggregate.   *)
(***************************************************************************)
EXTENDS CallAggregate, Sequences

CONSTANTS
  AiCall,    \* the call is answered by an AI agent: attempt 1 has no SIP leg
  Races      \* the timing and failure classes the environment may show

AllRaces == {"TimerDuringMedia",  \* dial or ring deadline while SDP or the answer is under way
             "LateLegEvent",       \* an abandoned leg reports before its successor is registered
             "ActionFailure",      \* the adapter or the registrar refuses a request
             "Overload",           \* a bounded queue refuses a submission
             "EndRefused"}         \* the caller's queue refuses the hangup of an agent's EndCall

ASSUME AiCallAssumption == AiCall \in BOOLEAN
ASSUME RacesAssumption == Races \subseteq AllRaces

VARIABLES
  c,          \* CallRuntime and CoordinatorRuntimeState of the coordinator
  leg,        \* what each SIP leg is doing at the adapter
  evq,        \* messages under way from a leg's session actor to the coordinator
  alive,      \* the session actors that still forward messages
  shutdown    \* the drain of the switch, as this call sees it

envVars == <<leg, evq, alive>>
vars == <<aggVars, c, leg, evq, alive, shutdown>>

Timers == {"Dial", "Ring", "Cleanup"}
Verbs == {"Reject", "Cancel", "Hangup"}
LiveLeg == {"offered", "dialing", "ringing", "answered"}
Jobs == [kind : {"Provisional", "Answer", "AiAgentAnswer", "TransferAnswer",
                 "CalleeAttemptOffer", "StartMedia"},
         gen : Nat, seq : Attempt \cup {0}, ring : BOOLEAN]
Events == {"provisional", "answered", "failed", "disconnected", "cancelled",
           "ack", "nack", "originateFailed", "actionFailed"}

Job(kind, gen, seq, ring) == [kind |-> kind, gen |-> gen, seq |-> seq, ring |-> ring]

----------------------------------------------------------------------------
(* What a handler does to the coordinator's record *)

Terminating(d) == d.state = "Terminating"

\* submit_caller_action / submit_callee_action of a command that ends a leg
Tell(d, l, verb) == [d EXCEPT !.told[l] = @ \cup {verb}]

\* start_timer and cancel_timer: a slot holds the newest generation or nothing
Arm(d, k) == [d EXCEPT !.timers = @ \cup {k}]
Disarm(d, ks) == [d EXCEPT !.timers = @ \ ks]

\* A job queued for the media worker under a new media generation
Prepare(d, kind, seq, ring) ==
  [d EXCEPT !.mgen = @ + 1, !.jobs = Append(@, Job(kind, d.mgen + 1, seq, ring))]

\* ai_agent_conversation_active: the callee target changes with the attempt
AiActive(d) == (AiCall /\ current = 1) \/ d.transfer \/ d.transferFailed

\* begin_finish_call: what the media worker still answers is ignored from here on
Finish(d, how) ==
  [d EXCEPT !.state = "Terminating", !.finish = how, !.timers = {},
            !.mgen = @ + 1, !.jobs = <<>>]

\* terminate_exhausted_retry and terminate_retry_setup
TerminateRetry(d) ==
  Arm(Tell([d EXCEPT !.state = "Terminating", !.calleeDone = TRUE], Caller, "Reject"), "Cleanup")

\* Mutant: the cleanup timer is not started.
MutantFailMedia(d, verb) ==
  IF Terminating(d) THEN d
  ELSE Tell(Tell(
         [Disarm(d, {"Dial", "Ring"}) EXCEPT !.state = "Terminating", !.answering = FALSE,
                                              !.mgen = @ + 1],
         current, verb), Caller, "Reject")

\* fail_media_negotiation
FailMedia(d, verb) ==
  IF Terminating(d) THEN d
  ELSE Arm(Tell(Tell(
         [Disarm(d, {"Dial", "Ring"}) EXCEPT !.state = "Terminating", !.answering = FALSE,
                                              !.mgen = @ + 1],
         current, verb), Caller, "Reject"), "Cleanup")

\* Mutant: pending_ai_transfer is not taken.
MutantFailTransfer(d) ==
  [Disarm(d, {"Dial", "Ring"}) EXCEPT !.transferFailed = TRUE, !.calleeDone = TRUE]

\* fail_ai_transfer: the caller goes back to the agent
FailTransfer(d) ==
  [Disarm(d, {"Dial", "Ring"}) EXCEPT !.transfer = FALSE, !.transferFailed = TRUE,
                                       !.calleeDone = TRUE]

\* Mutant: pending_attempt_candidate and the registration are not looked at.
MutantHasRetryCandidate(d, retryable) ==
  ~IsAnswered /\ ~Terminating(d) /\ d.remaining > 0 /\ retryable

\* has_retry_candidate: whether the status may be retried and the route
\* budget leaves a window are inputs of the handler
HasRetryCandidate(d, retryable) ==
  /\ ~IsAnswered /\ ~Terminating(d)
  /\ d.pending = 0 /\ d.registering = 0 /\ ~d.retry
  /\ d.remaining > 0 /\ retryable

\* The offer for the next attempt goes to the media worker, and no timer runs
\* (the common tail of begin_next_attempt and begin_ai_transfer_attempt)
OfferNext(d) ==
  Prepare([d EXCEPT !.timers = {}, !.pending = current + 1],
          "CalleeAttemptOffer", current + 1, FALSE)

\* Mutant: the next attempt starts while the previous one still rings.
MutantWaitForRetry(d) == OfferNext([d EXCEPT !.remaining = @ - 1])

\* wait_for_retry_cleanup
WaitForRetry(d) ==
  Arm(Tell([Disarm(d, {"Dial", "Ring"}) EXCEPT !.retry = TRUE], current, "Cancel"), "Cleanup")

\* The command that ends the leg of a transfer in progress
TransferVerb(d) == IF d.answering THEN "Hangup" ELSE "Cancel"

\* The caller has gone: end the peer, or the agent's side with no command
EndPeerOfCaller(d, verb) ==
  IF d.transfer THEN Arm(Tell([d EXCEPT !.transfer = FALSE], current, TransferVerb(d)), "Cleanup")
  ELSE IF AiActive(d) THEN [d EXCEPT !.calleeDone = TRUE]
  ELSE Arm(Tell(d, current, verb), "Cleanup")

\* handle_cancelled
Cancelled(d) ==
  LET gone == [Disarm(d, {"Dial"}) EXCEPT !.callerDone = TRUE, !.state = "Terminating"]
  IN IF Terminating(d) THEN [gone EXCEPT !.transfer = FALSE]
     ELSE EndPeerOfCaller(Disarm(gone, {"Ring"}), IF IsAnswered THEN "Hangup" ELSE "Cancel")

\* handle_disconnected past its early returns
Disconnected(d, l) ==
  LET gone == [Disarm(d, {"Dial"}) EXCEPT !.state = "Terminating",
                 !.callerDone = @ \/ l = Caller, !.calleeDone = @ \/ l = current]
  IN IF Terminating(d) THEN gone
     ELSE IF l = Caller THEN EndPeerOfCaller(Disarm(gone, {"Ring"}), "Hangup")
     ELSE Arm(Tell(Disarm(gone, {"Ring"}), Caller, "Hangup"), "Cleanup")

\* The termination both branches of handle_timer end in
TimerTerminates(d) ==
  Arm(Tell(Tell([d EXCEPT !.state = "Terminating"], current, "Cancel"), Caller, "Reject"),
      "Cleanup")

\* begin_shutdown
DrainCall(d) ==
  LET e == [d EXCEPT !.retry = FALSE]
      agentGone == AiActive(d) /\ ~d.transfer
      quit == [Disarm(e, {"Dial", "Ring"}) EXCEPT !.state = "Terminating",
                 !.calleeDone = @ \/ agentGone]
      callerTold == IF d.callerDone THEN quit
                    ELSE Tell(quit, Caller, IF IsAnswered THEN "Hangup" ELSE "Reject")
      calleeTold == IF quit.calleeDone THEN callerTold
                    ELSE Tell(callerTold, current,
                              IF IsAnswered /\ ~d.transfer THEN "Hangup" ELSE "Cancel")
  IN IF Terminating(d) THEN e ELSE Arm(calleeTold, "Cleanup")

\* Mutant: the cleanup timer is not started.
MutantAgentEnds(d) ==
  Tell([Disarm(d, {"Dial", "Ring"}) EXCEPT !.state = "Terminating", !.calleeDone = TRUE],
       Caller, "Hangup")

\* EndCall of handle_ai_action, and handle_ai_gateway_unavailable
AgentEnds(d) ==
  Arm(Tell([Disarm(d, {"Dial", "Ring"}) EXCEPT !.state = "Terminating", !.calleeDone = TRUE],
           Caller, "Hangup"), "Cleanup")

\* handle_action_failure past the retries
ActionFailed(d, peer, originate) ==
  LET quit == [Disarm(d, {"Dial", "Ring"}) EXCEPT !.state = "Terminating",
                                                  !.calleeDone = @ \/ peer]
  IN IF Terminating(d) THEN d
     ELSE Arm(IF originate THEN Tell(quit, Caller, "Reject") ELSE quit, "Cleanup")

----------------------------------------------------------------------------
(* How a handler returns *)

\* complete_processing after Ok: a call whose two sides are gone is finalized
Commit(d) ==
  IF d.callerDone /\ d.calleeDone
  THEN ReleaseTopology /\ c' = Finish(d, "settled")
  ELSE UNCHANGED aggVars /\ c' = d

\* Mutant: the candidate is not taken off the route.
MutantBeginNextAttempt(d) ==
  \/ FailAttempt /\ c' = OfferNext(d)
  \/ FailAttemptRefused /\ c' = Finish(d, "error")

\* begin_next_attempt once its conditions hold; an attempt that cannot fail
\* any more is an error, and complete_processing ends the call
BeginNextAttempt(d) ==
  \/ FailAttempt /\ c' = OfferNext([d EXCEPT !.remaining = @ - 1])
  \/ FailAttemptRefused /\ c' = Finish(d, "error")

MayBeginNext(d, budget) ==
  shutdown = "no" /\ ~Terminating(d) /\ budget /\ d.remaining > 0

\* retry_after_cleanup is taken: the hunt goes on or is exhausted
ResumeHunt(d, budget) ==
  LET e == [d EXCEPT !.retry = FALSE, !.calleeDone = TRUE, !.timers = @ \ {"Cleanup"}]
  IN IF MayBeginNext(e, budget) THEN BeginNextAttempt(e) ELSE Commit(TerminateRetry(e))

----------------------------------------------------------------------------
(* Leg messages: handle_caller_leg_event, handle_peer_leg_event *)

\* Only under the LateLegEvent race does a leg that was given up still reach
\* the coordinator while its successor is being prepared and registered.
Timely(l) ==
  \/ l = Caller
  \/ c.pending = 0 /\ c.registering = 0
  \/ "LateLegEvent" \in Races

Receive(l, kind) ==
  /\ c.finish = "no"
  /\ evq[l] # <<>>
  /\ Head(evq[l]) = kind
  /\ Timely(l)
  /\ evq' = [evq EXCEPT ![l] = Tail(@)]
  /\ UNCHANGED <<leg, alive, shutdown>>

\* A leg event of an attempt that is not the current one is ignored.
StaleLegEvent(a) ==
  /\ a # current
  /\ \E kind \in {"provisional", "answered", "failed", "disconnected"} : Receive(a, kind)
  /\ UNCHANGED <<aggVars, c>>

IgnoresProvisional(d) ==
  \/ d.retry \/ Terminating(d) \/ d.pendingAnswer \/ d.answering
  \/ IsAnswered /\ ~d.transfer

\* Mutant: ringing cancels the dial timer and starts none.
MutantHandleProvisional(a, sdp) ==
  /\ a = current
  /\ Receive(a, "provisional")
  /\ c' = IF IgnoresProvisional(c) THEN c
          ELSE [Disarm(c, {"Dial"}) EXCEPT !.state = "Establishing"]
  /\ UNCHANGED aggVars

\* handle_provisional
HandleProvisional(a, sdp) ==
  /\ a = current
  /\ Receive(a, "provisional")
  /\ LET ring == "Ring" \notin c.timers
         rung == Arm(Disarm(c, {"Dial"}), "Ring")
         early == [rung EXCEPT !.state = "Establishing"]
     IN c' = IF IgnoresProvisional(c) THEN c
             ELSE IF c.transfer THEN rung
             ELSE IF sdp THEN Prepare(early, "Provisional", 0, ring)
             ELSE early
  /\ UNCHANGED aggVars

\* Mutant: an answer that comes during the wait for the retry is taken.
MutantHandleAnswered(a, sdp, budget) ==
  /\ a = current
  /\ Receive(a, "answered")
  /\ Commit(IF Terminating(c) \/ IsAnswered THEN c
            ELSE Prepare([Disarm(c, {"Dial"}) EXCEPT !.answering = TRUE], "Answer", 0, FALSE))

\* handle_answered
HandleAnswered(a, sdp, budget) ==
  /\ a = current
  /\ Receive(a, "answered")
  /\ LET d == Disarm(c, {"Dial"})
     IN IF c.retry THEN ResumeHunt(Tell(d, a, "Hangup"), budget)
        ELSE Commit(
          IF (~c.transfer /\ IsAnswered) \/ c.pendingAnswer THEN d
          ELSE IF Terminating(c)
               THEN IF c.lateSent THEN d ELSE Tell([d EXCEPT !.lateSent = TRUE], a, "Hangup")
          ELSE IF ~sdp THEN FailMedia(d, "Hangup")
          ELSE Prepare([d EXCEPT !.answering = TRUE],
                       IF c.transfer THEN "TransferAnswer" ELSE "Answer", 0, FALSE))

\* handle_failed
HandleFailed(a, retryable, budget) ==
  /\ a = current
  /\ Receive(a, "failed")
  /\ LET d == Disarm(c, {"Dial"})
         gone == [d EXCEPT !.state = "Terminating", !.calleeDone = TRUE]
         hunting == HasRetryCandidate(d, retryable /\ budget)
     IN IF Terminating(c) THEN Commit(gone)
        ELSE IF c.transfer THEN Commit(FailTransfer(d))
        ELSE IF c.retry THEN ResumeHunt(d, budget)
        ELSE IF hunting /\ MayBeginNext(d, budget)
             THEN BeginNextAttempt([d EXCEPT !.calleeDone = TRUE])
        ELSE Commit(Arm(Tell(Disarm(gone, {"Ring"}), Caller, "Reject"), "Cleanup"))

\* handle_disconnected of the current callee leg
HandleCalleeDisconnected(a, budget) ==
  /\ a = current
  /\ Receive(a, "disconnected")
  /\ IF c.answering /\ ~Terminating(c) THEN Commit([c EXCEPT !.deferred = a])
     ELSE IF c.transferFailed THEN Commit(c)
     ELSE IF ~Terminating(c) /\ c.transfer THEN Commit(FailTransfer(c))
     ELSE IF ~Terminating(c) /\ c.retry THEN ResumeHunt(c, budget)
     ELSE Commit(Disconnected(c, a))

HandleCallerDisconnected == Receive(Caller, "disconnected") /\ Commit(Disconnected(c, Caller))

HandleCancelled == Receive(Caller, "cancelled") /\ Commit(Cancelled(c))

----------------------------------------------------------------------------
(* Results of adapter actions *)

\* accept_action_result: the result carries the generation of its request
AnswerResultAccepted == c.answerGen = c.agen

\* Mutant: the deferred disconnect is forgotten.
MutantConfirmAnswer(budget) ==
  /\ MarkAnswered(c.mgen)
  /\ c' = [c EXCEPT !.state = "Connected", !.pendingAnswer = FALSE, !.answering = FALSE,
              !.timers = @ \ {"Ring"}, !.deferred = 0,
              !.jobs = Append(@, Job("StartMedia", c.mgen, 0, FALSE))]

\* confirm_answer: the caller is connected, and a disconnect of the callee
\* that arrived meanwhile is handled now
ConfirmAnswer(budget) ==
  LET joined == [c EXCEPT !.state = "Connected", !.pendingAnswer = FALSE, !.answering = FALSE,
                   !.timers = @ \ {"Ring"}, !.deferred = 0,
                   !.jobs = Append(@, Job("StartMedia", c.mgen, 0, FALSE))]
      given == [joined EXCEPT !.retry = FALSE, !.calleeDone = TRUE, !.timers = @ \ {"Cleanup"}]
      ended == c.deferred # 0 /\ ~c.transferFailed
      hunts == ended /\ c.retry /\ c.deferred = current
  IN \/ /\ ~hunts
        /\ MarkAnswered(c.mgen)
        /\ c' = IF ended THEN Disconnected(joined, c.deferred) ELSE joined
     \/ /\ hunts /\ MayBeginNext(given, budget)
        /\ MarkAnsweredThenRefused(c.mgen)
        /\ c' = Finish(given, "error")
     \/ /\ hunts /\ ~MayBeginNext(given, budget)
        /\ MarkAnswered(c.mgen)
        /\ c' = TerminateRetry(given)
     \/ MarkAnsweredRefused /\ c' = Finish(c, "error")

HandleAnswerAck(budget) ==
  /\ Receive(Caller, "ack")
  /\ IF ~AnswerResultAccepted \/ ~c.pendingAnswer THEN Commit(c)
     ELSE IF Terminating(c) THEN Commit([c EXCEPT !.pendingAnswer = FALSE, !.answering = FALSE])
     ELSE ConfirmAnswer(budget)

HandleAnswerNack ==
  /\ Receive(Caller, "nack")
  /\ Commit(IF AnswerResultAccepted THEN ActionFailed(c, FALSE, FALSE) ELSE c)

\* An AdoptInboundInvite or ForwardProvisional is refused (a stale result is
\* the same as none).
HandleCallerActionFailed ==
  /\ "ActionFailure" \in Races
  /\ c.finish = "no"
  /\ Commit(ActionFailed(c, FALSE, FALSE))
  /\ UNCHANGED <<leg, evq, alive, shutdown>>

\* handle_action_failure with peer_failure: neither the session nor the
\* generation of the failed request is compared.
HandleOriginateFailed(a, budget) ==
  /\ Receive(a, "originateFailed")
  /\ IF c.transfer THEN Commit(FailTransfer(c))
     ELSE IF HasRetryCandidate(c, budget) /\ MayBeginNext(c, budget)
          THEN BeginNextAttempt([c EXCEPT !.calleeDone = TRUE])
     ELSE Commit(ActionFailed(c, TRUE, TRUE))

HandlePeerActionFailed(a) ==
  Receive(a, "actionFailed") /\ Commit(ActionFailed(c, TRUE, FALSE))

----------------------------------------------------------------------------
(* Results of the media worker, in the order of the jobs *)

MediaResult(kinds) ==
  /\ c.finish = "no"
  /\ c.jobs # <<>>
  /\ Head(c.jobs).kind \in kinds
  /\ UNCHANGED <<evq, alive, shutdown>>

Done(d) == [d EXCEPT !.jobs = Tail(@)]

\* Mutant: a result is applied to a terminating call.
MutantStaleMedia(j) ==
  \/ j.gen # c.mgen
  \/ j.kind = "Provisional" /\ (c.pendingAnswer \/ c.answering \/ IsAnswered)

StaleMedia(j) ==
  \/ j.gen # c.mgen
  \/ Terminating(c)
  \/ j.kind = "Provisional" /\ (c.pendingAnswer \/ c.answering \/ IsAnswered)

\* handle_media_action_result, the results that are not applied
IgnoreMedia ==
  /\ MediaResult({"Provisional", "Answer", "AiAgentAnswer", "TransferAnswer", "CalleeAttemptOffer"})
  /\ StaleMedia(Head(c.jobs))
  /\ Commit(Done(c))
  /\ UNCHANGED leg

\* An SDP could not be prepared.
MediaFailed ==
  /\ MediaResult({"Provisional", "Answer", "AiAgentAnswer", "TransferAnswer"})
  /\ ~StaleMedia(Head(c.jobs))
  /\ Commit(FailMedia(Done(c), IF Head(c.jobs).kind = "Provisional" THEN "Cancel" ELSE "Hangup"))
  /\ UNCHANGED leg

ProvisionalPrepared ==
  /\ MediaResult({"Provisional"})
  /\ ~StaleMedia(Head(c.jobs))
  /\ Commit(IF Head(c.jobs).ring THEN Arm(Done(c), "Ring") ELSE Done(c))
  /\ UNCHANGED leg

\* complete_answer: AnswerInboundInvite is sent to the caller's leg
AnswerPrepared ==
  /\ MediaResult({"Answer", "AiAgentAnswer"})
  /\ ~StaleMedia(Head(c.jobs))
  /\ Commit([Done(c) EXCEPT !.state = "Answering", !.pendingAnswer = TRUE, !.answerGen = c.agen])
  /\ UNCHANGED leg

TransferAnswerPrepared ==
  /\ MediaResult({"TransferAnswer"})
  /\ ~StaleMedia(Head(c.jobs))
  /\ \/ /\ MarkTransferAnswered(c.mgen)
        /\ c' = [Done(c) EXCEPT !.state = "Connected", !.answering = FALSE, !.calleeDone = FALSE,
                   !.transfer = FALSE, !.transferFailed = FALSE,
                   !.jobs = Append(@, Job("StartMedia", c.mgen, 0, FALSE))]
     \/ MarkTransferAnsweredRefused /\ c' = Finish(c, "error")
  /\ UNCHANGED leg

\* handle_attempt_offer_prepared: the attempt's session goes to the registrar,
\* under a new action generation; its queue may refuse it
OfferPrepared(result) ==
  /\ result = "refused" => "Overload" \in Races
  /\ MediaResult({"CalleeAttemptOffer"})
  /\ ~StaleMedia(Head(c.jobs))
  /\ LET taken == [Done(c) EXCEPT !.pending = 0]
         d == IF result = "failed" THEN taken ELSE [taken EXCEPT !.agen = @ + 1]
     IN Commit(
          IF c.pending # Head(c.jobs).seq THEN taken
          ELSE IF result = "prepared"
               THEN [d EXCEPT !.registering = c.pending, !.registration = "queued"]
          ELSE IF c.transfer THEN FailTransfer(d)
          ELSE TerminateRetry(d))
  /\ UNCHANGED leg

\* AnswerMediaStarted: not compared with the state of the call
MediaStarted ==
  /\ MediaResult({"StartMedia"})
  /\ LET gen == Head(c.jobs).gen
     IN \/ gen # c.mgen /\ Commit(Done(c))
        \/ gen = c.mgen /\ ActivateBridge(gen) /\ c' = Done(c)
        \/ gen = c.mgen /\ ActivateBridgeRefused(gen) /\ c' = Finish(c, "error")
  /\ UNCHANGED leg

----------------------------------------------------------------------------
(* Registration of the next attempt *)

\* handle_attempt_registration of the session manager: the previous session is
\* unregistered and its actor shut down behind what it was already sent.
Register ==
  /\ c.registration = "queued"
  /\ c' = [c EXCEPT !.registration = "registered"]
  /\ alive' = (alive \ {current}) \cup {c.registering}
  /\ UNCHANGED <<aggVars, leg, evq, shutdown>>

RefuseRegistration ==
  /\ "ActionFailure" \in Races
  /\ c.registration = "queued"
  /\ c' = [c EXCEPT !.registration = "rejected"]
  /\ UNCHANGED <<aggVars, leg, evq, alive, shutdown>>

Registered(d) == [d EXCEPT !.registering = 0, !.registration = "idle"]

\* handle_attempt_registration_result(Registered): the attempt is originated
AttemptRegistered ==
  /\ c.finish = "no"
  /\ c.registration = "registered"
  /\ IF Terminating(c)
     THEN /\ Commit(Registered(c))
          /\ alive' = alive \ {c.registering}
          /\ UNCHANGED leg
     ELSE /\ RegisterAttempt(c.registering)
          /\ c' = Arm([Registered(c) EXCEPT !.calleeDone = FALSE, !.lateSent = FALSE], "Dial")
          /\ leg' = [leg EXCEPT ![c.registering] = "dialing"]
          /\ UNCHANGED alive
  /\ UNCHANGED <<evq, shutdown>>

AttemptRejected ==
  /\ c.finish = "no"
  /\ c.registration = "rejected"
  /\ Commit(IF c.transfer THEN FailTransfer(Registered(c)) ELSE TerminateRetry(Registered(c)))
  /\ UNCHANGED <<leg, evq, alive, shutdown>>

----------------------------------------------------------------------------
(* Timers *)

\* handle_timer(Dial) and handle_timer(Ring)
SetupTimerExpires(k, budget) ==
  /\ c.finish = "no"
  /\ k \in c.timers
  /\ (c.jobs # <<>> \/ c.answering \/ c.pendingAnswer) => "TimerDuringMedia" \in Races
  /\ LET d == Disarm(c, {k})
     IN Commit(
          IF Terminating(c) THEN d
          ELSE IF c.transfer THEN FailTransfer(Tell(d, current, "Cancel"))
          ELSE IF IsAnswered THEN d
          ELSE IF HasRetryCandidate(d, budget) THEN WaitForRetry(d)
          ELSE TimerTerminates(d))
  /\ UNCHANGED <<leg, evq, alive, shutdown>>

\* Mutant: the callee is forgotten.
MutantForcedRemoval(d) ==
  Finish(IF d.callerDone THEN d ELSE Tell(d, Caller, "Hangup"), "timeout")

\* handle_timer(Cleanup): what is not known to be gone is hung up, and the call is over
ForcedRemoval(d) ==
  LET caller == IF d.callerDone THEN d ELSE Tell(d, Caller, "Hangup")
      both == IF d.calleeDone THEN caller ELSE Tell(caller, current, "Hangup")
  IN Finish(both, "timeout")

CleanupExpires(budget) ==
  /\ c.finish = "no"
  /\ "Cleanup" \in c.timers
  /\ LET d == Disarm(c, {"Cleanup"})
     IN IF c.retry THEN ResumeHunt(Tell(d, current, "Hangup"), budget)
        ELSE IF ~Terminating(c) THEN Commit(d)
        ELSE ReleaseTopology /\ c' = ForcedRemoval(d)
  /\ UNCHANGED <<leg, evq, alive, shutdown>>

----------------------------------------------------------------------------
(* The AI agent, the drain of the switch and the end of the actor *)

\* EndCall of handle_ai_action; handle_ai_gateway_unavailable also ends a call
\* that has not been answered yet
AgentEndsCall ==
  /\ AiCall
  /\ c.finish = "no"
  /\ AiActive(c) /\ ~Terminating(c)
  /\ Commit(AgentEnds(c))
  /\ UNCHANGED <<leg, evq, alive, shutdown>>

\* The hangup of an EndCall is refused: handle_ai_action catches the error and
\* reports the action as rejected, and the call keeps what was assigned before.
AgentEndRefused ==
  /\ AiCall /\ "EndRefused" \in Races
  /\ c.finish = "no"
  /\ AiActive(c) /\ ~Terminating(c) /\ IsAnswered
  /\ Commit([Disarm(c, {"Dial", "Ring"}) EXCEPT !.state = "Terminating", !.calleeDone = TRUE])
  /\ UNCHANGED <<leg, evq, alive, shutdown>>

\* TransferToExtension of handle_ai_action, begin_ai_transfer_attempt.  Bounds:
\* the call's attempts, and the media generation a transfer may start from.
AgentTransfers ==
  /\ AiCall
  /\ c.finish = "no"
  /\ AiActive(c) /\ ~Terminating(c) /\ IsAnswered /\ ~c.transfer
  /\ current < MaxAttempts /\ c.mgen < MaxGeneration
  /\ LET d == [c EXCEPT !.transfer = TRUE]
     IN Commit(IF shutdown # "no" \/ c.pending # 0 \/ c.registering # 0
               THEN FailTransfer(d) ELSE OfferNext(d))
  /\ UNCHANGED <<leg, evq, alive, shutdown>>

\* The media worker's queue refuses the offer of a transfer: the transfer fails
\* and its candidate stays pending.
AgentTransferRefused ==
  /\ AiCall /\ "Overload" \in Races
  /\ c.finish = "no"
  /\ AiActive(c) /\ ~Terminating(c) /\ IsAnswered /\ ~c.transfer
  /\ current < MaxAttempts /\ c.mgen < MaxGeneration
  /\ shutdown = "no" /\ c.pending = 0 /\ c.registering = 0
  /\ Commit(FailTransfer([OfferNext(c) EXCEPT !.jobs = c.jobs]))
  /\ UNCHANGED <<leg, evq, alive, shutdown>>

\* is_shutting_down becomes true before the coordinator sees the change.
SystemShutdown ==
  /\ shutdown = "no"
  /\ shutdown' = "signalled"
  /\ UNCHANGED <<aggVars, c, leg, evq, alive>>

BeginShutdown ==
  /\ c.finish = "no"
  /\ shutdown = "signalled"
  /\ shutdown' = "seen"
  /\ Commit(DrainCall(c))
  /\ UNCHANGED <<leg, evq, alive>>

\* A bounded queue refuses the first submission of a handler (a digit to
\* forward can start one at any time): complete_processing ends the call.
SubmissionRefused ==
  /\ "Overload" \in Races
  /\ c.finish = "no"
  /\ ReleaseTopology
  /\ c' = Finish(c, "error")
  /\ UNCHANGED <<leg, evq, alive, shutdown>>

\* ForceCleanup: the adapter connection is lost or the drain has run out of time
ForceCleanup ==
  /\ ~c.finalized
  /\ IF c.finish = "no"
     THEN ReleaseTopology /\ c' = [Finish(c, "forced") EXCEPT !.finalized = TRUE]
     ELSE UNCHANGED aggVars /\ c' = [c EXCEPT !.finalized = TRUE]
  /\ UNCHANGED <<leg, evq, alive, shutdown>>

\* finalize_call has run and CallFinalized is handled
CallFinalized ==
  /\ c.finish # "no"
  /\ ~c.finalized
  /\ c' = [c EXCEPT !.finalized = TRUE]
  /\ UNCHANGED <<aggVars, leg, evq, alive, shutdown>>

----------------------------------------------------------------------------
(* The SIP legs behind the adapter (vs_mock_adapterd scenario) *)

\* A leg moves and, when its session actor still runs, reports it.
LegStep(l, to, kind) ==
  /\ ~c.finalized
  /\ leg' = [leg EXCEPT ![l] = to]
  /\ evq' = IF l \in alive THEN [evq EXCEPT ![l] = Append(@, kind)] ELSE evq
  /\ UNCHANGED <<aggVars, c, alive, shutdown>>

CalleeRings(a) == leg[a] = "dialing" /\ LegStep(a, "ringing", "provisional")

CalleeAnswers(a) == leg[a] \in {"dialing", "ringing"} /\ LegStep(a, "answered", "answered")

CalleeFails(a) == leg[a] \in {"dialing", "ringing"} /\ LegStep(a, "ended", "failed")

CalleeLeaves(a) == leg[a] = "answered" /\ LegStep(a, "ended", "disconnected")

CallerCancels == leg[Caller] = "offered" /\ LegStep(Caller, "ended", "cancelled")

CallerLeaves == leg[Caller] = "answered" /\ LegStep(Caller, "ended", "disconnected")

\* A leg that was told to end is gone and reports nothing (a rejected INVITE,
\* or a dialog whose last message is lost).
LegEndsSilently(l) ==
  /\ ~c.finalized
  /\ leg[l] \in LiveLeg /\ c.told[l] # {}
  /\ l = Caller => ~(c.answerGen # 0 /\ leg[l] = "offered")
  /\ leg' = [leg EXCEPT ![l] = "ended"]
  /\ UNCHANGED <<aggVars, c, evq, alive, shutdown>>

\* AnswerInboundInvite is carried out on a caller that still waits.
CallerAnswered ==
  /\ leg[Caller] = "offered" /\ c.answerGen # 0
  /\ LegStep(Caller, "answered", "ack")

CallerAnswerRefused ==
  /\ "ActionFailure" \in Races
  /\ leg[Caller] = "offered" /\ c.answerGen # 0
  /\ LegStep(Caller, "ended", "nack")

\* forward_action_failure: the session actor reports the failure and stops.
CalleeActionFails(a) ==
  /\ "ActionFailure" \in Races
  /\ ~c.finalized
  /\ a \in alive
  /\ \/ /\ leg[a] = "dialing"
        /\ leg' = [leg EXCEPT ![a] = "ended"]
        /\ evq' = [evq EXCEPT ![a] = Append(@, "originateFailed")]
     \/ /\ leg[a] \in LiveLeg /\ c.told[a] # {}
        /\ evq' = [evq EXCEPT ![a] = Append(@, "actionFailed")]
        /\ UNCHANGED leg
  /\ alive' = alive \ {a}
  /\ UNCHANGED <<aggVars, c, shutdown>>

----------------------------------------------------------------------------
(* Specification *)

\* The record create_call builds and `run` starts from: the first attempt is
\* originated, or the agent's answer is being prepared.
Started(remaining) ==
  [state |-> "Establishing", callerDone |-> FALSE, calleeDone |-> FALSE,
   finish |-> "no", finalized |-> FALSE, timers |-> {"Dial"},
   retry |-> FALSE, remaining |-> remaining, pending |-> 0,
   registering |-> 0, registration |-> "idle",
   answering |-> FALSE, pendingAnswer |-> FALSE, answerGen |-> 0, deferred |-> 0,
   lateSent |-> FALSE, transfer |-> FALSE, transferFailed |-> FALSE,
   mgen |-> IF AiCall THEN 1 ELSE 0, agen |-> 1,
   jobs |-> IF AiCall THEN <<Job("AiAgentAnswer", 1, 0, FALSE)>> ELSE <<>>,
   told |-> [l \in Leg |-> {}]]

Init ==
  /\ AggInit
  /\ \E remaining \in 0..(IF AiCall THEN 0 ELSE MaxAttempts - 1) : c = Started(remaining)
  /\ leg = [l \in Leg |-> IF l = Caller THEN "offered"
                          ELSE IF l = 1 /\ ~AiCall THEN "dialing" ELSE "none"]
  /\ evq = [l \in Leg |-> <<>>]
  /\ alive = {Caller, 1}
  /\ shutdown = "no"

\* The coordinator's handlers
LegMessage ==
  \/ HandleCancelled
  \/ HandleCallerDisconnected
  \/ HandleAnswerNack
  \/ HandleCallerActionFailed
  \/ \E a \in Attempt :
       \/ StaleLegEvent(a)
       \/ HandlePeerActionFailed(a)
       \/ \E sdp \in BOOLEAN : HandleProvisional(a, sdp)
       \/ \E budget \in BOOLEAN :
            \/ HandleCalleeDisconnected(a, budget)
            \/ HandleOriginateFailed(a, budget)
            \/ \E sdp \in BOOLEAN : HandleAnswered(a, sdp, budget)
            \/ \E retryable \in BOOLEAN : HandleFailed(a, retryable, budget)
  \/ \E budget \in BOOLEAN : HandleAnswerAck(budget)

MediaMessage ==
  \/ IgnoreMedia \/ MediaFailed \/ ProvisionalPrepared \/ AnswerPrepared
  \/ TransferAnswerPrepared \/ MediaStarted
  \/ \E result \in {"prepared", "failed", "refused"} : OfferPrepared(result)

RegistrationMessage == AttemptRegistered \/ AttemptRejected
Registrar == Register \/ RefuseRegistration

TimerExpiry ==
  \E budget \in BOOLEAN :
    CleanupExpires(budget) \/ \E k \in {"Dial", "Ring"} : SetupTimerExpires(k, budget)

Agent == AgentEndsCall \/ AgentEndRefused \/ AgentTransfers \/ AgentTransferRefused

AdapterAnswer == CallerAnswered \/ CallerAnswerRefused

Legs ==
  \/ CallerCancels \/ CallerLeaves
  \/ \E l \in Leg : LegEndsSilently(l)
  \/ \E a \in Attempt :
       CalleeRings(a) \/ CalleeAnswers(a) \/ CalleeFails(a) \/ CalleeLeaves(a)
       \/ CalleeActionFails(a)

\* A finalized call makes no further step.
CallOver == c.finalized /\ UNCHANGED vars

Next ==
  \/ LegMessage \/ MediaMessage \/ RegistrationMessage \/ Registrar \/ TimerExpiry
  \/ Agent \/ AdapterAnswer \/ Legs
  \/ SystemShutdown \/ BeginShutdown \/ SubmissionRefused \/ ForceCleanup \/ CallFinalized
  \/ CallOver

Spec == Init /\ [][Next]_vars

\* The coordinator's loop takes the messages and the drain signal it is sent,
\* the media worker, the registrar and the finalizer answer, and an armed timer
\* expires.  Nothing is assumed of the legs, the caller and the agent, but that
\* the adapter carries out or refuses an answer.
Fairness ==
  /\ WF_vars(LegMessage) /\ WF_vars(MediaMessage) /\ WF_vars(RegistrationMessage)
  /\ WF_vars(Registrar) /\ WF_vars(TimerExpiry) /\ WF_vars(AdapterAnswer)
  /\ WF_vars(BeginShutdown) /\ WF_vars(CallFinalized)

FairSpec == Spec /\ Fairness

----------------------------------------------------------------------------
(* Properties *)

Coordinator ==
  [state : {"Establishing", "Answering", "Connected", "Terminating"},
   callerDone : BOOLEAN, calleeDone : BOOLEAN,
   finish : {"no", "settled", "timeout", "error", "forced"}, finalized : BOOLEAN,
   timers : SUBSET Timers,
   retry : BOOLEAN, remaining : Nat, pending : Nat,
   registering : Nat, registration : {"idle", "queued", "registered", "rejected"},
   answering : BOOLEAN, pendingAnswer : BOOLEAN, answerGen : Nat, deferred : Nat,
   lateSent : BOOLEAN, transfer : BOOLEAN, transferFailed : BOOLEAN,
   mgen : Nat, agen : Nat, jobs : Seq(Jobs), told : [Leg -> SUBSET Verbs]]

\* The record of the call's actor, its legs and the queues between them are
\* typed; a media job is only ever queued for an attempt the call can have.
TypeOK ==
  /\ c \in Coordinator
  /\ leg \in [Leg -> LiveLeg \cup {"none", "ended"}]
  /\ evq \in [Leg -> Seq(Events)]
  /\ alive \subseteq Leg
  /\ shutdown \in {"no", "signalled", "seen"}

\* The candidates left, the attempt being prepared or registered and the
\* current attempt number never add up to more than the attempts of the call.
HuntBudget(d, n) ==
  LET offered == d.pending # 0 \/ d.registering # 0
  IN /\ d.pending \in {0, n + 1} /\ d.registering \in {0, n + 1}
     /\ d.pending = 0 \/ d.registering = 0
     /\ n + d.remaining <= MaxAttempts
     /\ offered => n + d.remaining < MaxAttempts /\ ~d.retry
     /\ AiCall => d.remaining = 0 /\ ~d.retry

\* Failures, deadlines and late messages that each ask for the next attempt
\* get one between them: the hunt never prepares an attempt while another is
\* prepared, registered or waited for, and never runs past its route.
HuntWithinRoute == HuntBudget(c, current)

\* A call that terminates always has its cleanup deadline armed until it is
\* finalized, on every path into Terminating and through every message that
\* arrives afterwards: no terminating call depends on a leg to answer.
CleanupArmed == Terminating(c) /\ c.finish = "no" => "Cleanup" \in c.timers

\* No handler takes a terminating call back: not a late 180, 200, SDP, answer
\* acknowledgement or transfer, all of which assign the call's state.
TerminatingIsFinal == [][Terminating(c) => c'.state = "Terminating"]_vars

\* When a call is removed because both sides are gone or its cleanup deadline
\* passed, no leg of it is left running unless it was told to end, and an
\* answered one was told to hang up.
LegsReleased ==
  c.finish \in {"settled", "timeout"} =>
    \A l \in Leg : leg[l] \in LiveLeg =>
      \/ "Hangup" \in c.told[l]
      \/ leg[l] # "answered" /\ c.told[l] # {}

\* The hunt is sequential: two callee legs are never both running unless all
\* but one of them have been told to end.
OneLiveCallee ==
  \A a, b \in Attempt :
    leg[a] \in LiveLeg /\ leg[b] \in LiveLeg /\ c.told[a] = {} /\ c.told[b] = {} => a = b

\* The callee of the current attempt has answered and was not told to end.
CalleeStands(a) == (AiCall /\ a = 1) \/ (leg[a] \in {"answered", "ended"} /\ c.told[a] = {})

\* The caller's INVITE is answered only with the media of a callee that
\* answered and that the coordinator has not given up.
AnswerFromLiveLeg ==
  c.pendingAnswer /\ ~Terminating(c) => CalleeStands(current)

\* A connected call is bridged to a callee that answered and was not given up,
\* and is no longer waiting to try the next candidate.
ConnectedToWinner ==
  c.state = "Connected" /\ c.finish = "no" =>
    IsAnswered /\ CalleeStands(winner) /\ bridge[winner] \in {"Planned", "Active"} /\ ~c.retry

\* At most one callee's leg is live, and a connected caller is bridged to it:
\* neither a hunt nor a transfer leaves two callees, or the wrong one.
OneConnectedCallee == OneLiveCallee /\ ConnectedToWinner

\* A call that is being set up is eventually connected or terminated.
SetupResolves == (c.state \in {"Establishing", "Answering"}) ~> (c.state \in {"Connected", "Terminating"})

\* A terminating call is eventually finalized, whatever the legs do.
TerminationCompletes == Terminating(c) ~> c.finalized

\* A call is eventually connected or terminated, and then finalized.
CallResolves == SetupResolves /\ TerminationCompletes

\* A connected call whose callee has left is eventually terminated.
CalleeLossEndsCall ==
  (c.state = "Connected" /\ leg[winner] = "ended") ~> Terminating(c)
=============================================================================
