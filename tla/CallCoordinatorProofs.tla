---------------------- MODULE CallCoordinatorProofs ----------------------
(***************************************************************************)
(* Proofs about CallCoordinator, for every number of attempts, hunts and   *)
(* AI calls, and every set of races.                                       *)
(***************************************************************************)
EXTENDS CallCoordinator, CallAggregateProofs

\* The one path into Terminating that starts no timer is open: the refused
\* hangup of an agent's EndCall.
EndMayBeRefused == AiCall /\ "EndRefused" \in Races

DeadlineKept == EndMayBeRefused \/ CleanupArmed

\* What a handler may hand to Commit: a terminating call has its deadline
\* armed unless both sides are gone and it is finalized at once.
Ready(d) ==
  /\ d \in Coordinator
  /\ HuntBudget(d, current)
  /\ Terminating(d) => EndMayBeRefused \/ "Cleanup" \in d.timers \/ (d.callerDone /\ d.calleeDone)

----------------------------------------------------------------------------
(* Records *)

States == {"Establishing", "Answering", "Connected", "Terminating"}

\* The components of the coordinator's record that the lemmas use.
LEMMA Fields ==
  ASSUME NEW d \in Coordinator
  PROVE  /\ d.callerDone \in BOOLEAN /\ d.calleeDone \in BOOLEAN
         /\ d.timers \subseteq Timers /\ d.jobs \in Seq(Jobs)
         /\ d.remaining \in Nat /\ d.mgen \in Nat /\ d.agen \in Nat
         /\ d.pending \in Nat /\ d.registering \in Nat
  BY DEF Coordinator

\* Assigning the call's state keeps the record typed.
LEMMA SetState == ASSUME NEW d \in Coordinator, NEW v \in States
                  PROVE  [d EXCEPT !.state = v] \in Coordinator
  BY DEF Coordinator, States

\* Assigning caller_terminated keeps the record typed.
LEMMA SetCallerDone == ASSUME NEW d \in Coordinator, NEW v \in BOOLEAN
                       PROVE  [d EXCEPT !.callerDone = v] \in Coordinator
  BY DEF Coordinator

\* Assigning callee_terminated keeps the record typed.
LEMMA SetCalleeDone == ASSUME NEW d \in Coordinator, NEW v \in BOOLEAN
                       PROVE  [d EXCEPT !.calleeDone = v] \in Coordinator
  BY DEF Coordinator

\* Assigning the way the call is removed keeps the record typed.
LEMMA SetFinish == ASSUME NEW d \in Coordinator,
                          NEW v \in {"no", "settled", "timeout", "error", "forced"}
                   PROVE  [d EXCEPT !.finish = v] \in Coordinator
  BY DEF Coordinator

\* Assigning the finalizer's flag keeps the record typed.
LEMMA SetFinalized == ASSUME NEW d \in Coordinator, NEW v \in BOOLEAN
                      PROVE  [d EXCEPT !.finalized = v] \in Coordinator
  BY DEF Coordinator

\* Assigning the armed timers keeps the record typed.
LEMMA SetTimers == ASSUME NEW d \in Coordinator, NEW v \in SUBSET Timers
                   PROVE  [d EXCEPT !.timers = v] \in Coordinator
  BY DEF Coordinator

\* Assigning retry_after_cleanup keeps the record typed.
LEMMA SetRetry == ASSUME NEW d \in Coordinator, NEW v \in BOOLEAN
                  PROVE  [d EXCEPT !.retry = v] \in Coordinator
  BY DEF Coordinator

\* Assigning the candidates left keeps the record typed.
LEMMA SetRemaining == ASSUME NEW d \in Coordinator, NEW v \in Nat
                      PROVE  [d EXCEPT !.remaining = v] \in Coordinator
  BY DEF Coordinator

\* Assigning pending_attempt_candidate keeps the record typed.
LEMMA SetPending == ASSUME NEW d \in Coordinator, NEW v \in Nat
                    PROVE  [d EXCEPT !.pending = v] \in Coordinator
  BY DEF Coordinator

\* Assigning the attempt being registered keeps the record typed.
LEMMA SetRegistering == ASSUME NEW d \in Coordinator, NEW v \in Nat
                        PROVE  [d EXCEPT !.registering = v] \in Coordinator
  BY DEF Coordinator

\* Assigning the registrar's answer keeps the record typed.
LEMMA SetRegistration == ASSUME NEW d \in Coordinator,
                                NEW v \in {"idle", "queued", "registered", "rejected"}
                         PROVE  [d EXCEPT !.registration = v] \in Coordinator
  BY DEF Coordinator

\* Assigning answer_in_progress keeps the record typed.
LEMMA SetAnswering == ASSUME NEW d \in Coordinator, NEW v \in BOOLEAN
                      PROVE  [d EXCEPT !.answering = v] \in Coordinator
  BY DEF Coordinator

\* Assigning pending_answer keeps the record typed.
LEMMA SetPendingAnswer == ASSUME NEW d \in Coordinator, NEW v \in BOOLEAN
                          PROVE  [d EXCEPT !.pendingAnswer = v] \in Coordinator
  BY DEF Coordinator

\* Assigning the generation of the pending answer keeps the record typed.
LEMMA SetAnswerGen == ASSUME NEW d \in Coordinator, NEW v \in Nat
                      PROVE  [d EXCEPT !.answerGen = v] \in Coordinator
  BY DEF Coordinator

\* Assigning deferred_callee_disconnect keeps the record typed.
LEMMA SetDeferred == ASSUME NEW d \in Coordinator, NEW v \in Nat
                     PROVE  [d EXCEPT !.deferred = v] \in Coordinator
  BY DEF Coordinator

\* Assigning late_answer_cleanup_sent keeps the record typed.
LEMMA SetLateSent == ASSUME NEW d \in Coordinator, NEW v \in BOOLEAN
                     PROVE  [d EXCEPT !.lateSent = v] \in Coordinator
  BY DEF Coordinator

\* Assigning the transfer in progress keeps the record typed.
LEMMA SetTransfer == ASSUME NEW d \in Coordinator, NEW v \in BOOLEAN
                     PROVE  [d EXCEPT !.transfer = v] \in Coordinator
  BY DEF Coordinator

\* Assigning the transfer's failure flag keeps the record typed.
LEMMA SetTransferFailed == ASSUME NEW d \in Coordinator, NEW v \in BOOLEAN
                           PROVE  [d EXCEPT !.transferFailed = v] \in Coordinator
  BY DEF Coordinator

\* Assigning the media generation keeps the record typed.
LEMMA SetMgen == ASSUME NEW d \in Coordinator, NEW v \in Nat
                 PROVE  [d EXCEPT !.mgen = v] \in Coordinator
  BY DEF Coordinator

\* So does the next media generation.
LEMMA BumpMgen == ASSUME NEW d \in Coordinator
                  PROVE  [d EXCEPT !.mgen = @ + 1] \in Coordinator
<1>1. d.mgen + 1 \in Nat
  BY Fields
<1> QED BY <1>1, SetMgen

\* Assigning the answer generation keeps the record typed.
LEMMA SetAgen == ASSUME NEW d \in Coordinator, NEW v \in Nat
                 PROVE  [d EXCEPT !.agen = v] \in Coordinator
  BY DEF Coordinator

\* Assigning the media worker's queue keeps the record typed.
LEMMA SetJobs == ASSUME NEW d \in Coordinator, NEW v \in Seq(Jobs)
                 PROVE  [d EXCEPT !.jobs = v] \in Coordinator
  BY DEF Coordinator

\* So does an action sent to a leg.
LEMMA TellOK == ASSUME NEW d \in Coordinator, NEW l \in Leg, NEW v \in Verbs
                PROVE  Tell(d, l, v) \in Coordinator
  BY DEF Coordinator, Tell

\* So does arming a timer.
LEMMA ArmOK == ASSUME NEW d \in Coordinator, NEW k \in Timers
               PROVE  Arm(d, k) \in Coordinator
  BY DEF Coordinator, Arm

\* So does cancelling timers.
LEMMA DisarmOK == ASSUME NEW d \in Coordinator, NEW ks
                  PROVE  Disarm(d, ks) \in Coordinator
  BY DEF Coordinator, Disarm

\* A job appended to the media worker's queue keeps it a queue of jobs.
LEMMA AppendJob == ASSUME NEW q \in Seq(Jobs), NEW j \in Jobs
                   PROVE  Append(q, j) \in Seq(Jobs)
  OBVIOUS

\* Asking the media worker to prepare a session keeps the record typed.
LEMMA PrepareOK ==
  ASSUME NEW d \in Coordinator, NEW seq \in Attempt \cup {0}, NEW ring \in BOOLEAN,
         NEW kind \in {"Provisional", "Answer", "AiAgentAnswer", "TransferAnswer",
                       "CalleeAttemptOffer", "StartMedia"}
  PROVE  Prepare(d, kind, seq, ring) \in Coordinator
<1>1. Job(kind, d.mgen + 1, seq, ring) \in Jobs
  BY Fields DEF Job, Jobs
<1>2. Append(d.jobs, Job(kind, d.mgen + 1, seq, ring)) \in Seq(Jobs)
  BY <1>1, Fields
<1> DEFINE e == [d EXCEPT !.mgen = @ + 1]
<1>3. e \in Coordinator /\ e.jobs = d.jobs
  <2>1. e \in Coordinator
    BY BumpMgen
  <2> QED BY <2>1 DEF Coordinator
<1>4. Prepare(d, kind, seq, ring) = [e EXCEPT !.jobs = Append(e.jobs, Job(kind, d.mgen + 1, seq, ring))]
  BY DEF Prepare
<1> QED BY <1>2, <1>3, <1>4, SetJobs

\* The caller's leg is none of the attempts'.
LEMMA LegNumbers == Caller \in Leg /\ Attempt \subseteq Leg /\ Caller \notin Attempt
  BY MaxAttemptsAssumption DEF Caller, Leg, Attempt

\* The names of timers, actions and jobs are members of their sets.
LEMMA Names ==
  /\ "Reject" \in Verbs /\ "Cancel" \in Verbs /\ "Hangup" \in Verbs
  /\ "Dial" \in Timers /\ "Ring" \in Timers /\ "Cleanup" \in Timers
  /\ "Terminating" \in States /\ "Connected" \in States
  /\ "Answering" \in States /\ "Establishing" \in States
  BY DEF Verbs, Timers, States

----------------------------------------------------------------------------
(* What the handlers' helpers make of the record *)

\* Removing a call leaves it terminating, typed and within its route.
LEMMA FinishOK ==
  ASSUME NEW d \in Coordinator, HuntBudget(d, current),
         NEW how \in {"settled", "timeout", "error", "forced"}
  PROVE  /\ Finish(d, how) \in Coordinator /\ HuntBudget(Finish(d, how), current)
         /\ Terminating(Finish(d, how)) /\ Finish(d, how).finish = how
<1>1. Finish(d, how) \in Coordinator
  <2> DEFINE e == [d EXCEPT !.state = "Terminating", !.finish = how, !.timers = {}]
  <2>1. e \in Coordinator
    BY Names, SetState, SetFinish, SetTimers
  <2>2. [e EXCEPT !.mgen = @ + 1] \in Coordinator
    <3> HIDE DEF e
    <3> QED BY <2>1, BumpMgen
  <2>3. <<>> \in Seq(Jobs)
    OBVIOUS
  <2> QED BY <2>2, <2>3, SetJobs DEF Finish
<1> QED BY <1>1 DEF Finish, HuntBudget, Terminating, Coordinator

\* Giving up the hunt arms the cleanup deadline.
LEMMA TerminateRetryOK ==
  ASSUME NEW d \in Coordinator, HuntBudget(d, current)
  PROVE  /\ Ready(TerminateRetry(d)) /\ Terminating(TerminateRetry(d))
         /\ "Cleanup" \in TerminateRetry(d).timers
<1>1. TerminateRetry(d) \in Coordinator
  BY Names, LegNumbers, SetState, SetCalleeDone, TellOK, ArmOK DEF TerminateRetry
<1> QED BY <1>1, LegNumbers DEF TerminateRetry, Ready, HuntBudget, Terminating, Arm, Tell, Coordinator

\* A media failure ends the call with its cleanup deadline.
LEMMA FailMediaOK ==
  ASSUME NEW d, Ready(d), current \in Attempt, NEW verb \in Verbs
  PROVE  Ready(FailMedia(d, verb)) /\ Terminating(FailMedia(d, verb))
<1>0. d \in Coordinator /\ HuntBudget(d, current)
  BY DEF Ready
<1> DEFINE e == [Disarm(d, {"Dial", "Ring"}) EXCEPT !.state = "Terminating", !.answering = FALSE]
<1>1. [e EXCEPT !.mgen = @ + 1] \in Coordinator
  <2>1. e \in Coordinator
    BY <1>0, Names, SetState, SetAnswering, DisarmOK
  <2> HIDE DEF e
  <2> QED BY <2>1, BumpMgen
<1>2. FailMedia(d, verb) \in Coordinator
  BY <1>0, <1>1, Names, LegNumbers, TellOK, ArmOK DEF FailMedia
<1> QED BY <1>0, <1>2, LegNumbers DEF FailMedia, Ready, HuntBudget, Terminating, Arm, Disarm, Tell, Coordinator

\* A failed transfer leaves the agent's call ready.
LEMMA FailTransferOK ==
  ASSUME NEW d, Ready(d)
  PROVE  Ready(FailTransfer(d)) /\ (Terminating(FailTransfer(d)) <=> Terminating(d))
<1>0. d \in Coordinator /\ HuntBudget(d, current)
  BY DEF Ready
<1>1. FailTransfer(d) \in Coordinator
  BY <1>0, SetTransfer, SetTransferFailed, SetCalleeDone, DisarmOK DEF FailTransfer
<1> QED BY <1>0, <1>1 DEF FailTransfer, Ready, HuntBudget, Terminating, Disarm, Coordinator

\* Preparing the next candidate spends one of the candidates left.
LEMMA OfferNextOK ==
  ASSUME NEW d \in Coordinator, current \in Attempt, ~Terminating(d), ~d.retry,
         d.registering = 0, current + d.remaining < MaxAttempts, AiCall => d.remaining = 0
  PROVE  Ready(OfferNext(d))
<1>1. current + 1 \in Attempt /\ current + 1 \in Nat
  BY Fields, MaxAttemptsAssumption DEF Attempt
<1> DEFINE e == [d EXCEPT !.timers = {}, !.pending = current + 1]
<1>2. e \in Coordinator
  BY <1>1, SetTimers, SetPending
<1>3. OfferNext(d) \in Coordinator
  BY <1>1, <1>2, PrepareOK DEF OfferNext
<1> QED BY SMTT(30), <1>1, <1>3, Fields, MaxAttemptsAssumption
        DEF OfferNext, Prepare, Ready, HuntBudget, Terminating, Coordinator, Attempt

\* wait_for_retry_cleanup keeps the candidate count.
LEMMA WaitForRetryOK ==
  ASSUME NEW d, Ready(d), current \in Attempt, ~Terminating(d),
         d.pending = 0, d.registering = 0, d.remaining > 0
  PROVE  Ready(WaitForRetry(d))
<1>0. d \in Coordinator /\ HuntBudget(d, current)
  BY DEF Ready
<1>1. WaitForRetry(d) \in Coordinator
  BY <1>0, Names, LegNumbers, SetRetry, TellOK, ArmOK, DisarmOK DEF WaitForRetry
<1> QED BY <1>0, <1>1, LegNumbers DEF WaitForRetry, Ready, HuntBudget, Terminating, Arm, Disarm, Tell, Coordinator

\* A terminating call that tells one more leg to end and is given its deadline
LEMMA ArmCleanupOK ==
  ASSUME NEW d \in Coordinator, HuntBudget(d, current), Terminating(d),
         NEW l \in Leg, NEW verb \in Verbs
  PROVE  /\ Ready(Arm(Tell(d, l, verb), "Cleanup")) /\ Terminating(Arm(Tell(d, l, verb), "Cleanup"))
         /\ "Cleanup" \in Arm(Tell(d, l, verb), "Cleanup").timers
<1>1. Arm(Tell(d, l, verb), "Cleanup") \in Coordinator
  BY Names, TellOK, ArmOK
<1> QED BY <1>1 DEF Ready, HuntBudget, Terminating, Arm, Tell, Coordinator

\* A call whose caller has gone is terminating and is either given its
\* deadline or has lost both sides.
LEMMA EndPeerOK ==
  ASSUME NEW d \in Coordinator, HuntBudget(d, current), current \in Attempt,
         Terminating(d), d.callerDone, NEW verb \in Verbs
  PROVE  Ready(EndPeerOfCaller(d, verb)) /\ Terminating(EndPeerOfCaller(d, verb))
<1>1. CASE d.transfer
  <2> DEFINE e == [d EXCEPT !.transfer = FALSE]
  <2>1. e \in Coordinator /\ HuntBudget(e, current) /\ Terminating(e)
    BY ZenonT(60), SetTransfer DEF HuntBudget, Terminating, Coordinator
  <2> HIDE DEF e
  <2>2. EndPeerOfCaller(d, verb) = Arm(Tell(e, current, TransferVerb(d)), "Cleanup")
    BY <1>1 DEF EndPeerOfCaller, e
  <2> QED BY <2>1, <2>2, LegNumbers, Names, ArmCleanupOK DEF TransferVerb
<1>2. CASE ~d.transfer /\ AiActive(d)
  <2>1. EndPeerOfCaller(d, verb) = [d EXCEPT !.calleeDone = TRUE]
    BY <1>2 DEF EndPeerOfCaller
  <2>2. [d EXCEPT !.calleeDone = TRUE] \in Coordinator
    BY SetCalleeDone
  <2> QED BY <2>1, <2>2 DEF Ready, HuntBudget, Terminating, Coordinator
<1>3. CASE ~d.transfer /\ ~AiActive(d)
  BY <1>3, LegNumbers, ArmCleanupOK DEF EndPeerOfCaller
<1> QED BY <1>1, <1>2, <1>3

\* The caller's CANCEL ends the call with its cleanup deadline.
LEMMA CancelledOK ==
  ASSUME NEW d, Ready(d), current \in Attempt
  PROVE  Ready(Cancelled(d)) /\ Terminating(Cancelled(d))
<1>0. d \in Coordinator /\ HuntBudget(d, current)
  BY DEF Ready
<1> DEFINE gone == [Disarm(d, {"Dial"}) EXCEPT !.callerDone = TRUE, !.state = "Terminating"]
<1>1. gone \in Coordinator
  BY <1>0, Names, SetCallerDone, SetState, DisarmOK
<1>2. /\ HuntBudget(gone, current) /\ Terminating(gone) /\ gone.callerDone
      /\ gone.timers = d.timers \ {"Dial"} /\ gone.calleeDone = d.calleeDone
  BY <1>0 DEF HuntBudget, Terminating, Disarm, Coordinator
<1> HIDE DEF gone
<1>3. CASE Terminating(d)
  <2>1. [gone EXCEPT !.transfer = FALSE] \in Coordinator
    BY <1>1, SetTransfer
  <2>2. Cancelled(d) = [gone EXCEPT !.transfer = FALSE]
    BY <1>3 DEF Cancelled, gone
  <2> QED BY ZenonT(60), <1>0, <1>1, <1>2, <1>3, <2>1, <2>2 DEF Ready, HuntBudget, Terminating, Coordinator
<1>4. CASE ~Terminating(d)
  <2> DEFINE e == Disarm(gone, {"Ring"})
  <2>1. e \in Coordinator /\ HuntBudget(e, current) /\ Terminating(e) /\ e.callerDone
    BY <1>1, <1>2, DisarmOK DEF HuntBudget, Terminating, Disarm, Coordinator
  <2> HIDE DEF e
  <2>2. Cancelled(d) = EndPeerOfCaller(e, IF IsAnswered THEN "Hangup" ELSE "Cancel")
    BY <1>4 DEF Cancelled, gone, e
  <2> QED BY <2>1, <2>2, EndPeerOK, Names
<1> QED BY <1>3, <1>4

\* A hangup of either side ends the call with its cleanup deadline.
LEMMA DisconnectedOK ==
  ASSUME NEW d, Ready(d), current \in Attempt, NEW l
  PROVE  /\ Ready(Disconnected(d, l)) /\ Terminating(Disconnected(d, l))
         /\ ~Terminating(d) /\ l # Caller => "Cleanup" \in Disconnected(d, l).timers
<1>0. d \in Coordinator /\ HuntBudget(d, current)
  BY DEF Ready
<1> DEFINE gone == [Disarm(d, {"Dial"}) EXCEPT !.state = "Terminating",
                      !.callerDone = @ \/ l = Caller, !.calleeDone = @ \/ l = current]
<1>1. gone \in Coordinator
  <2> DEFINE e == [Disarm(d, {"Dial"}) EXCEPT !.state = "Terminating"]
  <2> DEFINE f == [e EXCEPT !.callerDone = @ \/ l = Caller]
  <2>1. e \in Coordinator
    BY <1>0, Names, SetState, DisarmOK
  <2> HIDE DEF e
  <2>2. f \in Coordinator
    <3>1. (e.callerDone \/ l = Caller) \in BOOLEAN
      OBVIOUS
    <3> QED BY <2>1, <3>1, SetCallerDone
  <2> HIDE DEF f
  <2>3. (f.calleeDone \/ l = current) \in BOOLEAN
    OBVIOUS
  <2> QED BY <2>2, <2>3, SetCalleeDone DEF f, e
<1>2. /\ HuntBudget(gone, current) /\ Terminating(gone) /\ (l = Caller => gone.callerDone)
      /\ gone.timers = d.timers \ {"Dial"}
      /\ d.callerDone => gone.callerDone
      /\ d.calleeDone => gone.calleeDone
  BY <1>0 DEF HuntBudget, Terminating, Disarm, Coordinator
<1> HIDE DEF gone
<1>3. CASE Terminating(d)
  <2>1. Disconnected(d, l) = gone
    BY <1>3 DEF Disconnected, gone
  <2> QED BY <1>0, <1>1, <1>2, <1>3, <2>1 DEF Ready
<1>4. CASE ~Terminating(d)
  <2> DEFINE e == Disarm(gone, {"Ring"})
  <2>1. e \in Coordinator /\ HuntBudget(e, current) /\ Terminating(e) /\ (l = Caller => e.callerDone)
    BY <1>1, <1>2, DisarmOK DEF HuntBudget, Terminating, Disarm, Coordinator
  <2> HIDE DEF e
  <2>2. Disconnected(d, l) = IF l = Caller THEN EndPeerOfCaller(e, "Hangup")
                             ELSE Arm(Tell(e, Caller, "Hangup"), "Cleanup")
    BY <1>4 DEF Disconnected, gone, e
  <2>4. CASE l # Caller
    BY <2>1, <2>2, <2>4, LegNumbers, Names, ArmCleanupOK
  <2>5. CASE l = Caller
    BY <2>1, <2>2, <2>5, EndPeerOK, Names
  <2> QED BY <2>4, <2>5
<1> QED BY <1>3, <1>4

\* A deadline that ends the call arms the cleanup deadline.
LEMMA TimerTerminatesOK ==
  ASSUME NEW d \in Coordinator, HuntBudget(d, current), current \in Attempt
  PROVE  Ready(TimerTerminates(d)) /\ Terminating(TimerTerminates(d))
<1>1. TimerTerminates(d) \in Coordinator
  BY Names, LegNumbers, SetState, TellOK, ArmOK DEF TimerTerminates
<1> QED BY <1>1, LegNumbers DEF TimerTerminates, Ready, HuntBudget, Terminating, Arm, Tell, Coordinator

\* The agent's EndCall arms the cleanup deadline when its hangup is accepted.
LEMMA AgentEndsOK ==
  ASSUME NEW d \in Coordinator, HuntBudget(d, current), current \in Attempt
  PROVE  Ready(AgentEnds(d)) /\ Terminating(AgentEnds(d))
<1>1. AgentEnds(d) \in Coordinator
  BY Names, LegNumbers, SetState, SetCalleeDone, TellOK, ArmOK, DisarmOK DEF AgentEnds
<1> QED BY <1>1, LegNumbers DEF AgentEnds, Ready, HuntBudget, Terminating, Arm, Disarm, Tell, Coordinator

\* The drain ends the call with its cleanup deadline, whatever its phase.
LEMMA DrainCallOK ==
  ASSUME NEW d, Ready(d), current \in Attempt
  PROVE  Ready(DrainCall(d)) /\ (Terminating(d) => Terminating(DrainCall(d)))
<1>0. d \in Coordinator /\ HuntBudget(d, current)
  BY DEF Ready
<1> DEFINE e == [d EXCEPT !.retry = FALSE]
           agentGone == AiActive(d) /\ ~d.transfer
           quit == [Disarm(e, {"Dial", "Ring"}) EXCEPT !.state = "Terminating",
                      !.calleeDone = @ \/ agentGone]
           callerTold == IF d.callerDone THEN quit
                         ELSE Tell(quit, Caller, IF IsAnswered THEN "Hangup" ELSE "Reject")
           calleeTold == IF quit.calleeDone THEN callerTold
                         ELSE Tell(callerTold, current,
                                   IF IsAnswered /\ ~d.transfer THEN "Hangup" ELSE "Cancel")
<1>1. e \in Coordinator /\ HuntBudget(e, current) /\ (Terminating(e) <=> Terminating(d))
      /\ e.timers = d.timers /\ e.callerDone = d.callerDone /\ e.calleeDone = d.calleeDone
  <2>1. e \in Coordinator
    BY <1>0, SetRetry
  <2> QED BY <1>0, <2>1 DEF HuntBudget, Terminating, Coordinator
<1> HIDE DEF e
<1>2. CASE Terminating(d)
  BY <1>1, <1>2 DEF DrainCall, Ready, e
<1>3. CASE ~Terminating(d)
  <2> DEFINE f == [Disarm(e, {"Dial", "Ring"}) EXCEPT !.state = "Terminating"]
  <2>1. f \in Coordinator /\ HuntBudget(f, current) /\ Terminating(f)
    <3>1. f \in Coordinator
      BY <1>1, Names, SetState, DisarmOK
    <3> QED BY <1>1, <3>1 DEF HuntBudget, Terminating, Disarm, Coordinator
  <2> HIDE DEF f, agentGone
  <2>2. quit = [f EXCEPT !.calleeDone = @ \/ agentGone]
    BY DEF f
  <2>3. quit \in Coordinator /\ HuntBudget(quit, current) /\ Terminating(quit)
    <3>1. (f.calleeDone \/ agentGone) \in BOOLEAN
      OBVIOUS
    <3>2. quit \in Coordinator
      BY <2>1, <2>2, <3>1, SetCalleeDone
    <3>3. /\ quit.state = f.state /\ quit.retry = f.retry /\ quit.remaining = f.remaining
          /\ quit.pending = f.pending /\ quit.registering = f.registering
      <4> HIDE DEF quit
      <4> QED BY <2>1, <2>2 DEF Coordinator
    <3> HIDE DEF quit
    <3> QED BY <2>1, <3>2, <3>3 DEF HuntBudget, Terminating
  <2> HIDE DEF quit
  <2>4. callerTold \in Coordinator /\ HuntBudget(callerTold, current) /\ Terminating(callerTold)
    <3>1. callerTold \in Coordinator
      BY <2>3, Names, LegNumbers, TellOK
    <3> QED BY ZenonT(60), <2>3, <3>1 DEF HuntBudget, Terminating, Tell, Coordinator
  <2> HIDE DEF callerTold
  <2>5. calleeTold \in Coordinator /\ HuntBudget(calleeTold, current) /\ Terminating(calleeTold)
    <3>1. calleeTold \in Coordinator
      BY <2>4, Names, LegNumbers, TellOK
    <3> QED BY ZenonT(60), <2>4, <3>1 DEF HuntBudget, Terminating, Tell, Coordinator
  <2>6. DrainCall(d) = Arm(calleeTold, "Cleanup")
    BY <1>3 DEF DrainCall, callerTold, quit, agentGone, e
  <2> HIDE DEF calleeTold
  <2>7. Arm(calleeTold, "Cleanup") \in Coordinator
    BY <2>5, Names, ArmOK
  <2> QED BY ZenonT(60), <2>5, <2>6, <2>7 DEF Ready, HuntBudget, Terminating, Arm, Coordinator
<1> QED BY <1>2, <1>3

\* A failed action of a leg ends the call with its deadline.
LEMMA ActionFailedOK ==
  ASSUME NEW d, Ready(d), NEW peer \in BOOLEAN, NEW originate \in BOOLEAN
  PROVE  Ready(ActionFailed(d, peer, originate)) /\ Terminating(ActionFailed(d, peer, originate))
<1>0. d \in Coordinator /\ HuntBudget(d, current)
  BY DEF Ready
<1>1. CASE Terminating(d)
  BY <1>1 DEF ActionFailed
<1>2. CASE ~Terminating(d)
  <2> DEFINE e == [Disarm(d, {"Dial", "Ring"}) EXCEPT !.state = "Terminating"]
             quit == [e EXCEPT !.calleeDone = @ \/ peer]
  <2>1. e \in Coordinator /\ HuntBudget(e, current) /\ Terminating(e)
    <3>1. e \in Coordinator
      BY <1>0, Names, SetState, DisarmOK
    <3> QED BY <1>0, <3>1 DEF HuntBudget, Terminating, Disarm, Coordinator
  <2> HIDE DEF e
  <2>2. quit \in Coordinator /\ HuntBudget(quit, current) /\ Terminating(quit)
    <3>1. (e.calleeDone \/ peer) \in BOOLEAN
      OBVIOUS
    <3>2. quit \in Coordinator
      BY <2>1, <3>1, SetCalleeDone
    <3> QED BY SMTT(30), <2>1, <3>2 DEF HuntBudget, Terminating, Coordinator
  <2>3. ActionFailed(d, peer, originate) =
          Arm(IF originate THEN Tell(quit, Caller, "Reject") ELSE quit, "Cleanup")
    BY <1>2 DEF ActionFailed, e
  <2> HIDE DEF quit
  <2>4. Arm(quit, "Cleanup") \in Coordinator
    BY <2>2, Names, ArmOK
  <2>5. CASE originate
    BY <2>2, <2>3, <2>5, LegNumbers, Names, ArmCleanupOK
  <2>6. CASE ~originate
    BY ZenonT(60), <2>2, <2>3, <2>4, <2>6 DEF Ready, HuntBudget, Terminating, Arm, Coordinator
  <2> QED BY <2>5, <2>6
<1> QED BY <1>1, <1>2

\* The cleanup deadline of the call removes it, whichever side is still there.
LEMMA ForcedRemovalOK ==
  ASSUME NEW d \in Coordinator, HuntBudget(d, current), current \in Attempt
  PROVE  /\ ForcedRemoval(d) \in Coordinator /\ HuntBudget(ForcedRemoval(d), current)
         /\ Terminating(ForcedRemoval(d)) /\ ForcedRemoval(d).finish = "timeout"
<1> DEFINE caller == IF d.callerDone THEN d ELSE Tell(d, Caller, "Hangup")
           both == IF d.calleeDone THEN caller ELSE Tell(caller, current, "Hangup")
<1>1. caller \in Coordinator /\ HuntBudget(caller, current)
  <2>1. caller \in Coordinator
    BY Names, LegNumbers, TellOK
  <2> QED BY <2>1 DEF HuntBudget, Tell, Coordinator
<1> HIDE DEF caller
<1>2. both \in Coordinator /\ HuntBudget(both, current)
  <2>1. both \in Coordinator
    BY <1>1, Names, LegNumbers, TellOK
  <2> QED BY <1>1, <2>1 DEF HuntBudget, Tell, Coordinator
<1> HIDE DEF both
<1> QED BY <1>2, FinishOK DEF ForcedRemoval, both, caller

----------------------------------------------------------------------------
(* How a handler returns *)

\* What every handler of the coordinator keeps.
StepOK ==
  /\ c' \in Coordinator /\ HuntBudget(c', current')
  /\ DeadlineKept'
  /\ Terminating(c) => c'.state = "Terminating"
  /\ AggStep \/ UNCHANGED aggVars

\* Storing a ready record keeps the invariant of the coordinator.
LEMMA CommitOK ==
  ASSUME NEW d, Ready(d), Terminating(c) => Terminating(d), Commit(d)
  PROVE  StepOK
<1>0. d \in Coordinator /\ HuntBudget(d, current)
  BY DEF Ready
<1>1. CASE d.callerDone /\ d.calleeDone
  BY <1>0, <1>1, FinishOK DEF Commit, StepOK, DeadlineKept, CleanupArmed, Terminating, AggStep, ReleaseTopology
<1>2. CASE ~(d.callerDone /\ d.calleeDone)
  BY <1>0, <1>2 DEF Commit, Ready, StepOK, DeadlineKept, CleanupArmed, Terminating, aggVars
<1> QED BY <1>1, <1>2

\* complete_processing removes a call whose handler returned an error.
LEMMA FinishErrorOK ==
  ASSUME NEW d \in Coordinator, HuntBudget(d, current), AggStep, UNCHANGED current,
         c' = Finish(d, "error")
  PROVE  StepOK
  BY FinishOK DEF StepOK, DeadlineKept, CleanupArmed, Terminating

\* begin_next_attempt leaves a ready record and the candidate count in bounds.
LEMMA BeginNextAttemptOK ==
  ASSUME NEW d \in Coordinator, HuntBudget(d, current), current \in Attempt,
         ~Terminating(d), ~Terminating(c), d.remaining > 0, ~d.retry,
         d.pending = 0, d.registering = 0, BeginNextAttempt(d)
  PROVE  StepOK
<1>1. CASE FailAttemptRefused /\ c' = Finish(d, "error")
  BY <1>1, FinishErrorOK DEF FailAttemptRefused, AggStep
<1>2. CASE FailAttempt /\ c' = OfferNext([d EXCEPT !.remaining = @ - 1])
  <2> DEFINE e == [d EXCEPT !.remaining = @ - 1]
  <2>1. d.remaining - 1 \in Nat
    BY Fields
  <2>2. e \in Coordinator
    BY <2>1, SetRemaining
  <2>3. /\ ~Terminating(e) /\ ~e.retry /\ e.registering = 0
        /\ current + e.remaining < MaxAttempts /\ (AiCall => e.remaining = 0)
    <3>1. /\ e.state = d.state /\ e.retry = d.retry /\ e.registering = d.registering
          /\ e.remaining = d.remaining - 1
      BY DEF Coordinator
    <3>2. current \in Nat /\ d.remaining \in Nat /\ current + d.remaining <= MaxAttempts
          /\ ~AiCall
      BY Fields DEF HuntBudget, Attempt
    <3> HIDE DEF e
    <3> QED BY <3>1, <3>2, MaxAttemptsAssumption DEF Terminating
  <2> HIDE DEF e
  <2>4. Ready(OfferNext(e))
    BY <2>2, <2>3, OfferNextOK
  <2>5. ~Terminating(OfferNext(e))
    BY <2>2, <2>3 DEF OfferNext, Prepare, Terminating, Coordinator
  <2> QED BY <1>2, <2>4, <2>5 DEF e, FailAttempt, StepOK, Ready, DeadlineKept, CleanupArmed, AggStep, Terminating
<1> QED BY <1>1, <1>2 DEF BeginNextAttempt

\* The hunt is resumed with a ready record by whichever event resumes it.
LEMMA ResumeHuntOK ==
  ASSUME NEW d \in Coordinator, HuntBudget(d, current), current \in Attempt, d.retry,
         Terminating(c) => Terminating(d), NEW budget \in BOOLEAN, ResumeHunt(d, budget)
  PROVE  StepOK
<1>0. d \in Coordinator /\ HuntBudget(d, current)
  OBVIOUS
<1> DEFINE e == [d EXCEPT !.retry = FALSE, !.calleeDone = TRUE, !.timers = @ \ {"Cleanup"}]
<1>1. e \in Coordinator
  <2> DEFINE f == [d EXCEPT !.retry = FALSE, !.calleeDone = TRUE]
  <2>1. f \in Coordinator
    BY <1>0, SetRetry, SetCalleeDone
  <2> HIDE DEF f
  <2>2. f.timers \ {"Cleanup"} \in SUBSET Timers
    BY <2>1, Fields
  <2> QED BY <2>1, <2>2, SetTimers DEF f
<1>2. /\ HuntBudget(e, current) /\ ~e.retry /\ e.pending = 0 /\ e.registering = 0
      /\ Terminating(e) <=> Terminating(d)
  BY <1>0 DEF HuntBudget, Terminating, Coordinator
<1> HIDE DEF e
<1>3. CASE MayBeginNext(e, budget)
  <2>1. BeginNextAttempt(e)
    BY <1>3 DEF ResumeHunt, e
  <2> QED BY <1>1, <1>2, <1>3, <2>1, BeginNextAttemptOK DEF MayBeginNext
<1>4. CASE ~MayBeginNext(e, budget)
  <2>1. Commit(TerminateRetry(e))
    BY <1>4 DEF ResumeHunt, e
  <2> QED BY <1>1, <1>2, <2>1, TerminateRetryOK, CommitOK
<1> QED BY <1>3, <1>4

----------------------------------------------------------------------------
(* The handlers *)

\* The inductive invariant.
CoordInv ==
  /\ AggInv
  /\ TypeOK
  /\ HuntBudget(c, current)
  /\ DeadlineKept

\* The invariant makes the stored record ready.
LEMMA ReadyNow ==
  ASSUME CoordInv, c.finish = "no"
  PROVE  /\ Ready(c) /\ c \in Coordinator /\ HuntBudget(c, current)
         /\ current \in Attempt /\ current \in Leg
  BY LegNumbers DEF CoordInv, AggInv, AggTypeOK, TypeOK, DeadlineKept, CleanupArmed, Ready

\* Two records agree on what the invariant reads.
SameCourse(d, e) ==
  /\ d.state = e.state /\ d.timers = e.timers
  /\ d.callerDone = e.callerDone /\ d.calleeDone = e.calleeDone
  /\ d.pending = e.pending /\ d.registering = e.registering
  /\ d.remaining = e.remaining /\ d.retry = e.retry

\* Ready speaks only of the state, the sides, the timers and the candidates.
LEMMA SameCourseReady ==
  ASSUME NEW d, NEW e \in Coordinator, Ready(d), SameCourse(e, d)
  PROVE  Ready(e) /\ (Terminating(e) <=> Terminating(d))
  BY DEF Ready, HuntBudget, Terminating, SameCourse

\* Sending an action keeps a record ready.
LEMMA TellReady ==
  ASSUME NEW d, Ready(d), NEW l \in Leg, NEW verb \in Verbs
  PROVE  Ready(Tell(d, l, verb)) /\ SameCourse(Tell(d, l, verb), d)
<1>1. d \in Coordinator /\ Tell(d, l, verb) \in Coordinator
  BY TellOK DEF Ready
<1>2. SameCourse(Tell(d, l, verb), d)
  BY <1>1 DEF SameCourse, Tell, Coordinator
<1> QED BY <1>1, <1>2, SameCourseReady

\* Cancelling timers other than the cleanup deadline keeps a record ready.
LEMMA DisarmReady ==
  ASSUME NEW d, Ready(d), NEW ks, "Cleanup" \notin ks
  PROVE  /\ Ready(Disarm(d, ks)) /\ (Terminating(Disarm(d, ks)) <=> Terminating(d))
         /\ Disarm(d, ks).retry = d.retry /\ Disarm(d, ks).pending = d.pending
         /\ Disarm(d, ks).registering = d.registering /\ Disarm(d, ks).remaining = d.remaining
<1>1. d \in Coordinator /\ Disarm(d, ks) \in Coordinator
  BY DisarmOK DEF Ready
<1> QED BY <1>1 DEF Ready, HuntBudget, Terminating, Disarm, Coordinator

\* Arming a timer keeps a record ready.
LEMMA ArmReady ==
  ASSUME NEW d, Ready(d), NEW k \in Timers
  PROVE  Ready(Arm(d, k)) /\ (Terminating(Arm(d, k)) <=> Terminating(d))
<1>1. d \in Coordinator /\ Arm(d, k) \in Coordinator
  BY ArmOK DEF Ready
<1> QED BY <1>1 DEF Ready, HuntBudget, Terminating, Arm, Coordinator

\* Queueing a media job keeps a record ready.
LEMMA PrepareReady ==
  ASSUME NEW d, Ready(d), NEW ring \in BOOLEAN,
         NEW kind \in {"Provisional", "Answer", "TransferAnswer"}
  PROVE  Ready(Prepare(d, kind, 0, ring)) /\ (Terminating(Prepare(d, kind, 0, ring)) <=> Terminating(d))
<1>1. d \in Coordinator /\ Prepare(d, kind, 0, ring) \in Coordinator
  BY PrepareOK DEF Ready
<1>2. SameCourse(Prepare(d, kind, 0, ring), d)
  BY <1>1 DEF SameCourse, Prepare, Coordinator
<1> QED BY <1>1, <1>2, SameCourseReady

\* A step that changes neither the topology nor the record is harmless.
LEMMA StutterOK == ASSUME CoordInv, UNCHANGED <<aggVars, c>> PROVE StepOK
  BY DEF CoordInv, StepOK, DeadlineKept, CleanupArmed, Terminating, aggVars, TypeOK

\* A handler that leaves the topology alone only has to leave a ready record.
LEMMA KeepTopologyOK ==
  ASSUME Ready(c'), UNCHANGED aggVars, Terminating(c) => Terminating(c'),
         Terminating(c') => "Cleanup" \in c'.timers
  PROVE  StepOK
  BY DEF Ready, HuntBudget, StepOK, DeadlineKept, CleanupArmed, Terminating, aggVars

\* handle_provisional keeps the invariant.
LEMMA ProvisionalStep ==
  ASSUME CoordInv, NEW a \in Attempt, NEW sdp \in BOOLEAN, HandleProvisional(a, sdp)
  PROVE  StepOK
<1>1. Ready(c)
  BY ReadyNow DEF HandleProvisional, Receive
<1> DEFINE ring == "Ring" \notin c.timers
           rung == Arm(Disarm(c, {"Dial"}), "Ring")
           early == [rung EXCEPT !.state = "Establishing"]
<1>2. CASE IgnoresProvisional(c)
  BY <1>2, StutterOK DEF HandleProvisional
<1>3. CASE ~IgnoresProvisional(c)
  <2>1. ~Terminating(c)
    BY <1>3 DEF IgnoresProvisional
  <2>2. Ready(rung) /\ ~Terminating(rung)
    BY <1>1, <2>1, DisarmReady, ArmReady, Names
  <2> HIDE DEF rung
  <2>3. Ready(early) /\ ~Terminating(early)
    <3>1. rung \in Coordinator /\ early \in Coordinator
      BY <2>2, Names, SetState DEF Ready
    <3> QED BY <2>2, <3>1 DEF Ready, HuntBudget, Terminating, Coordinator
  <2> HIDE DEF early
  <2>4. Ready(Prepare(early, "Provisional", 0, ring)) /\ ~Terminating(Prepare(early, "Provisional", 0, ring))
    BY <2>3, PrepareReady
  <2>5. c' \in {rung, early, Prepare(early, "Provisional", 0, ring)}
    BY <1>3 DEF HandleProvisional, early, rung
  <2>6. Ready(c') /\ ~Terminating(c')
    BY <2>2, <2>3, <2>4, <2>5
  <2> QED BY <2>1, <2>6, KeepTopologyOK DEF HandleProvisional
<1> QED BY <1>2, <1>3

\* handle_answered keeps the invariant, in a hunt and in a transfer.
LEMMA AnsweredStep ==
  ASSUME CoordInv, NEW a \in Attempt, NEW sdp \in BOOLEAN, NEW budget \in BOOLEAN,
         HandleAnswered(a, sdp, budget)
  PROVE  StepOK
<1>1. Ready(c) /\ current \in Attempt /\ a = current /\ a \in Leg
  BY ReadyNow DEF HandleAnswered, Receive
<1> DEFINE d == Disarm(c, {"Dial"})
<1>2. Ready(d) /\ (Terminating(d) <=> Terminating(c)) /\ d.retry = c.retry
  BY <1>1, DisarmReady
<1> HIDE DEF d
<1>3. CASE c.retry
  <2>1. ResumeHunt(Tell(d, a, "Hangup"), budget)
    BY <1>3 DEF HandleAnswered, d
  <2>2. /\ Ready(Tell(d, a, "Hangup")) /\ Tell(d, a, "Hangup").retry
        /\ Terminating(c) => Terminating(Tell(d, a, "Hangup"))
    BY <1>1, <1>2, <1>3, Names, TellReady DEF SameCourse, Terminating
  <2> QED BY <1>1, <2>1, <2>2, ResumeHuntOK DEF Ready
<1>4. CASE ~c.retry
  <2> DEFINE late == Tell([d EXCEPT !.lateSent = TRUE], a, "Hangup")
             answer(kind) == Prepare([d EXCEPT !.answering = TRUE], kind, 0, FALSE)
  <2>1. Ready(late) /\ (Terminating(late) <=> Terminating(c))
    <3> DEFINE e == [d EXCEPT !.lateSent = TRUE]
    <3>1. e \in Coordinator /\ SameCourse(e, d)
      BY ZenonT(60), <1>2, SetLateSent DEF Ready, SameCourse, Coordinator
    <3> HIDE DEF e
    <3>2. Ready(e) /\ (Terminating(e) <=> Terminating(c))
      BY <1>2, <3>1, SameCourseReady
    <3> QED BY <1>1, <3>2, Names, TellReady DEF e, SameCourse, Terminating
  <2>2. \A kind \in {"Answer", "TransferAnswer"} :
          Ready(answer(kind)) /\ (Terminating(answer(kind)) <=> Terminating(c))
    <3> DEFINE e == [d EXCEPT !.answering = TRUE]
    <3>1. e \in Coordinator /\ SameCourse(e, d)
      BY ZenonT(60), <1>2, SetAnswering DEF Ready, SameCourse, Coordinator
    <3> HIDE DEF e
    <3>2. Ready(e) /\ (Terminating(e) <=> Terminating(c))
      BY <1>2, <3>1, SameCourseReady
    <3>3. \A kind \in {"Answer", "TransferAnswer"} :
            Ready(Prepare(e, kind, 0, FALSE)) /\ (Terminating(Prepare(e, kind, 0, FALSE)) <=> Terminating(c))
      BY <3>2, PrepareReady
    <3> QED BY <3>3 DEF e
  <2>3. Ready(FailMedia(d, "Hangup")) /\ Terminating(FailMedia(d, "Hangup"))
    BY <1>1, <1>2, Names, FailMediaOK
  <2> HIDE DEF late, answer
  <2>4. PICK e \in {d, late, FailMedia(d, "Hangup"), answer("Answer"), answer("TransferAnswer")} : Commit(e)
    BY <1>4 DEF HandleAnswered, d, late, answer
  <2>5. Ready(e) /\ (Terminating(c) => Terminating(e))
    BY <1>2, <2>1, <2>2, <2>3, <2>4
  <2> QED BY <2>4, <2>5, CommitOK
<1> QED BY <1>3, <1>4

\* An attempt's failure keeps the invariant, whether it retries or ends the call.
LEMMA FailedStep ==
  ASSUME CoordInv, NEW a \in Attempt, NEW retryable \in BOOLEAN, NEW budget \in BOOLEAN,
         HandleFailed(a, retryable, budget)
  PROVE  StepOK
<1>1. Ready(c) /\ current \in Attempt
  BY ReadyNow DEF HandleFailed, Receive
<1> DEFINE d == Disarm(c, {"Dial"})
           gone == [d EXCEPT !.state = "Terminating", !.calleeDone = TRUE]
<1>2. /\ Ready(d) /\ d \in Coordinator /\ HuntBudget(d, current)
      /\ Terminating(d) <=> Terminating(c)
      /\ d.retry = c.retry
  BY <1>1, DisarmReady DEF Ready
<1> HIDE DEF d
<1>3. gone \in Coordinator
  BY <1>2, Names, SetState, SetCalleeDone
<1>4. /\ HuntBudget(gone, current) /\ Terminating(gone) /\ gone.timers = d.timers
      /\ gone.callerDone = d.callerDone /\ gone.calleeDone
  BY <1>2 DEF HuntBudget, Terminating, Coordinator
<1> HIDE DEF gone
<1>5. CASE Terminating(c)
  <2>1. Ready(gone)
    BY <1>2, <1>3, <1>4, <1>5 DEF Ready
  <2>2. Commit(gone)
    BY <1>5 DEF HandleFailed, gone, d
  <2> QED BY <1>4, <2>1, <2>2, CommitOK
<1>6. CASE ~Terminating(c) /\ c.transfer
  <2>1. Commit(FailTransfer(d))
    BY <1>6 DEF HandleFailed, d
  <2> QED BY <1>2, <1>6, <2>1, FailTransferOK, CommitOK
<1>7. CASE ~Terminating(c) /\ ~c.transfer /\ c.retry
  <2>1. ResumeHunt(d, budget)
    BY <1>7 DEF HandleFailed, d
  <2> QED BY <1>1, <1>2, <1>7, <2>1, ResumeHuntOK
<1>8. CASE /\ ~Terminating(c) /\ ~c.transfer /\ ~c.retry
           /\ HasRetryCandidate(d, retryable /\ budget) /\ MayBeginNext(d, budget)
  <2> DEFINE e == [d EXCEPT !.calleeDone = TRUE]
  <2>1. BeginNextAttempt(e)
    BY <1>8 DEF HandleFailed, d
  <2>2. e \in Coordinator
    BY <1>2, SetCalleeDone
  <2>3. /\ HuntBudget(e, current) /\ ~Terminating(e) /\ e.remaining > 0 /\ ~e.retry
        /\ e.pending = 0 /\ e.registering = 0
    BY <1>2, <1>8, <2>2 DEF HuntBudget, HasRetryCandidate, Terminating, Coordinator
  <2> HIDE DEF e
  <2> QED BY <1>1, <1>8, <2>1, <2>2, <2>3, BeginNextAttemptOK
<1>9. CASE /\ ~Terminating(c) /\ ~c.transfer /\ ~c.retry
           /\ ~(HasRetryCandidate(d, retryable /\ budget) /\ MayBeginNext(d, budget))
  <2> DEFINE e == Disarm(gone, {"Ring"})
  <2>1. e \in Coordinator
    BY <1>3, DisarmOK
  <2>2. HuntBudget(e, current) /\ Terminating(e)
    BY <1>3, <1>4, <2>1 DEF HuntBudget, Terminating, Disarm, Coordinator
  <2>3. Commit(Arm(Tell(e, Caller, "Reject"), "Cleanup"))
    BY <1>9 DEF HandleFailed, gone, d
  <2> HIDE DEF e
  <2> QED BY <2>1, <2>2, <2>3, LegNumbers, Names, ArmCleanupOK, CommitOK
<1> QED BY <1>5, <1>6, <1>7, <1>8, <1>9

\* A callee's hangup, deferred or not, keeps the invariant.
LEMMA CalleeDisconnectedStep ==
  ASSUME CoordInv, NEW a \in Attempt, NEW budget \in BOOLEAN, HandleCalleeDisconnected(a, budget)
  PROVE  StepOK
<1>1. Ready(c) /\ current \in Attempt /\ c \in Coordinator /\ HuntBudget(c, current)
  BY ReadyNow DEF HandleCalleeDisconnected, Receive
<1>2. CASE c.answering /\ ~Terminating(c)
  <2> DEFINE e == [c EXCEPT !.deferred = a]
  <2>1. e \in Coordinator
    BY <1>1, SetDeferred DEF Attempt
  <2>2. SameCourse(e, c)
    BY <1>1 DEF SameCourse, Coordinator
  <2>3. Commit(e)
    BY <1>2 DEF HandleCalleeDisconnected
  <2> HIDE DEF e
  <2> QED BY <1>1, <2>1, <2>2, <2>3, SameCourseReady, CommitOK
<1>3. CASE ~(c.answering /\ ~Terminating(c)) /\ ~Terminating(c) /\ ~c.transferFailed /\ ~c.transfer /\ c.retry
  <2>1. ResumeHunt(c, budget)
    BY <1>3 DEF HandleCalleeDisconnected
  <2> QED BY <1>1, <1>3, <2>1, ResumeHuntOK
<1>4. CASE Commit(c)
  BY <1>1, <1>4, CommitOK
<1>5. CASE Commit(FailTransfer(c))
  BY <1>1, <1>5, FailTransferOK, CommitOK
<1>6. CASE Commit(Disconnected(c, a))
  BY <1>1, <1>6, DisconnectedOK, CommitOK
<1> QED BY <1>2, <1>3, <1>4, <1>5, <1>6 DEF HandleCalleeDisconnected

\* The caller's CANCEL and BYE keep the invariant.
LEMMA CallerStep ==
  ASSUME CoordInv, HandleCallerDisconnected \/ HandleCancelled
  PROVE  StepOK
<1>1. Ready(c) /\ current \in Attempt
  BY ReadyNow DEF HandleCallerDisconnected, HandleCancelled, Receive
<1>2. CASE Commit(Disconnected(c, Caller))
  BY <1>1, <1>2, DisconnectedOK, CommitOK
<1>3. CASE Commit(Cancelled(c))
  BY <1>1, <1>3, CancelledOK, CommitOK
<1> QED BY <1>2, <1>3 DEF HandleCallerDisconnected, HandleCancelled

\* confirm_answer keeps the invariant, the deferred disconnect it takes up included.
LEMMA ConfirmAnswerStep ==
  ASSUME Ready(c), current \in Attempt, ~Terminating(c), NEW budget \in BOOLEAN, ConfirmAnswer(budget)
  PROVE  StepOK
<1>0. c \in Coordinator /\ HuntBudget(c, current) /\ c.mgen \in Nat
  BY Fields DEF Ready
<1> DEFINE joined == [c EXCEPT !.state = "Connected", !.pendingAnswer = FALSE, !.answering = FALSE,
                        !.timers = @ \ {"Ring"}, !.deferred = 0,
                        !.jobs = Append(@, Job("StartMedia", c.mgen, 0, FALSE))]
           given == [joined EXCEPT !.retry = FALSE, !.calleeDone = TRUE, !.timers = @ \ {"Cleanup"}]
           ended == c.deferred # 0 /\ ~c.transferFailed
           hunts == ended /\ c.retry /\ c.deferred = current
<1>1. joined \in Coordinator
  <2> DEFINE d1 == [c EXCEPT !.state = "Connected", !.pendingAnswer = FALSE, !.answering = FALSE]
             d2 == [d1 EXCEPT !.timers = @ \ {"Ring"}]
             d3 == [d2 EXCEPT !.deferred = 0]
  <2>1. d1 \in Coordinator
    BY <1>0, Names, SetState, SetPendingAnswer, SetAnswering
  <2> HIDE DEF d1
  <2>2. d1.timers \ {"Ring"} \in SUBSET Timers
    BY <2>1, Fields
  <2>3. d2 \in Coordinator
    BY <2>1, <2>2, SetTimers
  <2> HIDE DEF d2
  <2>4. d3 \in Coordinator
    BY <2>3, SetDeferred
  <2> HIDE DEF d3
  <2>5. Job("StartMedia", c.mgen, 0, FALSE) \in Jobs
    BY <1>0 DEF Job, Jobs
  <2>6. Append(d3.jobs, Job("StartMedia", c.mgen, 0, FALSE)) \in Seq(Jobs)
    BY <2>4, <2>5, Fields, AppendJob
  <2> QED BY <2>4, <2>6, SetJobs DEF d3, d2, d1
<1>2. Ready(joined) /\ ~Terminating(joined)
  BY <1>0, <1>1 DEF Ready, HuntBudget, Terminating, Coordinator
<1> HIDE DEF joined
<1>3. given \in Coordinator
  <2> DEFINE d1 == [joined EXCEPT !.retry = FALSE, !.calleeDone = TRUE]
  <2>1. d1 \in Coordinator
    BY <1>1, SetRetry, SetCalleeDone
  <2> HIDE DEF d1
  <2>2. d1.timers \ {"Cleanup"} \in SUBSET Timers
    BY <2>1, Fields
  <2> QED BY <2>1, <2>2, SetTimers DEF d1
<1>4. HuntBudget(given, current)
  BY <1>1, <1>2, <1>3 DEF Ready, HuntBudget, Coordinator
<1> HIDE DEF given
<1>5. CASE /\ MarkAnswered(c.mgen)
           /\ c' = IF ended THEN Disconnected(joined, c.deferred) ELSE joined
  <2>1. UNCHANGED current /\ AggStep
    BY <1>0, <1>5 DEF MarkAnswered, AggStep
  <2>2. /\ Ready(Disconnected(joined, c.deferred))
        /\ c.deferred # 0 => "Cleanup" \in Disconnected(joined, c.deferred).timers
    BY <1>0, <1>2, DisconnectedOK DEF Caller
  <2> QED BY <1>2, <1>5, <2>1, <2>2 DEF Ready, StepOK, DeadlineKept, CleanupArmed, Terminating
<1>6. CASE MarkAnsweredThenRefused(c.mgen) /\ c' = Finish(given, "error")
  BY <1>0, <1>3, <1>4, <1>6, FinishErrorOK DEF MarkAnsweredThenRefused, AggStep
<1>7. CASE MarkAnswered(c.mgen) /\ c' = TerminateRetry(given)
  <2>1. UNCHANGED current /\ AggStep
    BY <1>0, <1>7 DEF MarkAnswered, AggStep
  <2> QED BY <1>3, <1>4, <1>7, <2>1, TerminateRetryOK DEF Ready, StepOK, DeadlineKept, CleanupArmed, Terminating
<1>8. CASE MarkAnsweredRefused /\ c' = Finish(c, "error")
  BY <1>0, <1>8, FinishErrorOK DEF MarkAnsweredRefused, AggStep
<1> QED BY <1>5, <1>6, <1>7, <1>8 DEF ConfirmAnswer, joined, given

\* The acknowledgement of the caller's answer keeps the invariant.
LEMMA AnswerAckStep ==
  ASSUME CoordInv, NEW budget \in BOOLEAN, HandleAnswerAck(budget)
  PROVE  StepOK
<1>1. Ready(c) /\ current \in Attempt /\ c \in Coordinator
  BY ReadyNow DEF HandleAnswerAck, Receive
<1> DEFINE e == [c EXCEPT !.pendingAnswer = FALSE, !.answering = FALSE]
<1>2. e \in Coordinator
  BY <1>1, SetPendingAnswer, SetAnswering
<1>3. SameCourse(e, c)
  BY <1>1 DEF SameCourse, Coordinator
<1>4. CASE Commit(c)
  BY <1>1, <1>4, CommitOK
<1>5. CASE Commit(e)
  <2> HIDE DEF e
  <2> QED BY <1>1, <1>2, <1>3, <1>5, SameCourseReady, CommitOK
<1>6. CASE ~Terminating(c) /\ ConfirmAnswer(budget)
  BY <1>1, <1>6, ConfirmAnswerStep
<1> QED BY <1>4, <1>5, <1>6 DEF HandleAnswerAck

\* A failed action of a leg keeps the invariant.
LEMMA ActionFailureStep ==
  ASSUME CoordInv,
         \/ HandleAnswerNack \/ HandleCallerActionFailed
         \/ \E a \in Attempt : HandlePeerActionFailed(a)
  PROVE  StepOK
<1>1. Ready(c)
  BY ReadyNow DEF HandleAnswerNack, HandleCallerActionFailed, HandlePeerActionFailed, Receive
<1>2. CASE Commit(c)
  BY <1>1, <1>2, CommitOK
<1>3. ASSUME NEW peer \in BOOLEAN, Commit(ActionFailed(c, peer, FALSE)) PROVE StepOK
  BY <1>1, <1>3, ActionFailedOK, CommitOK
<1> QED BY <1>2, <1>3 DEF HandleAnswerNack, HandleCallerActionFailed, HandlePeerActionFailed

\* A failed origination keeps the invariant, stale or not.
LEMMA OriginateFailedStep ==
  ASSUME CoordInv, NEW a \in Attempt, NEW budget \in BOOLEAN, HandleOriginateFailed(a, budget)
  PROVE  StepOK
<1>1. Ready(c) /\ current \in Attempt /\ c \in Coordinator /\ HuntBudget(c, current)
  BY ReadyNow DEF HandleOriginateFailed, Receive
<1>2. CASE Commit(FailTransfer(c))
  BY <1>1, <1>2, FailTransferOK, CommitOK
<1>3. CASE Commit(ActionFailed(c, TRUE, TRUE))
  BY <1>1, <1>3, ActionFailedOK, CommitOK
<1>4. CASE HasRetryCandidate(c, budget) /\ BeginNextAttempt([c EXCEPT !.calleeDone = TRUE])
  <2> DEFINE e == [c EXCEPT !.calleeDone = TRUE]
  <2>1. e \in Coordinator
    BY <1>1, SetCalleeDone
  <2>2. /\ HuntBudget(e, current) /\ ~Terminating(e) /\ e.remaining > 0 /\ ~e.retry
        /\ e.pending = 0 /\ e.registering = 0 /\ ~Terminating(c)
    BY <1>1, <1>4, <2>1 DEF HuntBudget, HasRetryCandidate, Terminating, Coordinator
  <2> HIDE DEF e
  <2> QED BY <1>1, <1>4, <2>1, <2>2, BeginNextAttemptOK DEF e
<1> QED BY <1>2, <1>3, <1>4 DEF HandleOriginateFailed

\* Taking a media result from the queue keeps the record ready.
LEMMA DoneReady ==
  ASSUME CoordInv, c.finish = "no", c.jobs # <<>>
  PROVE  /\ Ready(Done(c)) /\ Done(c) \in Coordinator /\ SameCourse(Done(c), c)
         /\ Terminating(Done(c)) <=> Terminating(c)
         /\ Done(c).finish = "no"
<1>1. Ready(c) /\ c \in Coordinator
  BY ReadyNow
<1>2. Tail(c.jobs) \in Seq(Jobs)
  <2>1. \A q \in Seq(Jobs) : q # <<>> => Tail(q) \in Seq(Jobs)
    OBVIOUS
  <2> QED BY <1>1, <2>1, Fields
<1>3. Done(c) \in Coordinator
  BY <1>1, <1>2, SetJobs DEF Done
<1>4. SameCourse(Done(c), c) /\ Done(c).finish = "no"
  BY <1>1 DEF SameCourse, Done, Coordinator
<1> QED BY <1>1, <1>3, <1>4, SameCourseReady

\* A stale, failed or provisional media result keeps the invariant.
LEMMA MediaResultStep ==
  ASSUME CoordInv, IgnoreMedia \/ MediaFailed \/ ProvisionalPrepared
  PROVE  StepOK
<1>1. /\ Ready(Done(c)) /\ current \in Attempt
      /\ Terminating(Done(c)) <=> Terminating(c)
  BY ReadyNow, DoneReady DEF IgnoreMedia, MediaFailed, ProvisionalPrepared, MediaResult
<1>2. CASE Commit(Done(c))
  BY <1>1, <1>2, CommitOK
<1>3. ASSUME NEW verb \in Verbs, Commit(FailMedia(Done(c), verb)) PROVE StepOK
  BY <1>1, <1>3, FailMediaOK, CommitOK
<1>4. CASE Commit(Arm(Done(c), "Ring"))
  BY <1>1, <1>4, Names, ArmReady, CommitOK
<1> QED BY <1>2, <1>3, <1>4, Names DEF IgnoreMedia, MediaFailed, ProvisionalPrepared

\* The prepared answer of the caller keeps the invariant.
LEMMA AnswerPreparedStep ==
  ASSUME CoordInv, AnswerPrepared
  PROVE  StepOK
<1>1. /\ Ready(Done(c)) /\ Done(c) \in Coordinator /\ ~Terminating(c)
      /\ c.agen \in Nat /\ c.mgen \in Nat
  BY ReadyNow, DoneReady, Fields DEF AnswerPrepared, MediaResult, StaleMedia
<1> DEFINE d == Done(c)
           e == [d EXCEPT !.state = "Answering", !.pendingAnswer = TRUE, !.answerGen = c.agen]
<1> HIDE DEF d
<1>2. e \in Coordinator
  BY <1>1, Names, SetState, SetPendingAnswer, SetAnswerGen DEF d
<1>3. Ready(e)
  BY <1>1, <1>2 DEF d, Ready, HuntBudget, Terminating, Coordinator
<1>4. Commit(e)
  BY DEF AnswerPrepared, d
<1> QED BY <1>1, <1>3, <1>4, CommitOK

\* The prepared answer of a transfer keeps the invariant.
LEMMA TransferAnswerStep ==
  ASSUME CoordInv, TransferAnswerPrepared
  PROVE  StepOK
<1>1. /\ Ready(Done(c)) /\ Done(c) \in Coordinator /\ ~Terminating(c)
      /\ c.mgen \in Nat /\ c \in Coordinator /\ HuntBudget(c, current)
  BY ReadyNow, DoneReady, Fields DEF TransferAnswerPrepared, MediaResult, StaleMedia
<1> DEFINE d == Done(c)
           e == [d EXCEPT !.state = "Connected", !.answering = FALSE, !.calleeDone = FALSE,
                   !.transfer = FALSE, !.transferFailed = FALSE]
           f == [e EXCEPT !.jobs = Append(@, Job("StartMedia", c.mgen, 0, FALSE))]
<1> HIDE DEF d
<1>2. e \in Coordinator
  BY <1>1, Names, SetState, SetAnswering, SetCalleeDone, SetTransfer, SetTransferFailed DEF d
<1>3. Ready(e) /\ ~Terminating(e)
  BY <1>1, <1>2 DEF d, Ready, HuntBudget, Terminating, Coordinator
<1> HIDE DEF e
<1>4. f \in Coordinator
  <2>1. Job("StartMedia", c.mgen, 0, FALSE) \in Jobs
    BY <1>1 DEF Job, Jobs
  <2>2. Append(e.jobs, Job("StartMedia", c.mgen, 0, FALSE)) \in Seq(Jobs)
    BY <1>2, <2>1, Fields, AppendJob
  <2> QED BY <1>2, <2>2, SetJobs
<1>5. SameCourse(f, e)
  BY <1>2 DEF SameCourse, Coordinator
<1> HIDE DEF f
<1>6. Ready(f) /\ ~Terminating(f)
  BY <1>3, <1>4, <1>5, SameCourseReady
<1>7. CASE MarkTransferAnswered(c.mgen) /\ c' = f
  <2>1. UNCHANGED current /\ AggStep
    BY <1>1, <1>7 DEF MarkTransferAnswered, AggStep
  <2> QED BY <1>1, <1>6, <1>7, <2>1 DEF Ready, StepOK, DeadlineKept, CleanupArmed
<1>8. CASE MarkTransferAnsweredRefused /\ c' = Finish(c, "error")
  BY <1>1, <1>8, FinishErrorOK DEF MarkTransferAnsweredRefused, AggStep
<1> QED BY <1>7, <1>8 DEF TransferAnswerPrepared, f, e, d

\* The prepared offer of an attempt keeps the invariant.
LEMMA OfferPreparedStep ==
  ASSUME CoordInv, NEW result \in {"prepared", "failed", "refused"}, OfferPrepared(result)
  PROVE  StepOK
<1>1. /\ Ready(Done(c)) /\ Done(c) \in Coordinator /\ ~Terminating(Done(c)) /\ ~Terminating(c)
      /\ SameCourse(Done(c), c) /\ HuntBudget(c, current) /\ c \in Coordinator /\ current \in Attempt
  BY ReadyNow, DoneReady DEF OfferPrepared, MediaResult, StaleMedia
<1> DEFINE taken == [Done(c) EXCEPT !.pending = 0]
           bumped == [taken EXCEPT !.agen = @ + 1]
           asked == [bumped EXCEPT !.registering = c.pending, !.registration = "queued"]
<1>2. taken \in Coordinator
  BY <1>1, SetPending
<1>3. /\ Ready(taken) /\ ~Terminating(taken) /\ taken.registering = c.registering
      /\ taken.remaining = c.remaining /\ taken.retry = c.retry /\ taken.pending = 0
  BY <1>1, <1>2 DEF Ready, HuntBudget, Terminating, SameCourse, Coordinator
<1> HIDE DEF taken
<1>4. bumped \in Coordinator
  <2>1. taken.agen + 1 \in Nat
    BY <1>2, Fields
  <2> QED BY <1>2, <2>1, SetAgen
<1>5. SameCourse(bumped, taken)
  BY <1>2 DEF SameCourse, Coordinator
<1> HIDE DEF bumped
<1>6. Ready(bumped) /\ ~Terminating(bumped)
  BY <1>3, <1>4, <1>5, SameCourseReady
<1>7. asked \in Coordinator
  <2>1. c.pending \in Nat
    BY <1>1, Fields
  <2> QED BY <1>4, <2>1, SetRegistering, SetRegistration
<1>8. /\ asked.registering = c.pending /\ asked.pending = 0 /\ asked.remaining = c.remaining
      /\ asked.retry = c.retry /\ asked.state = bumped.state /\ asked.timers = bumped.timers
  BY <1>3, <1>4, <1>5 DEF SameCourse, Coordinator
<1> HIDE DEF asked
<1>9. Ready(asked)
  BY <1>1, <1>6, <1>7, <1>8 DEF Ready, HuntBudget, Terminating
<1>10. ASSUME NEW d \in {taken, bumped} PROVE Ready(FailTransfer(d)) /\ Ready(TerminateRetry(d))
  BY <1>3, <1>6, <1>10, FailTransferOK, TerminateRetryOK DEF Ready
<1>11. PICK e \in {taken, asked, FailTransfer(taken), TerminateRetry(taken), FailTransfer(bumped),
                   TerminateRetry(bumped)} : Commit(e)
  BY DEF OfferPrepared, taken, bumped, asked
<1>12. Ready(e)
  BY <1>3, <1>9, <1>10, <1>11
<1> QED BY <1>1, <1>11, <1>12, CommitOK

\* The start of the bridge's media keeps the invariant.
LEMMA MediaStartedStep ==
  ASSUME CoordInv, MediaStarted
  PROVE  StepOK
<1>1. /\ Ready(Done(c)) /\ c \in Coordinator /\ HuntBudget(c, current) /\ c.mgen \in Nat
      /\ SameCourse(Done(c), c) /\ Done(c).finish = "no" /\ c.finish = "no"
      /\ Terminating(Done(c)) <=> Terminating(c)
  BY ReadyNow, DoneReady, Fields DEF MediaStarted, MediaResult
<1>2. CASE Commit(Done(c))
  BY <1>1, <1>2, CommitOK
<1>3. CASE ActivateBridge(c.mgen) /\ c' = Done(c)
  <2>1. UNCHANGED current /\ AggStep
    BY <1>1, <1>3 DEF ActivateBridge, AggStep
  <2> QED BY <1>1, <1>3, <2>1
          DEF CoordInv, Ready, HuntBudget, StepOK, DeadlineKept, CleanupArmed, Terminating, SameCourse
<1>4. CASE ActivateBridgeRefused(c.mgen) /\ c' = Finish(c, "error")
  BY <1>1, <1>4, FinishErrorOK DEF ActivateBridgeRefused, AggStep
<1> QED BY <1>2, <1>3, <1>4 DEF MediaStarted

\* The registrar's answer keeps the invariant.
LEMMA RegistrarStep ==
  ASSUME CoordInv, Register \/ RefuseRegistration
  PROVE  StepOK
<1>1. PICK r \in {"registered", "rejected"} : c' = [c EXCEPT !.registration = r]
  BY DEF Register, RefuseRegistration
<1>2. c \in Coordinator /\ c' \in Coordinator /\ UNCHANGED aggVars
  BY <1>1, SetRegistration DEF CoordInv, TypeOK, Register, RefuseRegistration
<1>3. SameCourse(c', c) /\ c'.finish = c.finish
  BY <1>1, <1>2 DEF SameCourse, Coordinator
<1> QED BY <1>2, <1>3 DEF CoordInv, HuntBudget, SameCourse, StepOK, DeadlineKept, CleanupArmed, Terminating, aggVars

\* Taking the registrar's answer leaves a ready record.
LEMMA RegisteredOK ==
  ASSUME Ready(c)
  PROVE  /\ Ready(Registered(c)) /\ Registered(c) \in Coordinator
         /\ Terminating(Registered(c)) <=> Terminating(c)
         /\ Registered(c).pending = c.pending /\ Registered(c).remaining = c.remaining
         /\ Registered(c).retry = c.retry /\ Registered(c).registering = 0
<1>1. c \in Coordinator /\ Registered(c) \in Coordinator
  BY SetRegistering, SetRegistration DEF Ready, Registered
<1> QED BY <1>1 DEF Ready, HuntBudget, Terminating, Registered, Coordinator

\* The handling of the registrar's answer keeps the invariant.
LEMMA RegistrationStep ==
  ASSUME CoordInv, AttemptRegistered \/ AttemptRejected
  PROVE  StepOK
<1>1. /\ Ready(c) /\ Ready(Registered(c)) /\ Registered(c) \in Coordinator
      /\ Terminating(Registered(c)) <=> Terminating(c)
      /\ HuntBudget(c, current) /\ c \in Coordinator /\ current \in Attempt
  BY ReadyNow, RegisteredOK DEF AttemptRegistered, AttemptRejected
<1>2. CASE Commit(Registered(c))
  BY <1>1, <1>2, CommitOK
<1>3. CASE Commit(FailTransfer(Registered(c)))
  BY <1>1, <1>3, FailTransferOK, CommitOK
<1>4. CASE Commit(TerminateRetry(Registered(c)))
  BY <1>1, <1>4, TerminateRetryOK, CommitOK DEF Ready
<1>5. CASE /\ ~Terminating(c) /\ RegisterAttempt(c.registering)
           /\ c' = Arm([Registered(c) EXCEPT !.calleeDone = FALSE, !.lateSent = FALSE], "Dial")
  <2> DEFINE d == Registered(c)
             e == [d EXCEPT !.calleeDone = FALSE, !.lateSent = FALSE]
  <2>1. /\ d.pending = c.pending /\ d.remaining = c.remaining /\ d.retry = c.retry /\ d.registering = 0
        /\ d \in Coordinator /\ ~Terminating(d)
    BY <1>1, <1>5, RegisteredOK
  <2> HIDE DEF d
  <2>2. e \in Coordinator
    BY <2>1, SetCalleeDone, SetLateSent
  <2>3. /\ e.pending = c.pending /\ e.remaining = c.remaining /\ e.retry = c.retry
        /\ e.registering = 0 /\ ~Terminating(e)
    BY <2>1, <2>2 DEF Terminating, Coordinator
  <2> HIDE DEF e
  <2>4. c' = Arm(e, "Dial") /\ c' \in Coordinator
    BY <1>5, <2>2, Names, ArmOK DEF e, d
  <2>5. /\ c'.pending = c.pending /\ c'.remaining = c.remaining /\ c'.retry = c.retry
        /\ c'.registering = 0 /\ ~Terminating(c')
    BY <2>2, <2>3, <2>4 DEF Arm, Terminating, Coordinator
  <2>6. /\ c.registering = current + 1 /\ current' = current + 1
        /\ c.pending = 0 /\ current + c.remaining < MaxAttempts /\ ~c.retry
        /\ current \in Nat /\ c.remaining \in Nat
    BY <1>1, <1>5, Fields DEF RegisterAttempt, HuntBudget, Attempt
  <2>7. c.registering \in Attempt /\ current + 1 + c.remaining <= MaxAttempts
    BY <2>6, MaxAttemptsAssumption DEF Attempt
  <2>8. HuntBudget(c', current')
    BY <1>1, <2>5, <2>6, <2>7 DEF HuntBudget
  <2>9. AggStep
    BY <1>5, <2>7 DEF AggStep
  <2> QED BY <1>5, <2>4, <2>5, <2>8, <2>9 DEF StepOK, DeadlineKept, CleanupArmed
<1> QED BY <1>2, <1>3, <1>4, <1>5 DEF AttemptRegistered, AttemptRejected

\* The setup and ring deadlines keep the invariant.
LEMMA SetupTimerStep ==
  ASSUME CoordInv, NEW k \in {"Dial", "Ring"}, NEW budget \in BOOLEAN, SetupTimerExpires(k, budget)
  PROVE  StepOK
<1> DEFINE d == Disarm(c, {k})
<1>1. /\ Ready(d) /\ d \in Coordinator /\ HuntBudget(d, current) /\ current \in Attempt /\ current \in Leg
      /\ Terminating(d) <=> Terminating(c)
  BY ReadyNow, DisarmReady DEF SetupTimerExpires, Ready
<1> HIDE DEF d
<1>2. CASE Commit(d)
  BY <1>1, <1>2, CommitOK
<1>3. CASE Commit(FailTransfer(Tell(d, current, "Cancel")))
  <2> DEFINE e == Tell(d, current, "Cancel")
  <2>1. Ready(e) /\ (Terminating(e) <=> Terminating(c))
    BY <1>1, Names, TellReady DEF SameCourse, Terminating
  <2> HIDE DEF e
  <2>2. Commit(FailTransfer(e))
    BY <1>3 DEF e
  <2> QED BY <2>1, <2>2, FailTransferOK, CommitOK
<1>4. CASE HasRetryCandidate(d, budget) /\ Commit(WaitForRetry(d))
  <2>1. Ready(WaitForRetry(d)) /\ ~Terminating(c)
    BY <1>1, <1>4, WaitForRetryOK DEF HasRetryCandidate
  <2> QED BY <1>4, <2>1, CommitOK
<1>5. CASE Commit(TimerTerminates(d))
  BY <1>1, <1>5, TimerTerminatesOK, CommitOK
<1> QED BY <1>2, <1>3, <1>4, <1>5 DEF SetupTimerExpires, d

\* The cleanup deadlines, of an attempt and of the call, keep the invariant.
LEMMA CleanupStep ==
  ASSUME CoordInv, NEW budget \in BOOLEAN, CleanupExpires(budget)
  PROVE  StepOK
<1> DEFINE d == Disarm(c, {"Cleanup"})
<1>1. c \in Coordinator /\ HuntBudget(c, current) /\ current \in Attempt /\ current \in Leg
  BY ReadyNow DEF CleanupExpires
<1>2. d \in Coordinator
  BY <1>1, DisarmOK
<1>3. HuntBudget(d, current) /\ (Terminating(d) <=> Terminating(c)) /\ d.retry = c.retry
  BY <1>1, <1>2 DEF HuntBudget, Terminating, Disarm, Coordinator
<1> HIDE DEF d
<1>4. CASE c.retry /\ ResumeHunt(Tell(d, current, "Hangup"), budget)
  <2> DEFINE e == Tell(d, current, "Hangup")
  <2>1. e \in Coordinator
    BY <1>1, <1>2, Names, TellOK
  <2>2. HuntBudget(e, current) /\ (Terminating(e) <=> Terminating(c)) /\ e.retry
    BY <1>2, <1>3, <1>4, <2>1 DEF HuntBudget, Terminating, Tell, Coordinator
  <2> HIDE DEF e
  <2>3. ResumeHunt(e, budget)
    BY <1>4 DEF e
  <2> QED BY <1>1, <2>1, <2>2, <2>3, ResumeHuntOK
<1>5. CASE ~Terminating(c) /\ Commit(d)
  BY <1>2, <1>3, <1>5, CommitOK DEF Ready
<1>6. CASE ReleaseTopology /\ c' = ForcedRemoval(d)
  BY <1>1, <1>2, <1>3, <1>6, ForcedRemovalOK
     DEF StepOK, DeadlineKept, CleanupArmed, Terminating, AggStep, ReleaseTopology
<1> QED BY <1>4, <1>5, <1>6 DEF CleanupExpires, d

\* The agent's transfers and its end of the call keep the invariant.
LEMMA AgentStep ==
  ASSUME CoordInv, Agent
  PROVE  StepOK
<1>1. Ready(c) /\ c \in Coordinator /\ HuntBudget(c, current) /\ current \in Attempt
  BY ReadyNow DEF Agent, AgentEndsCall, AgentEndRefused, AgentTransfers, AgentTransferRefused
<1>2. CASE AgentEndsCall
  BY <1>1, <1>2, AgentEndsOK, CommitOK DEF AgentEndsCall
<1>3. CASE AgentTransfers
  <2> DEFINE d == [c EXCEPT !.transfer = TRUE]
  <2>1. d \in Coordinator
    BY <1>1, SetTransfer
  <2>2. SameCourse(d, c)
    BY <1>1 DEF SameCourse, Coordinator
  <2> HIDE DEF d
  <2>3. Ready(d) /\ ~Terminating(d) /\ ~Terminating(c)
    BY <1>1, <1>3, <2>1, <2>2, SameCourseReady DEF AgentTransfers
  <2>4. CASE Commit(FailTransfer(d))
    BY <2>3, <2>4, FailTransferOK, CommitOK
  <2>5. CASE c.registering = 0 /\ Commit(OfferNext(d))
    <3>1. /\ ~d.retry /\ d.registering = 0 /\ d.remaining = 0 /\ current + d.remaining < MaxAttempts
      BY <1>1, <1>3, <2>2, <2>5, MaxAttemptsAssumption DEF AgentTransfers, HuntBudget, SameCourse, Attempt
    <3>2. Ready(OfferNext(d))
      BY <1>1, <2>1, <2>3, <3>1, OfferNextOK
    <3> QED BY <2>3, <2>5, <3>2, CommitOK
  <2> QED BY <1>3, <2>4, <2>5 DEF AgentTransfers, d
<1>4. CASE AgentTransferRefused
  <2> DEFINE d == OfferNext(c)
             e == [d EXCEPT !.jobs = c.jobs]
  <2>1. /\ ~Terminating(c) /\ ~c.retry /\ c.registering = 0 /\ c.remaining = 0
        /\ current + c.remaining < MaxAttempts
    BY <1>1, <1>4, MaxAttemptsAssumption DEF AgentTransferRefused, HuntBudget, Attempt
  <2>2. Ready(d) /\ d \in Coordinator
    BY <1>1, <2>1, OfferNextOK DEF Ready
  <2>3. c.jobs \in Seq(Jobs)
    BY <1>1, Fields
  <2> HIDE DEF d
  <2>4. e \in Coordinator
    BY <2>2, <2>3, SetJobs
  <2>5. SameCourse(e, d)
    BY <2>2 DEF SameCourse, Coordinator
  <2>6. Ready(e)
    BY <2>2, <2>4, <2>5, SameCourseReady
  <2>7. Commit(FailTransfer(e))
    BY <1>4 DEF AgentTransferRefused, d
  <2> HIDE DEF e
  <2> QED BY <2>1, <2>6, <2>7, FailTransferOK, CommitOK
<1>5. CASE AgentEndRefused
  <2> DEFINE d == Disarm(c, {"Dial", "Ring"})
             e == [d EXCEPT !.state = "Terminating", !.calleeDone = TRUE]
  <2>1. d \in Coordinator /\ HuntBudget(d, current)
    BY <1>1, DisarmReady DEF Ready
  <2> HIDE DEF d
  <2>2. e \in Coordinator
    BY <2>1, Names, SetState, SetCalleeDone
  <2>3. HuntBudget(e, current) /\ Terminating(e)
    BY <2>1 DEF HuntBudget, Terminating, Coordinator
  <2>4. Commit(e) /\ EndMayBeRefused
    BY <1>5 DEF AgentEndRefused, EndMayBeRefused, d
  <2> HIDE DEF e
  <2>5. Ready(e)
    BY <2>2, <2>3, <2>4 DEF Ready
  <2> QED BY <2>3, <2>4, <2>5, CommitOK
<1> QED BY <1>2, <1>3, <1>4, <1>5 DEF Agent

\* The removal and the finalizing of a call keep the invariant.
LEMMA EndStepOK ==
  ASSUME CoordInv, BeginShutdown \/ SubmissionRefused \/ ForceCleanup \/ CallFinalized
  PROVE  StepOK
<1>1. c \in Coordinator /\ HuntBudget(c, current) /\ current \in Attempt
  BY DEF CoordInv, TypeOK, AggInv, AggTypeOK
<1> DEFINE f == Finish(c, "forced")
           final(d) == [d EXCEPT !.finalized = TRUE]
<1>2. ASSUME NEW d \in Coordinator, HuntBudget(d, current), Terminating(d), d.finish # "no"
      PROVE  /\ final(d) \in Coordinator /\ HuntBudget(final(d), current)
             /\ Terminating(final(d)) /\ final(d).finish # "no"
  <2>1. final(d) \in Coordinator
    BY <1>2, SetFinalized
  <2> QED BY <1>2, <2>1 DEF HuntBudget, Terminating, Coordinator
<1>3. final(c) \in Coordinator /\ SameCourse(final(c), c) /\ final(c).finish = c.finish
  BY <1>1, SetFinalized DEF SameCourse, Coordinator
<1>4. f \in Coordinator /\ HuntBudget(f, current) /\ Terminating(f) /\ f.finish # "no"
  BY <1>1, FinishOK
<1>5. CASE BeginShutdown
  <2>1. Ready(c)
    BY <1>5, ReadyNow DEF BeginShutdown
  <2> QED BY <1>1, <1>5, <2>1, DrainCallOK, CommitOK DEF BeginShutdown
<1>6. CASE SubmissionRefused
  BY <1>1, <1>6, FinishErrorOK DEF SubmissionRefused, ReleaseTopology, AggStep
<1> HIDE DEF f
<1>7. CASE ReleaseTopology /\ c' = final(f)
  BY <1>2, <1>4, <1>7 DEF StepOK, DeadlineKept, CleanupArmed, Terminating, AggStep, ReleaseTopology
<1> HIDE DEF final
<1>8. CASE UNCHANGED aggVars /\ c' = final(c)
  BY <1>1, <1>3, <1>8
     DEF CoordInv, HuntBudget, SameCourse, StepOK, DeadlineKept, CleanupArmed, Terminating, aggVars
<1> QED BY <1>5, <1>6, <1>7, <1>8 DEF ForceCleanup, CallFinalized, final, f

\* What legs, caller and adapter do by themselves keeps the invariant.
LEMMA EnvironmentStep ==
  ASSUME CoordInv, AdapterAnswer \/ Legs \/ SystemShutdown \/ CallOver \/ UNCHANGED vars
  PROVE  StepOK
<1>1. UNCHANGED <<aggVars, c>>
  BY DEF AdapterAnswer, CallerAnswered, CallerAnswerRefused, Legs, CallerCancels, CallerLeaves,
         CalleeRings, CalleeAnswers, CalleeFails, CalleeLeaves, LegStep, LegEndsSilently,
         CalleeActionFails, SystemShutdown, CallOver, vars
<1> QED BY <1>1, StutterOK

\* Every step of the system keeps the coordinator's record, its deadline and
\* its course, and is a step of the topology or leaves it alone.
LEMMA EveryStepOK == ASSUME CoordInv, [Next]_vars PROVE StepOK
<1>1. CASE LegMessage
  <2>1. ASSUME NEW a \in Attempt, StaleLegEvent(a) PROVE StepOK
    BY <2>1, StutterOK DEF StaleLegEvent
  <2> QED BY <1>1, <2>1, CallerStep, ActionFailureStep, ProvisionalStep, AnsweredStep, FailedStep,
             CalleeDisconnectedStep, OriginateFailedStep, AnswerAckStep DEF LegMessage
<1>2. CASE MediaMessage
  BY <1>2, MediaResultStep, AnswerPreparedStep, TransferAnswerStep, OfferPreparedStep,
     MediaStartedStep DEF MediaMessage
<1>3. CASE RegistrationMessage \/ Registrar
  BY <1>3, RegistrationStep, RegistrarStep DEF RegistrationMessage, Registrar
<1>4. CASE TimerExpiry
  BY <1>4, SetupTimerStep, CleanupStep DEF TimerExpiry
<1>5. CASE Agent
  BY <1>5, AgentStep
<1>6. CASE BeginShutdown \/ SubmissionRefused \/ ForceCleanup \/ CallFinalized
  BY <1>6, EndStepOK
<1>7. CASE AdapterAnswer \/ Legs \/ SystemShutdown \/ CallOver \/ UNCHANGED vars
  BY <1>7, EnvironmentStep
<1> QED BY <1>1, <1>2, <1>3, <1>4, <1>5, <1>6, <1>7 DEF Next

----------------------------------------------------------------------------
(* The environment's state *)

EnvTypeOK ==
  /\ leg \in [Leg -> LiveLeg \cup {"none", "ended"}]
  /\ evq \in [Leg -> Seq(Events)]
  /\ alive \subseteq Leg
  /\ shutdown \in {"no", "signalled", "seen"}

\* Taking a message from a leg's queue keeps the queues typed.
LEMMA ReceiveType ==
  ASSUME EnvTypeOK, NEW l \in Leg, NEW kind, Receive(l, kind)
  PROVE  EnvTypeOK'
<1>1. \A q \in Seq(Events) : q # <<>> => Tail(q) \in Seq(Events)
  OBVIOUS
<1>2. evq[l] \in Seq(Events) /\ evq[l] # <<>> /\ evq' = [evq EXCEPT ![l] = Tail(evq[l])]
  BY DEF EnvTypeOK, Receive
<1>3. evq' \in [Leg -> Seq(Events)]
  BY <1>1, <1>2 DEF EnvTypeOK
<1> QED BY <1>3 DEF EnvTypeOK, Receive

\* What a leg does keeps the legs and their queues typed.
LEMMA LegStepType ==
  ASSUME EnvTypeOK, NEW l \in Leg, NEW to \in LiveLeg \cup {"none", "ended"},
         NEW kind \in Events, LegStep(l, to, kind)
  PROVE  EnvTypeOK'
<1>1. \A q \in Seq(Events) : Append(q, kind) \in Seq(Events)
  OBVIOUS
<1>2. evq' \in [Leg -> Seq(Events)]
  BY <1>1 DEF EnvTypeOK, LegStep
<1> QED BY <1>2 DEF EnvTypeOK, LegStep

\* A step that leaves the environment alone keeps it typed.
LEMMA QuietType ==
  ASSUME EnvTypeOK, UNCHANGED <<leg, evq, alive, shutdown>>
  PROVE  EnvTypeOK'
  BY DEF EnvTypeOK

\* Every step keeps legs, queues and signals typed.
LEMMA EnvTypeStep == ASSUME CoordInv, [Next]_vars PROVE EnvTypeOK'
<1>0. EnvTypeOK /\ current \in Leg /\ c \in Coordinator
  BY LegNumbers DEF CoordInv, TypeOK, EnvTypeOK, AggInv, AggTypeOK
<1>e. {"provisional", "answered", "failed", "disconnected", "cancelled", "ack", "nack",
       "originateFailed", "actionFailed"} \subseteq Events
  BY DEF Events
<1>s. {"ringing", "answered", "dialing", "ended"} \subseteq LiveLeg \cup {"none", "ended"}
  BY DEF LiveLeg
<1>1. CASE LegMessage
  <2>1. ASSUME NEW l \in Leg, NEW kind, Receive(l, kind) PROVE EnvTypeOK'
    BY <1>0, <2>1, ReceiveType
  <2>2. CASE HandleCallerActionFailed
    BY <1>0, <2>2, QuietType DEF HandleCallerActionFailed
  <2> QED BY <1>1, <2>1, <2>2, LegNumbers
          DEF LegMessage, HandleCancelled, HandleCallerDisconnected, HandleAnswerNack, StaleLegEvent,
              HandlePeerActionFailed, HandleProvisional, HandleCalleeDisconnected,
              HandleOriginateFailed, HandleAnswered, HandleFailed, HandleAnswerAck
<1>2. CASE MediaMessage
  BY <1>0, <1>2, QuietType DEF MediaMessage, IgnoreMedia, MediaFailed, ProvisionalPrepared,
     AnswerPrepared, TransferAnswerPrepared, OfferPrepared, MediaStarted, MediaResult
<1>3. CASE RegistrationMessage
  <2>1. CASE AttemptRejected
    BY <1>0, <2>1, QuietType DEF AttemptRejected
  <2>2. CASE AttemptRegistered
    <3>1. leg' = leg \/ leg' = [leg EXCEPT ![c.registering] = "dialing"]
      BY <2>2 DEF AttemptRegistered
    <3>2. leg' \in [Leg -> LiveLeg \cup {"none", "ended"}]
      BY <1>0, <1>s, <3>1 DEF EnvTypeOK
    <3> QED BY <1>0, <2>2, <3>2 DEF AttemptRegistered, EnvTypeOK
  <2> QED BY <1>3, <2>1, <2>2 DEF RegistrationMessage
<1>4. CASE Registrar
  <2>1. CASE RefuseRegistration
    BY <1>0, <2>1, QuietType DEF RefuseRegistration
  <2>2. CASE Register
    <3>1. c.registering \in Leg
      <4>1. /\ c.registering \in {0, current + 1} /\ c.remaining \in Nat
            /\ c.registering # 0 => current + c.remaining < MaxAttempts
            /\ current \in Attempt
        BY <1>0, Fields DEF CoordInv, HuntBudget, AggInv, AggTypeOK
      <4> QED BY <4>1, MaxAttemptsAssumption DEF Attempt, Leg
    <3> QED BY <1>0, <2>2, <3>1 DEF Register, EnvTypeOK
  <2> QED BY <1>4, <2>1, <2>2 DEF Registrar
<1>5. CASE TimerExpiry \/ Agent
  BY <1>0, <1>5, QuietType DEF TimerExpiry, CleanupExpires, SetupTimerExpires, Agent, AgentEndsCall,
     AgentEndRefused, AgentTransfers, AgentTransferRefused
<1>6. CASE AdapterAnswer \/ CallerCancels \/ CallerLeaves
  BY <1>0, <1>6, <1>e, <1>s, LegNumbers, LegStepType
     DEF AdapterAnswer, CallerAnswered, CallerAnswerRefused, CallerCancels, CallerLeaves
<1>7. ASSUME NEW l \in Leg, LegEndsSilently(l) PROVE EnvTypeOK'
  BY <1>0, <1>7, <1>s DEF LegEndsSilently, EnvTypeOK
<1>8. ASSUME NEW a \in Attempt, CalleeRings(a) \/ CalleeAnswers(a) \/ CalleeFails(a) \/ CalleeLeaves(a)
      PROVE  EnvTypeOK'
  BY <1>0, <1>8, <1>e, <1>s, LegNumbers, LegStepType
     DEF CalleeRings, CalleeAnswers, CalleeFails, CalleeLeaves
<1>9. ASSUME NEW a \in Attempt, CalleeActionFails(a) PROVE EnvTypeOK'
  <2>1. \A q \in Seq(Events), kind \in Events : Append(q, kind) \in Seq(Events)
    OBVIOUS
  <2>2. leg' \in [Leg -> LiveLeg \cup {"none", "ended"}]
    BY <1>0, <1>9, <1>s DEF CalleeActionFails, EnvTypeOK
  <2>3. PICK kind \in Events : evq' = [evq EXCEPT ![a] = Append(evq[a], kind)]
    BY <1>9, <1>e DEF CalleeActionFails
  <2>4. evq' \in [Leg -> Seq(Events)]
    BY <1>0, <2>1, <2>3, LegNumbers DEF EnvTypeOK
  <2> QED BY <1>0, <1>9, <2>2, <2>4 DEF CalleeActionFails, EnvTypeOK
<1>10. CASE SystemShutdown \/ BeginShutdown
  BY <1>0, <1>10 DEF SystemShutdown, BeginShutdown, EnvTypeOK
<1>11. CASE SubmissionRefused \/ ForceCleanup \/ CallFinalized \/ CallOver \/ UNCHANGED vars
  BY <1>0, <1>11, QuietType DEF SubmissionRefused, ForceCleanup, CallFinalized, CallOver, vars
<1> QED BY <1>1, <1>2, <1>3, <1>4, <1>5, <1>6, <1>7, <1>8, <1>9, <1>10, <1>11 DEF Next, Legs

----------------------------------------------------------------------------
(* The theorems *)

\* A call that has just been placed satisfies the invariant.
LEMMA CoordInvInit == Init => CoordInv
<1> SUFFICES ASSUME Init PROVE CoordInv
  OBVIOUS
<1>1. AggInv
  BY AggInvInit DEF Init
<1>2. PICK remaining \in 0..(IF AiCall THEN 0 ELSE MaxAttempts - 1) : c = Started(remaining)
  BY DEF Init
<1>3. remaining \in Nat /\ 1 + remaining <= MaxAttempts /\ (AiCall => remaining = 0)
  BY AiCallAssumption, MaxAttemptsAssumption
<1>4. c.jobs \in Seq(Jobs)
  <2>1. Job("AiAgentAnswer", 1, 0, FALSE) \in Jobs
    BY DEF Job, Jobs
  <2>2. \A j \in Jobs : <<j>> \in Seq(Jobs)
    OBVIOUS
  <2>3. c.jobs = IF AiCall THEN <<Job("AiAgentAnswer", 1, 0, FALSE)>> ELSE <<>>
    BY <1>2 DEF Started
  <2>4. CASE AiCall
    BY <2>1, <2>2, <2>3, <2>4
  <2>5. CASE ~AiCall
    BY <2>3, <2>5
  <2> QED BY <2>4, <2>5
<1>5. c \in Coordinator
  BY <1>2, <1>3, <1>4, AiCallAssumption DEF Started, Coordinator, Timers, Verbs
<1>6. HuntBudget(c, current) /\ DeadlineKept
  BY <1>2, <1>3 DEF Init, AggInit, Started, HuntBudget, DeadlineKept, CleanupArmed, Terminating
<1>7. EnvTypeOK
  BY LegNumbers, MaxAttemptsAssumption DEF Init, EnvTypeOK, LiveLeg, Events, Leg, Caller
<1> QED BY <1>1, <1>5, <1>6, <1>7 DEF CoordInv, TypeOK, EnvTypeOK

\* Every step of the coordinator keeps the invariant.
LEMMA CoordInvStep == ASSUME CoordInv, [Next]_vars PROVE CoordInv'
<1>1. StepOK
  BY EveryStepOK
<1>2. AggInv'
  BY <1>1, AggInvStep, AggInvStutter DEF CoordInv, StepOK
<1> QED BY <1>1, <1>2, EnvTypeStep DEF CoordInv, StepOK, TypeOK, EnvTypeOK, HuntBudget

\* The invariant of the coordinator holds in every state.
LEMMA CoordInvariant == Spec => []CoordInv
  BY CoordInvInit, CoordInvStep, PTL DEF Spec

\* The coordinator, its legs and its mailboxes keep their types, and no media
\* job names an attempt the call cannot have.
THEOREM TypeCorrect == Spec => []TypeOK
<1>1. CoordInv => TypeOK
  BY DEF CoordInv
<1> QED BY CoordInvariant, <1>1, PTL

\* The hunt stays within its route, whatever timer, failure or late message
\* asks for the next attempt.
THEOREM HuntStaysInRoute == Spec => []HuntWithinRoute
<1>1. CoordInv => HuntWithinRoute
  BY DEF CoordInv, HuntWithinRoute
<1> QED BY CoordInvariant, <1>1, PTL

\* Every path into Terminating but the refused hangup of an agent's EndCall
\* starts the cleanup timer, and no message that is handled afterwards cancels
\* it before the call is finalized.
THEOREM DeadlineArmed ==
  ASSUME ~EndMayBeRefused
  PROVE  Spec => []CleanupArmed
<1>1. CoordInv => CleanupArmed
  BY DEF CoordInv, DeadlineKept
<1> QED BY CoordInvariant, <1>1, PTL

\* No handler brings a terminating call back.
THEOREM TerminationIsFinal == Spec => TerminatingIsFinal
<1>1. CoordInv /\ [Next]_vars => [Terminating(c) => c'.state = "Terminating"]_vars
  BY EveryStepOK DEF StepOK
<1> QED BY CoordInvariant, <1>1, PTL DEF Spec, TerminatingIsFinal

\* The topology the coordinator drives keeps the guarantees of CallAggregate.
THEOREM TopologyHolds == Spec => [](SelectedIsWinner /\ OneLiveBridge)
<1>1. CoordInv => SelectedIsWinner /\ OneLiveBridge
  BY DEF CoordInv, AggInv
<1> QED BY CoordInvariant, <1>1, PTL
=============================================================================
