-------------------------- MODULE CallLegsProofs --------------------------
(***************************************************************************)
(* Proofs about the legs behind the coordinator: what a removed call leaves *)
(* running, how many callees a call has at once and which of them its      *)
(* caller is connected to.                                                 *)
(***************************************************************************)
EXTENDS CallCoordinatorProofs

----------------------------------------------------------------------------
(* Queues of leg messages *)

\* The messages of a leg that the coordinator has not handled yet.
Sent(l) == {evq[l][i] : i \in DOMAIN evq[l]}

\* Taking the first message takes one that was sent and adds none.
LEMMA ReceiveSent ==
  ASSUME CoordInv, NEW l \in Leg, NEW kind, Receive(l, kind)
  PROVE  kind \in Sent(l) /\ \A m \in Leg : Sent(m)' \subseteq Sent(m)
<1>1. evq \in [Leg -> Seq(Events)] /\ evq[l] # <<>> /\ Head(evq[l]) = kind
      /\ evq' = [evq EXCEPT ![l] = Tail(evq[l])]
  BY DEF CoordInv, TypeOK, Receive
<1>2. \A q \in Seq(Events) : q # <<>> =>
        /\ 1 \in DOMAIN q /\ q[1] = Head(q)
        /\ \A i \in DOMAIN Tail(q) : i + 1 \in DOMAIN q /\ Tail(q)[i] = q[i + 1]
  OBVIOUS
<1>3. kind \in Sent(l)
  BY <1>1, <1>2 DEF Sent
<1>4. ASSUME NEW m \in Leg PROVE Sent(m)' \subseteq Sent(m)
  BY <1>1, <1>2 DEF Sent
<1> QED BY <1>3, <1>4

\* A leg that moves sends at most what it reports.
LEMMA LegStepSent ==
  ASSUME CoordInv, NEW l \in Leg, NEW to, NEW kind, LegStep(l, to, kind)
  PROVE  \A m \in Leg : Sent(m)' \subseteq IF m = l THEN Sent(m) \cup {kind} ELSE Sent(m)
<1>1. evq \in [Leg -> Seq(Events)]
      /\ (evq' = evq \/ evq' = [evq EXCEPT ![l] = Append(evq[l], kind)])
  BY DEF CoordInv, TypeOK, LegStep
<1>2. ASSUME NEW q \in Seq(Events), NEW i \in DOMAIN Append(q, kind)
      PROVE  Append(q, kind)[i] = kind \/ (i \in DOMAIN q /\ Append(q, kind)[i] = q[i])
  OBVIOUS
<1>3. CASE evq' = evq
  BY <1>3 DEF Sent
<1>4. CASE evq' = [evq EXCEPT ![l] = Append(evq[l], kind)]
  <2> SUFFICES ASSUME NEW m \in Leg, NEW k \in Sent(m)'
               PROVE  k \in IF m = l THEN Sent(m) \cup {kind} ELSE Sent(m)
    OBVIOUS
  <2>1. CASE m = l
    <3>1. evq'[m] = Append(evq[m], kind) /\ evq[m] \in Seq(Events)
      BY <1>1, <1>4, <2>1
    <3>2. PICK i \in DOMAIN Append(evq[m], kind) : k = Append(evq[m], kind)[i]
      BY <3>1 DEF Sent
    <3> QED BY <1>2, <2>1, <3>1, <3>2 DEF Sent
  <2>2. CASE m # l
    BY <1>1, <1>4, <2>2 DEF Sent
  <2> QED BY <2>1, <2>2
<1> QED BY <1>1, <1>3, <1>4

\* A step that leaves the queues alone sends nothing.
LEMMA QuietSent == ASSUME UNCHANGED evq PROVE \A m \in Leg : Sent(m)' = Sent(m)
  BY DEF Sent

----------------------------------------------------------------------------
(* What a hunt keeps of its legs *)

Offering(d) == d.pending # 0 \/ d.registering # 0

HungUp(d, l) == leg[l] \notin LiveLeg \/ "Hangup" \in d.told[l]

\* No transfer's answer is prepared in a hunt, and an offer is for an attempt.
PlainJob(j) == j.kind # "TransferAnswer" /\ (j.kind = "CalleeAttemptOffer" => j.seq # 0)
PlainJobs(q) == \A i \in DOMAIN q : PlainJob(q[i])

\* A side the record calls gone is gone or was hung up, the callee is called
\* gone before the next one is prepared, and so every earlier callee is gone
\* or was hung up.
SidesOK(d) ==
  /\ ~d.transfer /\ ~d.transferFailed
  /\ d.callerDone => leg[Caller] = "ended"
  /\ d.calleeDone => HungUp(d, current)
  /\ Offering(d) => d.calleeDone
  /\ d.deferred # 0 => d.deferred \in Attempt /\ leg[d.deferred] = "ended"
  /\ \A a \in Attempt : a < current => HungUp(d, a)
  /\ d.registration # "rejected"
  /\ d.finish \in {"settled", "timeout"} => \A l \in Leg : HungUp(d, l)
  /\ PlainJobs(d.jobs)

\* Attempts that are still to come have no leg, a leg that reported its end
\* has ended, and no request was refused.
ReportsOK ==
  /\ \A a \in Attempt : a > current => leg[a] = "none"
  /\ \A l \in Leg : Sent(l) \cap {"failed", "disconnected", "cancelled"} # {} => leg[l] = "ended"
  /\ \A l \in Leg : Sent(l) \cap {"nack", "originateFailed", "actionFailed"} = {}

SidesInv == CoordInv /\ SidesOK(c) /\ ReportsOK

\* Two records agree on what SidesOK reads.
SameSides(e, d) ==
  /\ e.transfer = d.transfer /\ e.transferFailed = d.transferFailed
  /\ e.callerDone = d.callerDone /\ e.calleeDone = d.calleeDone
  /\ e.pending = d.pending /\ e.registering = d.registering
  /\ e.registration = d.registration /\ e.deferred = d.deferred
  /\ e.finish = d.finish /\ e.told = d.told

\* SidesOK speaks only of the sides, the candidates and the actions sent.
LEMMA SameSidesOK ==
  ASSUME NEW d, NEW e, SidesOK(d), SameSides(e, d), PlainJobs(e.jobs)
  PROVE  SidesOK(e)
<1>1. \A l \in Leg : HungUp(e, l) <=> HungUp(d, l)
  BY DEF HungUp, SameSides
<1>2. Offering(e) <=> Offering(d)
  BY DEF Offering, SameSides
<1>3. HungUp(e, current) <=> HungUp(d, current)
  BY DEF HungUp, SameSides
<1> QED BY <1>1, <1>2, <1>3, LegNumbers DEF SidesOK, SameSides

\* Arming and cancelling timers leaves the sides alone.
LEMMA TimersSides ==
  ASSUME NEW d \in Coordinator, SidesOK(d), NEW k, NEW ks
  PROVE  SidesOK(Arm(d, k)) /\ SidesOK(Disarm(d, ks))
<1>1. SameSides(Arm(d, k), d) /\ Arm(d, k).jobs = d.jobs
  BY DEF Arm, SameSides, Coordinator
<1>2. SameSides(Disarm(d, ks), d) /\ Disarm(d, ks).jobs = d.jobs
  BY DEF Disarm, SameSides, Coordinator
<1>3. PlainJobs(d.jobs)
  BY DEF SidesOK
<1> QED BY <1>1, <1>2, <1>3, SameSidesOK

\* An action sent to a leg hangs up no fewer legs.
LEMMA TellSides ==
  ASSUME NEW d \in Coordinator, SidesOK(d), current \in Leg, NEW l \in Leg, NEW verb
  PROVE  SidesOK(Tell(d, l, verb))
<1> DEFINE e == Tell(d, l, verb)
<1>1. \A m \in Leg : HungUp(d, m) => HungUp(e, m)
  BY DEF HungUp, Tell, Coordinator
<1>2. /\ e.transfer = d.transfer /\ e.transferFailed = d.transferFailed
      /\ e.callerDone = d.callerDone /\ e.calleeDone = d.calleeDone
      /\ e.pending = d.pending /\ e.registering = d.registering
      /\ e.registration = d.registration /\ e.deferred = d.deferred
      /\ e.finish = d.finish /\ e.jobs = d.jobs
  BY DEF Tell, Coordinator
<1> HIDE DEF e
<1>3. SidesOK(e)
  BY <1>1, <1>2, LegNumbers DEF SidesOK, Offering
<1> QED BY <1>3 DEF e

\* Queueing an SDP job leaves the sides alone.
LEMMA PrepareSides ==
  ASSUME NEW d \in Coordinator, SidesOK(d), NEW ring, NEW seq, NEW kind,
         kind # "TransferAnswer", kind = "CalleeAttemptOffer" => seq # 0
  PROVE  SidesOK(Prepare(d, kind, seq, ring))
<1> DEFINE e == Prepare(d, kind, seq, ring)
           j == Job(kind, d.mgen + 1, seq, ring)
<1>1. SameSides(e, d) /\ e.jobs = Append(d.jobs, j)
  BY DEF Prepare, SameSides, Coordinator
<1>2. PlainJob(j)
  BY DEF PlainJob, Job
<1>3. d.jobs \in Seq(Jobs) /\ PlainJobs(d.jobs)
  BY Fields DEF SidesOK
<1> HIDE DEF e, j
<1>4. ASSUME NEW i \in DOMAIN Append(d.jobs, j)
      PROVE  Append(d.jobs, j)[i] = j \/ (i \in DOMAIN d.jobs /\ Append(d.jobs, j)[i] = d.jobs[i])
  BY <1>3
<1>5. PlainJobs(e.jobs)
  BY <1>1, <1>2, <1>3, <1>4 DEF PlainJobs
<1>6. SidesOK(e)
  BY <1>1, <1>5, SameSidesOK
<1> QED BY <1>6 DEF e

\* Removing a call that failed, or whose legs are all gone or hung up.
LEMMA FinishSides ==
  ASSUME NEW d \in Coordinator, SidesOK(d), NEW how,
         how \in {"settled", "timeout"} => \A l \in Leg : HungUp(d, l)
  PROVE  SidesOK(Finish(d, how))
<1> DEFINE e == Finish(d, how)
<1>1. /\ e.transfer = d.transfer /\ e.transferFailed = d.transferFailed
      /\ e.callerDone = d.callerDone /\ e.calleeDone = d.calleeDone
      /\ e.pending = d.pending /\ e.registering = d.registering
      /\ e.registration = d.registration /\ e.deferred = d.deferred
      /\ e.finish = how /\ e.jobs = <<>> /\ e.told = d.told
  BY DEF Finish, Coordinator
<1> HIDE DEF e
<1>2. \A l \in Leg : HungUp(e, l) <=> HungUp(d, l)
  BY <1>1 DEF HungUp
<1>3. HungUp(e, current) <=> HungUp(d, current)
  BY <1>1 DEF HungUp
<1>4. PlainJobs(e.jobs)
  BY <1>1 DEF PlainJobs
<1>5. SidesOK(e)
  BY <1>1, <1>2, <1>3, <1>4, LegNumbers DEF SidesOK, Offering
<1> QED BY <1>5 DEF e

\* Assigning callee_terminated once the callee has gone or was hung up
LEMMA CalleeDoneSides ==
  ASSUME NEW d \in Coordinator, SidesOK(d), HungUp(d, current)
  PROVE  SidesOK([d EXCEPT !.calleeDone = TRUE])
<1> DEFINE e == [d EXCEPT !.calleeDone = TRUE]
<1>1. /\ e.transfer = d.transfer /\ e.transferFailed = d.transferFailed
      /\ e.callerDone = d.callerDone /\ e.calleeDone
      /\ e.registration = d.registration /\ e.deferred = d.deferred
      /\ e.finish = d.finish /\ e.jobs = d.jobs /\ e.told = d.told
  BY DEF Coordinator
<1> HIDE DEF e
<1>2. \A l \in Leg : HungUp(e, l) <=> HungUp(d, l)
  BY <1>1 DEF HungUp
<1>3. HungUp(e, current)
  BY <1>1 DEF HungUp
<1>4. SidesOK(e)
  BY <1>1, <1>2, <1>3, LegNumbers DEF SidesOK, Offering
<1> QED BY <1>4 DEF e

\* terminate_exhausted_retry once the callee has gone or was hung up
LEMMA TerminateRetrySides ==
  ASSUME NEW d \in Coordinator, SidesOK(d), current \in Leg, HungUp(d, current)
  PROVE  SidesOK(TerminateRetry(d))
<1> DEFINE e == [d EXCEPT !.calleeDone = TRUE]
           f == [e EXCEPT !.state = "Terminating"]
<1>1. e \in Coordinator /\ SidesOK(e)
  BY CalleeDoneSides, SetCalleeDone
<1> HIDE DEF e
<1>2. f \in Coordinator /\ SameSides(f, e) /\ f.jobs = e.jobs
  BY <1>1, SetState, Names DEF SameSides, Coordinator
<1>3. SidesOK(f)
  BY <1>1, <1>2, SameSidesOK DEF SidesOK
<1>4. TerminateRetry(d) = Arm(Tell(f, Caller, "Reject"), "Cleanup")
  BY DEF TerminateRetry, e
<1> HIDE DEF f
<1>5. Tell(f, Caller, "Reject") \in Coordinator /\ SidesOK(Tell(f, Caller, "Reject"))
  BY <1>2, <1>3, TellSides, TellOK, LegNumbers, Names
<1> QED BY <1>4, <1>5, TimersSides

\* fail_media_negotiation says nothing of the sides.
LEMMA FailMediaSides ==
  ASSUME NEW d \in Coordinator, SidesOK(d), current \in Leg, NEW verb \in Verbs
  PROVE  SidesOK(FailMedia(d, verb))
<1> DEFINE e == [Disarm(d, {"Dial", "Ring"}) EXCEPT !.state = "Terminating", !.answering = FALSE,
                                                     !.mgen = @ + 1]
<1>1. e \in Coordinator
  <2> DEFINE f == [Disarm(d, {"Dial", "Ring"}) EXCEPT !.state = "Terminating", !.answering = FALSE]
  <2>1. f \in Coordinator
    BY Names, SetState, SetAnswering, DisarmOK
  <2> HIDE DEF f
  <2>2. [f EXCEPT !.mgen = @ + 1] \in Coordinator
    BY <2>1, BumpMgen
  <2> QED BY <2>2 DEF f
<1>2. SameSides(e, d) /\ e.jobs = d.jobs
  BY DEF SameSides, Disarm, Coordinator
<1> HIDE DEF e
<1>3. SidesOK(e)
  BY <1>2, SameSidesOK DEF SidesOK
<1>4. Tell(e, current, verb) \in Coordinator /\ SidesOK(Tell(e, current, verb))
  BY <1>1, <1>3, TellSides, TellOK
<1>5. LET f == Tell(Tell(e, current, verb), Caller, "Reject")
      IN  f \in Coordinator /\ SidesOK(f)
  BY <1>4, TellSides, TellOK, LegNumbers, Names
<1>6. FailMedia(d, verb) = IF Terminating(d) THEN d
                           ELSE Arm(Tell(Tell(e, current, verb), Caller, "Reject"), "Cleanup")
  BY DEF FailMedia, e
<1> QED BY <1>5, <1>6, TimersSides

\* Neither does wait_for_retry_cleanup,
LEMMA WaitForRetrySides ==
  ASSUME NEW d \in Coordinator, SidesOK(d), current \in Leg
  PROVE  SidesOK(WaitForRetry(d))
<1> DEFINE e == [Disarm(d, {"Dial", "Ring"}) EXCEPT !.retry = TRUE]
<1>1. e \in Coordinator /\ SameSides(e, d) /\ e.jobs = d.jobs
  <2>1. e \in Coordinator
    BY DisarmOK, SetRetry
  <2>2. SameSides(e, d) /\ e.jobs = d.jobs
    BY DEF SameSides, Disarm, Coordinator
  <2> QED BY <2>1, <2>2
<1> HIDE DEF e
<1>2. SidesOK(e)
  BY <1>1, SameSidesOK DEF SidesOK
<1>3. Tell(e, current, "Cancel") \in Coordinator /\ SidesOK(Tell(e, current, "Cancel"))
  BY <1>1, <1>2, TellSides, TellOK, Names
<1> QED BY <1>3, TimersSides DEF WaitForRetry, e

\* and the termination of handle_timer.
LEMMA TimerTerminatesSides ==
  ASSUME NEW d \in Coordinator, SidesOK(d), current \in Leg
  PROVE  SidesOK(TimerTerminates(d))
<1> DEFINE e == [d EXCEPT !.state = "Terminating"]
<1>1. e \in Coordinator /\ SameSides(e, d) /\ e.jobs = d.jobs
  BY SetState, Names DEF SameSides, Coordinator
<1> HIDE DEF e
<1>2. SidesOK(e)
  BY <1>1, SameSidesOK DEF SidesOK
<1>3. Tell(e, current, "Cancel") \in Coordinator /\ SidesOK(Tell(e, current, "Cancel"))
  BY <1>1, <1>2, TellSides, TellOK, Names
<1>4. LET f == Tell(Tell(e, current, "Cancel"), Caller, "Reject")
      IN  f \in Coordinator /\ SidesOK(f)
  BY <1>3, TellSides, TellOK, LegNumbers, Names
<1> QED BY <1>4, TimersSides DEF TimerTerminates, e

\* In a hunt the peer of the caller is the current callee.
LEMMA EndPeerSides ==
  ASSUME ~AiCall, NEW d \in Coordinator, SidesOK(d), current \in Leg, NEW verb \in Verbs
  PROVE  SidesOK(EndPeerOfCaller(d, verb))
<1>1. ~d.transfer /\ ~AiActive(d)
  BY DEF SidesOK, AiActive
<1>2. Tell(d, current, verb) \in Coordinator /\ SidesOK(Tell(d, current, verb))
  BY TellSides, TellOK
<1>3. EndPeerOfCaller(d, verb) = Arm(Tell(d, current, verb), "Cleanup")
  BY <1>1 DEF EndPeerOfCaller
<1> QED BY <1>2, <1>3, TimersSides

\* A caller that cancelled has gone.
LEMMA CancelledSides ==
  ASSUME ~AiCall, NEW d \in Coordinator, SidesOK(d), current \in Leg, leg[Caller] = "ended"
  PROVE  SidesOK(Cancelled(d))
<1> DEFINE gone == [Disarm(d, {"Dial"}) EXCEPT !.callerDone = TRUE, !.state = "Terminating"]
<1>1. gone \in Coordinator
  BY Names, SetCallerDone, SetState, DisarmOK
<1>2. /\ gone.transfer = d.transfer /\ gone.transferFailed = d.transferFailed
      /\ gone.calleeDone = d.calleeDone
      /\ gone.pending = d.pending /\ gone.registering = d.registering
      /\ gone.registration = d.registration /\ gone.deferred = d.deferred
      /\ gone.finish = d.finish /\ gone.jobs = d.jobs /\ gone.told = d.told
  BY DEF Disarm, Coordinator
<1> HIDE DEF gone
<1>3. \A l : HungUp(gone, l) <=> HungUp(d, l)
  BY <1>2 DEF HungUp
<1>4. SidesOK(gone)
  BY <1>2, <1>3, LegNumbers DEF SidesOK, Offering
<1>5. CASE Terminating(d)
  <2> DEFINE e == [gone EXCEPT !.transfer = FALSE]
  <2>1. e \in Coordinator /\ e.transfer = FALSE /\ gone.transfer = FALSE
    BY <1>1, <1>4, SetTransfer DEF SidesOK, Coordinator
  <2>2. SameSides(e, gone) /\ e.jobs = gone.jobs
    BY <1>1, <2>1 DEF SameSides, Coordinator
  <2> HIDE DEF e
  <2>3. SidesOK(e)
    BY <1>4, <2>2, SameSidesOK DEF SidesOK
  <2> QED BY <1>5, <2>3 DEF Cancelled, gone, e
<1>6. CASE ~Terminating(d)
  <2>1. Disarm(gone, {"Ring"}) \in Coordinator /\ SidesOK(Disarm(gone, {"Ring"}))
    BY <1>1, <1>4, DisarmOK, TimersSides
  <2>2. Cancelled(d) = EndPeerOfCaller(Disarm(gone, {"Ring"}), IF IsAnswered THEN "Hangup" ELSE "Cancel")
    BY <1>6 DEF Cancelled, gone
  <2> QED BY <2>1, <2>2, EndPeerSides, Names
<1> QED BY <1>5, <1>6

\* A leg that reported its disconnect has gone.
LEMMA DisconnectedSides ==
  ASSUME ~AiCall, NEW d \in Coordinator, SidesOK(d), current \in Leg, NEW l, leg[l] = "ended"
  PROVE  SidesOK(Disconnected(d, l))
<1> DEFINE gone == [Disarm(d, {"Dial"}) EXCEPT !.state = "Terminating",
                      !.callerDone = @ \/ l = Caller, !.calleeDone = @ \/ l = current]
<1>1. gone \in Coordinator
  <2> DEFINE e == [Disarm(d, {"Dial"}) EXCEPT !.state = "Terminating"]
             f == [e EXCEPT !.callerDone = @ \/ l = Caller]
  <2>1. e \in Coordinator
    BY Names, SetState, DisarmOK
  <2> HIDE DEF e
  <2>2. f \in Coordinator
    <3>1. (e.callerDone \/ l = Caller) \in BOOLEAN
      OBVIOUS
    <3> QED BY <2>1, <3>1, SetCallerDone
  <2> HIDE DEF f
  <2>3. (f.calleeDone \/ l = current) \in BOOLEAN
    OBVIOUS
  <2> QED BY <2>2, <2>3, SetCalleeDone DEF f, e
<1>2. /\ gone.transfer = d.transfer /\ gone.transferFailed = d.transferFailed
      /\ gone.pending = d.pending /\ gone.registering = d.registering
      /\ gone.registration = d.registration /\ gone.deferred = d.deferred
      /\ gone.finish = d.finish /\ gone.jobs = d.jobs /\ gone.told = d.told
      /\ gone.callerDone <=> (d.callerDone \/ l = Caller)
      /\ gone.calleeDone <=> (d.calleeDone \/ l = current)
  BY DEF Disarm, Coordinator
<1> HIDE DEF gone
<1>3. \A m : HungUp(gone, m) <=> HungUp(d, m)
  BY <1>2 DEF HungUp
<1>4. HungUp(d, l)
  BY DEF HungUp, LiveLeg
<1>5. SidesOK(gone)
  BY <1>2, <1>3, <1>4, LegNumbers DEF SidesOK, Offering
<1>6. Disarm(gone, {"Ring"}) \in Coordinator /\ SidesOK(Disarm(gone, {"Ring"}))
  BY <1>1, <1>5, DisarmOK, TimersSides
<1>7. LET e == Tell(Disarm(gone, {"Ring"}), Caller, "Hangup")
      IN  e \in Coordinator /\ SidesOK(e)
  BY <1>6, TellSides, TellOK, LegNumbers, Names
<1>8. Disconnected(d, l) = IF Terminating(d) THEN gone
                           ELSE IF l = Caller THEN EndPeerOfCaller(Disarm(gone, {"Ring"}), "Hangup")
                           ELSE Arm(Tell(Disarm(gone, {"Ring"}), Caller, "Hangup"), "Cleanup")
  BY DEF Disconnected, gone
<1> QED BY <1>5, <1>6, <1>7, <1>8, EndPeerSides, TimersSides, Names

\* begin_shutdown hangs up or cancels what is not gone.
LEMMA DrainCallSides ==
  ASSUME ~AiCall, NEW d \in Coordinator, SidesOK(d), current \in Leg
  PROVE  SidesOK(DrainCall(d))
<1> DEFINE e == [d EXCEPT !.retry = FALSE]
           quit == [Disarm(e, {"Dial", "Ring"}) EXCEPT !.state = "Terminating",
                      !.calleeDone = @ \/ (AiActive(d) /\ ~d.transfer)]
           callerTold == IF d.callerDone THEN quit
                         ELSE Tell(quit, Caller, IF IsAnswered THEN "Hangup" ELSE "Reject")
           calleeTold == IF quit.calleeDone THEN callerTold
                         ELSE Tell(callerTold, current,
                                   IF IsAnswered /\ ~d.transfer THEN "Hangup" ELSE "Cancel")
<1>1. e \in Coordinator /\ SidesOK(e)
  <2>1. e \in Coordinator
    BY SetRetry
  <2>2. SameSides(e, d) /\ e.jobs = d.jobs
    BY DEF SameSides, Coordinator
  <2> HIDE DEF e
  <2> QED BY <2>1, <2>2, SameSidesOK DEF SidesOK
<1> HIDE DEF e
<1>2. quit \in Coordinator /\ SidesOK(quit)
  <2> DEFINE f == [Disarm(e, {"Dial", "Ring"}) EXCEPT !.state = "Terminating"]
  <2>1. f \in Coordinator
    BY <1>1, Names, SetState, DisarmOK
  <2>2. SameSides(f, e) /\ f.jobs = e.jobs
    BY <1>1 DEF SameSides, Disarm, Coordinator
  <2> HIDE DEF f
  <2>3. SidesOK(f)
    BY <1>1, <2>2, SameSidesOK DEF SidesOK
  <2>4. ~AiActive(d) /\ (f.calleeDone \/ (AiActive(d) /\ ~d.transfer)) \in BOOLEAN
    BY DEF AiActive, SidesOK
  <2>5. quit = [f EXCEPT !.calleeDone = @ \/ (AiActive(d) /\ ~d.transfer)]
    BY DEF f
  <2>6. (f.calleeDone \/ (AiActive(d) /\ ~d.transfer)) = f.calleeDone
    BY <2>1, <2>4, Fields
  <2> HIDE DEF quit
  <2>7. quit = f
    BY <2>1, <2>5, <2>6 DEF Coordinator
  <2> QED BY <2>1, <2>3, <2>7
<1> HIDE DEF quit
<1>3. callerTold \in Coordinator /\ SidesOK(callerTold)
  BY <1>2, Names, LegNumbers, TellOK, TellSides
<1> HIDE DEF callerTold
<1>4. calleeTold \in Coordinator /\ SidesOK(calleeTold)
  BY <1>3, Names, TellOK, TellSides
<1> HIDE DEF calleeTold
<1>5. DrainCall(d) = IF Terminating(d) THEN e ELSE Arm(calleeTold, "Cleanup")
  BY DEF DrainCall, calleeTold, callerTold, quit, e
<1> QED BY <1>1, <1>4, <1>5, TimersSides

\* The cleanup deadline hangs up every leg that is not known to be gone.
LEMMA ForcedRemovalSides ==
  ASSUME NEW d \in Coordinator, SidesOK(d), current \in Attempt,
         \A a \in Attempt : a > current => leg[a] = "none"
  PROVE  SidesOK(ForcedRemoval(d))
<1>0. current \in Leg
  BY LegNumbers
<1> DEFINE caller == IF d.callerDone THEN d ELSE Tell(d, Caller, "Hangup")
           both == IF d.calleeDone THEN caller ELSE Tell(caller, current, "Hangup")
<1>1. caller \in Coordinator /\ SidesOK(caller)
  BY <1>0, Names, LegNumbers, TellOK, TellSides
<1>2. HungUp(caller, Caller) /\ caller.calleeDone = d.calleeDone
  BY LegNumbers DEF SidesOK, HungUp, LiveLeg, Tell, Coordinator
<1> HIDE DEF caller
<1>3. both \in Coordinator /\ SidesOK(both)
  BY <1>0, <1>1, Names, TellOK, TellSides
<1>4. HungUp(both, Caller) /\ HungUp(both, current)
  BY <1>0, <1>1, <1>2, LegNumbers DEF SidesOK, HungUp, Tell, Coordinator
<1> HIDE DEF both
<1>5. \A l \in Leg : HungUp(both, l)
  <2> SUFFICES ASSUME NEW l \in Leg PROVE HungUp(both, l)
    OBVIOUS
  <2>1. l = Caller \/ (l \in Attempt /\ (l < current \/ l = current \/ l > current))
    BY DEF Leg, Attempt, Caller
  <2>2. ASSUME l \in Attempt, l < current PROVE HungUp(both, l)
    BY <1>3, <2>2 DEF SidesOK
  <2>3. ASSUME l \in Attempt, l > current PROVE HungUp(both, l)
    BY <2>3 DEF HungUp, LiveLeg
  <2> QED BY <1>4, <2>1, <2>2, <2>3
<1>6. SidesOK(Finish(both, "timeout"))
  BY <1>3, <1>5, FinishSides
<1> QED BY <1>6 DEF ForcedRemoval, both, caller

\* What a step of the coordinator leaves, its legs being where they were.
SidesStep == SidesOK(c)' /\ UNCHANGED current

\* A record that is stored is read with the same legs.
LEMMA StoreSides ==
  ASSUME SidesOK(c'), UNCHANGED <<leg, current>>
  PROVE  SidesStep
  BY DEF SidesStep, SidesOK, HungUp, Offering

\* complete_processing: a call whose sides are gone has no leg left.
LEMMA CommitSides ==
  ASSUME NEW d \in Coordinator, SidesOK(d), current \in Attempt, ReportsOK,
         UNCHANGED leg, Commit(d)
  PROVE  SidesStep
<1>1. CASE d.callerDone /\ d.calleeDone
  <2>1. \A l \in Leg : HungUp(d, l)
    <3> SUFFICES ASSUME NEW l \in Leg PROVE HungUp(d, l)
      OBVIOUS
    <3>1. l = Caller \/ (l \in Attempt /\ (l < current \/ l = current \/ l > current))
      BY DEF Leg, Attempt, Caller
    <3>2. HungUp(d, Caller) /\ HungUp(d, current)
      BY <1>1 DEF SidesOK, HungUp, LiveLeg
    <3>3. ASSUME l \in Attempt, l < current PROVE HungUp(d, l)
      BY <3>3 DEF SidesOK
    <3>4. ASSUME l \in Attempt, l > current PROVE HungUp(d, l)
      BY <3>4 DEF HungUp, LiveLeg, ReportsOK
    <3> QED BY <3>1, <3>2, <3>3, <3>4
  <2>2. SidesOK(Finish(d, "settled"))
    BY <2>1, FinishSides
  <2>3. SidesOK(c') /\ UNCHANGED current
    BY <1>1, <2>2 DEF Commit, ReleaseTopology
  <2> QED BY <2>3, StoreSides
<1>2. CASE ~(d.callerDone /\ d.calleeDone)
  BY <1>2, StoreSides DEF Commit, aggVars
<1> QED BY <1>1, <1>2

\* begin_next_attempt, once the callee has gone or was hung up
LEMMA BeginNextSides ==
  ASSUME NEW d \in Coordinator, SidesOK(d), d.calleeDone, current \in Attempt, d.remaining > 0,
         UNCHANGED leg, BeginNextAttempt(d)
  PROVE  SidesStep
<1>1. CASE FailAttemptRefused /\ c' = Finish(d, "error")
  BY <1>1, FinishSides, StoreSides DEF FailAttemptRefused
<1>2. CASE FailAttempt /\ c' = OfferNext([d EXCEPT !.remaining = @ - 1])
  <2> DEFINE e == [d EXCEPT !.remaining = @ - 1]
             f == [e EXCEPT !.timers = {}, !.pending = current + 1]
  <2>1. e \in Coordinator
    <3>1. d.remaining - 1 \in Nat
      BY Fields
    <3> QED BY <3>1, SetRemaining
  <2>2. SameSides(e, d) /\ e.jobs = d.jobs
    BY DEF SameSides, Coordinator
  <2> HIDE DEF e
  <2>3. SidesOK(e) /\ e.calleeDone
    BY <2>2, SameSidesOK DEF SidesOK, SameSides
  <2>4. current + 1 \in Nat /\ current + 1 # 0
    BY DEF Attempt
  <2>5. f \in Coordinator
    BY <2>1, <2>4, SetTimers, SetPending
  <2>6. /\ f.transfer = e.transfer /\ f.transferFailed = e.transferFailed
        /\ f.callerDone = e.callerDone /\ f.calleeDone = e.calleeDone
        /\ f.registration = e.registration /\ f.deferred = e.deferred
        /\ f.finish = e.finish /\ f.jobs = e.jobs /\ f.told = e.told
    BY <2>1 DEF Coordinator
  <2> HIDE DEF f
  <2>7. \A l : HungUp(f, l) <=> HungUp(e, l)
    BY <2>6 DEF HungUp
  <2>8. SidesOK(f)
    BY <2>3, <2>6, <2>7 DEF SidesOK, Offering
  <2>9. c' = Prepare(f, "CalleeAttemptOffer", current + 1, FALSE)
    BY <1>2 DEF OfferNext, f, e
  <2>10. SidesOK(c')
    BY <2>4, <2>5, <2>8, <2>9, PrepareSides
  <2> QED BY <1>2, <2>10, StoreSides DEF FailAttempt
<1> QED BY <1>1, <1>2 DEF BeginNextAttempt

\* retry_after_cleanup is taken once the callee has gone or was hung up.
LEMMA ResumeHuntSides ==
  ASSUME NEW d \in Coordinator, SidesOK(d), HungUp(d, current), current \in Attempt,
         NEW budget, UNCHANGED leg, ReportsOK, ResumeHunt(d, budget)
  PROVE  SidesStep
<1> DEFINE f == [d EXCEPT !.calleeDone = TRUE]
           e == [f EXCEPT !.retry = FALSE, !.timers = @ \ {"Cleanup"}]
<1>1. f \in Coordinator /\ SidesOK(f) /\ f.calleeDone
  <2>1. f \in Coordinator /\ SidesOK(f)
    BY CalleeDoneSides, SetCalleeDone
  <2> QED BY <2>1 DEF Coordinator
<1> HIDE DEF f
<1>2. e \in Coordinator
  <2>1. f.timers \ {"Cleanup"} \in SUBSET Timers
    BY <1>1, Fields
  <2>2. [f EXCEPT !.retry = FALSE] \in Coordinator /\ [f EXCEPT !.retry = FALSE].timers = f.timers
    BY <1>1, SetRetry DEF Coordinator
  <2> QED BY <2>1, <2>2, SetTimers
<1>3. SameSides(e, f) /\ e.jobs = f.jobs
  BY <1>1 DEF SameSides, Coordinator
<1> HIDE DEF e
<1>4. SidesOK(e) /\ e.calleeDone
  BY <1>1, <1>3, SameSidesOK DEF SidesOK, SameSides
<1>5. IF MayBeginNext(e, budget) THEN BeginNextAttempt(e) ELSE Commit(TerminateRetry(e))
  BY DEF ResumeHunt, e, f
<1>6. HungUp(e, current) /\ current \in Leg
  BY <1>4, LegNumbers DEF SidesOK
<1>7. CASE MayBeginNext(e, budget)
  BY <1>2, <1>4, <1>5, <1>7, BeginNextSides DEF MayBeginNext
<1>8. CASE ~MayBeginNext(e, budget)
  <2>1. TerminateRetry(e) \in Coordinator
    BY <1>2, Names, LegNumbers, SetState, SetCalleeDone, TellOK, ArmOK DEF TerminateRetry
  <2> QED BY <1>2, <1>4, <1>5, <1>6, <1>8, <2>1, TerminateRetrySides, CommitSides
<1> QED BY <1>7, <1>8

----------------------------------------------------------------------------
(* The handlers of a hunt *)

\* What the handlers' lemmas use of the invariant.
LEMMA SidesNow ==
  ASSUME SidesInv
  PROVE  /\ c \in Coordinator /\ SidesOK(c) /\ ReportsOK /\ CoordInv
         /\ current \in Attempt /\ current \in Leg
  BY LegNumbers DEF SidesInv, CoordInv, TypeOK, AggInv, AggTypeOK

\* handle_provisional and the messages of given-up attempts
LEMMA ProvisionalSides ==
  ASSUME SidesInv, NEW a \in Attempt, NEW sdp \in BOOLEAN, HandleProvisional(a, sdp)
  PROVE  SidesStep
<1>1. c \in Coordinator /\ SidesOK(c) /\ UNCHANGED <<leg, current>>
  BY SidesNow DEF HandleProvisional, Receive, aggVars
<1> DEFINE ring == "Ring" \notin c.timers
           rung == Arm(Disarm(c, {"Dial"}), "Ring")
           early == [rung EXCEPT !.state = "Establishing"]
<1>2. rung \in Coordinator /\ SidesOK(rung)
  BY <1>1, Names, DisarmOK, ArmOK, TimersSides
<1> HIDE DEF rung
<1>3. early \in Coordinator /\ SameSides(early, rung) /\ early.jobs = rung.jobs
  BY <1>2, Names, SetState DEF SameSides, Coordinator
<1> HIDE DEF early
<1>4. SidesOK(early)
  BY <1>2, <1>3, SameSidesOK DEF SidesOK
<1>5. SidesOK(Prepare(early, "Provisional", 0, ring))
  BY <1>3, <1>4, PrepareSides
<1>6. c' \in {c, rung, early, Prepare(early, "Provisional", 0, ring)}
  BY DEF HandleProvisional, early, rung
<1> QED BY <1>1, <1>2, <1>4, <1>5, <1>6, StoreSides

\* handle_answered: an answer during the wait for the retry is hung up.
LEMMA AnsweredSides ==
  ASSUME SidesInv, NEW a \in Attempt, NEW sdp \in BOOLEAN, NEW budget \in BOOLEAN,
         HandleAnswered(a, sdp, budget)
  PROVE  SidesStep
<1>1. /\ c \in Coordinator /\ SidesOK(c) /\ current \in Leg /\ current \in Attempt
      /\ a = current /\ ReportsOK /\ UNCHANGED leg
  BY SidesNow DEF HandleAnswered, Receive
<1> DEFINE d == Disarm(c, {"Dial"})
<1>2. d \in Coordinator /\ SidesOK(d)
  BY <1>1, DisarmOK, TimersSides
<1> HIDE DEF d
<1>3. CASE c.retry
  <2> DEFINE e == Tell(d, a, "Hangup")
  <2>1. ResumeHunt(e, budget)
    BY <1>3 DEF HandleAnswered, d
  <2>2. e \in Coordinator /\ SidesOK(e)
    BY <1>1, <1>2, TellOK, TellSides, Names
  <2>3. HungUp(e, current)
    BY <1>1, <1>2 DEF HungUp, Tell, Coordinator
  <2> HIDE DEF e
  <2> QED BY <1>1, <2>1, <2>2, <2>3, ResumeHuntSides
<1>4. CASE ~c.retry
  <2> DEFINE e == [d EXCEPT !.lateSent = TRUE]
             f == [d EXCEPT !.answering = TRUE]
  <2>1. e \in Coordinator /\ f \in Coordinator
    BY <1>2, SetLateSent, SetAnswering
  <2>2. SameSides(e, d) /\ e.jobs = d.jobs
    BY <1>2 DEF SameSides, Coordinator
  <2>3. SameSides(f, d) /\ f.jobs = d.jobs
    BY <1>2 DEF SameSides, Coordinator
  <2> HIDE DEF e, f
  <2>4. SidesOK(e) /\ SidesOK(f)
    BY <1>2, <2>2, <2>3, SameSidesOK DEF SidesOK
  <2>5. Tell(e, a, "Hangup") \in Coordinator /\ SidesOK(Tell(e, a, "Hangup"))
    BY <1>1, <2>1, <2>4, TellOK, TellSides, Names
  <2>6. FailMedia(d, "Hangup") \in Coordinator /\ SidesOK(FailMedia(d, "Hangup"))
    <3>1. Ready(c)
      BY ReadyNow, SidesNow DEF HandleAnswered, Receive
    <3>2. Ready(d)
      BY <3>1, DisarmReady DEF d
    <3> QED BY <1>1, <1>2, <3>2, Names, FailMediaOK, FailMediaSides DEF Ready
  <2>7. Prepare(f, "Answer", 0, FALSE) \in Coordinator /\ SidesOK(Prepare(f, "Answer", 0, FALSE))
    BY <2>1, <2>4, PrepareOK, PrepareSides
  <2>8. ~c.transfer
    BY <1>1 DEF SidesOK
  <2>9. PICK g \in {d, Tell(e, a, "Hangup"), FailMedia(d, "Hangup"), Prepare(f, "Answer", 0, FALSE)} :
          Commit(g)
    BY <1>4, <2>8 DEF HandleAnswered, d, e, f
  <2> QED BY <1>1, <1>2, <2>5, <2>6, <2>7, <2>9, CommitSides
<1> QED BY <1>3, <1>4

\* handle_failed: the callee has gone.
LEMMA FailedSides ==
  ASSUME SidesInv, NEW a \in Attempt, NEW retryable \in BOOLEAN, NEW budget \in BOOLEAN,
         HandleFailed(a, retryable, budget)
  PROVE  SidesStep
<1>1. /\ c \in Coordinator /\ SidesOK(c) /\ current \in Leg /\ current \in Attempt
      /\ a = current /\ ReportsOK /\ CoordInv /\ UNCHANGED leg /\ Receive(a, "failed")
  BY SidesNow DEF HandleFailed, Receive
<1>2. leg[current] = "ended"
  BY <1>1, ReceiveSent DEF ReportsOK
<1> DEFINE d == Disarm(c, {"Dial"})
           e == [d EXCEPT !.calleeDone = TRUE]
           gone == [e EXCEPT !.state = "Terminating"]
<1>3. d \in Coordinator /\ SidesOK(d)
  BY <1>1, DisarmOK, TimersSides
<1> HIDE DEF d
<1>4. HungUp(d, current)
  BY <1>2 DEF HungUp, LiveLeg
<1>5. e \in Coordinator /\ SidesOK(e)
  BY <1>3, <1>4, SetCalleeDone, CalleeDoneSides
<1>6. e.calleeDone /\ e.remaining = d.remaining
  BY <1>3 DEF Coordinator
<1> HIDE DEF e
<1>7. gone \in Coordinator /\ SameSides(gone, e) /\ gone.jobs = e.jobs
  BY <1>5, SetState, Names DEF SameSides, Coordinator
<1> HIDE DEF gone
<1>8. SidesOK(gone)
  BY <1>5, <1>7, SameSidesOK DEF SidesOK
<1>9. LET f == Arm(Tell(Disarm(gone, {"Ring"}), Caller, "Reject"), "Cleanup")
      IN  f \in Coordinator /\ SidesOK(f)
  <2>1. Disarm(gone, {"Ring"}) \in Coordinator /\ SidesOK(Disarm(gone, {"Ring"}))
    BY <1>7, <1>8, DisarmOK, TimersSides
  <2>2. LET f == Tell(Disarm(gone, {"Ring"}), Caller, "Reject")
        IN  f \in Coordinator /\ SidesOK(f)
    BY <1>1, <2>1, TellOK, TellSides, LegNumbers, Names
  <2> QED BY <2>2, ArmOK, TimersSides, Names
<1>10. ~c.transfer
  BY <1>1 DEF SidesOK
<1>11. \/ Commit(gone)
       \/ ResumeHunt(d, budget)
       \/ BeginNextAttempt(e) /\ MayBeginNext(d, budget)
       \/ Commit(Arm(Tell(Disarm(gone, {"Ring"}), Caller, "Reject"), "Cleanup"))
  BY <1>10 DEF HandleFailed, gone, e, d
<1>12. ASSUME MayBeginNext(d, budget) PROVE e.remaining > 0
  BY <1>6, <1>12 DEF MayBeginNext
<1> QED BY <1>1, <1>3, <1>4, <1>5, <1>6, <1>7, <1>8, <1>9, <1>11, <1>12,
           CommitSides, ResumeHuntSides, BeginNextSides

\* handle_disconnected of the callee: it has gone, even if it is deferred.
LEMMA CalleeDisconnectedSides ==
  ASSUME ~AiCall, SidesInv, NEW a \in Attempt, NEW budget \in BOOLEAN,
         HandleCalleeDisconnected(a, budget)
  PROVE  SidesStep
<1>1. /\ c \in Coordinator /\ SidesOK(c) /\ current \in Leg /\ current \in Attempt
      /\ a = current /\ ReportsOK /\ CoordInv /\ UNCHANGED leg /\ Receive(a, "disconnected")
      /\ c.finish = "no"
  BY SidesNow DEF HandleCalleeDisconnected, Receive
<1>2. leg[current] = "ended"
  BY <1>1, ReceiveSent DEF ReportsOK
<1>3. HungUp(c, current) /\ ~c.transfer
  BY <1>1, <1>2 DEF HungUp, LiveLeg, SidesOK
<1> DEFINE d == [c EXCEPT !.deferred = a]
<1>4. d \in Coordinator
  BY <1>1, SetDeferred DEF Attempt
<1>5. SidesOK(d)
  <2>1. /\ d.transfer = c.transfer /\ d.transferFailed = c.transferFailed
        /\ d.callerDone = c.callerDone /\ d.calleeDone = c.calleeDone
        /\ d.pending = c.pending /\ d.registering = c.registering
        /\ d.registration = c.registration /\ d.deferred = a
        /\ d.finish = c.finish /\ d.jobs = c.jobs /\ d.told = c.told
    BY <1>1 DEF Coordinator
  <2> HIDE DEF d
  <2>2. \A l : HungUp(d, l) <=> HungUp(c, l)
    BY <2>1 DEF HungUp
  <2> QED BY <1>1, <1>2, <2>1, <2>2 DEF SidesOK, Offering
<1>6. Disconnected(c, a) \in Coordinator /\ SidesOK(Disconnected(c, a))
  BY <1>1, <1>2, ReadyNow, DisconnectedOK, DisconnectedSides DEF Ready
<1> HIDE DEF d
<1>7. Commit(d) \/ Commit(c) \/ ResumeHunt(c, budget) \/ Commit(Disconnected(c, a))
  BY <1>3 DEF HandleCalleeDisconnected, d
<1> QED BY <1>1, <1>3, <1>4, <1>5, <1>6, <1>7, CommitSides, ResumeHuntSides

\* The caller's CANCEL and BYE
LEMMA CallerSides ==
  ASSUME ~AiCall, SidesInv, HandleCancelled \/ HandleCallerDisconnected
  PROVE  SidesStep
<1>1. /\ c \in Coordinator /\ SidesOK(c) /\ current \in Leg /\ current \in Attempt
      /\ ReportsOK /\ CoordInv /\ UNCHANGED leg /\ c.finish = "no" /\ Caller \in Leg
  BY SidesNow, LegNumbers DEF HandleCancelled, HandleCallerDisconnected, Receive
<1>2. leg[Caller] = "ended"
  <2>1. Receive(Caller, "cancelled") \/ Receive(Caller, "disconnected")
    BY DEF HandleCancelled, HandleCallerDisconnected
  <2> QED BY <1>1, <2>1, ReceiveSent DEF ReportsOK
<1>3. Disconnected(c, Caller) \in Coordinator /\ SidesOK(Disconnected(c, Caller))
  BY <1>1, <1>2, ReadyNow, DisconnectedOK, DisconnectedSides DEF Ready
<1>4. Cancelled(c) \in Coordinator /\ SidesOK(Cancelled(c))
  BY <1>1, <1>2, ReadyNow, CancelledOK, CancelledSides DEF Ready
<1> QED BY <1>1, <1>3, <1>4, CommitSides DEF HandleCancelled, HandleCallerDisconnected

\* The record confirm_answer leaves when no disconnect was deferred, and the
\* one it goes on from when the deferred disconnect gives up the attempt
Joined ==
  [c EXCEPT !.state = "Connected", !.pendingAnswer = FALSE, !.answering = FALSE,
            !.timers = @ \ {"Ring"}, !.deferred = 0,
            !.jobs = Append(@, Job("StartMedia", c.mgen, 0, FALSE))]
Given == [Joined EXCEPT !.retry = FALSE, !.calleeDone = TRUE, !.timers = @ \ {"Cleanup"}]

\* confirm_answer in terms of these records
LEMMA ConfirmCases ==
  ASSUME NEW budget \in BOOLEAN, ConfirmAnswer(budget)
  PROVE  \/ /\ MarkAnswered(c.mgen)
            /\ c' = IF c.deferred # 0 /\ ~c.transferFailed
                    THEN Disconnected(Joined, c.deferred) ELSE Joined
         \/ /\ c.deferred = current /\ c.deferred # 0 /\ c.retry
            /\ \/ MarkAnsweredThenRefused(c.mgen) /\ c' = Finish(Given, "error")
               \/ MarkAnswered(c.mgen) /\ c' = TerminateRetry(Given)
         \/ MarkAnsweredRefused /\ c' = Finish(c, "error")
  BY DEF ConfirmAnswer, Joined, Given

\* The record of a connected call
LEMMA JoinedFields ==
  ASSUME c \in Coordinator
  PROVE  /\ Joined \in Coordinator
         /\ Joined.state = "Connected" /\ Joined.pendingAnswer = FALSE /\ Joined.answering = FALSE
         /\ Joined.timers = c.timers \ {"Ring"} /\ Joined.deferred = 0
         /\ Joined.jobs = Append(c.jobs, Job("StartMedia", c.mgen, 0, FALSE))
         /\ Joined.mgen = c.mgen /\ Joined.told = c.told /\ Joined.finish = c.finish
         /\ Joined.transfer = c.transfer /\ Joined.transferFailed = c.transferFailed
         /\ Joined.callerDone = c.callerDone /\ Joined.calleeDone = c.calleeDone
         /\ Joined.pending = c.pending /\ Joined.registering = c.registering
         /\ Joined.registration = c.registration /\ Joined.retry = c.retry
<1>1. Joined \in Coordinator
  <2> DEFINE d1 == [c EXCEPT !.state = "Connected", !.pendingAnswer = FALSE, !.answering = FALSE]
             d2 == [d1 EXCEPT !.timers = @ \ {"Ring"}]
             d3 == [d2 EXCEPT !.deferred = 0]
  <2>1. d1 \in Coordinator
    BY Names, SetState, SetPendingAnswer, SetAnswering
  <2> HIDE DEF d1
  <2>2. d1.timers \ {"Ring"} \in SUBSET Timers
    BY <2>1, Fields
  <2>3. d2 \in Coordinator
    BY <2>1, <2>2, SetTimers
  <2> HIDE DEF d2
  <2>4. d3 \in Coordinator
    BY <2>3, SetDeferred
  <2> HIDE DEF d3
  <2>5. Job("StartMedia", c.mgen, 0, FALSE) \in Jobs
    BY Fields DEF Job, Jobs
  <2>6. Append(d3.jobs, Job("StartMedia", c.mgen, 0, FALSE)) \in Seq(Jobs)
    BY <2>4, <2>5, Fields, AppendJob
  <2> QED BY <2>4, <2>6, SetJobs DEF d3, d2, d1, Joined
<1> QED BY <1>1 DEF Joined, Coordinator

\* A plain job at the end of the queue, and the first one taken off
LEMMA PlainQueue ==
  ASSUME NEW q \in Seq(Jobs), PlainJobs(q), NEW j, PlainJob(j)
  PROVE  PlainJobs(Append(q, j)) /\ (q # <<>> => PlainJobs(Tail(q)) /\ PlainJob(Head(q)))
<1>1. \A i \in DOMAIN Append(q, j) :
        Append(q, j)[i] = j \/ (i \in DOMAIN q /\ Append(q, j)[i] = q[i])
  OBVIOUS
<1>2. q # <<>> => /\ 1 \in DOMAIN q /\ q[1] = Head(q)
                  /\ \A i \in DOMAIN Tail(q) : i + 1 \in DOMAIN q /\ Tail(q)[i] = q[i + 1]
  OBVIOUS
<1> QED BY <1>1, <1>2 DEF PlainJobs

\* The acknowledgement of the caller's answer
LEMMA AnswerAckSides ==
  ASSUME ~AiCall, SidesInv, NEW budget \in BOOLEAN, HandleAnswerAck(budget)
  PROVE  SidesStep
<1>1. /\ c \in Coordinator /\ SidesOK(c) /\ current \in Leg /\ current \in Attempt
      /\ ReportsOK /\ UNCHANGED leg
  BY SidesNow DEF HandleAnswerAck, Receive
<1> DEFINE e == [c EXCEPT !.pendingAnswer = FALSE, !.answering = FALSE]
<1>2. e \in Coordinator /\ SidesOK(e)
  <2>1. e \in Coordinator
    BY <1>1, SetPendingAnswer, SetAnswering
  <2>2. SameSides(e, c) /\ e.jobs = c.jobs
    BY <1>1 DEF SameSides, Coordinator
  <2> HIDE DEF e
  <2> QED BY <1>1, <2>1, <2>2, SameSidesOK DEF SidesOK
<1> HIDE DEF e
<1>3. Joined \in Coordinator /\ SidesOK(Joined)
  <2>1. PlainJob(Job("StartMedia", c.mgen, 0, FALSE))
    BY DEF PlainJob, Job
  <2>2. PlainJobs(Joined.jobs)
    BY <1>1, <2>1, JoinedFields, PlainQueue, Fields DEF SidesOK
  <2>3. \A l : HungUp(Joined, l) <=> HungUp(c, l)
    BY <1>1, JoinedFields DEF HungUp
  <2> QED BY <1>1, <2>2, <2>3, JoinedFields DEF SidesOK, Offering
<1>4. CASE ConfirmAnswer(budget)
  <2>1. CASE /\ MarkAnswered(c.mgen)
             /\ c' = IF c.deferred # 0 /\ ~c.transferFailed
                     THEN Disconnected(Joined, c.deferred) ELSE Joined
    <3>1. c.deferred # 0 => SidesOK(Disconnected(Joined, c.deferred))
      BY <1>1, <1>3, DisconnectedSides DEF SidesOK
    <3> QED BY <1>1, <1>3, <2>1, <3>1, StoreSides DEF MarkAnswered
  <2>2. CASE /\ c.deferred = current /\ c.deferred # 0
             /\ \/ MarkAnsweredThenRefused(c.mgen) /\ c' = Finish(Given, "error")
                \/ MarkAnswered(c.mgen) /\ c' = TerminateRetry(Given)
    <3> DEFINE f == [Joined EXCEPT !.calleeDone = TRUE]
               g == [f EXCEPT !.retry = FALSE, !.timers = @ \ {"Cleanup"}]
    <3>1. HungUp(Joined, current)
      BY <1>1, <2>2 DEF SidesOK, HungUp, LiveLeg
    <3>2. f \in Coordinator /\ SidesOK(f)
      BY <1>3, <3>1, CalleeDoneSides, SetCalleeDone
    <3>3. HungUp(f, current)
      BY <1>1, <2>2 DEF SidesOK, HungUp, LiveLeg
    <3> HIDE DEF f
    <3>4. g \in Coordinator
      <4>1. f.timers \ {"Cleanup"} \in SUBSET Timers
        BY <3>2, Fields
      <4>2. [f EXCEPT !.retry = FALSE] \in Coordinator /\ [f EXCEPT !.retry = FALSE].timers = f.timers
        BY <3>2, SetRetry DEF Coordinator
      <4> QED BY <4>1, <4>2, SetTimers
    <3>5. SameSides(g, f) /\ g.jobs = f.jobs
      BY <3>2 DEF SameSides, Coordinator
    <3>6. Given = g
      BY DEF Given, f
    <3> HIDE DEF g
    <3>7. SidesOK(g)
      BY <3>2, <3>5, SameSidesOK DEF SidesOK
    <3>8. HungUp(g, current)
      BY <3>3, <3>5 DEF HungUp, SameSides
    <3>9. SidesOK(Finish(Given, "error")) /\ SidesOK(TerminateRetry(Given))
      BY <1>1, <3>4, <3>6, <3>7, <3>8, FinishSides, TerminateRetrySides
    <3> QED BY <1>1, <2>2, <3>9, StoreSides DEF MarkAnswered, MarkAnsweredThenRefused
  <2>3. CASE MarkAnsweredRefused /\ c' = Finish(c, "error")
    BY <1>1, <2>3, FinishSides, StoreSides DEF MarkAnsweredRefused
  <2> QED BY <1>4, <2>1, <2>2, <2>3, ConfirmCases
<1>5. CASE ~ConfirmAnswer(budget)
  <2>1. Commit(c) \/ Commit(e)
    BY <1>5 DEF HandleAnswerAck, e
  <2> QED BY <1>1, <1>2, <2>1, CommitSides
<1> QED BY <1>4, <1>5

\* Taking a media result from the queue
LEMMA DoneSides ==
  ASSUME SidesInv, c.finish = "no", c.jobs # <<>>
  PROVE  /\ Done(c) \in Coordinator /\ SidesOK(Done(c)) /\ SameSides(Done(c), c)
         /\ Done(c).agen = c.agen
         /\ PlainJob(Head(c.jobs))
<1>1. c \in Coordinator /\ SidesOK(c) /\ Done(c) \in Coordinator
  BY SidesNow, DoneReady
<1>2. SameSides(Done(c), c) /\ Done(c).jobs = Tail(c.jobs) /\ Done(c).agen = c.agen
  BY <1>1 DEF SameSides, Done, Coordinator
<1>3. PlainJobs(Tail(c.jobs)) /\ PlainJob(Head(c.jobs))
  <2>1. PlainJob(Job("StartMedia", 0, 0, FALSE))
    BY DEF PlainJob, Job
  <2> QED BY <1>1, <2>1, PlainQueue, Fields DEF SidesOK
<1> QED BY <1>1, <1>2, <1>3, SameSidesOK

\* The results of the media worker but an attempt's offer
LEMMA MediaSides ==
  ASSUME SidesInv, \/ IgnoreMedia \/ MediaFailed \/ ProvisionalPrepared \/ AnswerPrepared
                   \/ TransferAnswerPrepared \/ MediaStarted
  PROVE  SidesStep
<1>1. /\ c \in Coordinator /\ SidesOK(c) /\ current \in Leg /\ current \in Attempt
      /\ ReportsOK /\ CoordInv /\ UNCHANGED leg /\ c.finish = "no" /\ c.jobs # <<>>
  BY SidesNow DEF IgnoreMedia, MediaFailed, ProvisionalPrepared, AnswerPrepared,
                  TransferAnswerPrepared, MediaStarted, MediaResult
<1>2. Done(c) \in Coordinator /\ SidesOK(Done(c)) /\ PlainJob(Head(c.jobs))
  BY <1>1, DoneSides
<1>3. CASE Commit(Done(c))
  BY <1>1, <1>2, <1>3, CommitSides
<1>4. ASSUME NEW verb \in Verbs, Commit(FailMedia(Done(c), verb)) PROVE SidesStep
  <2>1. FailMedia(Done(c), verb) \in Coordinator
    BY <1>1, DoneReady, FailMediaOK DEF Ready
  <2> QED BY <1>1, <1>2, <1>4, <2>1, FailMediaSides, CommitSides
<1>5. CASE Commit(Arm(Done(c), "Ring"))
  BY <1>1, <1>2, <1>5, Names, ArmOK, TimersSides, CommitSides
<1>6. CASE AnswerPrepared
  <2> DEFINE d == Done(c)
             e == [d EXCEPT !.state = "Answering", !.pendingAnswer = TRUE, !.answerGen = c.agen]
  <2> HIDE DEF d
  <2>1. e \in Coordinator
    BY <1>1, <1>2, Names, SetState, SetPendingAnswer, SetAnswerGen, Fields DEF d
  <2>2. SameSides(e, d) /\ e.jobs = d.jobs
    BY <1>2 DEF d, SameSides, Coordinator
  <2>3. Commit(e)
    BY <1>6 DEF AnswerPrepared, d
  <2> HIDE DEF e
  <2>4. SidesOK(e)
    BY <1>2, <2>2, SameSidesOK DEF SidesOK, d
  <2> QED BY <1>1, <2>1, <2>3, <2>4, CommitSides
<1>7. CASE TransferAnswerPrepared
  BY <1>2, <1>7 DEF TransferAnswerPrepared, MediaResult, PlainJob
<1>8. CASE MediaStarted
  <2>1. CASE ActivateBridge(c.mgen) /\ c' = Done(c)
    BY <1>1, <1>2, <2>1, StoreSides DEF ActivateBridge
  <2>2. CASE ActivateBridgeRefused(c.mgen) /\ c' = Finish(c, "error")
    BY <1>1, <2>2, FinishSides, StoreSides DEF ActivateBridgeRefused
  <2> QED BY <1>3, <1>8, <2>1, <2>2 DEF MediaStarted
<1> QED BY <1>3, <1>4, <1>5, <1>6, <1>7, <1>8, Names DEF IgnoreMedia, MediaFailed, ProvisionalPrepared

\* The offer of the next attempt: the previous callee has gone by then.
LEMMA OfferPreparedSides ==
  ASSUME SidesInv, NEW result \in {"prepared", "failed", "refused"}, OfferPrepared(result)
  PROVE  SidesStep
<1>1. /\ c \in Coordinator /\ SidesOK(c) /\ current \in Leg /\ current \in Attempt
      /\ ReportsOK /\ CoordInv /\ UNCHANGED leg /\ c.finish = "no" /\ c.jobs # <<>>
      /\ Head(c.jobs).kind = "CalleeAttemptOffer" /\ ~Terminating(c)
  BY SidesNow DEF OfferPrepared, MediaResult, StaleMedia
<1> DEFINE done == Done(c)
           taken == [done EXCEPT !.pending = 0]
           bumped == [taken EXCEPT !.agen = @ + 1]
           asked == [bumped EXCEPT !.registering = c.pending, !.registration = "queued"]
<1>2. /\ done \in Coordinator /\ SidesOK(done) /\ SameSides(done, c)
      /\ Head(c.jobs).seq # 0
  BY <1>1, DoneSides DEF PlainJob
<1>3. c.pending = Head(c.jobs).seq => c.calleeDone /\ HungUp(c, current)
  BY <1>1, <1>2 DEF SidesOK, Offering
<1> HIDE DEF done
<1>4. taken \in Coordinator
  BY <1>2, SetPending
<1>5. /\ taken.transfer = done.transfer /\ taken.transferFailed = done.transferFailed
      /\ taken.callerDone = done.callerDone /\ taken.calleeDone = done.calleeDone
      /\ taken.pending = 0 /\ taken.registering = done.registering
      /\ taken.registration = done.registration /\ taken.deferred = done.deferred
      /\ taken.finish = done.finish /\ taken.jobs = done.jobs /\ taken.told = done.told
  BY <1>2 DEF Coordinator
<1> HIDE DEF taken
<1>6. \A l : HungUp(taken, l) <=> HungUp(c, l)
  BY <1>2, <1>5 DEF HungUp, SameSides
<1>7. \A l : HungUp(taken, l) <=> HungUp(done, l)
  BY <1>5 DEF HungUp
<1>8. SidesOK(taken)
  BY <1>2, <1>5, <1>7 DEF SidesOK, Offering
<1>9. bumped \in Coordinator
  <2>1. taken.agen + 1 \in Nat
    BY <1>4, Fields
  <2> QED BY <1>4, <2>1, SetAgen
<1>10. SameSides(bumped, taken) /\ bumped.jobs = taken.jobs
  BY <1>4 DEF SameSides, Coordinator
<1> HIDE DEF bumped
<1>11. SidesOK(bumped)
  BY <1>8, <1>10, SameSidesOK DEF SidesOK
<1>12. asked \in Coordinator
  <2>1. c.pending \in Nat
    BY <1>1, Fields
  <2> QED BY <1>9, <2>1, SetRegistering, SetRegistration
<1>13. /\ asked.transfer = bumped.transfer /\ asked.transferFailed = bumped.transferFailed
       /\ asked.callerDone = bumped.callerDone /\ asked.calleeDone = bumped.calleeDone
       /\ asked.registration = "queued" /\ asked.deferred = bumped.deferred
       /\ asked.finish = bumped.finish /\ asked.jobs = bumped.jobs /\ asked.told = bumped.told
  BY <1>9 DEF Coordinator
<1> HIDE DEF asked
<1>14. CASE c.pending # Head(c.jobs).seq
  <2>1. Commit(taken)
    BY <1>14 DEF OfferPrepared, taken, done
  <2> QED BY <1>1, <1>4, <1>8, <2>1, CommitSides
<1>15. CASE c.pending = Head(c.jobs).seq
  <2>1. bumped.calleeDone /\ HungUp(taken, current)
    BY <1>2, <1>3, <1>5, <1>6, <1>10, <1>15 DEF SameSides
  <2>2. HungUp(bumped, current)
    BY <1>10, <2>1 DEF HungUp, SameSides
  <2>3. \A l : HungUp(asked, l) <=> HungUp(bumped, l)
    BY <1>13 DEF HungUp
  <2>4. SidesOK(asked)
    BY <1>11, <1>13, <2>1, <2>3 DEF SidesOK, Offering
  <2>5. ~c.transfer
    BY <1>1 DEF SidesOK
  <2>6. PICK e \in {asked, TerminateRetry(taken), TerminateRetry(bumped)} : Commit(e)
    BY <1>15, <2>5 DEF OfferPrepared, taken, bumped, asked, done
  <2>7. TerminateRetry(taken) \in Coordinator /\ TerminateRetry(bumped) \in Coordinator
    BY <1>4, <1>9, Names, LegNumbers, SetState, SetCalleeDone, TellOK, ArmOK DEF TerminateRetry
  <2>8. e \in Coordinator /\ SidesOK(e)
    BY <1>1, <1>4, <1>8, <1>9, <1>11, <1>12, <2>1, <2>2, <2>4, <2>6, <2>7, TerminateRetrySides
  <2> QED BY <1>1, <2>6, <2>8, CommitSides
<1> QED BY <1>14, <1>15

\* Taking the registrar's answer leaves fewer candidates to speak of.
LEMMA RegisteredSides ==
  ASSUME SidesInv
  PROVE  Registered(c) \in Coordinator /\ SidesOK(Registered(c))
<1>1. c \in Coordinator /\ SidesOK(c)
  BY SidesNow
<1> DEFINE d == Registered(c)
<1>2. d \in Coordinator
  BY <1>1, SetRegistering, SetRegistration DEF Registered
<1>3. /\ d.transfer = c.transfer /\ d.transferFailed = c.transferFailed
      /\ d.callerDone = c.callerDone /\ d.calleeDone = c.calleeDone
      /\ d.pending = c.pending /\ d.registering = 0
      /\ d.registration = "idle" /\ d.deferred = c.deferred
      /\ d.finish = c.finish /\ d.jobs = c.jobs /\ d.told = c.told
  BY <1>1 DEF Registered, Coordinator
<1> HIDE DEF d
<1>4. \A l : HungUp(d, l) <=> HungUp(c, l)
  BY <1>3 DEF HungUp
<1>5. SidesOK(d)
  BY <1>1, <1>3, <1>4 DEF SidesOK, Offering
<1> QED BY <1>2, <1>5 DEF d

\* The registrar's work, which it never refuses here
LEMMA RegistrarSides ==
  ASSUME "ActionFailure" \notin Races, SidesInv, Registrar
  PROVE  SidesStep /\ UNCHANGED <<leg, evq>>
<1>1. c \in Coordinator /\ SidesOK(c) /\ UNCHANGED <<leg, evq, current>>
      /\ c' = [c EXCEPT !.registration = "registered"]
  BY SidesNow DEF Registrar, Register, RefuseRegistration, aggVars
<1> DEFINE d == [c EXCEPT !.registration = "registered"]
<1>2. /\ d.transfer = c.transfer /\ d.transferFailed = c.transferFailed
      /\ d.callerDone = c.callerDone /\ d.calleeDone = c.calleeDone
      /\ d.pending = c.pending /\ d.registering = c.registering
      /\ d.registration = "registered" /\ d.deferred = c.deferred
      /\ d.finish = c.finish /\ d.jobs = c.jobs /\ d.told = c.told
  BY <1>1 DEF Coordinator
<1>3. c' = d
  BY <1>1
<1> HIDE DEF d
<1>4. \A l : HungUp(d, l) <=> HungUp(c, l)
  BY <1>2 DEF HungUp
<1>5. SidesOK(d)
  BY <1>1, <1>2, <1>4 DEF SidesOK, Offering
<1> QED BY <1>1, <1>3, <1>5, StoreSides

\* The next attempt is originated: the callee before it has gone.
LEMMA RegistrationSides ==
  ASSUME SidesInv, RegistrationMessage
  PROVE  SidesOK(c)' /\ ReportsOK'
<1>1. /\ c \in Coordinator /\ SidesOK(c) /\ current \in Leg /\ current \in Attempt
      /\ ReportsOK /\ CoordInv /\ UNCHANGED evq
      /\ c.finish = "no" /\ c.registration = "registered"
  BY SidesNow DEF RegistrationMessage, AttemptRegistered, AttemptRejected, SidesOK
<1>2. AttemptRegistered
  BY <1>1 DEF RegistrationMessage, AttemptRejected
<1>3. CASE Terminating(c)
  <2>1. Commit(Registered(c)) /\ UNCHANGED leg
    BY <1>2, <1>3 DEF AttemptRegistered
  <2>2. SidesStep
    BY <1>1, <2>1, RegisteredSides, CommitSides
  <2>3. ReportsOK'
    BY <1>1, <2>1, <2>2, QuietSent DEF ReportsOK, SidesStep
  <2> QED BY <2>2, <2>3 DEF SidesStep
<1>4. CASE ~Terminating(c)
  <2> DEFINE d == Registered(c)
             e == [d EXCEPT !.calleeDone = FALSE, !.lateSent = FALSE]
  <2>1. d \in Coordinator /\ SidesOK(d)
    BY RegisteredSides
  <2>2. RegisterAttempt(c.registering) /\ c' = Arm(e, "Dial")
        /\ leg' = [leg EXCEPT ![c.registering] = "dialing"]
    BY <1>2, <1>4 DEF AttemptRegistered
  <2>3. /\ d.pending = c.pending /\ d.registering = 0 /\ d.told = c.told
        /\ d.finish = "no"
    BY <1>1 DEF Registered, Coordinator
  <2> HIDE DEF d
  <2>4. e \in Coordinator
    BY <2>1, SetCalleeDone, SetLateSent
  <2>5. /\ c'.transfer = d.transfer /\ c'.transferFailed = d.transferFailed
        /\ c'.callerDone = d.callerDone /\ c'.calleeDone = FALSE
        /\ c'.pending = d.pending /\ c'.registering = d.registering
        /\ c'.registration = d.registration /\ c'.deferred = d.deferred
        /\ c'.finish = "no" /\ c'.jobs = d.jobs /\ c'.told = d.told
    BY <2>1, <2>2, <2>3 DEF Arm, Coordinator
  <2>6. /\ c.registering = current + 1 /\ current' = current + 1 /\ current \in Nat /\ current # 0
        /\ c.registering # 0 /\ c.pending = 0
    BY <1>1, <2>2 DEF RegisterAttempt, CoordInv, HuntBudget, Attempt
  <2>7. c.registering \in Attempt
    BY <1>1, <2>6, MaxAttemptsAssumption, Fields DEF CoordInv, HuntBudget, Attempt
  <2>8. leg[c.registering] = "none"
    BY <1>1, <2>6, <2>7 DEF ReportsOK
  <2>9. leg \in [Leg -> LiveLeg \cup {"none", "ended"}] /\ c.registering \in Leg /\ Caller # c.registering
    BY <1>1, <2>7, LegNumbers DEF CoordInv, TypeOK
  <2>10. \A l \in Leg : l # c.registering => leg'[l] = leg[l]
    BY <2>2, <2>9
  <2>11. \A l \in Leg : l # c.registering => (HungUp(c, l)' <=> HungUp(c, l))
    BY <2>3, <2>5, <2>10 DEF HungUp
  <2>12. HungUp(c, current)
    BY <1>1, <2>6 DEF SidesOK, Offering
  <2>13. ASSUME NEW a \in Attempt, a < current' PROVE HungUp(c, a)'
    <3>1. a # c.registering /\ (a < current \/ a = current) /\ a \in Leg
      BY <2>6, <2>13, LegNumbers DEF Attempt
    <3> QED BY <1>1, <2>11, <2>12, <3>1 DEF SidesOK
  <2>14. ASSUME c'.deferred # 0 PROVE c'.deferred \in Attempt /\ leg'[c'.deferred] = "ended"
    BY <2>1, <2>5, <2>8, <2>10, <2>14, LegNumbers DEF SidesOK
  <2>15. ASSUME c'.callerDone PROVE leg'[Caller] = "ended"
    BY <2>1, <2>5, <2>9, <2>10, <2>15, LegNumbers DEF SidesOK
  <2>16. /\ ~c'.transfer /\ ~c'.transferFailed /\ c'.registration # "rejected" /\ PlainJobs(c'.jobs)
         /\ ~(c'.pending # 0 \/ c'.registering # 0)
    BY <2>1, <2>3, <2>5, <2>6 DEF SidesOK
  <2>17. SidesOK(c)'
    BY <2>5, <2>13, <2>14, <2>15, <2>16 DEF SidesOK, Offering, PlainJobs, PlainJob
  <2>18. ReportsOK'
    <3>1. \A a \in Attempt : a > current' => leg'[a] = "none"
      <4> SUFFICES ASSUME NEW a \in Attempt, a > current' PROVE leg'[a] = "none"
        OBVIOUS
      <4>1. a # c.registering /\ a > current /\ a \in Leg
        BY <2>6, LegNumbers DEF Attempt
      <4> QED BY <1>1, <2>10, <4>1 DEF ReportsOK
    <3>2. \A l \in Leg : leg[l] = "ended" => leg'[l] = "ended"
      BY <2>8, <2>10
    <3> QED BY <1>1, <3>1, <3>2, QuietSent DEF ReportsOK
  <2> QED BY <2>17, <2>18
<1> QED BY <1>3, <1>4

\* The setup and ring deadlines of a hunt
LEMMA SetupTimerSides ==
  ASSUME SidesInv, NEW k \in {"Dial", "Ring"}, NEW budget \in BOOLEAN, SetupTimerExpires(k, budget)
  PROVE  SidesStep
<1>1. /\ c \in Coordinator /\ SidesOK(c) /\ current \in Leg /\ current \in Attempt
      /\ ReportsOK /\ CoordInv /\ UNCHANGED leg /\ c.finish = "no"
  BY SidesNow DEF SetupTimerExpires
<1> DEFINE d == Disarm(c, {k})
<1>2. d \in Coordinator /\ SidesOK(d)
  BY <1>1, DisarmOK, TimersSides
<1> HIDE DEF d
<1>3. WaitForRetry(d) \in Coordinator
  BY <1>1, <1>2, Names, DisarmOK, SetRetry, TellOK, ArmOK DEF WaitForRetry
<1>4. TimerTerminates(d) \in Coordinator
  BY <1>1, <1>2, Names, LegNumbers, SetState, TellOK, ArmOK DEF TimerTerminates
<1>5. ~c.transfer
  BY <1>1 DEF SidesOK
<1>6. Commit(d) \/ Commit(WaitForRetry(d)) \/ Commit(TimerTerminates(d))
  BY <1>5 DEF SetupTimerExpires, d
<1> QED BY <1>1, <1>2, <1>3, <1>4, <1>6, WaitForRetrySides, TimerTerminatesSides, CommitSides

\* The cleanup deadline, of an attempt and of the call
LEMMA CleanupSides ==
  ASSUME SidesInv, NEW budget \in BOOLEAN, CleanupExpires(budget)
  PROVE  SidesStep
<1>1. /\ c \in Coordinator /\ SidesOK(c) /\ current \in Leg /\ current \in Attempt
      /\ ReportsOK /\ CoordInv /\ UNCHANGED leg /\ c.finish = "no"
  BY SidesNow DEF CleanupExpires
<1> DEFINE d == Disarm(c, {"Cleanup"})
<1>2. d \in Coordinator /\ SidesOK(d)
  BY <1>1, DisarmOK, TimersSides
<1> HIDE DEF d
<1>3. CASE c.retry
  <2> DEFINE e == Tell(d, current, "Hangup")
  <2>1. ResumeHunt(e, budget)
    BY <1>3 DEF CleanupExpires, d
  <2>2. e \in Coordinator /\ SidesOK(e)
    BY <1>1, <1>2, TellOK, TellSides, Names
  <2>3. HungUp(e, current)
    BY <1>1, <1>2 DEF HungUp, Tell, Coordinator
  <2> HIDE DEF e
  <2> QED BY <1>1, <2>1, <2>2, <2>3, ResumeHuntSides
<1>4. CASE ~c.retry /\ ~Terminating(c)
  <2>1. Commit(d)
    BY <1>4 DEF CleanupExpires, d
  <2> QED BY <1>1, <1>2, <2>1, CommitSides
<1>5. CASE ~c.retry /\ Terminating(c)
  <2>1. ReleaseTopology /\ c' = ForcedRemoval(d)
    BY <1>5 DEF CleanupExpires, d
  <2>2. SidesOK(ForcedRemoval(d))
    BY <1>1, <1>2, ForcedRemovalSides DEF ReportsOK
  <2> QED BY <1>1, <2>1, <2>2, StoreSides DEF ReleaseTopology
<1> QED BY <1>3, <1>4, <1>5

\* The drain, a refused submission, the lost adapter and the end of the call
LEMMA EndSides ==
  ASSUME ~AiCall, SidesInv, BeginShutdown \/ SubmissionRefused \/ ForceCleanup \/ CallFinalized
  PROVE  SidesStep
<1>1. /\ c \in Coordinator /\ SidesOK(c) /\ current \in Leg /\ current \in Attempt
      /\ ReportsOK /\ CoordInv /\ UNCHANGED leg
  BY SidesNow DEF BeginShutdown, SubmissionRefused, ForceCleanup, CallFinalized
<1>2. CASE BeginShutdown
  <2>1. DrainCall(c) \in Coordinator
    BY <1>2, ReadyNow, DrainCallOK, <1>1 DEF BeginShutdown, Ready
  <2> QED BY <1>1, <1>2, <2>1, DrainCallSides, CommitSides DEF BeginShutdown
<1>3. CASE SubmissionRefused
  BY <1>1, <1>3, FinishSides, StoreSides DEF SubmissionRefused, ReleaseTopology
<1>4. ASSUME NEW d \in Coordinator, SidesOK(d) PROVE SidesOK([d EXCEPT !.finalized = TRUE])
  <2> DEFINE e == [d EXCEPT !.finalized = TRUE]
  <2>1. SameSides(e, d) /\ e.jobs = d.jobs
    BY <1>4 DEF SameSides, Coordinator
  <2> HIDE DEF e
  <2>2. SidesOK(e)
    BY <1>4, <2>1, SameSidesOK DEF SidesOK
  <2> QED BY <2>2 DEF e
<1>5. CASE ReleaseTopology /\ c' = [Finish(c, "forced") EXCEPT !.finalized = TRUE]
  <2>1. Finish(c, "forced") \in Coordinator /\ SidesOK(Finish(c, "forced"))
    BY <1>1, FinishOK, FinishSides DEF CoordInv
  <2>2. SidesOK(c')
    BY <1>4, <1>5, <2>1
  <2> QED BY <1>1, <1>5, <2>2, StoreSides DEF ReleaseTopology
<1>6. CASE UNCHANGED aggVars /\ c' = [c EXCEPT !.finalized = TRUE]
  BY <1>1, <1>4, <1>6, StoreSides DEF aggVars
<1> QED BY <1>2, <1>3, <1>5, <1>6 DEF ForceCleanup, CallFinalized

\* A leg that ends or moves on hangs up no fewer legs.
LEMMA EnvironmentSides ==
  ASSUME SidesInv, UNCHANGED <<c, current>>, leg \in [Leg -> LiveLeg \cup {"none", "ended"}],
         \A l \in Leg : leg[l] \notin LiveLeg => leg'[l] = leg[l]
  PROVE  SidesOK(c)'
<1>1. SidesOK(c) /\ current \in Leg
  BY SidesNow
<1>2. \A l \in Leg : HungUp(c, l) => HungUp(c, l)'
  BY DEF HungUp
<1>3. \A l \in Leg : leg[l] = "ended" => leg'[l] = "ended"
  BY DEF LiveLeg
<1>4. PlainJobs(c.jobs)' /\ (Offering(c)' <=> Offering(c))
  BY <1>1 DEF SidesOK, Offering, PlainJobs, PlainJob
<1> QED BY <1>1, <1>2, <1>3, <1>4, LegNumbers DEF SidesOK

\* A leg that moves reports its end when it ends, and what it reports here is
\* no refusal.
LEMMA LegStepSides ==
  ASSUME SidesInv, NEW l \in Leg, NEW to \in LiveLeg \cup {"ended"}, NEW kind, leg[l] \in LiveLeg,
         LegStep(l, to, kind), kind \in {"failed", "disconnected", "cancelled"} => to = "ended",
         kind \notin {"nack", "originateFailed", "actionFailed"}
  PROVE  SidesOK(c)' /\ ReportsOK'
<1>1. /\ CoordInv /\ ReportsOK /\ leg \in [Leg -> LiveLeg \cup {"none", "ended"}]
      /\ UNCHANGED <<c, current>> /\ leg' = [leg EXCEPT ![l] = to]
  BY SidesNow DEF LegStep, aggVars, CoordInv, TypeOK
<1>2. SidesOK(c)'
  BY <1>1, EnvironmentSides
<1>3. \A m \in Leg : Sent(m)' \subseteq IF m = l THEN Sent(m) \cup {kind} ELSE Sent(m)
  BY <1>1, LegStepSent
<1>4. \A a \in Attempt : a > current' => leg'[a] = "none"
  BY <1>1, LegNumbers DEF ReportsOK, LiveLeg
<1>5. \A m \in Leg : leg[m] = "ended" => leg'[m] = "ended"
  BY <1>1 DEF LiveLeg
<1>6. ASSUME NEW m \in Leg, Sent(m)' \cap {"failed", "disconnected", "cancelled"} # {}
      PROVE  leg'[m] = "ended"
  <2>1. CASE Sent(m) \cap {"failed", "disconnected", "cancelled"} # {}
    BY <1>1, <1>5, <2>1 DEF ReportsOK
  <2>2. CASE Sent(m) \cap {"failed", "disconnected", "cancelled"} = {}
    <3>1. m = l /\ kind \in {"failed", "disconnected", "cancelled"}
      BY <1>3, <1>6, <2>2
    <3> QED BY <1>1, <3>1
  <2> QED BY <2>1, <2>2
<1>7. \A m \in Leg : Sent(m)' \cap {"nack", "originateFailed", "actionFailed"} = {}
  BY <1>1, <1>3 DEF ReportsOK
<1> QED BY <1>2, <1>4, <1>6, <1>7 DEF ReportsOK

\* What legs, caller and adapter do when no request is refused
LEMMA WorldSides ==
  ASSUME "ActionFailure" \notin Races, SidesInv, AdapterAnswer \/ Legs
  PROVE  SidesOK(c)' /\ ReportsOK'
<1>1. {"offered", "dialing", "ringing", "answered"} \subseteq LiveLeg
  BY DEF LiveLeg
<1>2. CASE AdapterAnswer \/ CallerCancels \/ CallerLeaves
  <2>1. PICK to \in {"answered", "ended"}, kind \in {"ack", "cancelled", "disconnected"} :
          leg[Caller] \in LiveLeg /\ LegStep(Caller, to, kind) /\ (kind # "ack" => to = "ended")
    BY <1>1, <1>2 DEF AdapterAnswer, CallerAnswered, CallerAnswerRefused, CallerCancels, CallerLeaves
  <2>2. to \in LiveLeg \cup {"ended"} /\ Caller \in Leg
    BY <1>1, LegNumbers
  <2> QED BY <2>1, <2>2, LegStepSides
<1>3. ASSUME NEW a \in Attempt, CalleeRings(a) \/ CalleeAnswers(a) \/ CalleeFails(a) \/ CalleeLeaves(a)
      PROVE  SidesOK(c)' /\ ReportsOK'
  <2>1. PICK to \in {"ringing", "answered", "ended"},
             kind \in {"provisional", "answered", "failed", "disconnected"} :
          /\ leg[a] \in LiveLeg /\ LegStep(a, to, kind)
          /\ kind \in {"failed", "disconnected"} => to = "ended"
    BY <1>1, <1>3 DEF CalleeRings, CalleeAnswers, CalleeFails, CalleeLeaves
  <2>2. to \in LiveLeg \cup {"ended"} /\ a \in Leg
    BY <1>1, LegNumbers
  <2> QED BY <2>1, <2>2, LegStepSides
<1>4. ASSUME NEW l \in Leg, LegEndsSilently(l) PROVE SidesOK(c)' /\ ReportsOK'
  <2>1. /\ ReportsOK /\ leg \in [Leg -> LiveLeg \cup {"none", "ended"}]
        /\ UNCHANGED <<c, current, evq>> /\ leg' = [leg EXCEPT ![l] = "ended"] /\ leg[l] \in LiveLeg
    BY <1>4, SidesNow DEF LegEndsSilently, aggVars, CoordInv, TypeOK
  <2>2. SidesOK(c)'
    BY <2>1, EnvironmentSides
  <2>3. \A a \in Attempt : a > current' => leg'[a] = "none"
    BY <2>1, LegNumbers DEF ReportsOK, LiveLeg
  <2>4. \A m \in Leg : leg[m] = "ended" => leg'[m] = "ended"
    BY <2>1
  <2> QED BY <2>1, <2>2, <2>3, <2>4, QuietSent DEF ReportsOK
<1>5. ASSUME NEW a \in Attempt PROVE ~CalleeActionFails(a)
  BY DEF CalleeActionFails
<1> QED BY <1>2, <1>3, <1>4, <1>5 DEF Legs

\* A coordinator's step reports nothing on behalf of the legs.
LEMMA HandlerSides ==
  ASSUME SidesInv, SidesStep, UNCHANGED leg, \A m \in Leg : Sent(m)' \subseteq Sent(m)
  PROVE  SidesOK(c)' /\ ReportsOK'
<1>1. ReportsOK /\ UNCHANGED current /\ SidesOK(c)'
  BY SidesNow DEF SidesStep
<1>2. \A a \in Attempt : a > current' => leg'[a] = "none"
  BY <1>1 DEF ReportsOK
<1>3. \A m \in Leg : Sent(m)' \cap {"failed", "disconnected", "cancelled"} # {} => leg'[m] = "ended"
  BY <1>1 DEF ReportsOK
<1>4. \A m \in Leg : Sent(m)' \cap {"nack", "originateFailed", "actionFailed"} = {}
  BY <1>1 DEF ReportsOK
<1> QED BY <1>1, <1>2, <1>3, <1>4 DEF ReportsOK

\* Every step of a hunt whose requests are not refused keeps the invariant.
LEMMA SidesInvStep ==
  ASSUME ~AiCall, "ActionFailure" \notin Races, SidesInv, [Next]_vars
  PROVE  SidesInv'
<1>0. CoordInv /\ CoordInv' /\ ReportsOK /\ SidesOK(c)
  BY SidesNow, CoordInvStep
<1> SUFFICES SidesOK(c)' /\ ReportsOK'
  BY <1>0 DEF SidesInv
<1>1. CASE LegMessage
  <2>1. PICK l \in Leg, kind \in Events : Receive(l, kind)
    BY <1>1, LegNumbers
       DEF Events, LegMessage, HandleCancelled, HandleCallerDisconnected, HandleAnswerNack, StaleLegEvent,
           HandlePeerActionFailed, HandleProvisional, HandleCalleeDisconnected,
           HandleOriginateFailed, HandleAnswered, HandleFailed, HandleAnswerAck,
           HandleCallerActionFailed
  <2>2. /\ UNCHANGED leg /\ \A m \in Leg : Sent(m)' \subseteq Sent(m)
        /\ kind \notin {"nack", "originateFailed", "actionFailed"} /\ Head(evq[l]) = kind
    BY <1>0, <2>1, ReceiveSent DEF ReportsOK, Receive
  <2>3. ASSUME NEW m \in Leg, NEW k, Receive(m, k) PROVE k \notin {"nack", "originateFailed", "actionFailed"}
    BY <1>0, <2>3, ReceiveSent DEF ReportsOK
  <2>4. /\ ~HandleAnswerNack /\ ~HandleCallerActionFailed
        /\ \A a \in Attempt : ~HandlePeerActionFailed(a) /\ \A budget : ~HandleOriginateFailed(a, budget)
    BY <2>3, LegNumbers DEF HandleAnswerNack, HandleCallerActionFailed, HandlePeerActionFailed,
                            HandleOriginateFailed
  <2>5. ASSUME NEW a \in Attempt, StaleLegEvent(a) PROVE SidesStep
    BY <1>0, <2>2, <2>5, StoreSides DEF StaleLegEvent, aggVars
  <2>6. SidesStep
    BY <1>1, <2>4, <2>5, CallerSides, ProvisionalSides, AnsweredSides, FailedSides,
       CalleeDisconnectedSides, AnswerAckSides DEF LegMessage
  <2> QED BY <2>2, <2>6, HandlerSides
<1>2. CASE MediaMessage
  <2>1. UNCHANGED <<leg, evq>>
    BY <1>2 DEF MediaMessage, IgnoreMedia, MediaFailed, ProvisionalPrepared,
     AnswerPrepared, TransferAnswerPrepared, OfferPrepared, MediaStarted, MediaResult
  <2>2. SidesStep
    BY <1>2, MediaSides, OfferPreparedSides DEF MediaMessage
  <2> QED BY <2>1, <2>2, QuietSent, HandlerSides
<1>3. CASE RegistrationMessage
  BY <1>3, RegistrationSides
<1>4. CASE Registrar
  BY <1>4, RegistrarSides, QuietSent, HandlerSides
<1>5. CASE TimerExpiry
  <2>1. UNCHANGED <<leg, evq>>
    BY <1>5 DEF TimerExpiry, CleanupExpires, SetupTimerExpires
  <2>2. SidesStep
    BY <1>5, CleanupSides, SetupTimerSides DEF TimerExpiry
  <2> QED BY <2>1, <2>2, QuietSent, HandlerSides
<1>6. CASE Agent
  BY <1>6 DEF Agent, AgentEndsCall, AgentEndRefused, AgentTransfers, AgentTransferRefused
<1>7. CASE AdapterAnswer \/ Legs
  BY <1>7, WorldSides
<1>8. CASE BeginShutdown \/ SubmissionRefused \/ ForceCleanup \/ CallFinalized
  <2>1. UNCHANGED <<leg, evq>>
    BY <1>8 DEF BeginShutdown, SubmissionRefused, ForceCleanup, CallFinalized
  <2> QED BY <1>8, <2>1, EndSides, QuietSent, HandlerSides
<1>9. CASE SystemShutdown \/ CallOver \/ UNCHANGED vars
  <2>1. UNCHANGED <<leg, evq, c, current>>
    BY <1>9 DEF SystemShutdown, CallOver, vars, aggVars
  <2>2. SidesStep
    BY <1>0, <2>1, StoreSides
  <2> QED BY <2>1, <2>2, QuietSent, HandlerSides
<1> QED BY <1>1, <1>2, <1>3, <1>4, <1>5, <1>6, <1>7, <1>8, <1>9 DEF Next

\* A call that has just been placed has its caller and its first callee.
LEMMA SidesInvInit == ASSUME ~AiCall, Init PROVE SidesInv
<1>1. CoordInv
  BY CoordInvInit
<1>2. PICK remaining \in 0..(IF AiCall THEN 0 ELSE MaxAttempts - 1) : c = Started(remaining)
  BY DEF Init
<1>3. /\ ~c.transfer /\ ~c.transferFailed /\ ~c.callerDone /\ ~c.calleeDone
      /\ c.pending = 0 /\ c.registering = 0 /\ c.registration = "idle" /\ c.deferred = 0
      /\ c.finish = "no" /\ c.jobs = <<>>
  BY <1>2 DEF Started
<1>4. current = 1
  BY DEF Init, AggInit
<1>5. SidesOK(c)
  BY <1>3, <1>4 DEF SidesOK, Offering, PlainJobs, Attempt
<1>6. \A l \in Leg : Sent(l) = {}
  BY DEF Init, Sent
<1>7. \A a \in Attempt : a > current => leg[a] = "none"
  BY <1>4 DEF Init, Attempt, Leg, Caller
<1> QED BY <1>1, <1>5, <1>6, <1>7 DEF SidesInv, ReportsOK

\* A hunt that is removed because both sides are gone or its cleanup deadline
\* passed leaves no leg running that was not hung up.  Every timing race is
\* included; what is assumed is that neither the adapter nor the registrar
\* refuses a request, because the coordinator then calls a side gone that may
\* be none.
THEOREM HuntsReleaseTheirLegs ==
  ASSUME ~AiCall, "ActionFailure" \notin Races
  PROVE  Spec => []LegsReleased
<1>1. Init => SidesInv
  BY SidesInvInit
<1>2. SidesInv /\ [Next]_vars => SidesInv'
  BY SidesInvStep
<1>3. SidesInv => LegsReleased
  BY DEF SidesInv, SidesOK, HungUp, LegsReleased
<1> QED BY <1>1, <1>2, <1>3, PTL DEF Spec

----------------------------------------------------------------------------
(* What a leg was told *)

\* Nothing a leg was told is taken back, and the call is not removed.
Grows(e, d) == e.finish = d.finish /\ \A l \in Leg : d.told[l] \subseteq e.told[l]

\* One assignment after the other
LEMMA GrowsTrans == ASSUME NEW d, NEW e, NEW f, Grows(e, d), Grows(f, e) PROVE Grows(f, d)
  BY DEF Grows

\* Sending an action
LEMMA TellGrows ==
  ASSUME NEW d \in Coordinator, NEW l \in Leg, NEW verb
  PROVE  Grows(Tell(d, l, verb), d)
  BY DEF Grows, Tell, Coordinator

\* Timers and media jobs
LEMMA SmallGrows ==
  ASSUME NEW d \in Coordinator
  PROVE  /\ Grows(d, d) /\ Grows(Done(d), d) /\ Grows(Registered(d), d)
         /\ Grows(FailTransfer(d), d) /\ Grows(OfferNext(d), d)
         /\ \A k : Grows(Arm(d, k), d) /\ Grows(Disarm(d, k), d)
         /\ \A kind, seq, ring : Grows(Prepare(d, kind, seq, ring), d)
  BY DEF Grows, Arm, Disarm, Prepare, Done, Registered, FailTransfer, OfferNext, Coordinator

\* The helpers of the handlers
LEMMA HelpersGrow ==
  ASSUME NEW d \in Coordinator, current \in Leg, NEW verb \in Verbs, NEW l
  PROVE  /\ Grows(TerminateRetry(d), d) /\ Grows(FailMedia(d, verb), d) /\ Grows(WaitForRetry(d), d)
         /\ Grows(TimerTerminates(d), d) /\ Grows(AgentEnds(d), d)
         /\ Grows(EndPeerOfCaller(d, verb), d)
<1>1. Grows(TerminateRetry(d), d)
  BY LegNumbers DEF Grows, Tell, Arm, TerminateRetry, Coordinator
<1>2. Grows(FailMedia(d, verb), d)
  BY LegNumbers DEF Grows, Tell, Arm, Disarm, FailMedia, Coordinator
<1>3. Grows(WaitForRetry(d), d)
  BY DEF Grows, Tell, Arm, Disarm, WaitForRetry, Coordinator
<1>4. Grows(TimerTerminates(d), d)
  BY LegNumbers DEF Grows, Tell, Arm, Disarm, TimerTerminates, Coordinator
<1>5. Grows(AgentEnds(d), d)
  BY LegNumbers DEF Grows, Tell, Arm, Disarm, AgentEnds, Coordinator
<1>6. Grows(EndPeerOfCaller(d, verb), d)
  BY DEF Grows, Tell, Arm, EndPeerOfCaller, Coordinator
<1> QED BY <1>1, <1>2, <1>3, <1>4, <1>5, <1>6

\* What ends a call
LEMMA EndsGrow ==
  ASSUME NEW d \in Coordinator, current \in Leg, NEW l, NEW peer \in BOOLEAN, NEW originate \in BOOLEAN
  PROVE  /\ Grows(Cancelled(d), d) /\ Grows(Disconnected(d, l), d) /\ Grows(DrainCall(d), d)
         /\ Grows(ActionFailed(d, peer, originate), d)
<1>1. Grows(Cancelled(d), d)
  BY SMTT(30), LegNumbers DEF Grows, Tell, Arm, Disarm, EndPeerOfCaller, Cancelled, Coordinator
<1>2. Grows(Disconnected(d, l), d)
  BY SMTT(30), LegNumbers DEF Grows, Tell, Arm, Disarm, EndPeerOfCaller, Disconnected, Coordinator
<1>3. Grows(DrainCall(d), d)
  BY SMTT(30), LegNumbers DEF Grows, Tell, Arm, Disarm, DrainCall, Coordinator
<1>4. Grows(ActionFailed(d, peer, originate), d)
  BY SMTT(30), LegNumbers DEF Grows, Tell, Arm, Disarm, ActionFailed, Coordinator
<1> QED BY <1>1, <1>2, <1>3, <1>4

\* The same of a step: the call is removed only as a terminating one.
GrowStep ==
  /\ \A l \in Leg : c.told[l] \subseteq c'.told[l]
  /\ c'.finish = c.finish \/ Terminating(c')

\* Storing and removing
LEMMA FinishGrows ==
  ASSUME NEW d \in Coordinator, Grows(d, c), NEW how, c' = Finish(d, how)
  PROVE  GrowStep /\ Terminating(c')
  BY DEF Grows, GrowStep, Finish, Terminating, Coordinator

\* complete_processing
LEMMA CommitGrows ==
  ASSUME NEW d \in Coordinator, Grows(d, c), Commit(d)
  PROVE  GrowStep /\ (Terminating(c') \/ (c' = d /\ UNCHANGED aggVars))
<1>1. CASE c' = d /\ UNCHANGED aggVars
  BY <1>1 DEF Grows, GrowStep
<1>2. CASE c' = Finish(d, "settled")
  BY <1>2, FinishGrows
<1> QED BY <1>1, <1>2 DEF Commit

----------------------------------------------------------------------------
(* What a call that is not terminating keeps of its callees *)

\* An attempt's leg is not running, or was told to end.
Quiet(d, a) == leg[a] \notin LiveLeg \/ d.told[a] # {}

\* CalleeStands of a record
Stands(d, a) == (AiCall /\ a = 1) \/ (leg[a] \in {"answered", "ended"} /\ d.told[a] = {})

\* While an answer is prepared or acknowledged, the callee stands and no other
\* is sought; an agent's caller is not answered twice.
AnswerOK(d) ==
  /\ d.answering \/ d.pendingAnswer =>
       Stands(d, current) /\ ~d.retry /\ ~Offering(d) /\ "failed" \notin Sent(current)
  /\ d.pendingAnswer => ~IsAnswered
  /\ d.answering => ~IsAnswered \/ d.transfer

\* The current callee is told to end only when it is given up, no attempt to
\* come was told anything, and the next one is prepared behind a quiet one.
HuntOK(d) ==
  /\ d.told[current] # {} => d.retry \/ Offering(d) \/ (IsAnswered /\ ~d.transfer)
  /\ \A a \in Attempt : a > current => d.told[a] = {}
  /\ Offering(d) => Quiet(d, current)
  /\ d.registration # "rejected"
  /\ AiCall /\ d.registering # 0 => d.transfer

\* Transfers are of answered AI calls; a failed one leaves a quiet leg, one
\* that is being prepared has no timer, and its leg is not the winner's.
TransferOK(d) ==
  /\ d.transfer \/ d.transferFailed => AiCall /\ IsAnswered
  /\ d.transferFailed /\ ~d.transfer => Quiet(d, current)
  /\ d.transfer /\ Offering(d) => "Dial" \notin d.timers /\ "Ring" \notin d.timers
  /\ d.transfer /\ winner = current => Offering(d)
  /\ AiCall /\ ~IsAnswered => current = 1 /\ ~Offering(d)

\* A connected call has a winner that stands, with its bridge.
ConnOK(d) ==
  d.state = "Connected" =>
    IsAnswered /\ Stands(d, winner) /\ bridge[winner] \in {"Planned", "Active"} /\ ~d.retry

\* The jobs whose result would be applied: those of the newest generation
FreshJobs(q, g) == {i \in DOMAIN q : q[i].gen = g /\ q[i].kind # "StartMedia"}

\* No job is of a generation to come, and at most one result would be applied.
QueueOK(q, g) ==
  /\ \A i \in DOMAIN q : q[i].gen <= g
  /\ \A i, k \in FreshJobs(q, g) : i = k

\* The job was asked for by what the record still waits for.
JobOK(d, j) ==
  /\ j.kind = "Answer" => d.answering /\ ~IsAnswered /\ ~d.pendingAnswer
  /\ j.kind = "AiAgentAnswer" => AiCall /\ ~IsAnswered /\ ~d.pendingAnswer
  /\ j.kind = "TransferAnswer" => d.answering /\ d.transfer
  /\ j.kind = "CalleeAttemptOffer" => d.pending = j.seq /\ d.pending # 0 /\ (AiCall => d.transfer)

JobsOK(d) ==
  QueueOK(d.jobs, d.mgen) /\ \A i \in FreshJobs(d.jobs, d.mgen) : JobOK(d, d.jobs[i])

Going(d) == AnswerOK(d) /\ HuntOK(d) /\ TransferOK(d) /\ ConnOK(d) /\ JobsOK(d)

\* Attempts that are still to come have no leg, a leg that reported its answer
\* has answered and one that reported its end has ended; an agent has no leg.
AttemptLegsOK ==
  \A a \in Attempt :
    /\ a > current => leg[a] = "none"
    /\ "answered" \in Sent(a) => leg[a] \in {"answered", "ended"} /\ "failed" \notin Sent(a)
    /\ Sent(a) \cap {"failed", "disconnected"} # {} => leg[a] = "ended"
    /\ "originateFailed" \notin Sent(a)
    /\ AiCall /\ a = 1 => leg[a] = "none" /\ Sent(a) = {}

\* Every earlier callee is quiet, and a removed call is terminating.
PastOK ==
  /\ \A a \in Attempt : a < current => Quiet(c, a)
  /\ c.finish # "no" => Terminating(c)

CalleeInv == CoordInv /\ AttemptLegsOK /\ PastOK /\ (~Terminating(c) => Going(c))

\* Two records agree on what Going reads, but for cancelled timers.
SameGoing(e, d) ==
  /\ e.answering = d.answering /\ e.pendingAnswer = d.pendingAnswer /\ e.told = d.told
  /\ e.retry = d.retry /\ e.pending = d.pending /\ e.registering = d.registering
  /\ e.transfer = d.transfer /\ e.transferFailed = d.transferFailed
  /\ e.registration = d.registration /\ e.state = d.state
  /\ e.timers \cap {"Dial", "Ring"} \subseteq d.timers

\* Going speaks of nothing else.
LEMMA SameGoingOK ==
  ASSUME NEW d, NEW e, Going(d), SameGoing(e, d), e.jobs = d.jobs, e.mgen = d.mgen
  PROVE  Going(e)
<1>1. \A a : (Quiet(e, a) <=> Quiet(d, a)) /\ (Stands(e, a) <=> Stands(d, a))
  BY DEF Quiet, Stands, SameGoing
<1>2. Offering(e) <=> Offering(d)
  BY DEF Offering, SameGoing
<1>3. AnswerOK(e)
  BY <1>1, <1>2 DEF AnswerOK, Going, SameGoing
<1>4. HuntOK(e)
  BY <1>1, <1>2 DEF HuntOK, Going, SameGoing
<1>5. TransferOK(e)
  BY <1>1, <1>2 DEF TransferOK, Going, SameGoing
<1>6. ConnOK(e)
  BY <1>1, <1>2 DEF ConnOK, Going, SameGoing
<1>7. \A j : JobOK(d, j) => JobOK(e, j)
  BY DEF JobOK, SameGoing
<1>8. JobsOK(e)
  BY <1>7 DEF JobsOK, Going
<1> QED BY <1>3, <1>4, <1>5, <1>6, <1>8 DEF Going

\* The other conjuncts do not read the jobs.
LEMMA OtherJobs ==
  ASSUME NEW d, NEW e, Going(d), SameGoing(e, d), JobsOK(e)
  PROVE  Going(e)
<1>1. \A a : (Quiet(e, a) <=> Quiet(d, a)) /\ (Stands(e, a) <=> Stands(d, a))
  BY DEF Quiet, Stands, SameGoing
<1>2. Offering(e) <=> Offering(d)
  BY DEF Offering, SameGoing
<1>3. AnswerOK(e)
  BY <1>1, <1>2 DEF AnswerOK, Going, SameGoing
<1>4. HuntOK(e)
  BY <1>1, <1>2 DEF HuntOK, Going, SameGoing
<1>5. TransferOK(e)
  BY <1>1, <1>2 DEF TransferOK, Going, SameGoing
<1>6. ConnOK(e)
  BY <1>1, <1>2 DEF ConnOK, Going, SameGoing
<1> QED BY <1>3, <1>4, <1>5, <1>6 DEF Going

\* A record that is stored is read with the same legs and topology, but for a
\* bridge that carries media.
LEMMA StoreGoing ==
  ASSUME Going(c'), UNCHANGED <<leg, current, winner>>, current \in Leg,
         UNCHANGED bridge \/ bridge'[winner] = "Active",
         \A m \in Leg : Sent(m)' \subseteq Sent(m)
  PROVE  Going(c)'
<1>0. Sent(current)' \subseteq Sent(current)
  BY DEF Sent
<1>1. \A a : (Quiet(c, a)' <=> Quiet(c', a)) /\ (Stands(c, a)' <=> Stands(c', a))
  BY DEF Quiet, Stands
<1>2. Offering(c)' <=> Offering(c')
  BY DEF Offering
<1>3. IsAnswered' <=> IsAnswered
  BY DEF IsAnswered
<1>4. AnswerOK(c)'
  BY <1>0, <1>1, <1>2, <1>3 DEF AnswerOK, Going
<1>5. HuntOK(c)'
  BY <1>1, <1>2, <1>3 DEF HuntOK, Going
<1>6. TransferOK(c)'
  BY <1>1, <1>2, <1>3 DEF TransferOK, Going
<1>7. ConnOK(c)'
  BY <1>1, <1>2, <1>3 DEF ConnOK, Going
<1>8. JobsOK(c)'
  BY <1>3 DEF JobsOK, JobOK, QueueOK, FreshJobs, Going
<1> QED BY <1>4, <1>5, <1>6, <1>7, <1>8 DEF Going

----------------------------------------------------------------------------
(* The queue of media jobs *)

\* The first job is taken off.
LEMMA QueueTail ==
  ASSUME NEW q \in Seq(Jobs), NEW g \in Nat, QueueOK(q, g), q # <<>>
  PROVE  /\ QueueOK(Tail(q), g)
         /\ \A i \in FreshJobs(Tail(q), g) : i + 1 \in FreshJobs(q, g) /\ Tail(q)[i] = q[i + 1]
         /\ Head(q).gen = g /\ Head(q).kind # "StartMedia" => 1 \in FreshJobs(q, g) /\ FreshJobs(Tail(q), g) = {}
<1>1. /\ 1 \in DOMAIN q /\ q[1] = Head(q)
      /\ \A i \in DOMAIN Tail(q) : i \in Nat /\ i # 0 /\ i + 1 \in DOMAIN q /\ Tail(q)[i] = q[i + 1]
  OBVIOUS
<1>2. \A i \in FreshJobs(Tail(q), g) : i \in Nat /\ i # 0 /\ i + 1 \in FreshJobs(q, g) /\ Tail(q)[i] = q[i + 1]
  BY <1>1 DEF FreshJobs
<1>3. \A i \in DOMAIN Tail(q) : Tail(q)[i].gen <= g
  BY <1>1 DEF QueueOK
<1>4. \A i, k \in FreshJobs(Tail(q), g) : i = k
  <2> SUFFICES ASSUME NEW i \in FreshJobs(Tail(q), g), NEW k \in FreshJobs(Tail(q), g) PROVE i = k
    OBVIOUS
  <2>1. i + 1 = k + 1 /\ i \in Nat /\ k \in Nat
    BY <1>2 DEF QueueOK
  <2> QED BY <2>1
<1>5. ASSUME Head(q).gen = g, Head(q).kind # "StartMedia"
      PROVE  1 \in FreshJobs(q, g) /\ FreshJobs(Tail(q), g) = {}
  <2>1. 1 \in FreshJobs(q, g)
    BY <1>1, <1>5 DEF FreshJobs
  <2>2. ASSUME NEW i \in FreshJobs(Tail(q), g) PROVE FALSE
    <3>1. i + 1 = 1 /\ i \in Nat /\ i # 0
      BY <1>2, <2>1 DEF QueueOK
    <3> QED BY <3>1
  <2> QED BY <2>1, <2>2
<1> QED BY <1>2, <1>3, <1>4, <1>5 DEF QueueOK

\* A job of a new generation is the only fresh one.
LEMMA QueueNext ==
  ASSUME NEW q \in Seq(Jobs), NEW g \in Nat, QueueOK(q, g), NEW j \in Jobs, j.gen = g + 1
  PROVE  /\ QueueOK(Append(q, j), g + 1)
         /\ \A i \in FreshJobs(Append(q, j), g + 1) : Append(q, j)[i] = j
<1>1. \A i \in DOMAIN Append(q, j) :
        \/ i = Len(q) + 1 /\ Append(q, j)[i] = j
        \/ i \in DOMAIN q /\ Append(q, j)[i] = q[i]
  OBVIOUS
<1>2. \A i \in DOMAIN q : q[i].gen \in Nat /\ q[i].gen <= g
  <2>1. \A i \in DOMAIN q : q[i] \in Jobs
    OBVIOUS
  <2> QED BY <2>1 DEF QueueOK, Jobs
<1>3. \A i \in DOMAIN q : q[i].gen # g + 1 /\ q[i].gen <= g + 1
  BY <1>2
<1>4. \A i \in FreshJobs(Append(q, j), g + 1) : i = Len(q) + 1 /\ Append(q, j)[i] = j
  BY <1>1, <1>3 DEF FreshJobs
<1>5. \A i \in DOMAIN Append(q, j) : Append(q, j)[i].gen <= g + 1
  BY <1>1, <1>3
<1> QED BY <1>4, <1>5 DEF QueueOK

\* A new generation alone leaves no job fresh.
LEMMA QueueStale ==
  ASSUME NEW q \in Seq(Jobs), NEW g \in Nat, QueueOK(q, g)
  PROVE  QueueOK(q, g + 1) /\ FreshJobs(q, g + 1) = {}
<1>1. \A i \in DOMAIN q : q[i].gen \in Nat /\ q[i].gen <= g
  <2>1. \A i \in DOMAIN q : q[i] \in Jobs
    OBVIOUS
  <2> QED BY <2>1 DEF QueueOK, Jobs
<1>2. \A i \in DOMAIN q : q[i].gen # g + 1 /\ q[i].gen <= g + 1
  BY <1>1
<1> QED BY <1>2 DEF QueueOK, FreshJobs

\* The request to start the media has no result to apply.
LEMMA QueueStart ==
  ASSUME NEW q \in Seq(Jobs), NEW g \in Nat, QueueOK(q, g)
  PROVE  LET r == Append(q, Job("StartMedia", g, 0, FALSE))
         IN  /\ QueueOK(r, g)
             /\ \A i \in FreshJobs(r, g) : i \in FreshJobs(q, g) /\ r[i] = q[i]
<1> DEFINE j == Job("StartMedia", g, 0, FALSE)
           r == Append(q, j)
<1>1. j.kind = "StartMedia" /\ j.gen = g /\ j \in Jobs
  BY DEF Job, Jobs
<1> HIDE DEF j
<1>2. \A i \in DOMAIN r : r[i] = j \/ (i \in DOMAIN q /\ r[i] = q[i])
  BY <1>1
<1> HIDE DEF r
<1>3. \A i \in FreshJobs(r, g) : i \in FreshJobs(q, g) /\ r[i] = q[i]
  BY <1>1, <1>2 DEF FreshJobs
<1>4. \A i \in DOMAIN r : r[i].gen <= g
  BY <1>1, <1>2 DEF QueueOK
<1>5. QueueOK(r, g)
  BY <1>3, <1>4 DEF QueueOK
<1> QED BY <1>3, <1>5 DEF r, j

----------------------------------------------------------------------------
(* No handler takes back what a leg was told *)

\* What the lemmas below use of the coordinator's invariant
LEMMA GrowNow ==
  ASSUME CoordInv
  PROVE  c \in Coordinator /\ Grows(c, c) /\ current \in Leg /\ current \in Attempt /\ Caller \in Leg
  BY LegNumbers DEF Grows, CoordInv, TypeOK, AggInv, AggTypeOK

\* begin_next_attempt
LEMMA BeginNextGrows ==
  ASSUME NEW d \in Coordinator, Grows(d, c), BeginNextAttempt(d)
  PROVE  GrowStep
<1>1. CASE c' = Finish(d, "error")
  BY <1>1, FinishGrows
<1>2. CASE c' = OfferNext([d EXCEPT !.remaining = @ - 1])
  BY <1>2 DEF Grows, GrowStep, OfferNext, Prepare, Coordinator
<1> QED BY <1>1, <1>2 DEF BeginNextAttempt

\* retry_after_cleanup is taken.
LEMMA ResumeHuntGrows ==
  ASSUME NEW d \in Coordinator, Grows(d, c), current \in Leg, NEW budget, ResumeHunt(d, budget)
  PROVE  GrowStep
<1> DEFINE f == [d EXCEPT !.retry = FALSE, !.calleeDone = TRUE]
           e == [f EXCEPT !.timers = @ \ {"Cleanup"}]
<1>1. f \in Coordinator
  BY SetRetry, SetCalleeDone
<1> HIDE DEF f
<1>2. e \in Coordinator
  <2>1. f.timers \ {"Cleanup"} \in SUBSET Timers
    BY <1>1, Fields
  <2> QED BY <1>1, <2>1, SetTimers
<1>3. Grows(e, d)
  BY <1>1 DEF Grows, f, Coordinator
<1>4. IF MayBeginNext(e, budget) THEN BeginNextAttempt(e) ELSE Commit(TerminateRetry(e))
  BY DEF ResumeHunt, e, f
<1> HIDE DEF e
<1>5. Grows(e, c)
  BY <1>3, GrowsTrans
<1>6. TerminateRetry(e) \in Coordinator
  BY <1>2, Names, LegNumbers, SetState, SetCalleeDone, TellOK, ArmOK DEF TerminateRetry
<1>7. Grows(TerminateRetry(e), c)
  BY <1>2, <1>5, Names, HelpersGrow, GrowsTrans
<1> QED BY <1>2, <1>4, <1>5, <1>6, <1>7, BeginNextGrows, CommitGrows

\* The messages of the callee
LEMMA CalleeMessageGrows ==
  ASSUME CoordInv, NEW a \in Attempt, NEW sdp \in BOOLEAN, NEW budget \in BOOLEAN, NEW retryable \in BOOLEAN,
         \/ HandleProvisional(a, sdp) \/ HandleAnswered(a, sdp, budget)
         \/ HandleFailed(a, retryable, budget) \/ HandleCalleeDisconnected(a, budget)
  PROVE  GrowStep /\ UNCHANGED current
<1>1. /\ c \in Coordinator /\ Grows(c, c) /\ current \in Leg /\ current \in Attempt /\ c.finish = "no"
      /\ a = current /\ Caller \in Leg
  BY GrowNow DEF HandleProvisional, HandleAnswered, HandleFailed, HandleCalleeDisconnected, Receive
<1>c. UNCHANGED current
  BY DEF HandleProvisional, HandleAnswered, HandleFailed, HandleCalleeDisconnected, Commit, ResumeHunt,
         BeginNextAttempt, FailAttempt, FailAttemptRefused, ReleaseTopology, aggVars
<1>r. Ready(c)
  BY <1>1, ReadyNow
<1> DEFINE d == Disarm(c, {"Dial"})
<1>2. d \in Coordinator /\ Grows(d, c) /\ Ready(d)
  BY <1>1, <1>r, DisarmOK, SmallGrows, DisarmReady
<1>3. CASE HandleProvisional(a, sdp)
  BY <1>1, <1>c, <1>3 DEF HandleProvisional, GrowStep, Prepare, Arm, Disarm, Coordinator
<1> HIDE DEF d
<1>4. CASE HandleAnswered(a, sdp, budget)
  <2> DEFINE e == [d EXCEPT !.lateSent = TRUE]
             f == [d EXCEPT !.answering = TRUE]
             k == IF c.transfer THEN "TransferAnswer" ELSE "Answer"
  <2>1. Tell(d, a, "Hangup") \in Coordinator /\ Grows(Tell(d, a, "Hangup"), c)
    BY <1>1, <1>2, Names, TellOK, TellGrows, GrowsTrans
  <2>2. e \in Coordinator /\ f \in Coordinator
    BY <1>2, SetLateSent, SetAnswering
  <2>3. Grows(e, d) /\ Grows(f, d)
    BY <1>2 DEF Grows, Coordinator
  <2> HIDE DEF e, f
  <2>4. Tell(e, a, "Hangup") \in Coordinator /\ Grows(Tell(e, a, "Hangup"), c)
    BY <1>1, <1>2, <2>2, <2>3, Names, TellOK, TellGrows, GrowsTrans
  <2>5. Prepare(f, k, 0, FALSE) \in Coordinator /\ Grows(Prepare(f, k, 0, FALSE), c)
    BY <1>2, <2>2, <2>3, PrepareOK, SmallGrows, GrowsTrans
  <2>6. FailMedia(d, "Hangup") \in Coordinator /\ Grows(FailMedia(d, "Hangup"), c)
    BY <1>1, <1>2, Names, FailMediaOK, HelpersGrow, GrowsTrans DEF Ready
  <2>7. CASE c.retry
    BY <1>1, <1>c, <1>4, <2>1, <2>7, ResumeHuntGrows DEF HandleAnswered, d
  <2>8. CASE ~c.retry
    <3>1. PICK g \in {d, Tell(e, a, "Hangup"), FailMedia(d, "Hangup"), Prepare(f, k, 0, FALSE)} : Commit(g)
      BY <1>4, <2>8 DEF HandleAnswered, d, e, f
    <3> HIDE DEF k
    <3>2. g \in Coordinator /\ Grows(g, c)
      BY <1>2, <2>4, <2>5, <2>6, <3>1
    <3> QED BY <1>c, <3>1, <3>2, CommitGrows
  <2> QED BY <2>7, <2>8
<1>5. CASE HandleFailed(a, retryable, budget)
  <2> DEFINE e == [d EXCEPT !.calleeDone = TRUE]
             gone == [d EXCEPT !.state = "Terminating", !.calleeDone = TRUE]
             told == Tell(Disarm(gone, {"Ring"}), Caller, "Reject")
  <2>1. e \in Coordinator /\ gone \in Coordinator
    BY <1>2, SetCalleeDone, SetState, Names
  <2>2. Grows(e, d) /\ Grows(gone, d)
    BY <1>2 DEF Grows, Coordinator
  <2> HIDE DEF e, gone
  <2>3. Grows(e, c) /\ Grows(gone, c)
    BY <1>2, <2>2, GrowsTrans
  <2>4. told \in Coordinator /\ Grows(told, gone)
    <3>1. Disarm(gone, {"Ring"}) \in Coordinator /\ Grows(Disarm(gone, {"Ring"}), gone)
      BY <2>1, DisarmOK, SmallGrows
    <3> QED BY <1>1, <3>1, Names, TellOK, TellGrows, GrowsTrans
  <2> HIDE DEF told
  <2>5. Arm(told, "Cleanup") \in Coordinator /\ Grows(Arm(told, "Cleanup"), c)
    BY <1>1, <2>3, <2>4, Names, ArmOK, SmallGrows, GrowsTrans
  <2>6. FailTransfer(d) \in Coordinator /\ Grows(FailTransfer(d), c)
    BY <1>1, <1>2, FailTransferOK, SmallGrows, GrowsTrans DEF Ready
  <2>7. \/ Commit(gone) \/ Commit(FailTransfer(d)) \/ ResumeHunt(d, budget)
        \/ BeginNextAttempt(e) \/ Commit(Arm(told, "Cleanup"))
    BY <1>5 DEF HandleFailed, d, e, gone, told
  <2> QED BY <1>1, <1>2, <1>c, <2>1, <2>3, <2>5, <2>6, <2>7, CommitGrows, ResumeHuntGrows, BeginNextGrows
<1>6. CASE HandleCalleeDisconnected(a, budget)
  <2> DEFINE e == [c EXCEPT !.deferred = a]
  <2>1. e \in Coordinator
    BY <1>1, SetDeferred DEF Attempt
  <2>2. Grows(e, c)
    BY <1>1 DEF Grows, Coordinator
  <2> HIDE DEF e
  <2>3. FailTransfer(c) \in Coordinator /\ Grows(FailTransfer(c), c)
    BY <1>1, <1>r, FailTransferOK, SmallGrows DEF Ready
  <2>4. Disconnected(c, a) \in Coordinator /\ Grows(Disconnected(c, a), c)
    BY <1>1, <1>r, DisconnectedOK, EndsGrow DEF Ready
  <2>5. \/ Commit(e) \/ Commit(c) \/ Commit(FailTransfer(c)) \/ ResumeHunt(c, budget)
        \/ Commit(Disconnected(c, a))
    BY <1>6 DEF HandleCalleeDisconnected, e
  <2> QED BY <1>1, <1>c, <2>1, <2>2, <2>3, <2>4, <2>5, CommitGrows, ResumeHuntGrows
<1> QED BY <1>3, <1>4, <1>5, <1>6

\* The messages of the caller and the results of adapter actions
LEMMA CallerMessageGrows ==
  ASSUME CoordInv, NEW a \in Attempt, NEW budget \in BOOLEAN,
         \/ HandleCancelled \/ HandleCallerDisconnected \/ HandleAnswerNack \/ HandleCallerActionFailed
         \/ HandlePeerActionFailed(a) \/ HandleOriginateFailed(a, budget)
  PROVE  GrowStep /\ UNCHANGED current
<1>1. /\ c \in Coordinator /\ Grows(c, c) /\ current \in Leg /\ current \in Attempt /\ c.finish = "no"
  BY GrowNow DEF HandleCancelled, HandleCallerDisconnected, HandleAnswerNack, HandleCallerActionFailed,
                 HandlePeerActionFailed, HandleOriginateFailed, Receive
<1>2. Ready(c)
  BY <1>1, ReadyNow
<1>3. UNCHANGED current
  BY DEF HandleCancelled, HandleCallerDisconnected, HandleAnswerNack, HandleCallerActionFailed,
         HandlePeerActionFailed, HandleOriginateFailed, Commit, BeginNextAttempt, FailAttempt,
         FailAttemptRefused, ReleaseTopology, aggVars
<1>4. Cancelled(c) \in Coordinator /\ Grows(Cancelled(c), c)
  BY <1>1, <1>2, CancelledOK, EndsGrow DEF Ready
<1>5. Disconnected(c, Caller) \in Coordinator /\ Grows(Disconnected(c, Caller), c)
  BY <1>1, <1>2, DisconnectedOK, EndsGrow DEF Ready
<1>6. ASSUME NEW peer \in BOOLEAN, NEW originate \in BOOLEAN
      PROVE  ActionFailed(c, peer, originate) \in Coordinator /\ Grows(ActionFailed(c, peer, originate), c)
  BY <1>1, <1>2, ActionFailedOK, EndsGrow DEF Ready
<1>7. FailTransfer(c) \in Coordinator /\ Grows(FailTransfer(c), c)
  BY <1>1, <1>2, FailTransferOK, SmallGrows DEF Ready
<1> DEFINE e == [c EXCEPT !.calleeDone = TRUE]
<1>8. e \in Coordinator
  BY <1>1, SetCalleeDone
<1>9. Grows(e, c)
  BY <1>1 DEF Grows, Coordinator
<1> HIDE DEF e
<1>10. \/ \E d \in {Cancelled(c), Disconnected(c, Caller), FailTransfer(c), c} : Commit(d)
       \/ \E peer \in BOOLEAN, originate \in BOOLEAN : Commit(ActionFailed(c, peer, originate))
       \/ BeginNextAttempt(e)
  BY DEF HandleCancelled, HandleCallerDisconnected, HandleAnswerNack, HandleCallerActionFailed,
         HandlePeerActionFailed, HandleOriginateFailed, e
<1> QED BY <1>1, <1>3, <1>4, <1>5, <1>6, <1>7, <1>8, <1>9, <1>10, CommitGrows, BeginNextGrows

\* The acknowledgement of the caller's answer
LEMMA AnswerAckGrows ==
  ASSUME CoordInv, NEW budget \in BOOLEAN, HandleAnswerAck(budget)
  PROVE  GrowStep /\ UNCHANGED current
<1>1. /\ c \in Coordinator /\ Grows(c, c) /\ current \in Leg
  BY GrowNow
<1> DEFINE e == [c EXCEPT !.pendingAnswer = FALSE, !.answering = FALSE]
<1>2. e \in Coordinator
  BY <1>1, SetPendingAnswer, SetAnswering
<1>3. Grows(e, c)
  BY <1>1 DEF Grows, Coordinator
<1> HIDE DEF e
<1>4. CASE ConfirmAnswer(budget)
  <2>1. UNCHANGED current
    BY <1>4 DEF ConfirmAnswer, MarkAnswered, MarkAnsweredThenRefused, MarkAnsweredRefused
  <2>2. Joined \in Coordinator /\ Grows(Joined, c)
    BY <1>1, JoinedFields DEF Grows
  <2>3. Grows(Disconnected(Joined, c.deferred), c)
    BY <1>1, <2>2, EndsGrow, GrowsTrans
  <2>4. Given \in Coordinator
    <3> DEFINE f == [Joined EXCEPT !.retry = FALSE, !.calleeDone = TRUE]
    <3>1. f \in Coordinator
      BY <2>2, SetRetry, SetCalleeDone
    <3> HIDE DEF f
    <3>2. f.timers \ {"Cleanup"} \in SUBSET Timers
      BY <3>1, Fields
    <3> QED BY <3>1, <3>2, SetTimers DEF f, Given
  <2>5. Grows(Given, Joined)
    BY <2>2 DEF Grows, Given, Coordinator
  <2>6. Grows(Given, c)
    BY <2>2, <2>5, GrowsTrans
  <2>7. Grows(TerminateRetry(Given), c)
    BY <1>1, <2>4, <2>6, Names, HelpersGrow, GrowsTrans
  <2>8. \/ c' \in {Disconnected(Joined, c.deferred), Joined, TerminateRetry(Given)}
        \/ c' = Finish(Given, "error") \/ c' = Finish(c, "error")
    BY <1>4, ConfirmCases
  <2> QED BY <1>1, <2>1, <2>2, <2>3, <2>4, <2>6, <2>7, <2>8, FinishGrows DEF Grows, GrowStep
<1>5. CASE ~ConfirmAnswer(budget)
  <2>1. Commit(c) \/ Commit(e)
    BY <1>5 DEF HandleAnswerAck, e
  <2> QED BY <1>1, <1>2, <1>3, <2>1, CommitGrows DEF Commit, ReleaseTopology, aggVars
<1> QED BY <1>4, <1>5

\* The results of the media worker
LEMMA MediaGrows ==
  ASSUME CoordInv, MediaMessage
  PROVE  GrowStep /\ UNCHANGED current
<1>1. /\ c \in Coordinator /\ Grows(c, c) /\ current \in Leg /\ current \in Attempt
      /\ c.finish = "no" /\ c.jobs # <<>>
  BY GrowNow DEF MediaMessage, IgnoreMedia, MediaFailed, ProvisionalPrepared,
     AnswerPrepared, TransferAnswerPrepared, OfferPrepared, MediaStarted, MediaResult
<1>2. UNCHANGED current
  BY DEF MediaMessage, IgnoreMedia, MediaFailed, ProvisionalPrepared, AnswerPrepared,
         TransferAnswerPrepared, OfferPrepared, MediaStarted, Commit, ReleaseTopology, aggVars,
         MarkTransferAnswered, MarkTransferAnsweredRefused, ActivateBridge, ActivateBridgeRefused
<1> DEFINE d == Done(c)
<1>3. d \in Coordinator /\ Grows(d, c) /\ Ready(d)
  BY <1>1, DoneReady, SmallGrows
<1> HIDE DEF d
<1>4. CASE IgnoreMedia \/ MediaFailed \/ ProvisionalPrepared
  <2>1. PICK verb \in Verbs : Commit(d) \/ Commit(FailMedia(d, verb)) \/ Commit(Arm(d, "Ring"))
    BY <1>4, Names DEF IgnoreMedia, MediaFailed, ProvisionalPrepared, d
  <2>2. FailMedia(d, verb) \in Coordinator /\ Grows(FailMedia(d, verb), c)
    BY <1>1, <1>3, FailMediaOK, HelpersGrow, GrowsTrans DEF Ready
  <2>3. Arm(d, "Ring") \in Coordinator /\ Grows(Arm(d, "Ring"), c)
    BY <1>3, Names, ArmOK, SmallGrows, GrowsTrans
  <2> QED BY <1>2, <1>3, <2>1, <2>2, <2>3, CommitGrows
<1>5. CASE AnswerPrepared
  <2> DEFINE e == [d EXCEPT !.state = "Answering", !.pendingAnswer = TRUE, !.answerGen = c.agen]
  <2>1. e \in Coordinator
    BY <1>1, <1>3, Names, SetState, SetPendingAnswer, SetAnswerGen, Fields
  <2>2. Grows(e, d)
    BY <1>3 DEF Grows, Coordinator
  <2>3. Commit(e)
    BY <1>5 DEF AnswerPrepared, d
  <2> HIDE DEF e
  <2> QED BY <1>2, <1>3, <2>1, <2>2, <2>3, GrowsTrans, CommitGrows
<1>6. CASE TransferAnswerPrepared
  <2>1. CASE c' = [d EXCEPT !.state = "Connected", !.answering = FALSE, !.calleeDone = FALSE,
                   !.transfer = FALSE, !.transferFailed = FALSE,
                   !.jobs = Append(@, Job("StartMedia", c.mgen, 0, FALSE))]
    BY <1>2, <1>3, <2>1 DEF Grows, GrowStep, Coordinator
  <2>2. CASE c' = Finish(c, "error")
    BY <1>1, <1>2, <2>2, FinishGrows
  <2> QED BY <1>6, <2>1, <2>2 DEF TransferAnswerPrepared, d
<1>7. ASSUME NEW result \in {"prepared", "failed", "refused"}, OfferPrepared(result)
      PROVE  GrowStep
  <2> DEFINE taken == [d EXCEPT !.pending = 0]
             bumped == [taken EXCEPT !.agen = @ + 1]
             asked == [bumped EXCEPT !.registering = c.pending, !.registration = "queued"]
  <2>1. taken \in Coordinator
    BY <1>3, SetPending
  <2>2. Grows(taken, d)
    BY <1>3 DEF Grows, Coordinator
  <2> HIDE DEF taken
  <2>3. bumped \in Coordinator
    <3>1. taken.agen + 1 \in Nat
      BY <2>1, Fields
    <3> QED BY <2>1, <3>1, SetAgen
  <2>4. Grows(bumped, taken)
    BY <2>1 DEF Grows, Coordinator
  <2> HIDE DEF bumped
  <2>5. asked \in Coordinator
    <3>1. c.pending \in Nat
      BY <1>1, Fields
    <3> QED BY <2>3, <3>1, SetRegistering, SetRegistration
  <2>6. Grows(asked, bumped)
    BY <2>3 DEF Grows, Coordinator
  <2> HIDE DEF asked
  <2>7. Grows(taken, c) /\ Grows(bumped, c) /\ Grows(asked, c)
    BY <1>3, <2>2, <2>4, <2>6, GrowsTrans
  <2>8. ASSUME NEW e \in {taken, bumped}
        PROVE  /\ TerminateRetry(e) \in Coordinator /\ Grows(TerminateRetry(e), c)
               /\ FailTransfer(e) \in Coordinator /\ Grows(FailTransfer(e), c)
    <3>1. e \in Coordinator /\ Grows(e, c)
      BY <2>1, <2>3, <2>7, <2>8
    <3>2. TerminateRetry(e) \in Coordinator
      BY <3>1, Names, LegNumbers, SetState, SetCalleeDone, TellOK, ArmOK DEF TerminateRetry
    <3>3. FailTransfer(e) \in Coordinator
      BY <3>1, SetTransfer, SetTransferFailed, SetCalleeDone, DisarmOK DEF FailTransfer
    <3>4. Grows(TerminateRetry(e), c) /\ Grows(FailTransfer(e), c)
      BY <1>1, <3>1, Names, HelpersGrow, SmallGrows, GrowsTrans
    <3> QED BY <3>2, <3>3, <3>4
  <2>9. \/ Commit(taken) \/ Commit(asked)
        \/ \E e \in {taken, bumped} : Commit(TerminateRetry(e)) \/ Commit(FailTransfer(e))
    BY <1>7 DEF OfferPrepared, taken, bumped, asked, d
  <2> QED BY <2>1, <2>5, <2>7, <2>8, <2>9, CommitGrows
<1>8. CASE MediaStarted
  <2>1. Commit(d) \/ c' = d \/ c' = Finish(c, "error")
    BY <1>8 DEF MediaStarted, d
  <2> QED BY <1>1, <1>2, <1>3, <2>1, CommitGrows, FinishGrows DEF Grows, GrowStep
<1> QED BY <1>2, <1>4, <1>5, <1>6, <1>7, <1>8 DEF MediaMessage

\* Registration: only here does the current attempt change.
LEMMA RegistrationGrows ==
  ASSUME CoordInv, RegistrationMessage \/ Registrar
  PROVE  GrowStep
<1>1. c \in Coordinator /\ Grows(c, c) /\ current \in Leg
  BY GrowNow
<1>2. Registered(c) \in Coordinator /\ Grows(Registered(c), c)
  BY <1>1, SetRegistering, SetRegistration, SmallGrows DEF Registered
<1>3. CASE Registrar
  BY <1>1, <1>3 DEF Registrar, Register, RefuseRegistration, GrowStep, Coordinator
<1>4. CASE c' = Arm([Registered(c) EXCEPT !.calleeDone = FALSE, !.lateSent = FALSE], "Dial")
  BY <1>1, <1>4 DEF GrowStep, Arm, Registered, Coordinator
<1>5. TerminateRetry(Registered(c)) \in Coordinator /\ FailTransfer(Registered(c)) \in Coordinator
  BY <1>2, Names, LegNumbers, SetState, SetCalleeDone, TellOK, ArmOK, SetTransfer, SetTransferFailed, DisarmOK
     DEF TerminateRetry, FailTransfer
<1>6. Grows(TerminateRetry(Registered(c)), c) /\ Grows(FailTransfer(Registered(c)), c)
  BY <1>1, <1>2, Names, HelpersGrow, SmallGrows, GrowsTrans
<1>7. CASE RegistrationMessage
  <2>1. \/ c' = Arm([Registered(c) EXCEPT !.calleeDone = FALSE, !.lateSent = FALSE], "Dial")
        \/ Commit(Registered(c)) \/ Commit(TerminateRetry(Registered(c)))
        \/ Commit(FailTransfer(Registered(c)))
    BY <1>7 DEF RegistrationMessage, AttemptRegistered, AttemptRejected
  <2> QED BY <1>2, <1>4, <1>5, <1>6, <2>1, CommitGrows
<1> QED BY <1>3, <1>7

\* Timers
LEMMA TimerGrows ==
  ASSUME CoordInv, TimerExpiry
  PROVE  GrowStep /\ UNCHANGED current
<1>1. c \in Coordinator /\ Grows(c, c) /\ current \in Leg /\ Caller \in Leg
  BY GrowNow
<1>2. UNCHANGED current
  BY DEF TimerExpiry, SetupTimerExpires, CleanupExpires, Commit, ResumeHunt, BeginNextAttempt, FailAttempt,
         FailAttemptRefused, ReleaseTopology, aggVars
<1>3. ASSUME NEW k \in {"Dial", "Ring"}, NEW budget \in BOOLEAN, SetupTimerExpires(k, budget)
      PROVE  GrowStep
  <2> DEFINE d == Disarm(c, {k})
             e == Tell(d, current, "Cancel")
  <2>1. d \in Coordinator /\ Grows(d, c)
    BY <1>1, DisarmOK, SmallGrows
  <2> HIDE DEF d
  <2>2. e \in Coordinator /\ Grows(e, c)
    BY <1>1, <2>1, Names, TellOK, TellGrows, GrowsTrans
  <2> HIDE DEF e
  <2>3. FailTransfer(e) \in Coordinator /\ Grows(FailTransfer(e), c)
    <3>1. FailTransfer(e) \in Coordinator
      BY <2>2, SetTransfer, SetTransferFailed, SetCalleeDone, DisarmOK DEF FailTransfer
    <3> QED BY <2>2, <3>1, SmallGrows, GrowsTrans
  <2>4. WaitForRetry(d) \in Coordinator
    BY <1>1, <2>1, Names, DisarmOK, SetRetry, TellOK, ArmOK DEF WaitForRetry
  <2>5. TimerTerminates(d) \in Coordinator
    BY <1>1, <2>1, Names, LegNumbers, SetState, TellOK, ArmOK DEF TimerTerminates
  <2>6. Grows(WaitForRetry(d), c) /\ Grows(TimerTerminates(d), c)
    BY <1>1, <2>1, Names, HelpersGrow, GrowsTrans
  <2>7. Commit(d) \/ Commit(FailTransfer(e)) \/ Commit(WaitForRetry(d)) \/ Commit(TimerTerminates(d))
    BY <1>3 DEF SetupTimerExpires, d, e
  <2> QED BY <2>1, <2>3, <2>4, <2>5, <2>6, <2>7, CommitGrows
<1>4. ASSUME NEW budget \in BOOLEAN, CleanupExpires(budget) PROVE GrowStep
  <2> DEFINE d == Disarm(c, {"Cleanup"})
             caller == IF d.callerDone THEN d ELSE Tell(d, Caller, "Hangup")
             both == IF d.calleeDone THEN caller ELSE Tell(caller, current, "Hangup")
  <2>1. d \in Coordinator /\ Grows(d, c)
    BY <1>1, DisarmOK, SmallGrows
  <2> HIDE DEF d
  <2>2. Tell(d, current, "Hangup") \in Coordinator /\ Grows(Tell(d, current, "Hangup"), c)
    BY <1>1, <2>1, Names, TellOK, TellGrows, GrowsTrans
  <2>3. caller \in Coordinator /\ Grows(caller, c)
    BY <1>1, <2>1, Names, TellOK, TellGrows, GrowsTrans
  <2> HIDE DEF caller
  <2>4. both \in Coordinator /\ Grows(both, c)
    BY <1>1, <2>3, Names, TellOK, TellGrows, GrowsTrans
  <2> HIDE DEF both
  <2>5. \/ ResumeHunt(Tell(d, current, "Hangup"), budget) \/ Commit(d) \/ c' = Finish(both, "timeout")
    BY <1>4 DEF CleanupExpires, ForcedRemoval, d, caller, both
  <2> QED BY <1>1, <2>1, <2>2, <2>4, <2>5, CommitGrows, ResumeHuntGrows, FinishGrows
<1> QED BY <1>2, <1>3, <1>4 DEF TimerExpiry

\* The agent, the drain and the removal
LEMMA EndGrows ==
  ASSUME CoordInv, Agent \/ BeginShutdown \/ SubmissionRefused \/ ForceCleanup \/ CallFinalized
  PROVE  GrowStep /\ UNCHANGED current
<1>1. c \in Coordinator /\ Grows(c, c) /\ current \in Leg /\ current \in Attempt /\ HuntBudget(c, current)
  BY GrowNow DEF CoordInv
<1>2. UNCHANGED current
  BY DEF Agent, AgentEndsCall, AgentEndRefused, AgentTransfers, AgentTransferRefused, BeginShutdown,
         SubmissionRefused, ForceCleanup, CallFinalized, Commit, ReleaseTopology, aggVars
<1>3. CASE AgentEndsCall
  <2>1. AgentEnds(c) \in Coordinator
    BY <1>1, Names, LegNumbers, SetState, SetCalleeDone, DisarmOK, TellOK, ArmOK DEF AgentEnds
  <2> QED BY <1>1, <1>2, <1>3, <2>1, Names, HelpersGrow, CommitGrows DEF AgentEndsCall
<1>4. CASE AgentEndRefused
  <2> DEFINE d == Disarm(c, {"Dial", "Ring"})
             e == [d EXCEPT !.state = "Terminating", !.calleeDone = TRUE]
  <2>1. d \in Coordinator /\ Grows(d, c)
    BY <1>1, DisarmOK, SmallGrows
  <2>2. Commit(e)
    BY <1>4 DEF AgentEndRefused
  <2> HIDE DEF d
  <2>3. e \in Coordinator
    BY <2>1, Names, SetState, SetCalleeDone
  <2>4. Grows(e, d)
    BY <2>1 DEF Grows, Coordinator
  <2> HIDE DEF e
  <2> QED BY <1>2, <2>1, <2>2, <2>3, <2>4, GrowsTrans, CommitGrows
<1>5. ASSUME NEW d \in Coordinator, Grows(d, c)
      PROVE  FailTransfer(d) \in Coordinator /\ Grows(FailTransfer(d), c)
  <2>1. FailTransfer(d) \in Coordinator
    BY <1>5, SetTransfer, SetTransferFailed, SetCalleeDone, DisarmOK DEF FailTransfer
  <2> QED BY <1>5, <2>1, SmallGrows, GrowsTrans
<1>6. ASSUME NEW d \in Coordinator, Grows(d, c), current < MaxAttempts
      PROVE  OfferNext(d) \in Coordinator /\ Grows(OfferNext(d), c)
  <2>1. current + 1 \in Attempt /\ current + 1 \in Nat
    BY <1>1, <1>6, MaxAttemptsAssumption DEF Attempt
  <2>2. [d EXCEPT !.timers = {}, !.pending = current + 1] \in Coordinator
    BY <1>6, <2>1, SetTimers, SetPending
  <2>3. OfferNext(d) \in Coordinator
    BY <2>1, <2>2, PrepareOK DEF OfferNext
  <2> QED BY <1>6, <2>3, SmallGrows, GrowsTrans
<1>7. CASE AgentTransfers
  <2> DEFINE d == [c EXCEPT !.transfer = TRUE]
  <2>1. d \in Coordinator
    BY <1>1, SetTransfer
  <2>2. Grows(d, c)
    BY <1>1 DEF Grows, Coordinator
  <2>3. (Commit(FailTransfer(d)) \/ Commit(OfferNext(d))) /\ current < MaxAttempts
    BY <1>7 DEF AgentTransfers
  <2> HIDE DEF d
  <2> QED BY <1>2, <1>5, <1>6, <2>1, <2>2, <2>3, CommitGrows
<1>8. CASE AgentTransferRefused
  <2> DEFINE d == OfferNext(c)
             e == [d EXCEPT !.jobs = c.jobs]
  <2>1. d \in Coordinator /\ Grows(d, c)
    BY <1>1, <1>6, <1>8 DEF AgentTransferRefused
  <2>2. Commit(FailTransfer(e))
    BY <1>8 DEF AgentTransferRefused
  <2> HIDE DEF d
  <2>3. e \in Coordinator
    <3>1. c.jobs \in Seq(Jobs)
      BY <1>1, Fields
    <3> QED BY <2>1, <3>1, SetJobs
  <2>4. Grows(e, d)
    BY <2>1 DEF Grows, Coordinator
  <2> HIDE DEF e
  <2> QED BY <1>2, <1>5, <2>1, <2>2, <2>3, <2>4, GrowsTrans, CommitGrows
<1>9. CASE BeginShutdown
  <2>1. DrainCall(c) \in Coordinator
    BY <1>1, <1>9, ReadyNow, DrainCallOK DEF BeginShutdown, Ready
  <2> QED BY <1>1, <1>2, <1>9, <2>1, EndsGrow, CommitGrows DEF BeginShutdown
<1>10. CASE SubmissionRefused
  BY <1>1, <1>2, <1>10, FinishGrows DEF SubmissionRefused
<1>11. CASE ForceCleanup \/ CallFinalized
  <2>1. c' = [Finish(c, "forced") EXCEPT !.finalized = TRUE] \/ c' = [c EXCEPT !.finalized = TRUE]
    BY <1>11 DEF ForceCleanup, CallFinalized
  <2> QED BY <1>1, <1>2, <2>1 DEF GrowStep, Finish, Terminating, Coordinator
<1> QED BY <1>3, <1>4, <1>7, <1>8, <1>9, <1>10, <1>11 DEF Agent

\* Every step
LEMMA EveryStepGrows ==
  ASSUME CoordInv, [Next]_vars
  PROVE  GrowStep /\ (RegistrationMessage \/ UNCHANGED current)
<1>1. CASE LegMessage
  <2>1. ASSUME NEW a \in Attempt, StaleLegEvent(a) PROVE GrowStep /\ UNCHANGED current
    BY <2>1 DEF StaleLegEvent, GrowStep, aggVars
  <2>2. 1 \in Attempt /\ TRUE \in BOOLEAN
    BY MaxAttemptsAssumption DEF Attempt
  <2> QED BY <1>1, <2>1, <2>2, CalleeMessageGrows, CallerMessageGrows, AnswerAckGrows DEF LegMessage
<1>2. CASE MediaMessage
  BY <1>2, MediaGrows
<1>3. CASE RegistrationMessage
  BY <1>3, RegistrationGrows
<1>4. CASE Registrar
  BY <1>4, RegistrationGrows DEF Registrar, Register, RefuseRegistration, aggVars
<1>5. CASE TimerExpiry
  BY <1>5, TimerGrows
<1>6. CASE Agent \/ BeginShutdown \/ SubmissionRefused \/ ForceCleanup \/ CallFinalized
  BY <1>6, EndGrows
<1>7. CASE AdapterAnswer \/ Legs \/ SystemShutdown \/ CallOver \/ UNCHANGED vars
  <2>1. UNCHANGED <<aggVars, c>>
    BY <1>7 DEF AdapterAnswer, CallerAnswered, CallerAnswerRefused, Legs, CallerCancels, CallerLeaves,
         CalleeRings, CalleeAnswers, CalleeFails, CalleeLeaves, LegStep, LegEndsSilently,
         CalleeActionFails, SystemShutdown, CallOver, vars
  <2> QED BY <2>1 DEF GrowStep, aggVars
<1> QED BY <1>1, <1>2, <1>3, <1>4, <1>5, <1>6, <1>7 DEF Next

----------------------------------------------------------------------------
(* The handlers that do not end the call *)

\* complete_processing stored the record as it is.
LEMMA CommitGoing ==
  ASSUME NEW d \in Coordinator, Commit(d), ~Terminating(c')
  PROVE  c' = d /\ UNCHANGED <<current, winner, bridge>>
<1>1. Terminating(Finish(d, "settled"))
  BY DEF Finish, Terminating, Coordinator
<1> QED BY <1>1 DEF Commit, aggVars

\* Timers
LEMMA TimersGoing ==
  ASSUME NEW d \in Coordinator, Going(d), NEW k, NEW ks
  PROVE  Going(Disarm(d, ks)) /\ (~(d.transfer /\ Offering(d)) => Going(Arm(d, k)))
<1>1. SameGoing(Disarm(d, ks), d) /\ Disarm(d, ks).jobs = d.jobs /\ Disarm(d, ks).mgen = d.mgen
  BY DEF SameGoing, Disarm, Coordinator
<1>2. ASSUME ~(d.transfer /\ Offering(d)) PROVE Going(Arm(d, k))
  <2> DEFINE e == Arm(d, k)
             f == [d EXCEPT !.timers = {}]
  <2>1. /\ e.answering = d.answering /\ e.pendingAnswer = d.pendingAnswer /\ e.told = d.told
        /\ e.retry = d.retry /\ e.pending = d.pending /\ e.registering = d.registering
        /\ e.transfer = d.transfer /\ e.transferFailed = d.transferFailed
        /\ e.registration = d.registration /\ e.state = d.state
        /\ e.jobs = d.jobs /\ e.mgen = d.mgen
    BY DEF Arm, Coordinator
  <2> HIDE DEF e
  <2>2. \A a : (Quiet(e, a) <=> Quiet(d, a)) /\ (Stands(e, a) <=> Stands(d, a))
    BY <2>1 DEF Quiet, Stands
  <2>3. Offering(e) <=> Offering(d)
    BY <2>1 DEF Offering
  <2>4. AnswerOK(e)
    BY <2>1, <2>2, <2>3 DEF AnswerOK, Going
  <2>5. HuntOK(e)
    BY <2>1, <2>2, <2>3 DEF HuntOK, Going
  <2>6. TransferOK(e)
    BY <1>2, <2>1, <2>2, <2>3 DEF TransferOK, Going
  <2>7. ConnOK(e)
    BY <2>1, <2>2, <2>3 DEF ConnOK, Going
  <2>8. JobsOK(e)
    BY <2>1 DEF JobsOK, JobOK, Going
  <2>9. Going(e)
    BY <2>4, <2>5, <2>6, <2>7, <2>8 DEF Going
  <2> QED BY <2>9 DEF e
<1> QED BY <1>1, <1>2, SameGoingOK

\* A new media job that is asked for
LEMMA PrepareGoing ==
  ASSUME NEW d \in Coordinator, Going(d), NEW seq \in Attempt \cup {0}, NEW ring \in BOOLEAN,
         NEW kind \in {"Provisional", "Answer", "AiAgentAnswer", "TransferAnswer",
                       "CalleeAttemptOffer", "StartMedia"},
         JobOK(d, Job(kind, d.mgen + 1, seq, ring))
  PROVE  Going(Prepare(d, kind, seq, ring))
<1> DEFINE e == Prepare(d, kind, seq, ring)
           j == Job(kind, d.mgen + 1, seq, ring)
<1>1. d.mgen \in Nat /\ d.mgen + 1 \in Nat /\ d.jobs \in Seq(Jobs)
  BY Fields
<1>2. j \in Jobs /\ j.gen = d.mgen + 1
  BY <1>1 DEF Job, Jobs
<1>3. SameGoing(e, d) /\ e.jobs = Append(d.jobs, j) /\ e.mgen = d.mgen + 1
  BY DEF SameGoing, Prepare, Coordinator
<1>4. JobOK(d, j)
  OBVIOUS
<1> HIDE DEF e, j
<1>5. QueueOK(d.jobs, d.mgen)
  BY DEF Going, JobsOK
<1>6. /\ QueueOK(e.jobs, e.mgen)
      /\ \A i \in FreshJobs(e.jobs, e.mgen) : e.jobs[i] = j
  <2>1. /\ QueueOK(Append(d.jobs, j), d.mgen + 1)
        /\ \A i \in FreshJobs(Append(d.jobs, j), d.mgen + 1) : Append(d.jobs, j)[i] = j
    BY <1>1, <1>2, <1>5, QueueNext
  <2> QED BY <1>3, <2>1, Zenon
<1>7. JobOK(e, j)
  BY <1>3, <1>4 DEF JobOK, SameGoing
<1>8. JobsOK(e)
  BY <1>6, <1>7 DEF JobsOK
<1>9. Going(e)
  BY <1>3, <1>8, OtherJobs
<1> QED BY <1>9 DEF e

\* Taking a media result: one that would be applied was the only one.
LEMMA DoneGoing ==
  ASSUME NEW d \in Coordinator, Going(d), d.jobs # <<>>
  PROVE  /\ Going(Done(d)) /\ SameGoing(Done(d), d)
         /\ Done(d).timers = d.timers /\ Done(d).mgen = d.mgen /\ Done(d).jobs = Tail(d.jobs)
         /\ Head(d.jobs).gen = d.mgen /\ Head(d.jobs).kind # "StartMedia" =>
              JobOK(d, Head(d.jobs)) /\ FreshJobs(Done(d).jobs, d.mgen) = {}
<1> DEFINE e == Done(d)
<1>1. d.mgen \in Nat /\ d.jobs \in Seq(Jobs) /\ d.jobs[1] = Head(d.jobs)
  <2>1. d.mgen \in Nat /\ d.jobs \in Seq(Jobs)
    BY Fields
  <2> QED BY <2>1
<1>2. SameGoing(e, d) /\ e.jobs = Tail(d.jobs) /\ e.mgen = d.mgen /\ e.timers = d.timers
  BY DEF SameGoing, Done, Coordinator
<1> HIDE DEF e
<1>3. QueueOK(d.jobs, d.mgen) /\ \A i \in FreshJobs(d.jobs, d.mgen) : JobOK(d, d.jobs[i])
  BY DEF Going, JobsOK
<1>4. /\ QueueOK(e.jobs, e.mgen)
      /\ \A i \in FreshJobs(e.jobs, e.mgen) : i + 1 \in FreshJobs(d.jobs, d.mgen) /\ e.jobs[i] = d.jobs[i + 1]
      /\ Head(d.jobs).gen = d.mgen /\ Head(d.jobs).kind # "StartMedia" =>
           1 \in FreshJobs(d.jobs, d.mgen) /\ FreshJobs(e.jobs, d.mgen) = {}
  <2> DEFINE q == d.jobs
             g == d.mgen
             r == Tail(q)
  <2>1. /\ QueueOK(r, g)
        /\ \A i \in FreshJobs(r, g) : i + 1 \in FreshJobs(q, g) /\ r[i] = q[i + 1]
        /\ Head(q).gen = g /\ Head(q).kind # "StartMedia" => 1 \in FreshJobs(q, g) /\ FreshJobs(r, g) = {}
    BY <1>1, <1>3, QueueTail
  <2>2. e.jobs = r /\ e.mgen = g
    BY <1>2
  <2> QED BY <2>1, <2>2, Zenon
<1>5. \A j : JobOK(d, j) => JobOK(e, j)
  BY <1>2 DEF JobOK, SameGoing
<1>6. JobsOK(e)
  BY <1>3, <1>4, <1>5 DEF JobsOK
<1>7. Going(e)
  BY <1>2, <1>6, OtherJobs
<1>8. Head(d.jobs).gen = d.mgen /\ Head(d.jobs).kind # "StartMedia" =>
        JobOK(d, Head(d.jobs)) /\ FreshJobs(e.jobs, d.mgen) = {}
  BY <1>1, <1>3, <1>4
<1> QED BY <1>2, <1>7, <1>8 DEF e

\* fail_ai_transfer, once nothing of the transfer is under way
LEMMA FailTransferGoing ==
  ASSUME NEW d \in Coordinator, AnswerOK(d), ConnOK(d), QueueOK(d.jobs, d.mgen),
         \A a \in Attempt : a > current => d.told[a] = {},
         AiCall, IsAnswered, Quiet(d, current), ~d.answering, d.registering = 0,
         d.registration # "rejected",
         \A i \in FreshJobs(d.jobs, d.mgen) :
           JobOK(d, d.jobs[i]) /\ d.jobs[i].kind # "CalleeAttemptOffer"
  PROVE  Going(FailTransfer(d))
<1> DEFINE e == FailTransfer(d)
<1>1. /\ e.answering = d.answering /\ e.pendingAnswer = d.pendingAnswer /\ e.told = d.told
      /\ e.retry = d.retry /\ e.pending = d.pending /\ e.registering = d.registering
      /\ e.transfer = FALSE /\ e.transferFailed = TRUE
      /\ e.registration = d.registration /\ e.state = d.state
      /\ e.jobs = d.jobs /\ e.mgen = d.mgen
  BY DEF FailTransfer, Disarm, Coordinator
<1> HIDE DEF e
<1>2. \A a : (Quiet(e, a) <=> Quiet(d, a)) /\ (Stands(e, a) <=> Stands(d, a))
  BY <1>1 DEF Quiet, Stands
<1>3. Offering(e) <=> Offering(d)
  BY <1>1 DEF Offering
<1>4. AnswerOK(e)
  BY <1>1, <1>2, <1>3 DEF AnswerOK
<1>5. HuntOK(e)
  BY <1>1, <1>2, <1>3 DEF HuntOK
<1>6. TransferOK(e)
  BY <1>1, <1>2, <1>3 DEF TransferOK
<1>7. ConnOK(e)
  BY <1>1, <1>2, <1>3 DEF ConnOK
<1>8. JobsOK(e)
  BY <1>1 DEF JobsOK, JobOK
<1>9. Going(e)
  BY <1>4, <1>5, <1>6, <1>7, <1>8 DEF Going
<1> QED BY <1>9 DEF e

\* The next attempt is prepared behind a quiet one.
LEMMA OfferNextGoing ==
  ASSUME NEW d \in Coordinator, current \in Attempt, current + 1 \in Attempt,
         ~d.answering, ~d.pendingAnswer, QueueOK(d.jobs, d.mgen),
         Quiet(d, current), \A a \in Attempt : a > current => d.told[a] = {},
         d.registration # "rejected", ConnOK(d),
         AiCall => d.transfer /\ IsAnswered, d.transfer \/ d.transferFailed => AiCall
  PROVE  Going(OfferNext(d))
<1> DEFINE f == [d EXCEPT !.timers = {}, !.pending = current + 1]
           e == Prepare(f, "CalleeAttemptOffer", current + 1, FALSE)
           j == Job("CalleeAttemptOffer", d.mgen + 1, current + 1, FALSE)
<1>1. d.mgen \in Nat /\ d.mgen + 1 \in Nat /\ d.jobs \in Seq(Jobs) /\ current + 1 # 0 /\ current + 1 \in Nat
  BY Fields DEF Attempt
<1>2. j \in Jobs /\ j.gen = d.mgen + 1 /\ j.kind = "CalleeAttemptOffer" /\ j.seq = current + 1
  BY <1>1 DEF Job, Jobs
<1>3. /\ e.answering = d.answering /\ e.pendingAnswer = d.pendingAnswer /\ e.told = d.told
      /\ e.retry = d.retry /\ e.pending = current + 1 /\ e.registering = d.registering
      /\ e.transfer = d.transfer /\ e.transferFailed = d.transferFailed
      /\ e.registration = d.registration /\ e.state = d.state /\ e.timers = {}
      /\ e.jobs = Append(d.jobs, j) /\ e.mgen = d.mgen + 1
  BY DEF Prepare, Coordinator
<1> HIDE DEF e, j
<1>4. \A a : (Quiet(e, a) <=> Quiet(d, a)) /\ (Stands(e, a) <=> Stands(d, a))
  BY <1>3 DEF Quiet, Stands
<1>5. Offering(e)
  BY <1>1, <1>3 DEF Offering
<1>6. AnswerOK(e)
  BY <1>3 DEF AnswerOK
<1>7. HuntOK(e)
  BY <1>3, <1>4, <1>5 DEF HuntOK
<1>8. TransferOK(e)
  BY <1>3, <1>4, <1>5 DEF TransferOK
<1>9. ConnOK(e)
  BY <1>3, <1>4 DEF ConnOK
<1>10. /\ QueueOK(e.jobs, e.mgen)
       /\ \A i \in FreshJobs(e.jobs, e.mgen) : e.jobs[i] = j
  <2>1. /\ QueueOK(Append(d.jobs, j), d.mgen + 1)
        /\ \A i \in FreshJobs(Append(d.jobs, j), d.mgen + 1) : Append(d.jobs, j)[i] = j
    BY <1>1, <1>2, QueueNext
  <2> QED BY <1>3, <2>1, Zenon
<1>11. JobOK(e, j)
  BY <1>1, <1>2, <1>3 DEF JobOK
<1>12. JobsOK(e)
  BY <1>10, <1>11 DEF JobsOK
<1>13. Going(e)
  BY <1>6, <1>7, <1>8, <1>9, <1>12 DEF Going
<1> QED BY <1>13 DEF e, OfferNext

\* No deadline passes while SDP or the answer is under way, a leg that was
\* given up is not heard while its successor is prepared, and no request is
\* refused.
Calm == Races \cap {"TimerDuringMedia", "LateLegEvent", "ActionFailure"} = {}

\* What the handlers' lemmas use of the invariant
LEMMA GoingNow ==
  ASSUME CalleeInv, ~Terminating(c)
  PROVE  /\ c \in Coordinator /\ Going(c) /\ HuntBudget(c, current) /\ Ready(c) /\ c.finish = "no"
         /\ CoordInv /\ AttemptLegsOK /\ PastOK /\ current \in Attempt /\ current \in Leg
         /\ IsAnswered => winner \in Attempt /\ winner <= current
<1>1. CoordInv /\ c.finish = "no" /\ Going(c) /\ AttemptLegsOK /\ PastOK
  BY DEF CalleeInv, PastOK
<1>2. IsAnswered => winner \in Attempt /\ winner <= current
  BY <1>1 DEF CoordInv, AggInv, AggTypeOK, SelectedIsWinner, AttemptsInOrder, Opened, IsAnswered
<1> QED BY <1>1, <1>2, ReadyNow

\* A leg is heard when no other is being prepared.
LEMMA HeardLeg ==
  ASSUME Calm, CalleeInv, ~Terminating(c), NEW kind, Receive(current, kind)
  PROVE  /\ ~Offering(c) /\ kind \in Sent(current) /\ UNCHANGED leg
         /\ \A m \in Leg : Sent(m)' \subseteq Sent(m)
<1>1. current # Caller /\ current \in Leg /\ CoordInv
  BY GoingNow, LegNumbers
<1>2. ~Offering(c)
  BY <1>1 DEF Receive, Timely, Calm, Offering
<1> QED BY <1>1, <1>2, ReceiveSent DEF Receive

\* The next attempt of a hunt whose callee is quiet
LEMMA BeginNextGoing ==
  ASSUME CalleeInv, ~Terminating(c), ~Terminating(c'), ~AiCall, UNCHANGED leg,
         \A m \in Leg : Sent(m)' \subseteq Sent(m),
         NEW d \in Coordinator, d.remaining > 0, HuntBudget(d, current),
         ~d.answering, ~d.pendingAnswer, ~d.transfer, ~d.transferFailed, QueueOK(d.jobs, d.mgen),
         Quiet(d, current), \A a \in Attempt : a > current => d.told[a] = {},
         d.registration # "rejected", d.state # "Connected", BeginNextAttempt(d)
  PROVE  Going(c)'
<1> DEFINE e == [d EXCEPT !.remaining = @ - 1]
<1>1. d.remaining \in Nat /\ d.remaining - 1 \in Nat /\ current \in Attempt /\ current \in Leg
  BY Fields, GoingNow
<1>2. current + 1 \in Attempt
  BY <1>1, MaxAttemptsAssumption DEF HuntBudget, Attempt
<1>3. e \in Coordinator
  BY <1>1, SetRemaining
<1>4. /\ e.answering = d.answering /\ e.pendingAnswer = d.pendingAnswer /\ e.told = d.told
      /\ e.transfer = d.transfer /\ e.transferFailed = d.transferFailed
      /\ e.registration = d.registration /\ e.state = d.state
      /\ e.jobs = d.jobs /\ e.mgen = d.mgen
  BY DEF Coordinator
<1>5. FailAttempt /\ c' = OfferNext(e)
  <2>1. Terminating(Finish(d, "error"))
    BY DEF Finish, Terminating, Coordinator
  <2> QED BY <2>1 DEF BeginNextAttempt
<1> HIDE DEF e
<1>6. Quiet(e, current)
  BY <1>4 DEF Quiet
<1>7. ConnOK(e)
  BY <1>4 DEF ConnOK
<1>8. Going(OfferNext(e))
  BY <1>1, <1>2, <1>3, <1>4, <1>6, <1>7, OfferNextGoing
<1> QED BY <1>1, <1>5, <1>8, StoreGoing DEF FailAttempt

\* retry_after_cleanup is taken when the callee is quiet.
LEMMA ResumeHuntGoing ==
  ASSUME CalleeInv, ~Terminating(c), ~Terminating(c'), UNCHANGED leg, c.retry,
         \A m \in Leg : Sent(m)' \subseteq Sent(m),
         NEW d \in Coordinator, SameGoing([d EXCEPT !.told = c.told], c), d.jobs = c.jobs, d.mgen = c.mgen,
         d.remaining = c.remaining,
         Quiet(d, current), \A a \in Attempt : a > current => d.told[a] = {},
         NEW budget, ResumeHunt(d, budget)
  PROVE  Going(c)'
<1>1. /\ c \in Coordinator /\ Going(c) /\ HuntBudget(c, current) /\ current \in Attempt /\ current \in Leg
  BY GoingNow
<1>2. ~AiCall /\ ~c.answering /\ ~c.pendingAnswer /\ c.state # "Connected"
  BY <1>1 DEF HuntBudget, Going, AnswerOK, ConnOK
<1>3. ~c.transfer /\ ~c.transferFailed /\ c.registration # "rejected" /\ QueueOK(c.jobs, c.mgen)
  BY <1>1, <1>2 DEF Going, TransferOK, HuntOK, JobsOK
<1> DEFINE f == [d EXCEPT !.retry = FALSE, !.calleeDone = TRUE]
           e == [f EXCEPT !.timers = @ \ {"Cleanup"}]
<1>4. f \in Coordinator
  BY SetRetry, SetCalleeDone
<1> HIDE DEF f
<1>5. e \in Coordinator
  <2>1. f.timers \ {"Cleanup"} \in SUBSET Timers
    BY <1>4, Fields
  <2> QED BY <1>4, <2>1, SetTimers
<1>6. /\ e.answering = c.answering /\ e.pendingAnswer = c.pendingAnswer /\ e.told = d.told
      /\ e.pending = c.pending /\ e.registering = c.registering /\ e.remaining = c.remaining
      /\ e.transfer = c.transfer /\ e.transferFailed = c.transferFailed /\ e.retry = FALSE
      /\ e.registration = c.registration /\ e.state = c.state
      /\ e.jobs = c.jobs /\ e.mgen = c.mgen
  BY DEF SameGoing, f, Coordinator
<1>7. IF MayBeginNext(e, budget) THEN BeginNextAttempt(e) ELSE Commit(TerminateRetry(e))
  BY DEF ResumeHunt, e, f
<1> HIDE DEF e
<1>8. HuntBudget(e, current) /\ Quiet(e, current)
  BY <1>1, <1>6 DEF HuntBudget, Quiet
<1>9. MayBeginNext(e, budget)
  <2>1. TerminateRetry(e) \in Coordinator /\ Terminating(TerminateRetry(e))
    BY <1>5, <1>8, TerminateRetryOK DEF Ready
  <2> QED BY <1>7, <2>1, CommitGoing
<1> QED BY <1>2, <1>3, <1>5, <1>6, <1>7, <1>8, <1>9, BeginNextGoing DEF MayBeginNext

\* A handler that stores a record that goes on, or ends the call
LEMMA CommitKeeps ==
  ASSUME CalleeInv, ~Terminating(c), ~Terminating(c'), UNCHANGED leg,
         \A m \in Leg : Sent(m)' \subseteq Sent(m),
         NEW d \in Coordinator, Terminating(d) \/ Going(d), Commit(d)
  PROVE  Going(c)'
<1>1. c' = d /\ UNCHANGED <<current, winner, bridge>>
  BY CommitGoing
<1>2. Going(c')
  BY <1>1
<1> QED BY <1>1, <1>2, GoingNow, StoreGoing

\* Leaving or not entering the connected state
LEMMA SetStateGoing ==
  ASSUME NEW d \in Coordinator, Going(d), NEW v, v # "Connected"
  PROVE  Going([d EXCEPT !.state = v])
<1> DEFINE e == [d EXCEPT !.state = v]
<1>1. /\ e.answering = d.answering /\ e.pendingAnswer = d.pendingAnswer /\ e.told = d.told
      /\ e.retry = d.retry /\ e.pending = d.pending /\ e.registering = d.registering
      /\ e.transfer = d.transfer /\ e.transferFailed = d.transferFailed
      /\ e.registration = d.registration /\ e.state = v /\ e.timers = d.timers
      /\ e.jobs = d.jobs /\ e.mgen = d.mgen
  BY DEF Coordinator
<1> HIDE DEF e
<1>2. \A a : (Quiet(e, a) <=> Quiet(d, a)) /\ (Stands(e, a) <=> Stands(d, a))
  BY <1>1 DEF Quiet, Stands
<1>3. Offering(e) <=> Offering(d)
  BY <1>1 DEF Offering
<1>4. AnswerOK(e)
  BY <1>1, <1>2, <1>3 DEF AnswerOK, Going
<1>5. HuntOK(e)
  BY <1>1, <1>2, <1>3 DEF HuntOK, Going
<1>6. TransferOK(e)
  BY <1>1, <1>2, <1>3 DEF TransferOK, Going
<1>7. ConnOK(e)
  BY <1>1 DEF ConnOK
<1>8. JobsOK(e)
  BY <1>1 DEF JobsOK, JobOK, Going
<1>9. Going(e)
  BY <1>4, <1>5, <1>6, <1>7, <1>8 DEF Going
<1> QED BY <1>9 DEF e

\* handle_provisional
LEMMA ProvisionalGoing ==
  ASSUME Calm, CalleeInv, ~Terminating(c), ~Terminating(c'),
         NEW a, NEW sdp \in BOOLEAN, HandleProvisional(a, sdp)
  PROVE  Going(c)'
<1>1. c \in Coordinator /\ Going(c) /\ current \in Leg
  BY GoingNow
<1>2. ~Offering(c) /\ UNCHANGED leg /\ \A m \in Leg : Sent(m)' \subseteq Sent(m)
  BY HeardLeg DEF HandleProvisional
<1> DEFINE d == Disarm(c, {"Dial"})
           rung == Arm(d, "Ring")
           early == [rung EXCEPT !.state = "Establishing"]
<1>3. d \in Coordinator /\ Going(d)
  BY <1>1, DisarmOK, TimersGoing
<1>4. ~Offering(d)
  BY <1>1, <1>2 DEF Offering, Disarm, Coordinator
<1> HIDE DEF d
<1>5. rung \in Coordinator /\ Going(rung)
  BY <1>3, <1>4, Names, ArmOK, TimersGoing
<1> HIDE DEF rung
<1>6. early \in Coordinator /\ Going(early)
  BY <1>5, Names, SetState, SetStateGoing
<1> HIDE DEF early
<1>7. ASSUME NEW ring \in BOOLEAN
      PROVE  Going(Prepare(early, "Provisional", 0, ring))
  <2>1. JobOK(early, Job("Provisional", early.mgen + 1, 0, ring))
    BY DEF JobOK, Job
  <2> QED BY <1>6, <2>1, PrepareGoing
<1>8. /\ c' = c \/ c' = rung \/ c' = early \/ \E ring \in BOOLEAN : c' = Prepare(early, "Provisional", 0, ring)
      /\ UNCHANGED <<current, winner, bridge>>
  BY DEF HandleProvisional, d, rung, early, aggVars
<1>9. Going(c')
  BY <1>1, <1>5, <1>6, <1>7, <1>8
<1> QED BY <1>1, <1>2, <1>8, <1>9, StoreGoing

\* The answer of the callee the call waits for
LEMMA AnsweringGoing ==
  ASSUME NEW d \in Coordinator, Going(d), ~d.retry, ~Offering(d), ~d.pendingAnswer,
         d.transfer \/ ~IsAnswered, "failed" \notin Sent(current),
         leg[current] \in {"answered", "ended"}
  PROVE  Going([d EXCEPT !.answering = TRUE])
<1> DEFINE e == [d EXCEPT !.answering = TRUE]
<1>1. /\ e.answering = TRUE /\ e.pendingAnswer = d.pendingAnswer /\ e.told = d.told
      /\ e.retry = d.retry /\ e.pending = d.pending /\ e.registering = d.registering
      /\ e.transfer = d.transfer /\ e.transferFailed = d.transferFailed
      /\ e.registration = d.registration /\ e.state = d.state /\ e.timers = d.timers
      /\ e.jobs = d.jobs /\ e.mgen = d.mgen
  BY DEF Coordinator
<1> HIDE DEF e
<1>2. \A a : (Quiet(e, a) <=> Quiet(d, a)) /\ (Stands(e, a) <=> Stands(d, a))
  BY <1>1 DEF Quiet, Stands
<1>3. Offering(e) <=> Offering(d)
  BY <1>1 DEF Offering
<1>4. Stands(d, current)
  BY DEF Stands, Going, HuntOK
<1>5. AnswerOK(e)
  BY <1>1, <1>2, <1>3, <1>4 DEF AnswerOK
<1>6. HuntOK(e)
  BY <1>1, <1>2, <1>3 DEF HuntOK, Going
<1>7. TransferOK(e)
  BY <1>1, <1>2, <1>3 DEF TransferOK, Going
<1>8. ConnOK(e)
  BY <1>1, <1>2 DEF ConnOK, Going
<1>9. JobsOK(e)
  BY <1>1 DEF JobsOK, JobOK, Going
<1>10. Going(e)
  BY <1>5, <1>6, <1>7, <1>8, <1>9 DEF Going
<1> QED BY <1>10 DEF e

\* handle_answered
LEMMA AnsweredGoing ==
  ASSUME Calm, CalleeInv, ~Terminating(c), ~Terminating(c'),
         NEW a, NEW sdp \in BOOLEAN, NEW budget \in BOOLEAN, HandleAnswered(a, sdp, budget)
  PROVE  Going(c)'
<1>1. /\ c \in Coordinator /\ Going(c) /\ current \in Leg /\ current \in Attempt
      /\ Ready(c) /\ AttemptLegsOK /\ a = current
  BY GoingNow DEF HandleAnswered
<1>2. /\ ~Offering(c) /\ "answered" \in Sent(current)
      /\ UNCHANGED leg /\ \A m \in Leg : Sent(m)' \subseteq Sent(m)
  BY HeardLeg DEF HandleAnswered
<1> DEFINE d == Disarm(c, {"Dial"})
<1>3. d \in Coordinator /\ Going(d) /\ Ready(d) /\ ~Terminating(d)
  BY <1>1, DisarmOK, TimersGoing, DisarmReady
<1>4. /\ SameGoing([Tell(d, current, "Hangup") EXCEPT !.told = c.told], c)
      /\ Tell(d, current, "Hangup").jobs = c.jobs /\ Tell(d, current, "Hangup").mgen = c.mgen
      /\ Tell(d, current, "Hangup").remaining = c.remaining
      /\ "Hangup" \in Tell(d, current, "Hangup").told[current]
      /\ \A l \in Leg : l # current => Tell(d, current, "Hangup").told[l] = c.told[l]
      /\ d.retry = c.retry /\ d.pendingAnswer = c.pendingAnswer /\ d.transfer = c.transfer
      /\ d.pending = c.pending /\ d.registering = c.registering
  BY <1>1 DEF SameGoing, Tell, Disarm, Coordinator
<1> HIDE DEF d
<1>5. CASE c.retry
  <2> DEFINE e == Tell(d, current, "Hangup")
  <2>1. e \in Coordinator
    BY <1>1, <1>3, Names, TellOK
  <2>2. SameGoing([e EXCEPT !.told = c.told], c) /\ e.jobs = c.jobs /\ e.mgen = c.mgen /\ e.remaining = c.remaining
    BY <1>4
  <2>3. Quiet(e, current)
    BY <1>4 DEF Quiet
  <2>4. \A b \in Attempt : b > current => e.told[b] = {}
    <3>1. \A b \in Attempt : b \in Leg /\ (b > current => b # current)
      BY <1>1 DEF Attempt, Leg
    <3> QED BY <1>1, <1>4, <3>1 DEF Going, HuntOK
  <2>5. ResumeHunt(e, budget)
    BY <1>1, <1>5 DEF HandleAnswered, d
  <2> HIDE DEF e
  <2> QED BY <1>2, <1>5, <2>1, <2>2, <2>3, <2>4, <2>5, ResumeHuntGoing
<1>6. CASE ~c.retry
  <2> DEFINE f == [d EXCEPT !.answering = TRUE]
             k == IF c.transfer THEN "TransferAnswer" ELSE "Answer"
  <2>1. CASE Commit(d)
    BY <1>2, <1>3, <2>1, CommitKeeps
  <2>2. CASE Commit(FailMedia(d, "Hangup"))
    BY <1>1, <1>2, <1>3, <2>2, Names, FailMediaOK, CommitKeeps DEF Ready
  <2>3. CASE ~((~c.transfer /\ IsAnswered) \/ c.pendingAnswer) /\ Commit(Prepare(f, k, 0, FALSE))
    <3>1. ~Offering(d)
      BY <1>2, <1>4 DEF Offering
    <3>2. "failed" \notin Sent(current) /\ leg[current] \in {"answered", "ended"}
      BY <1>1, <1>2 DEF AttemptLegsOK
    <3>3. Going(f)
      BY <1>3, <1>4, <1>6, <2>3, <3>1, <3>2, AnsweringGoing
    <3>4. f \in Coordinator
      BY <1>3, SetAnswering
    <3>5. f.answering = TRUE /\ f.transfer = c.transfer /\ f.pendingAnswer = c.pendingAnswer
      BY <1>3, <1>4 DEF Coordinator
    <3> HIDE DEF f
    <3>6. JobOK(f, Job(k, f.mgen + 1, 0, FALSE))
      BY <2>3, <3>5 DEF JobOK, Job
    <3>7. Going(Prepare(f, k, 0, FALSE)) /\ Prepare(f, k, 0, FALSE) \in Coordinator
      <4>1. k \in {"Answer", "TransferAnswer"}
        OBVIOUS
      <4> HIDE DEF k
      <4> QED BY <3>3, <3>4, <3>6, <4>1, PrepareGoing, PrepareOK
    <3> HIDE DEF k
    <3> QED BY <1>2, <2>3, <3>7, CommitKeeps
  <2> QED BY <1>1, <1>6, <2>1, <2>2, <2>3 DEF HandleAnswered, d
<1> QED BY <1>5, <1>6

\* A transfer whose leg has ended fails when nothing of it is under way.
LEMMA EndedTransferGoing ==
  ASSUME NEW d \in Coordinator, Going(d), d.transfer, ~Offering(d), ~d.answering, Quiet(d, current)
  PROVE  Going(FailTransfer(d))
<1>1. d.pending = 0 /\ d.registering = 0
  BY DEF Offering
<1>2. \A i \in FreshJobs(d.jobs, d.mgen) : JobOK(d, d.jobs[i]) /\ d.jobs[i].kind # "CalleeAttemptOffer"
  BY <1>1 DEF Going, JobsOK, JobOK
<1>3. /\ AnswerOK(d) /\ ConnOK(d) /\ QueueOK(d.jobs, d.mgen) /\ AiCall /\ IsAnswered
      /\ d.registration # "rejected" /\ \A a \in Attempt : a > current => d.told[a] = {}
  BY DEF Going, JobsOK, TransferOK, HuntOK
<1> QED BY <1>1, <1>2, <1>3, FailTransferGoing

\* handle_failed
LEMMA FailedGoing ==
  ASSUME Calm, CalleeInv, ~Terminating(c), ~Terminating(c'),
         NEW a, NEW retryable \in BOOLEAN, NEW budget \in BOOLEAN, HandleFailed(a, retryable, budget)
  PROVE  Going(c)'
<1>1. /\ c \in Coordinator /\ Going(c) /\ current \in Leg /\ current \in Attempt
      /\ Ready(c) /\ AttemptLegsOK /\ HuntBudget(c, current)
  BY GoingNow
<1>2. /\ ~Offering(c) /\ "failed" \in Sent(current)
      /\ UNCHANGED leg /\ \A m \in Leg : Sent(m)' \subseteq Sent(m)
  BY HeardLeg DEF HandleFailed
<1>3. leg[current] = "ended" /\ ~c.answering /\ ~c.pendingAnswer
  BY <1>1, <1>2 DEF AttemptLegsOK, Going, AnswerOK
<1> DEFINE d == Disarm(c, {"Dial"})
<1>4. d \in Coordinator /\ Going(d) /\ Ready(d) /\ ~Terminating(d)
  BY <1>1, DisarmOK, TimersGoing, DisarmReady
<1>5. /\ SameGoing([d EXCEPT !.told = c.told], c)
      /\ d.jobs = c.jobs /\ d.mgen = c.mgen /\ d.remaining = c.remaining /\ d.told = c.told
      /\ d.retry = c.retry /\ d.pendingAnswer = c.pendingAnswer /\ d.transfer = c.transfer
      /\ d.answering = c.answering /\ d.pending = c.pending /\ d.registering = c.registering
      /\ d.registration = c.registration /\ d.state = c.state /\ d.transferFailed = c.transferFailed
  BY <1>1 DEF SameGoing, Disarm, Coordinator
<1>6. Quiet(d, current) /\ \A b \in Attempt : b > current => d.told[b] = {}
  BY <1>1, <1>3, <1>5 DEF Quiet, LiveLeg, Going, HuntOK
<1> DEFINE e == [d EXCEPT !.calleeDone = TRUE]
           gone == [d EXCEPT !.state = "Terminating", !.calleeDone = TRUE]
           lost == Arm(Tell(Disarm(gone, {"Ring"}), Caller, "Reject"), "Cleanup")
<1>7. lost \in Coordinator
  BY <1>4, Names, LegNumbers, SetState, SetCalleeDone, DisarmOK, TellOK, ArmOK
<1>8. Terminating(lost)
  BY <1>4 DEF Terminating, Arm, Tell, Disarm, Coordinator
<1>9. \/ c.transfer /\ Commit(FailTransfer(d))
      \/ ~c.transfer /\ c.retry /\ ResumeHunt(d, budget)
      \/ ~c.transfer /\ HasRetryCandidate(d, retryable /\ budget) /\ BeginNextAttempt(e)
      \/ Commit(lost)
  BY DEF HandleFailed, d, gone, lost, e
<1>10. e \in Coordinator
  BY <1>4, SetCalleeDone
<1>11. /\ e.jobs = d.jobs /\ e.mgen = d.mgen /\ e.remaining = d.remaining /\ e.told = d.told
       /\ e.retry = d.retry /\ e.pendingAnswer = d.pendingAnswer /\ e.transfer = d.transfer
       /\ e.answering = d.answering /\ e.pending = d.pending /\ e.registering = d.registering
       /\ e.registration = d.registration /\ e.state = d.state /\ e.transferFailed = d.transferFailed
  BY <1>4 DEF Coordinator
<1> HIDE DEF d, lost, e
<1>12. CASE c.transfer /\ Commit(FailTransfer(d))
  <2>1. Going(FailTransfer(d))
    BY <1>2, <1>3, <1>4, <1>5, <1>6, <1>12, EndedTransferGoing DEF Offering
  <2>2. FailTransfer(d) \in Coordinator
    BY <1>4, FailTransferOK DEF Ready
  <2> QED BY <1>2, <1>12, <2>1, <2>2, CommitKeeps
<1>13. CASE c.retry /\ ResumeHunt(d, budget)
  BY <1>2, <1>4, <1>5, <1>6, <1>13, ResumeHuntGoing
<1>14. CASE ~c.transfer /\ HasRetryCandidate(d, retryable /\ budget) /\ BeginNextAttempt(e)
  <2>1. e.remaining > 0 /\ ~IsAnswered
    BY <1>11, <1>14 DEF HasRetryCandidate
  <2>2. ~AiCall
    BY <1>1, <1>5, <1>11, <2>1 DEF HuntBudget
  <2>3. ~c.transferFailed /\ c.state # "Connected" /\ c.registration # "rejected" /\ QueueOK(c.jobs, c.mgen)
    BY <1>1, <2>1 DEF Going, TransferOK, ConnOK, HuntOK, JobsOK
  <2>4. HuntBudget(e, current) /\ Quiet(e, current)
    BY <1>1, <1>5, <1>6, <1>11 DEF HuntBudget, Quiet
  <2>5. QueueOK(e.jobs, e.mgen) /\ \A b \in Attempt : b > current => e.told[b] = {}
    BY <1>5, <1>6, <1>11, <2>3
  <2>6. /\ ~e.answering /\ ~e.pendingAnswer /\ ~e.transfer /\ ~e.transferFailed
        /\ e.registration # "rejected" /\ e.state # "Connected"
    BY <1>3, <1>5, <1>11, <1>14, <2>3
  <2> QED BY <1>2, <1>10, <1>14, <2>1, <2>2, <2>4, <2>5, <2>6, BeginNextGoing
<1>15. CASE Commit(lost)
  BY <1>2, <1>7, <1>8, <1>15, CommitKeeps
<1> QED BY <1>9, <1>12, <1>13, <1>14, <1>15

\* handle_disconnected of the current callee
LEMMA CalleeDisconnectedGoing ==
  ASSUME Calm, CalleeInv, ~Terminating(c), ~Terminating(c'),
         NEW a, NEW budget \in BOOLEAN, HandleCalleeDisconnected(a, budget)
  PROVE  Going(c)'
<1>1. /\ c \in Coordinator /\ Going(c) /\ current \in Leg /\ current \in Attempt /\ current \in Nat
      /\ Ready(c) /\ AttemptLegsOK /\ a = current
  BY GoingNow DEF HandleCalleeDisconnected, Attempt
<1>2. /\ ~Offering(c) /\ "disconnected" \in Sent(current)
      /\ UNCHANGED leg /\ \A m \in Leg : Sent(m)' \subseteq Sent(m)
  BY HeardLeg DEF HandleCalleeDisconnected
<1>3. Quiet(c, current)
  BY <1>1, <1>2 DEF AttemptLegsOK, Quiet, LiveLeg
<1> DEFINE e == [c EXCEPT !.deferred = a]
<1>4. e \in Coordinator
  BY <1>1, SetDeferred
<1>5. SameGoing(e, c) /\ e.jobs = c.jobs /\ e.mgen = c.mgen
  BY <1>1 DEF SameGoing, Coordinator
<1>6. SameGoing([c EXCEPT !.told = c.told], c)
  BY <1>1 DEF SameGoing, Coordinator
<1>7. \/ Commit(e) \/ Commit(c)
      \/ c.transfer /\ ~c.answering /\ Commit(FailTransfer(c))
      \/ c.retry /\ ResumeHunt(c, budget)
      \/ Commit(Disconnected(c, a))
  BY DEF HandleCalleeDisconnected, e
<1> HIDE DEF e
<1>8. Going(e)
  BY <1>1, <1>5, SameGoingOK
<1>9. CASE c.transfer /\ ~c.answering /\ Commit(FailTransfer(c))
  <2>1. Going(FailTransfer(c)) /\ FailTransfer(c) \in Coordinator
    BY <1>1, <1>2, <1>3, <1>9, EndedTransferGoing, FailTransferOK DEF Ready
  <2> QED BY <1>2, <1>9, <2>1, CommitKeeps
<1>10. CASE c.retry /\ ResumeHunt(c, budget)
  <2>1. \A b \in Attempt : b > current => c.told[b] = {}
    BY <1>1 DEF Going, HuntOK
  <2> QED BY <1>1, <1>2, <1>3, <1>6, <1>10, <2>1, ResumeHuntGoing
<1>11. CASE Commit(Disconnected(c, a))
  BY <1>1, <1>2, <1>11, DisconnectedOK, CommitKeeps DEF Ready
<1> QED BY <1>1, <1>2, <1>4, <1>7, <1>8, <1>9, <1>10, <1>11, CommitKeeps

\* What ends the call, or reports a request that is not refused
LEMMA CallerGoing ==
  ASSUME Calm, CalleeInv, ~Terminating(c), ~Terminating(c'), NEW a \in Attempt, NEW budget \in BOOLEAN,
         \/ HandleCancelled \/ HandleCallerDisconnected \/ HandleAnswerNack \/ HandleCallerActionFailed
         \/ HandlePeerActionFailed(a) \/ HandleOriginateFailed(a, budget) \/ StaleLegEvent(a)
  PROVE  Going(c)'
<1>1. /\ c \in Coordinator /\ Going(c) /\ current \in Leg /\ current \in Attempt
      /\ Ready(c) /\ AttemptLegsOK /\ CoordInv /\ a \in Leg /\ Caller \in Leg
  BY GoingNow, LegNumbers
<1>2. ~HandleOriginateFailed(a, budget)
  BY <1>1, ReceiveSent DEF HandleOriginateFailed, AttemptLegsOK
<1>3. UNCHANGED leg /\ \A m \in Leg : Sent(m)' \subseteq Sent(m)
  BY <1>1, <1>2, ReceiveSent, QuietSent DEF HandleCancelled, HandleCallerDisconnected, HandleAnswerNack,
     HandleCallerActionFailed, HandlePeerActionFailed, StaleLegEvent, Receive
<1>4. ASSUME NEW peer \in BOOLEAN, NEW originate \in BOOLEAN
      PROVE  ActionFailed(c, peer, originate) \in Coordinator /\ Terminating(ActionFailed(c, peer, originate))
  BY <1>1, ActionFailedOK DEF Ready
<1>5. Cancelled(c) \in Coordinator /\ Terminating(Cancelled(c))
  BY <1>1, CancelledOK DEF Ready
<1>6. Disconnected(c, Caller) \in Coordinator /\ Terminating(Disconnected(c, Caller))
  BY <1>1, DisconnectedOK DEF Ready
<1>7. \/ \E d \in {Cancelled(c), Disconnected(c, Caller), c} : Commit(d)
      \/ \E peer \in BOOLEAN, originate \in BOOLEAN : Commit(ActionFailed(c, peer, originate))
      \/ UNCHANGED <<aggVars, c>>
  BY <1>2 DEF HandleCancelled, HandleCallerDisconnected, HandleAnswerNack, HandleCallerActionFailed,
         HandlePeerActionFailed, StaleLegEvent
<1>8. CASE UNCHANGED <<aggVars, c>>
  BY <1>1, <1>3, <1>8, StoreGoing DEF aggVars
<1> QED BY <1>1, <1>3, <1>4, <1>5, <1>6, <1>7, <1>8, CommitKeeps

\* confirm_answer
LEMMA ConfirmGoing ==
  ASSUME Calm, CalleeInv, ~Terminating(c), ~Terminating(c'), UNCHANGED leg, c.pendingAnswer,
         NEW budget \in BOOLEAN, ConfirmAnswer(budget)
  PROVE  Going(c)'
<1>1. /\ c \in Coordinator /\ Going(c) /\ current \in Leg /\ current \in Attempt
      /\ HuntBudget(c, current) /\ AggTypeOK
  BY GoingNow DEF CoordInv, AggInv
<1>2. /\ Stands(c, current) /\ ~c.retry /\ ~Offering(c) /\ ~IsAnswered /\ ~c.transfer /\ ~c.transferFailed
      /\ c.registration # "rejected" /\ \A a \in Attempt : a > current => c.told[a] = {}
  BY <1>1 DEF Going, AnswerOK, TransferOK, HuntOK
<1>3. /\ Joined \in Coordinator /\ Joined.state = "Connected"
      /\ Joined.pendingAnswer = FALSE /\ Joined.answering = FALSE
      /\ Joined.jobs = Append(c.jobs, Job("StartMedia", c.mgen, 0, FALSE))
      /\ Joined.mgen = c.mgen /\ Joined.told = c.told
      /\ Joined.transfer = c.transfer /\ Joined.transferFailed = c.transferFailed
  BY <1>1, JoinedFields
<1>4. /\ Joined.retry = c.retry /\ Joined.pending = c.pending /\ Joined.registering = c.registering
      /\ Joined.registration = c.registration /\ Joined.remaining = c.remaining
  BY <1>1 DEF Joined, Coordinator
<1>5. MarkAnswered(c.mgen) /\ c' = Joined
  <2>1. Ready(Joined)
    BY <1>1, <1>3, <1>4 DEF Ready, HuntBudget, Terminating
  <2>2. \A l : Terminating(Disconnected(Joined, l))
    BY <1>1, <2>1, DisconnectedOK
  <2>3. Terminating(Finish(c, "error"))
    BY <1>1 DEF Finish, Terminating, Coordinator
  <2> QED BY <1>2, <2>2, <2>3, ConfirmCases
<1>6. winner' = current /\ current' = current /\ bridge'[current] = "Planned" /\ IsAnswered'
  <2>1. winner' = current /\ current' = current /\ bridge' = [bridge EXCEPT ![current] = "Planned"]
    BY <1>5 DEF MarkAnswered
  <2>2. current # NoWinner
    BY <1>1 DEF Attempt, NoWinner
  <2> QED BY <1>1, <2>1, <2>2 DEF AggTypeOK, IsAnswered
<1>7. AnswerOK(c)'
  BY <1>3, <1>5 DEF AnswerOK
<1>8. HuntOK(c)'
  BY <1>2, <1>3, <1>4, <1>5, <1>6 DEF HuntOK, Offering
<1>9. TransferOK(c)'
  BY <1>2, <1>3, <1>5, <1>6 DEF TransferOK
<1>10. ConnOK(c)'
  BY <1>2, <1>3, <1>4, <1>5, <1>6 DEF ConnOK, Stands
<1>11. JobsOK(c)'
  <2> DEFINE q == c.jobs
             g == c.mgen
             r == Append(q, Job("StartMedia", g, 0, FALSE))
  <2>1. q \in Seq(Jobs) /\ g \in Nat /\ QueueOK(q, g)
    BY <1>1, Fields DEF Going, JobsOK
  <2>2. QueueOK(r, g) /\ \A i \in FreshJobs(r, g) : i \in FreshJobs(q, g) /\ r[i] = q[i]
    BY <2>1, QueueStart
  <2>3. \A i \in FreshJobs(q, g) : q[i].kind \notin {"Answer", "AiAgentAnswer", "TransferAnswer", "CalleeAttemptOffer"}
    BY <1>1, <1>2 DEF Going, JobsOK, JobOK, Offering
  <2>4. c'.jobs = r /\ c'.mgen = g
    BY <1>3, <1>5
  <2> HIDE DEF q, g, r
  <2>5. QueueOK(c'.jobs, c'.mgen)
    BY <2>2, <2>4, Zenon
  <2>6. \A i \in FreshJobs(c'.jobs, c'.mgen) :
          c'.jobs[i].kind \notin {"Answer", "AiAgentAnswer", "TransferAnswer", "CalleeAttemptOffer"}
    BY <2>2, <2>3, <2>4
  <2>7. \A i \in FreshJobs(c'.jobs, c'.mgen) : JobOK(c, c.jobs[i])'
    BY <2>6 DEF JobOK
  <2> QED BY <2>5, <2>7 DEF JobsOK, QueueOK, FreshJobs
<1> QED BY <1>7, <1>8, <1>9, <1>10, <1>11 DEF Going

\* The acknowledgement of the caller's answer
LEMMA AnswerAckGoing ==
  ASSUME Calm, CalleeInv, ~Terminating(c), ~Terminating(c'), NEW budget \in BOOLEAN, HandleAnswerAck(budget)
  PROVE  Going(c)'
<1>1. c \in Coordinator /\ Going(c) /\ CoordInv /\ Caller \in Leg
  BY GoingNow, LegNumbers
<1>2. UNCHANGED leg /\ \A m \in Leg : Sent(m)' \subseteq Sent(m)
  BY <1>1, ReceiveSent DEF HandleAnswerAck, Receive
<1>3. CASE c.pendingAnswer /\ ConfirmAnswer(budget)
  BY <1>2, <1>3, ConfirmGoing
<1>4. CASE Commit(c)
  BY <1>1, <1>2, <1>4, CommitKeeps
<1> QED BY <1>3, <1>4 DEF HandleAnswerAck

\* Results that are ignored or refused, and the provisional answer
LEMMA MediaResultGoing ==
  ASSUME Calm, CalleeInv, ~Terminating(c), ~Terminating(c'), IgnoreMedia \/ MediaFailed \/ ProvisionalPrepared
  PROVE  Going(c)'
<1>1. /\ c \in Coordinator /\ Going(c) /\ CoordInv /\ c.finish = "no" /\ c.jobs # <<>> /\ current \in Attempt
      /\ UNCHANGED leg /\ UNCHANGED evq
  BY GoingNow DEF IgnoreMedia, MediaFailed, ProvisionalPrepared, MediaResult
<1>2. \A m \in Leg : Sent(m)' \subseteq Sent(m)
  BY <1>1, QuietSent
<1> DEFINE d == Done(c)
<1>3. d \in Coordinator /\ Ready(d) /\ Going(d) /\ ~Terminating(d) /\ SameGoing(d, c)
  BY <1>1, DoneReady, DoneGoing
<1> HIDE DEF d
<1>4. CASE IgnoreMedia
  BY <1>1, <1>2, <1>3, <1>4, CommitKeeps DEF IgnoreMedia, d
<1>5. CASE MediaFailed
  <2>1. PICK verb \in Verbs : Commit(FailMedia(d, verb))
    BY <1>5, Names DEF MediaFailed, d
  <2>2. FailMedia(d, verb) \in Coordinator /\ Terminating(FailMedia(d, verb))
    BY <1>1, <1>3, FailMediaOK DEF Ready
  <2> QED BY <1>1, <1>2, <2>1, <2>2, CommitKeeps
<1>6. CASE ProvisionalPrepared
  <2>1. ~IsAnswered
    BY <1>6 DEF ProvisionalPrepared, StaleMedia, MediaResult
  <2>2. ~d.transfer
    BY <1>3, <2>1 DEF Going, TransferOK
  <2>3. Arm(d, "Ring") \in Coordinator /\ Going(Arm(d, "Ring"))
    BY <1>3, <2>2, Names, ArmOK, TimersGoing
  <2>4. Commit(d) \/ Commit(Arm(d, "Ring"))
    BY <1>6 DEF ProvisionalPrepared, d
  <2> QED BY <1>1, <1>2, <1>3, <2>3, <2>4, CommitKeeps
<1> QED BY <1>4, <1>5, <1>6

\* A result that is applied
LEMMA FreshResult ==
  ASSUME CalleeInv, ~Terminating(c), c.jobs # <<>>, Head(c.jobs).kind # "StartMedia", ~StaleMedia(Head(c.jobs))
  PROVE  /\ JobOK(c, Head(c.jobs)) /\ FreshJobs(Done(c).jobs, c.mgen) = {}
         /\ QueueOK(Done(c).jobs, c.mgen) /\ Done(c).jobs \in Seq(Jobs)
         /\ Done(c) \in Coordinator /\ Done(c).mgen = c.mgen /\ SameGoing(Done(c), c)
<1>1. c \in Coordinator /\ Going(c) /\ CoordInv /\ c.finish = "no"
  BY GoingNow
<1>2. /\ Going(Done(c)) /\ SameGoing(Done(c), c) /\ Done(c).mgen = c.mgen
      /\ JobOK(c, Head(c.jobs)) /\ FreshJobs(Done(c).jobs, c.mgen) = {}
  BY <1>1, DoneGoing DEF StaleMedia
<1>3. Done(c) \in Coordinator
  BY <1>1, DoneReady
<1>4. Done(c).jobs \in Seq(Jobs)
  BY <1>3, Fields
<1>5. QueueOK(Done(c).jobs, Done(c).mgen)
  BY <1>2 DEF Going, JobsOK
<1> QED BY <1>2, <1>3, <1>4, <1>5, Zenon

\* complete_answer
LEMMA AnswerPreparedGoing ==
  ASSUME Calm, CalleeInv, ~Terminating(c), ~Terminating(c'), AnswerPrepared
  PROVE  Going(c)'
<1>1. /\ c \in Coordinator /\ Going(c) /\ HuntBudget(c, current) /\ AttemptLegsOK /\ current \in Attempt
      /\ UNCHANGED leg /\ c.jobs # <<>> /\ UNCHANGED evq
      /\ Head(c.jobs).kind \in {"Answer", "AiAgentAnswer"} /\ ~StaleMedia(Head(c.jobs))
  BY GoingNow DEF AnswerPrepared, MediaResult
<1>2. \A m \in Leg : Sent(m)' \subseteq Sent(m)
  BY <1>1, QuietSent
<1> DEFINE d == Done(c)
           e == [d EXCEPT !.state = "Answering", !.pendingAnswer = TRUE, !.answerGen = c.agen]
<1>3. /\ JobOK(c, Head(c.jobs)) /\ FreshJobs(d.jobs, c.mgen) = {} /\ QueueOK(d.jobs, c.mgen)
      /\ d \in Coordinator /\ d.mgen = c.mgen /\ SameGoing(d, c)
  BY <1>1, FreshResult
<1>4. Commit(e)
  BY DEF AnswerPrepared
<1> HIDE DEF d
<1>5. e \in Coordinator
  BY <1>1, <1>3, Names, SetState, SetPendingAnswer, SetAnswerGen, Fields
<1>6. /\ e.answering = d.answering /\ e.pendingAnswer = TRUE /\ e.told = d.told
      /\ e.retry = d.retry /\ e.pending = d.pending /\ e.registering = d.registering
      /\ e.transfer = d.transfer /\ e.transferFailed = d.transferFailed
      /\ e.registration = d.registration /\ e.state = "Answering" /\ e.timers = d.timers
      /\ e.jobs = d.jobs /\ e.mgen = d.mgen
  BY <1>3 DEF Coordinator
<1> HIDE DEF e
<1>7. \A a : (Quiet(e, a) <=> Quiet(c, a)) /\ (Stands(e, a) <=> Stands(c, a))
  BY <1>3, <1>6 DEF Quiet, Stands, SameGoing
<1>8. Offering(e) <=> Offering(c)
  BY <1>3, <1>6 DEF Offering, SameGoing
<1>9. ~IsAnswered /\ Stands(c, current) /\ ~c.retry /\ ~Offering(c) /\ "failed" \notin Sent(current)
  <2>1. CASE Head(c.jobs).kind = "Answer"
    BY <1>1, <1>3, <2>1 DEF JobOK, Going, AnswerOK
  <2>2. CASE Head(c.jobs).kind = "AiAgentAnswer"
    <3>1. AiCall /\ ~IsAnswered /\ current = 1 /\ ~Offering(c)
      BY <1>1, <1>3, <2>2 DEF JobOK, Going, TransferOK
    <3>3. Sent(current) = {}
      BY <1>1, <3>1 DEF AttemptLegsOK
    <3> QED BY <1>1, <3>1, <3>3 DEF Stands, HuntBudget
  <2> QED BY <1>1, <2>1, <2>2
<1>10. AnswerOK(e)
  BY <1>3, <1>6, <1>7, <1>8, <1>9 DEF AnswerOK, SameGoing
<1>11. HuntOK(e)
  BY <1>1, <1>3, <1>6, <1>7, <1>8 DEF HuntOK, Going, SameGoing
<1>12. TransferOK(e)
  BY <1>1, <1>3, <1>6, <1>7, <1>8 DEF TransferOK, Going, SameGoing
<1>13. ConnOK(e)
  BY <1>6 DEF ConnOK
<1>14. JobsOK(e)
  <2>1. e.jobs = d.jobs /\ e.mgen = c.mgen
    BY <1>3, <1>6
  <2>2. FreshJobs(e.jobs, e.mgen) = {} /\ QueueOK(e.jobs, e.mgen)
    BY <1>3, <2>1, Zenon
  <2> QED BY <2>2 DEF JobsOK
<1>15. Going(e)
  BY <1>10, <1>11, <1>12, <1>13, <1>14 DEF Going
<1> QED BY <1>1, <1>2, <1>4, <1>5, <1>15, CommitKeeps

\* The answer of a transfer: the caller is bridged to the new callee.
LEMMA TransferAnswerGoing ==
  ASSUME Calm, CalleeInv, ~Terminating(c), ~Terminating(c'), TransferAnswerPrepared
  PROVE  Going(c)'
<1>1. /\ c \in Coordinator /\ Going(c) /\ current \in Attempt /\ AggTypeOK
      /\ UNCHANGED leg /\ c.jobs # <<>> /\ Head(c.jobs).kind = "TransferAnswer" /\ ~StaleMedia(Head(c.jobs))
  BY GoingNow DEF TransferAnswerPrepared, MediaResult, CoordInv, AggInv
<1> DEFINE d == Done(c)
           q == Append(d.jobs, Job("StartMedia", c.mgen, 0, FALSE))
           e == [d EXCEPT !.state = "Connected", !.answering = FALSE, !.calleeDone = FALSE,
                   !.transfer = FALSE, !.transferFailed = FALSE,
                   !.jobs = Append(@, Job("StartMedia", c.mgen, 0, FALSE))]
<1>2. /\ JobOK(c, Head(c.jobs)) /\ FreshJobs(d.jobs, c.mgen) = {} /\ QueueOK(d.jobs, c.mgen)
      /\ d \in Coordinator /\ d.mgen = c.mgen /\ SameGoing(d, c) /\ d.jobs \in Seq(Jobs)
  BY <1>1, FreshResult
<1>3. c' = e /\ MarkTransferAnswered(c.mgen)
  <2>1. Terminating(Finish(c, "error"))
    BY <1>1 DEF Finish, Terminating, Coordinator
  <2> QED BY <2>1 DEF TransferAnswerPrepared
<1> HIDE DEF d
<1>4. /\ e.answering = FALSE /\ e.pendingAnswer = c.pendingAnswer /\ e.told = c.told
      /\ e.retry = c.retry /\ e.pending = c.pending /\ e.registering = c.registering
      /\ e.transfer = FALSE /\ e.transferFailed = FALSE
      /\ e.registration = c.registration /\ e.state = "Connected"
      /\ e.jobs = q /\ e.mgen = c.mgen
  BY <1>2 DEF SameGoing, Coordinator
<1> HIDE DEF e
<1>5. /\ Stands(c, current) /\ ~c.retry /\ ~Offering(c) /\ ~c.pendingAnswer
      /\ c.registration # "rejected" /\ \A a \in Attempt : a > current => c.told[a] = {}
  <2>1. c.answering /\ c.transfer
    BY <1>1, <1>2 DEF JobOK
  <2> QED BY <1>1, <2>1 DEF Going, AnswerOK, TransferOK, HuntOK
<1>6. winner' = current /\ current' = current /\ bridge'[current] = "Planned" /\ IsAnswered'
  <2>1. winner' = current /\ current' = current /\ bridge' = [AllReleased EXCEPT ![current] = "Planned"]
    BY <1>3 DEF MarkTransferAnswered
  <2>2. current # NoWinner
    BY <1>1 DEF Attempt, NoWinner
  <2>3. bridge'[current] = "Planned"
    BY <1>1, <2>1 DEF AllReleased
  <2> QED BY <2>1, <2>2, <2>3 DEF IsAnswered
<1>7. AnswerOK(c)'
  BY <1>3, <1>4, <1>5 DEF AnswerOK
<1>8. HuntOK(c)'
  BY <1>3, <1>4, <1>5, <1>6 DEF HuntOK, Offering
<1>9. TransferOK(c)'
  BY <1>3, <1>4, <1>6 DEF TransferOK
<1>10. ConnOK(c)'
  BY <1>1, <1>3, <1>4, <1>5, <1>6 DEF ConnOK, Stands
<1>11. JobsOK(c)'
  <2>1. c.mgen \in Nat
    BY <1>1, Fields
  <2>2. QueueOK(q, c.mgen) /\ \A i \in FreshJobs(q, c.mgen) : i \in FreshJobs(d.jobs, c.mgen)
    BY <1>2, <2>1, QueueStart
  <2>3. c'.jobs = q /\ c'.mgen = c.mgen
    BY <1>3, <1>4
  <2> HIDE DEF q
  <2>4. QueueOK(c'.jobs, c'.mgen) /\ FreshJobs(c'.jobs, c'.mgen) = {}
    <3>1. FreshJobs(q, c.mgen) = {}
      BY <1>2, <2>2
    <3> QED BY <2>2, <2>3, <3>1, Zenon
  <2> QED BY <2>4 DEF JobsOK, QueueOK, FreshJobs
<1> QED BY <1>7, <1>8, <1>9, <1>10, <1>11 DEF Going

\* handle_attempt_offer_prepared
LEMMA OfferPreparedGoing ==
  ASSUME Calm, CalleeInv, ~Terminating(c), ~Terminating(c'),
         NEW result \in {"prepared", "failed", "refused"}, OfferPrepared(result)
  PROVE  Going(c)'
<1>1. /\ c \in Coordinator /\ Going(c) /\ HuntBudget(c, current) /\ current \in Attempt
      /\ UNCHANGED leg /\ c.jobs # <<>> /\ UNCHANGED evq
      /\ Head(c.jobs).kind = "CalleeAttemptOffer" /\ ~StaleMedia(Head(c.jobs))
  BY GoingNow DEF OfferPrepared, MediaResult
<1>2. \A m \in Leg : Sent(m)' \subseteq Sent(m)
  BY <1>1, QuietSent
<1> DEFINE d == Done(c)
           taken == [d EXCEPT !.pending = 0]
           bumped == [taken EXCEPT !.agen = @ + 1]
           asked == [bumped EXCEPT !.registering = c.pending, !.registration = "queued"]
<1>3. /\ JobOK(c, Head(c.jobs)) /\ FreshJobs(d.jobs, c.mgen) = {} /\ QueueOK(d.jobs, c.mgen)
      /\ d \in Coordinator /\ d.mgen = c.mgen /\ SameGoing(d, c)
  BY <1>1, FreshResult
<1>4. d.remaining = c.remaining
  BY <1>1 DEF Done, Coordinator
<1>5. c.pending = Head(c.jobs).seq /\ c.pending # 0 /\ (AiCall => c.transfer) /\ Offering(c) /\ c.registering = 0
  BY <1>1, <1>3 DEF JobOK, Offering, HuntBudget
<1>6. /\ Quiet(c, current) /\ ~c.answering /\ ~c.pendingAnswer
      /\ \A a \in Attempt : a > current => c.told[a] = {}
  BY <1>1, <1>5 DEF Going, HuntOK, AnswerOK
<1>7. \/ Commit(asked)
      \/ \E e \in {taken, bumped} : (c.transfer /\ Commit(FailTransfer(e))) \/ Commit(TerminateRetry(e))
  BY <1>5 DEF OfferPrepared
<1> HIDE DEF d
<1>8. taken \in Coordinator
  BY <1>3, SetPending
<1>9. bumped \in Coordinator
  <2> HIDE DEF taken
  <2>1. taken.agen + 1 \in Nat
    BY <1>8, Fields
  <2> QED BY <1>8, <2>1, SetAgen
<1>10. asked \in Coordinator
  <2> HIDE DEF bumped
  <2>1. c.pending \in Nat
    BY <1>1, Fields
  <2> QED BY <1>9, <2>1, SetRegistering, SetRegistration
<1>11. ASSUME NEW e \in {taken, bumped}
       PROVE  /\ e.answering = c.answering /\ e.pendingAnswer = c.pendingAnswer /\ e.told = c.told
              /\ e.retry = c.retry /\ e.pending = 0 /\ e.registering = c.registering
              /\ e.transfer = c.transfer /\ e.transferFailed = c.transferFailed
              /\ e.registration = c.registration /\ e.state = c.state
              /\ e.jobs = d.jobs /\ e.mgen = c.mgen /\ e.remaining = c.remaining /\ e \in Coordinator
  <2>1. /\ taken.answering = c.answering /\ taken.pendingAnswer = c.pendingAnswer /\ taken.told = c.told
        /\ taken.retry = c.retry /\ taken.pending = 0 /\ taken.registering = c.registering
        /\ taken.transfer = c.transfer /\ taken.transferFailed = c.transferFailed
        /\ taken.registration = c.registration /\ taken.state = c.state
        /\ taken.jobs = d.jobs /\ taken.mgen = c.mgen /\ taken.remaining = c.remaining
    BY <1>3, <1>4 DEF SameGoing, Coordinator
  <2> HIDE DEF taken
  <2>2. /\ bumped.answering = c.answering /\ bumped.pendingAnswer = c.pendingAnswer /\ bumped.told = c.told
        /\ bumped.retry = c.retry /\ bumped.pending = 0 /\ bumped.registering = c.registering
        /\ bumped.transfer = c.transfer /\ bumped.transferFailed = c.transferFailed
        /\ bumped.registration = c.registration /\ bumped.state = c.state
        /\ bumped.jobs = d.jobs /\ bumped.mgen = c.mgen /\ bumped.remaining = c.remaining
    BY <1>8, <2>1 DEF Coordinator
  <2> HIDE DEF bumped
  <2> QED BY <1>8, <1>9, <1>11, <2>1, <2>2
<1>12. /\ asked.answering = c.answering /\ asked.pendingAnswer = c.pendingAnswer /\ asked.told = c.told
       /\ asked.retry = c.retry /\ asked.pending = 0 /\ asked.registering = c.pending
       /\ asked.transfer = c.transfer /\ asked.transferFailed = c.transferFailed
       /\ asked.registration = "queued" /\ asked.state = c.state
       /\ asked.timers \cap {"Dial", "Ring"} \subseteq c.timers
       /\ asked.jobs = d.jobs /\ asked.mgen = c.mgen
  BY <1>3 DEF SameGoing, Coordinator
<1> HIDE DEF taken, bumped, asked
<1>13. CASE Commit(asked)
  <2>1. \A a : (Quiet(asked, a) <=> Quiet(c, a)) /\ (Stands(asked, a) <=> Stands(c, a))
    BY <1>12 DEF Quiet, Stands
  <2>2. Offering(asked)
    BY <1>5, <1>12 DEF Offering
  <2>3. AnswerOK(asked)
    BY <1>6, <1>12 DEF AnswerOK
  <2>4. HuntOK(asked)
    BY <1>5, <1>6, <1>12, <2>1, <2>2 DEF HuntOK
  <2>5. TransferOK(asked)
    BY <1>1, <1>5, <1>12, <2>1, <2>2 DEF TransferOK, Going
  <2>6. ConnOK(asked)
    BY <1>1, <1>12, <2>1 DEF ConnOK, Going
  <2>7. FreshJobs(asked.jobs, asked.mgen) = {} /\ QueueOK(asked.jobs, asked.mgen)
    BY <1>3, <1>12, Zenon
  <2>8. Going(asked)
    BY <2>3, <2>4, <2>5, <2>6, <2>7 DEF Going, JobsOK
  <2> QED BY <1>1, <1>2, <1>10, <1>13, <2>8, CommitKeeps
<1>14. ASSUME NEW e \in {taken, bumped}, c.transfer, Commit(FailTransfer(e)) PROVE Going(c)'
  <2>1. \A a : (Quiet(e, a) <=> Quiet(c, a)) /\ (Stands(e, a) <=> Stands(c, a))
    BY <1>11 DEF Quiet, Stands
  <2>2. AnswerOK(e)
    BY <1>6, <1>11 DEF AnswerOK
  <2>3. ConnOK(e)
    BY <1>1, <1>11, <2>1 DEF ConnOK, Going
  <2>4. FreshJobs(e.jobs, e.mgen) = {} /\ QueueOK(e.jobs, e.mgen)
    <3>1. e.jobs = d.jobs /\ e.mgen = c.mgen
      BY <1>11
    <3> QED BY <1>3, <3>1, Zenon
  <2>5. AiCall /\ IsAnswered /\ e.registration # "rejected"
    BY <1>1, <1>11, <1>14 DEF Going, TransferOK, HuntOK
  <2>6. e \in Coordinator /\ Quiet(e, current) /\ ~e.answering /\ e.registering = 0
    BY <1>5, <1>6, <1>11, <2>1
  <2>7. \A a \in Attempt : a > current => e.told[a] = {}
    BY <1>6, <1>11
  <2>8. Going(FailTransfer(e))
    BY <2>2, <2>3, <2>4, <2>5, <2>6, <2>7, FailTransferGoing
  <2>9. FailTransfer(e) \in Coordinator
    BY <2>6, SetTransfer, SetTransferFailed, SetCalleeDone, DisarmOK DEF FailTransfer
  <2> QED BY <1>1, <1>2, <1>14, <2>8, <2>9, CommitKeeps
<1>15. ASSUME NEW e \in {taken, bumped}, Commit(TerminateRetry(e)) PROVE Going(c)'
  <2>1. HuntBudget(e, current) /\ e \in Coordinator
    BY <1>1, <1>5, <1>11 DEF HuntBudget
  <2>2. TerminateRetry(e) \in Coordinator /\ Terminating(TerminateRetry(e))
    BY <2>1, TerminateRetryOK DEF Ready
  <2> QED BY <1>1, <1>2, <1>15, <2>2, CommitKeeps
<1> QED BY <1>7, <1>13, <1>14, <1>15

\* AnswerMediaStarted
LEMMA MediaStartedGoing ==
  ASSUME Calm, CalleeInv, ~Terminating(c), ~Terminating(c'), MediaStarted
  PROVE  Going(c)'
<1>1. /\ c \in Coordinator /\ Going(c) /\ CoordInv /\ c.finish = "no" /\ c.jobs # <<>> /\ current \in Leg
      /\ UNCHANGED leg /\ UNCHANGED evq
  BY GoingNow DEF MediaStarted, MediaResult
<1>2. \A m \in Leg : Sent(m)' \subseteq Sent(m)
  BY <1>1, QuietSent
<1> DEFINE d == Done(c)
<1>3. d \in Coordinator /\ Going(d)
  BY <1>1, DoneReady, DoneGoing
<1> HIDE DEF d
<1>4. PICK gen : Commit(d) \/ (ActivateBridge(gen) /\ c' = d) \/ c' = Finish(c, "error")
  BY DEF MediaStarted, d
<1>5. c' # Finish(c, "error")
  BY <1>1 DEF Finish, Terminating, Coordinator
<1>6. CASE ActivateBridge(gen) /\ c' = d
  <2>1. UNCHANGED <<current, winner>> /\ bridge' = [bridge EXCEPT ![winner] = "Active"] /\ IsAnswered
    BY <1>6 DEF ActivateBridge, MayActivate
  <2>2. bridge \in [Attempt -> BridgeStates] /\ winner \in Attempt
    BY <1>1, <2>1 DEF CoordInv, AggInv, AggTypeOK, IsAnswered
  <2>3. bridge'[winner] = "Active"
    BY <2>1, <2>2
  <2>4. Going(c')
    BY <1>3, <1>6
  <2> QED BY <1>1, <1>2, <2>1, <2>3, <2>4, StoreGoing
<1> QED BY <1>1, <1>2, <1>3, <1>4, <1>5, <1>6, CommitKeeps

\* Timers and legs that are told to end, once nothing is under way
LEMMA SetupTimerGoing ==
  ASSUME Calm, CalleeInv, ~Terminating(c), ~Terminating(c'),
         NEW k \in {"Dial", "Ring"}, NEW budget \in BOOLEAN, SetupTimerExpires(k, budget)
  PROVE  Going(c)'
<1>1. /\ c \in Coordinator /\ Going(c) /\ HuntBudget(c, current) /\ current \in Attempt /\ current \in Leg
      /\ Ready(c) /\ UNCHANGED leg /\ UNCHANGED evq
  BY GoingNow DEF SetupTimerExpires
<1>2. \A m \in Leg : Sent(m)' \subseteq Sent(m)
  BY <1>1, QuietSent
<1>3. c.jobs = <<>> /\ ~c.answering /\ ~c.pendingAnswer /\ k \in c.timers
  BY DEF SetupTimerExpires, Calm
<1> DEFINE d == Disarm(c, {k})
           e == Tell(d, current, "Cancel")
           w == WaitForRetry(d)
<1>4. d \in Coordinator /\ Going(d)
  BY <1>1, DisarmOK, TimersGoing
<1>5. HuntBudget(d, current)
  BY <1>1 DEF HuntBudget, Disarm, Coordinator
<1>6. /\ e.answering = c.answering /\ e.pendingAnswer = c.pendingAnswer
      /\ e.retry = c.retry /\ e.pending = c.pending /\ e.registering = c.registering
      /\ e.transfer = c.transfer /\ e.transferFailed = c.transferFailed
      /\ e.registration = c.registration /\ e.state = c.state
      /\ e.jobs = c.jobs /\ e.mgen = c.mgen /\ e.told[current] # {}
      /\ \A l \in Leg : l # current => e.told[l] = c.told[l]
  BY <1>1 DEF Tell, Disarm, Coordinator
<1>7. /\ w.answering = c.answering /\ w.pendingAnswer = c.pendingAnswer
      /\ w.retry = TRUE /\ w.pending = c.pending /\ w.registering = c.registering
      /\ w.transfer = c.transfer /\ w.transferFailed = c.transferFailed
      /\ w.registration = c.registration /\ w.state = c.state
      /\ w.jobs = c.jobs /\ w.mgen = c.mgen /\ w.told[current] # {}
      /\ \A l \in Leg : l # current => w.told[l] = c.told[l]
      /\ d.remaining = c.remaining /\ d.pending = c.pending /\ d.registering = c.registering
  BY <1>1 DEF WaitForRetry, Arm, Tell, Disarm, Coordinator
<1>8. \/ c.transfer /\ Commit(FailTransfer(e))
      \/ Commit(d)
      \/ HasRetryCandidate(d, budget) /\ Commit(w)
      \/ Commit(TimerTerminates(d))
  BY DEF SetupTimerExpires
<1> HIDE DEF d
<1>9. e \in Coordinator /\ w \in Coordinator
  BY <1>1, <1>4, Names, DisarmOK, SetRetry, TellOK, ArmOK DEF WaitForRetry
<1>10. \A b \in Attempt : b \in Leg /\ (b > current => b # current)
  BY <1>1 DEF Attempt, Leg
<1>11. \A b \in Attempt : b > current => e.told[b] = {} /\ w.told[b] = {}
  BY <1>1, <1>6, <1>7, <1>10 DEF Going, HuntOK
<1>12. QueueOK(c.jobs, c.mgen) /\ FreshJobs(c.jobs, c.mgen) = {} /\ c.registration # "rejected"
  BY <1>1, <1>3 DEF Going, HuntOK, JobsOK, FreshJobs
<1> HIDE DEF e, w
<1>13. CASE c.transfer /\ Commit(FailTransfer(e))
  <2>1. AiCall /\ IsAnswered /\ ~Offering(c) /\ winner # current
    BY <1>1, <1>3, <1>13 DEF Going, TransferOK
  <2>2. winner \in Leg
    BY <2>1, GoingNow, LegNumbers
  <2>3. AnswerOK(e)
    BY <1>3, <1>6 DEF AnswerOK
  <2>4. ConnOK(e)
    BY <1>1, <1>6, <2>1, <2>2 DEF ConnOK, Going, Stands
  <2>5. Quiet(e, current) /\ ~e.answering /\ e.registering = 0 /\ e.registration # "rejected"
    BY <1>3, <1>6, <1>12, <2>1 DEF Quiet, Offering
  <2>6. QueueOK(e.jobs, e.mgen) /\ FreshJobs(e.jobs, e.mgen) = {}
    BY <1>6, <1>12, Zenon
  <2>7. Going(FailTransfer(e))
    BY <1>9, <1>11, <2>1, <2>3, <2>4, <2>5, <2>6, FailTransferGoing
  <2>8. FailTransfer(e) \in Coordinator
    BY <1>9, SetTransfer, SetTransferFailed, SetCalleeDone, DisarmOK DEF FailTransfer
  <2> QED BY <1>1, <1>2, <1>13, <2>7, <2>8, CommitKeeps
<1>14. CASE HasRetryCandidate(d, budget) /\ Commit(w)
  <2>1. ~IsAnswered /\ c.pending = 0 /\ c.registering = 0 /\ c.remaining > 0
    BY <1>7, <1>14 DEF HasRetryCandidate
  <2>2. ~AiCall /\ ~c.transfer /\ ~c.transferFailed /\ c.state # "Connected"
    BY <1>1, <2>1 DEF HuntBudget, Going, TransferOK, ConnOK
  <2>3. AnswerOK(w)
    BY <1>3, <1>7 DEF AnswerOK
  <2>4. HuntOK(w)
    BY <1>7, <1>11, <1>12, <2>1 DEF HuntOK, Offering
  <2>5. TransferOK(w)
    BY <1>7, <2>2 DEF TransferOK
  <2>6. ConnOK(w)
    BY <1>7, <2>2 DEF ConnOK
  <2>7. QueueOK(w.jobs, w.mgen) /\ FreshJobs(w.jobs, w.mgen) = {}
    BY <1>7, <1>12, Zenon
  <2>8. Going(w)
    BY <2>3, <2>4, <2>5, <2>6, <2>7 DEF Going, JobsOK
  <2> QED BY <1>1, <1>2, <1>9, <1>14, <2>8, CommitKeeps
<1>15. CASE Commit(TimerTerminates(d))
  <2>1. TimerTerminates(d) \in Coordinator /\ Terminating(TimerTerminates(d))
    BY <1>1, <1>4, <1>5, TimerTerminatesOK DEF Ready
  <2> QED BY <1>1, <1>2, <1>15, <2>1, CommitKeeps
<1> QED BY <1>1, <1>2, <1>4, <1>8, <1>13, <1>14, <1>15, CommitKeeps

\* The cleanup deadline of a callee that was given up
LEMMA CleanupGoing ==
  ASSUME Calm, CalleeInv, ~Terminating(c), ~Terminating(c'), NEW budget \in BOOLEAN, CleanupExpires(budget)
  PROVE  Going(c)'
<1>1. /\ c \in Coordinator /\ Going(c) /\ current \in Attempt /\ current \in Leg
      /\ UNCHANGED leg /\ UNCHANGED evq
  BY GoingNow DEF CleanupExpires
<1>2. \A m \in Leg : Sent(m)' \subseteq Sent(m)
  BY <1>1, QuietSent
<1> DEFINE d == Disarm(c, {"Cleanup"})
           e == Tell(d, current, "Hangup")
<1>3. d \in Coordinator /\ Going(d)
  BY <1>1, DisarmOK, TimersGoing
<1>4. e \in Coordinator
  BY <1>1, <1>3, Names, TellOK
<1>5. /\ SameGoing([e EXCEPT !.told = c.told], c) /\ e.jobs = c.jobs /\ e.mgen = c.mgen
      /\ e.remaining = c.remaining /\ e.told[current] # {}
      /\ \A l \in Leg : l # current => e.told[l] = c.told[l]
  BY <1>1 DEF SameGoing, Tell, Disarm, Coordinator
<1>6. (c.retry /\ ResumeHunt(e, budget)) \/ Commit(d)
  BY DEF CleanupExpires
<1> HIDE DEF d, e
<1>7. \A b \in Attempt : b \in Leg /\ (b > current => b # current)
  BY <1>1 DEF Attempt, Leg
<1>8. Quiet(e, current) /\ \A b \in Attempt : b > current => e.told[b] = {}
  BY <1>1, <1>5, <1>7 DEF Quiet, Going, HuntOK
<1>9. CASE c.retry /\ ResumeHunt(e, budget)
  BY <1>1, <1>2, <1>4, <1>5, <1>8, <1>9, ResumeHuntGoing
<1> QED BY <1>1, <1>2, <1>3, <1>6, <1>9, CommitKeeps

\* The registrar
LEMMA RegisterGoing ==
  ASSUME CalleeInv, ~Terminating(c), Register
  PROVE  Going(c)'
<1>1. c \in Coordinator /\ Going(c) /\ current \in Leg /\ UNCHANGED <<leg, current, winner, bridge>>
  BY GoingNow DEF Register, aggVars
<1>2. \A m \in Leg : Sent(m)' \subseteq Sent(m)
  BY QuietSent DEF Register
<1> DEFINE e == [c EXCEPT !.registration = "registered"]
<1>3. /\ e.answering = c.answering /\ e.pendingAnswer = c.pendingAnswer /\ e.told = c.told
      /\ e.retry = c.retry /\ e.pending = c.pending /\ e.registering = c.registering
      /\ e.transfer = c.transfer /\ e.transferFailed = c.transferFailed
      /\ e.registration = "registered" /\ e.state = c.state /\ e.timers = c.timers
      /\ e.jobs = c.jobs /\ e.mgen = c.mgen
  BY <1>1 DEF Coordinator
<1>4. c' = e
  BY DEF Register
<1> HIDE DEF e
<1>5. \A a : (Quiet(e, a) <=> Quiet(c, a)) /\ (Stands(e, a) <=> Stands(c, a))
  BY <1>3 DEF Quiet, Stands
<1>6. Offering(e) <=> Offering(c)
  BY <1>3 DEF Offering
<1>7. AnswerOK(e)
  BY <1>1, <1>3, <1>5, <1>6 DEF AnswerOK, Going
<1>8. HuntOK(e)
  BY <1>1, <1>3, <1>5, <1>6 DEF HuntOK, Going
<1>9. TransferOK(e)
  BY <1>1, <1>3, <1>5, <1>6 DEF TransferOK, Going
<1>10. ConnOK(e)
  BY <1>1, <1>3, <1>5, <1>6 DEF ConnOK, Going
<1>11. JobsOK(e)
  BY <1>1, <1>3 DEF JobsOK, JobOK, Going
<1>12. Going(c')
  BY <1>4, <1>7, <1>8, <1>9, <1>10, <1>11 DEF Going
<1> QED BY <1>1, <1>2, <1>12, StoreGoing

\* The next attempt is originated.
LEMMA RegisteredGoing ==
  ASSUME Calm, CalleeInv, ~Terminating(c), ~Terminating(c'), RegistrationMessage
  PROVE  Going(c)' /\ Offering(c) /\ current' = current + 1 /\ leg' = [leg EXCEPT ![current + 1] = "dialing"]
         /\ current + 1 \in Attempt /\ UNCHANGED evq
<1>1. /\ c \in Coordinator /\ Going(c) /\ HuntBudget(c, current) /\ current \in Attempt /\ CoordInv
      /\ IsAnswered => winner \in Attempt /\ winner <= current
  BY GoingNow
<1>2. AttemptRegistered
  BY <1>1 DEF RegistrationMessage, AttemptRejected, Going, HuntOK
<1> DEFINE e == Arm([Registered(c) EXCEPT !.calleeDone = FALSE, !.lateSent = FALSE], "Dial")
<1>3. /\ RegisterAttempt(c.registering) /\ c' = e /\ leg' = [leg EXCEPT ![c.registering] = "dialing"]
      /\ UNCHANGED evq
  BY <1>2 DEF AttemptRegistered
<1>4. c.registering = current + 1 /\ current' = current + 1 /\ UNCHANGED <<winner, bridge>>
  BY <1>3 DEF RegisterAttempt
<1>5. current + 1 # 0 /\ c.pending = 0 /\ Offering(c)
  BY <1>1, <1>4 DEF Attempt, HuntBudget, Offering
<1>6. current + 1 \in Attempt
  BY <1>1, <1>5, MaxAttemptsAssumption, Fields DEF HuntBudget, Offering, Attempt
<1>7. /\ e.answering = c.answering /\ e.pendingAnswer = c.pendingAnswer /\ e.told = c.told
      /\ e.retry = c.retry /\ e.pending = c.pending /\ e.registering = 0
      /\ e.transfer = c.transfer /\ e.transferFailed = c.transferFailed
      /\ e.registration = "idle" /\ e.state = c.state
      /\ e.jobs = c.jobs /\ e.mgen = c.mgen
  BY <1>1 DEF Arm, Registered, Coordinator
<1> HIDE DEF e
<1>8. /\ ~c.answering /\ ~c.pendingAnswer /\ (AiCall => c.transfer /\ IsAnswered)
      /\ \A a \in Attempt : a > current => c.told[a] = {}
  BY <1>1, <1>4, <1>5 DEF Going, AnswerOK, HuntOK, TransferOK
<1>9. ~Offering(c)' /\ (IsAnswered' <=> IsAnswered)
  BY <1>3, <1>4, <1>5, <1>7 DEF Offering, IsAnswered
<1>10. AnswerOK(c)'
  BY <1>3, <1>7, <1>8 DEF AnswerOK
<1>11. HuntOK(c)'
  <2>1. c'.told[current'] = {}
    BY <1>1, <1>3, <1>4, <1>6, <1>7, <1>8 DEF Attempt
  <2>2. \A a \in Attempt : a > current' => c'.told[a] = {}
    BY <1>1, <1>3, <1>4, <1>7, <1>8 DEF Attempt
  <2> QED BY <1>3, <1>7, <1>9, <2>1, <2>2 DEF HuntOK
<1>12. TransferOK(c)'
  <2>1. IsAnswered => winner' # current'
    BY <1>1, <1>4 DEF Attempt
  <2> QED BY <1>1, <1>3, <1>7, <1>8, <1>9, <2>1 DEF Going, TransferOK
<1>13. ConnOK(c)'
  <2>1. ASSUME IsAnswered PROVE leg'[winner] = leg[winner]
    <3>1. winner # current + 1 /\ winner \in Leg /\ leg \in [Leg -> LiveLeg \cup {"none", "ended"}]
      BY <1>1, <2>1, LegNumbers DEF Attempt, CoordInv, TypeOK
    <3> QED BY <1>3, <1>4, <3>1
  <2> QED BY <1>1, <1>3, <1>4, <1>7, <1>9, <2>1 DEF Going, ConnOK, Stands
<1>14. JobsOK(c)'
  <2>1. \A i \in FreshJobs(c.jobs, c.mgen) :
          c.jobs[i].kind \notin {"Answer", "AiAgentAnswer", "TransferAnswer", "CalleeAttemptOffer"}
    BY <1>1, <1>5, <1>8 DEF Going, JobsOK, JobOK
  <2>2. c'.jobs = c.jobs /\ c'.mgen = c.mgen /\ QueueOK(c.jobs, c.mgen)
    BY <1>1, <1>3, <1>7 DEF Going, JobsOK
  <2>3. QueueOK(c'.jobs, c'.mgen) /\ \A i \in FreshJobs(c'.jobs, c'.mgen) :
          c'.jobs[i].kind \notin {"Answer", "AiAgentAnswer", "TransferAnswer", "CalleeAttemptOffer"}
    BY <2>1, <2>2, Zenon
  <2>4. \A i \in FreshJobs(c'.jobs, c'.mgen) : JobOK(c, c.jobs[i])'
    BY <2>3 DEF JobOK
  <2> QED BY <2>3, <2>4 DEF JobsOK, QueueOK, FreshJobs
<1> QED BY <1>3, <1>4, <1>5, <1>6, <1>10, <1>11, <1>12, <1>13, <1>14 DEF Going

\* The agent's EndCall and transfers
LEMMA AgentGoing ==
  ASSUME Calm, CalleeInv, ~Terminating(c), ~Terminating(c'), Agent
  PROVE  Going(c)'
<1>1. /\ c \in Coordinator /\ Going(c) /\ HuntBudget(c, current) /\ current \in Attempt /\ current \in Leg
      /\ AttemptLegsOK /\ UNCHANGED leg /\ UNCHANGED evq /\ AiCall
  BY GoingNow DEF Agent, AgentEndsCall, AgentEndRefused, AgentTransfers, AgentTransferRefused
<1>2. \A m \in Leg : Sent(m)' \subseteq Sent(m)
  BY <1>1, QuietSent
<1>3. CASE AgentEndsCall
  <2>1. AgentEnds(c) \in Coordinator /\ Terminating(AgentEnds(c))
    BY <1>1, AgentEndsOK DEF Ready
  <2> QED BY <1>1, <1>2, <1>3, <2>1, CommitKeeps DEF AgentEndsCall
<1>4. CASE AgentEndRefused
  <2> DEFINE e == [Disarm(c, {"Dial", "Ring"}) EXCEPT !.state = "Terminating", !.calleeDone = TRUE]
  <2>1. e \in Coordinator
    BY <1>1, Names, DisarmOK, SetState, SetCalleeDone
  <2>2. Terminating(e)
    BY <1>1 DEF Terminating, Disarm, Coordinator
  <2>3. Commit(e)
    BY <1>4 DEF AgentEndRefused
  <2> HIDE DEF e
  <2> QED BY <1>1, <1>2, <2>1, <2>2, <2>3, CommitKeeps
<1>5. CASE AgentTransfers \/ AgentTransferRefused
  <2>1. /\ AiActive(c) /\ IsAnswered /\ ~c.transfer /\ current < MaxAttempts
    BY <1>5 DEF AgentTransfers, AgentTransferRefused
  <2>2. current + 1 \in Attempt /\ current + 1 \in Nat
    BY <1>1, <2>1, MaxAttemptsAssumption DEF Attempt
  <2>3. Quiet(c, current)
    <3>1. CASE current = 1
      BY <1>1, <3>1 DEF AttemptLegsOK, Quiet, LiveLeg
    <3>2. CASE current # 1
      BY <1>1, <2>1, <3>2 DEF AiActive, Going, TransferOK
    <3> QED BY <3>1, <3>2
  <2>4. /\ ~c.answering /\ ~c.pendingAnswer /\ c.registering = 0 /\ c.registration # "rejected"
        /\ ConnOK(c) /\ QueueOK(c.jobs, c.mgen)
        /\ \A a \in Attempt : a > current => c.told[a] = {}
    BY <1>1, <2>1 DEF Going, AnswerOK, HuntOK, JobsOK
  <2>5. ASSUME NEW d \in Coordinator, d.answering = c.answering, d.pendingAnswer = c.pendingAnswer,
               d.told = c.told, d.retry = c.retry, d.registering = c.registering,
               d.registration = c.registration, d.state = c.state
        PROVE  AnswerOK(d) /\ ConnOK(d) /\ Quiet(d, current)
    <3>1. \A a : (Quiet(d, a) <=> Quiet(c, a)) /\ (Stands(d, a) <=> Stands(c, a))
      BY <2>5 DEF Quiet, Stands
    <3> QED BY <2>3, <2>4, <2>5, <3>1 DEF AnswerOK, ConnOK
  <2>6. CASE AgentTransfers
    <3> DEFINE d == [c EXCEPT !.transfer = TRUE]
    <3>1. d \in Coordinator
      BY <1>1, SetTransfer
    <3>2. /\ d.answering = c.answering /\ d.pendingAnswer = c.pendingAnswer /\ d.told = c.told
          /\ d.retry = c.retry /\ d.registering = c.registering /\ d.registration = c.registration
          /\ d.state = c.state /\ d.jobs = c.jobs /\ d.mgen = c.mgen /\ d.transfer /\ d.pending = c.pending
      BY <1>1 DEF Coordinator
    <3>3. Commit(FailTransfer(d)) \/ Commit(OfferNext(d))
      BY <2>6 DEF AgentTransfers
    <3> HIDE DEF d
    <3>4. AnswerOK(d) /\ ConnOK(d) /\ Quiet(d, current)
      BY <2>5, <3>1, <3>2
    <3>5. /\ ~d.answering /\ ~d.pendingAnswer /\ d.registering = 0 /\ d.registration # "rejected"
          /\ \A a \in Attempt : a > current => d.told[a] = {}
      BY <2>4, <3>2
    <3>6. QueueOK(d.jobs, d.mgen)
      BY <2>4, <3>2, Zenon
    <3>7. \A i \in FreshJobs(d.jobs, d.mgen) : JobOK(d, d.jobs[i]) /\ d.jobs[i].kind # "CalleeAttemptOffer"
      <4>1. \A i \in FreshJobs(c.jobs, c.mgen) : JobOK(c, c.jobs[i]) /\ c.jobs[i].kind # "CalleeAttemptOffer"
        BY <1>1, <2>1 DEF Going, JobsOK, JobOK
      <4>2. \A j : JobOK(c, j) => JobOK(d, j)
        BY <3>2 DEF JobOK
      <4> QED BY <3>2, <4>1, <4>2, Zenon
    <3>8. Going(FailTransfer(d)) /\ FailTransfer(d) \in Coordinator
      <4>1. Going(FailTransfer(d))
        BY <1>1, <2>1, <3>1, <3>4, <3>5, <3>6, <3>7, FailTransferGoing
      <4> QED BY <3>1, <4>1, SetTransfer, SetTransferFailed, SetCalleeDone, DisarmOK DEF FailTransfer
    <3>9. Going(OfferNext(d)) /\ OfferNext(d) \in Coordinator
      <4>1. Going(OfferNext(d))
        BY <1>1, <2>1, <2>2, <3>1, <3>2, <3>4, <3>5, <3>6, OfferNextGoing
      <4>2. [d EXCEPT !.timers = {}, !.pending = current + 1] \in Coordinator
        BY <2>2, <3>1, SetTimers, SetPending
      <4>3. OfferNext(d) \in Coordinator
        BY <2>2, <4>2, PrepareOK DEF OfferNext
      <4> QED BY <4>1, <4>3
    <3> QED BY <1>1, <1>2, <3>3, <3>8, <3>9, CommitKeeps
  <2>7. CASE AgentTransferRefused
    <3> DEFINE f == OfferNext(c)
               e == [f EXCEPT !.jobs = c.jobs]
    <3>1. f \in Coordinator
      <4>1. [c EXCEPT !.timers = {}, !.pending = current + 1] \in Coordinator
        BY <1>1, <2>2, SetTimers, SetPending
      <4> QED BY <2>2, <4>1, PrepareOK DEF OfferNext
    <3>2. /\ e.answering = c.answering /\ e.pendingAnswer = c.pendingAnswer /\ e.told = c.told
          /\ e.retry = c.retry /\ e.registering = c.registering /\ e.registration = c.registration
          /\ e.state = c.state /\ e.jobs = c.jobs /\ e.mgen = c.mgen + 1
      BY <1>1 DEF OfferNext, Prepare, Coordinator
    <3>3. Commit(FailTransfer(e))
      BY <2>7 DEF AgentTransferRefused
    <3> HIDE DEF f
    <3>4. e \in Coordinator
      <4>1. c.jobs \in Seq(Jobs)
        BY <1>1, Fields
      <4> QED BY <3>1, <4>1, SetJobs
    <3> HIDE DEF e
    <3>5. AnswerOK(e) /\ ConnOK(e) /\ Quiet(e, current)
      BY <2>5, <3>2, <3>4
    <3>6. QueueOK(e.jobs, e.mgen) /\ FreshJobs(e.jobs, e.mgen) = {}
      <4>1. QueueOK(c.jobs, c.mgen + 1) /\ FreshJobs(c.jobs, c.mgen + 1) = {}
        <5>1. c.jobs \in Seq(Jobs) /\ c.mgen \in Nat
          BY <1>1, Fields
        <5> QED BY <2>4, <5>1, QueueStale
      <4> QED BY <3>2, <4>1, Zenon
    <3>7. /\ ~e.answering /\ e.registering = 0 /\ e.registration # "rejected"
          /\ \A a \in Attempt : a > current => e.told[a] = {}
      BY <2>4, <3>2
    <3>8. Going(FailTransfer(e))
      BY <1>1, <2>1, <3>4, <3>5, <3>6, <3>7, FailTransferGoing
    <3>9. FailTransfer(e) \in Coordinator
      BY <3>4, SetTransfer, SetTransferFailed, SetCalleeDone, DisarmOK DEF FailTransfer
    <3> QED BY <1>1, <1>2, <3>3, <3>8, <3>9, CommitKeeps
  <2> QED BY <1>5, <2>6, <2>7
<1> QED BY <1>3, <1>4, <1>5 DEF Agent

\* The drain and the removal end the call.
LEMMA EndTerminates ==
  ASSUME CalleeInv, ~Terminating(c), BeginShutdown \/ SubmissionRefused \/ ForceCleanup \/ CallFinalized
  PROVE  Terminating(c')
<1>1. c \in Coordinator /\ c.finish = "no" /\ current \in Attempt /\ Ready(c) /\ Caller \in Leg /\ current \in Leg
  BY GoingNow, LegNumbers
<1>2. CASE BeginShutdown
  <2>1. DrainCall(c) \in Coordinator
    BY <1>1, DrainCallOK DEF Ready
  <2>2. Terminating(DrainCall(c))
    BY <1>1 DEF DrainCall, Arm, Tell, Disarm, Terminating, Coordinator
  <2> QED BY <1>2, <2>1, <2>2, CommitGoing DEF BeginShutdown
<1>3. CASE SubmissionRefused \/ ForceCleanup
  BY <1>1, <1>3 DEF SubmissionRefused, ForceCleanup, Finish, Terminating, Coordinator
<1>4. CASE CallFinalized
  BY <1>1, <1>4 DEF CallFinalized
<1> QED BY <1>2, <1>3, <1>4

----------------------------------------------------------------------------
(* The legs, and every step *)

\* An attempt's leg that is over stays so, and an answer is not taken back.
LegsMove ==
  \A a \in Attempt :
    /\ leg[a] \notin LiveLeg => leg'[a] = leg[a]
    /\ leg[a] \in {"answered", "ended"} => leg'[a] \in {"answered", "ended"}
    /\ "failed" \in Sent(a)' => "failed" \in Sent(a) \/ leg[a] \in {"dialing", "ringing"}

\* One attempt's leg moves and reports it.
LEMMA AttemptMoves ==
  ASSUME CalleeInv, NEW b \in Attempt,
         CalleeRings(b) \/ CalleeAnswers(b) \/ CalleeFails(b) \/ CalleeLeaves(b)
  PROVE  UNCHANGED <<aggVars, c>> /\ LegsMove /\ AttemptLegsOK'
<1>1. /\ CoordInv /\ AttemptLegsOK /\ b \in Leg /\ \A a \in Attempt : a \in Leg
      /\ leg \in [Leg -> LiveLeg \cup {"none", "ended"}]
  BY LegNumbers DEF CalleeInv, CoordInv, TypeOK
<1>2. PICK to \in {"ringing", "answered", "ended"}, kind \in {"provisional", "answered", "failed", "disconnected"} :
        /\ LegStep(b, to, kind) /\ leg[b] \in {"dialing", "ringing", "answered"}
        /\ kind = "provisional" => to = "ringing" /\ leg[b] = "dialing"
        /\ kind = "answered" => to = "answered" /\ leg[b] \in {"dialing", "ringing"}
        /\ kind = "failed" => to = "ended" /\ leg[b] \in {"dialing", "ringing"}
        /\ kind = "disconnected" => to = "ended" /\ leg[b] = "answered"
  BY DEF CalleeRings, CalleeAnswers, CalleeFails, CalleeLeaves
<1>3. UNCHANGED <<aggVars, c, current>> /\ leg' = [leg EXCEPT ![b] = to]
  BY <1>2 DEF LegStep, aggVars
<1>4. \A m \in Leg : Sent(m)' \subseteq IF m = b THEN Sent(m) \cup {kind} ELSE Sent(m)
  BY <1>1, <1>2, LegStepSent
<1>5. ASSUME NEW a \in Attempt, a # b
      PROVE  leg'[a] = leg[a] /\ Sent(a)' \subseteq Sent(a)
  BY <1>1, <1>3, <1>4, <1>5
<1>6. leg'[b] = to /\ Sent(b)' \subseteq Sent(b) \cup {kind}
  BY <1>1, <1>3, <1>4
<1>7. LegsMove
  <2> SUFFICES ASSUME NEW a \in Attempt
               PROVE  /\ leg[a] \notin LiveLeg => leg'[a] = leg[a]
                      /\ leg[a] \in {"answered", "ended"} => leg'[a] \in {"answered", "ended"}
                      /\ "failed" \in Sent(a)' => "failed" \in Sent(a) \/ leg[a] \in {"dialing", "ringing"}
    BY DEF LegsMove
  <2>1. CASE a = b
    BY <1>2, <1>6, <2>1 DEF LiveLeg
  <2>2. CASE a # b
    BY <1>5, <2>2
  <2> QED BY <2>1, <2>2
<1>8. AttemptLegsOK'
  <2> SUFFICES ASSUME NEW a \in Attempt
               PROVE  /\ a > current => leg'[a] = "none"
                      /\ "answered" \in Sent(a)' => leg'[a] \in {"answered", "ended"} /\ "failed" \notin Sent(a)'
                      /\ Sent(a)' \cap {"failed", "disconnected"} # {} => leg'[a] = "ended"
                      /\ "originateFailed" \notin Sent(a)'
                      /\ AiCall /\ a = 1 => leg'[a] = "none" /\ Sent(a)' = {}
    BY <1>3 DEF AttemptLegsOK
  <2>1. /\ a > current => leg[a] = "none"
        /\ "answered" \in Sent(a) => leg[a] \in {"answered", "ended"} /\ "failed" \notin Sent(a)
        /\ Sent(a) \cap {"failed", "disconnected"} # {} => leg[a] = "ended"
        /\ "originateFailed" \notin Sent(a)
        /\ AiCall /\ a = 1 => leg[a] = "none" /\ Sent(a) = {}
    BY <1>1 DEF AttemptLegsOK
  <2>2. CASE a = b
    <3>1. ~(a > current) /\ ~(AiCall /\ a = 1) /\ Sent(a) \cap {"failed", "disconnected"} = {}
      BY <1>2, <2>1, <2>2
    <3>2. leg'[a] = to /\ Sent(a)' \subseteq Sent(a) \cup {kind}
      BY <1>6, <2>2
    <3>3. CASE kind = "provisional"
      BY <1>2, <2>1, <2>2, <3>1, <3>2, <3>3
    <3>4. CASE kind = "answered"
      BY <1>2, <2>1, <2>2, <3>1, <3>2, <3>4
    <3>5. CASE kind = "failed"
      BY <1>2, <2>1, <2>2, <3>1, <3>2, <3>5
    <3>6. CASE kind = "disconnected"
      BY <1>2, <2>1, <2>2, <3>1, <3>2, <3>6
    <3> QED BY <1>2, <3>3, <3>4, <3>5, <3>6
  <2>3. CASE a # b
    BY <1>5, <2>1, <2>3
  <2> QED BY <2>2, <2>3
<1> QED BY <1>3, <1>7, <1>8

\* What the legs, the caller and the adapter do when no request is refused
LEMMA WorldMoves ==
  ASSUME Calm, CalleeInv, AdapterAnswer \/ Legs
  PROVE  UNCHANGED <<aggVars, c>> /\ LegsMove /\ AttemptLegsOK'
<1>1. /\ CoordInv /\ AttemptLegsOK /\ leg \in [Leg -> LiveLeg \cup {"none", "ended"}]
      /\ Caller \in Leg /\ \A a \in Attempt : a \in Leg /\ a # Caller
  BY LegNumbers DEF CalleeInv, CoordInv, TypeOK
<1>2. ASSUME UNCHANGED <<aggVars, c>>, NEW l \in Leg, NEW to, leg' = [leg EXCEPT ![l] = to],
             l \in Attempt => leg[l] \in LiveLeg /\ to = "ended",
             \A a \in Attempt : Sent(a)' \subseteq Sent(a)
      PROVE  LegsMove /\ AttemptLegsOK'
  <2>1. \A a \in Attempt : leg'[a] = leg[a] \/ (leg[a] \in LiveLeg /\ leg'[a] = "ended")
    BY <1>1, <1>2
  <2>2. LegsMove
    BY <1>2, <2>1 DEF LegsMove
  <2>3. \A a \in Attempt : leg[a] \in {"none", "ended"} => leg'[a] = leg[a]
    BY <2>1 DEF LiveLeg
  <2> QED BY <1>1, <1>2, <2>2, <2>3 DEF AttemptLegsOK, LegsMove, aggVars
<1>3. CASE AdapterAnswer \/ CallerCancels \/ CallerLeaves
  <2>1. PICK to, kind : LegStep(Caller, to, kind)
    BY <1>3 DEF AdapterAnswer, CallerAnswered, CallerAnswerRefused, CallerCancels, CallerLeaves
  <2>2. \A a \in Attempt : Sent(a)' \subseteq Sent(a)
    BY <1>1, <2>1, LegStepSent
  <2> QED BY <1>1, <1>2, <2>1, <2>2, LegNumbers DEF LegStep
<1>4. ASSUME NEW l \in Leg, LegEndsSilently(l)
      PROVE  UNCHANGED <<aggVars, c>> /\ LegsMove /\ AttemptLegsOK'
  <2>1. \A a \in Attempt : Sent(a)' \subseteq Sent(a)
    BY <1>1, <1>4, QuietSent DEF LegEndsSilently
  <2> QED BY <1>2, <1>4, <2>1 DEF LegEndsSilently
<1>5. \A a \in Attempt : ~CalleeActionFails(a)
  BY DEF CalleeActionFails, Calm
<1> QED BY <1>3, <1>4, <1>5, AttemptMoves DEF Legs

\* A leg that moves on leaves the call as it is.
LEMMA WorldGoing ==
  ASSUME CalleeInv, ~Terminating(c), UNCHANGED <<aggVars, c>>, LegsMove
  PROVE  Going(c)'
<1>1. /\ Going(c) /\ current \in Attempt /\ AttemptLegsOK
      /\ IsAnswered => winner \in Attempt
  BY GoingNow
<1>2. UNCHANGED <<current, winner, bridge, c>> /\ (IsAnswered' <=> IsAnswered)
  BY DEF aggVars, IsAnswered
<1>3. \A a \in Attempt : (Quiet(c, a) => Quiet(c, a)') /\ (Stands(c, a) => Stands(c, a)')
  BY DEF LegsMove, Quiet, Stands
<1>4. Quiet(c, current) => Quiet(c, current)'
  BY <1>1, <1>2, <1>3 DEF Quiet
<1>5. Stands(c, current) => Stands(c, current)'
  BY <1>1, <1>2, <1>3 DEF Stands
<1>6. IsAnswered /\ Stands(c, winner) => Stands(c, winner)'
  BY <1>1, <1>2, <1>3 DEF Stands
<1>7. Stands(c, current) /\ "failed" \in Sent(current)' => "failed" \in Sent(current)
  BY <1>1, <1>2 DEF LegsMove, Stands, AttemptLegsOK, Sent
<1>8. Offering(c)' <=> Offering(c)
  BY <1>2 DEF Offering
<1>9. AnswerOK(c)'
  BY <1>1, <1>2, <1>5, <1>7, <1>8 DEF AnswerOK, Going
<1>10. HuntOK(c)'
  BY <1>1, <1>2, <1>4, <1>8 DEF HuntOK, Going
<1>11. TransferOK(c)'
  BY <1>1, <1>2, <1>4, <1>8 DEF TransferOK, Going
<1>12. ConnOK(c)'
  BY <1>1, <1>2, <1>6 DEF ConnOK, Going
<1>13. JobsOK(c)'
  BY <1>1, <1>2 DEF JobsOK, JobOK, QueueOK, FreshJobs, Going
<1> QED BY <1>9, <1>10, <1>11, <1>12, <1>13 DEF Going

\* An earlier callee stays quiet.
LEMMA PastStep ==
  ASSUME CalleeInv, [Next]_vars,
         \A a \in Attempt : a < current' => Quiet(c, a) /\ (leg[a] \notin LiveLeg => leg'[a] \notin LiveLeg)
  PROVE  PastOK' /\ (Terminating(c) => Terminating(c'))
<1>1. GrowStep /\ StepOK /\ PastOK /\ \A a \in Attempt : a \in Leg
  BY EveryStepGrows, EveryStepOK, LegNumbers DEF CalleeInv
<1>2. Terminating(c) => Terminating(c')
  BY <1>1 DEF StepOK, Terminating
<1>3. c'.finish # "no" => Terminating(c')
  BY <1>1, <1>2 DEF GrowStep, PastOK
<1>4. \A a \in Attempt : a < current' => Quiet(c, a)'
  BY <1>1 DEF GrowStep, Quiet
<1> QED BY <1>2, <1>3, <1>4 DEF PastOK, Terminating

\* A handler reports nothing on behalf of the legs.
LEMMA HandlerKeeps ==
  ASSUME CalleeInv, [Next]_vars, UNCHANGED <<leg, current>>, \A m \in Leg : Sent(m)' \subseteq Sent(m),
         ~Terminating(c) /\ ~Terminating(c') => Going(c)'
  PROVE  CalleeInv'
<1>1. CoordInv /\ CoordInv' /\ AttemptLegsOK /\ PastOK /\ \A a \in Attempt : a \in Leg
  BY CoordInvStep, LegNumbers DEF CalleeInv
<1>2. PastOK' /\ (Terminating(c) => Terminating(c'))
  BY <1>1, PastStep DEF PastOK
<1>3. AttemptLegsOK'
  BY <1>1 DEF AttemptLegsOK
<1>4. ~Terminating(c)' => Going(c)'
  BY <1>2 DEF Terminating
<1> QED BY <1>1, <1>2, <1>3, <1>4 DEF CalleeInv

\* A message of a leg
LEMMA LegMessageKeeps ==
  ASSUME Calm, CalleeInv, LegMessage, UNCHANGED current
  PROVE  CalleeInv'
<1>1. CoordInv /\ [Next]_vars /\ 1 \in Attempt /\ TRUE \in BOOLEAN
  BY MaxAttemptsAssumption DEF CalleeInv, Next, Attempt
<1>2. UNCHANGED leg /\ \A m \in Leg : Sent(m)' \subseteq Sent(m)
  <2>1. \/ \E l \in Leg, kind \in Events : Receive(l, kind)
        \/ HandleCallerActionFailed
    BY LegNumbers
       DEF Events, LegMessage, HandleCancelled, HandleCallerDisconnected, HandleAnswerNack, StaleLegEvent,
           HandlePeerActionFailed, HandleProvisional, HandleCalleeDisconnected,
           HandleOriginateFailed, HandleAnswered, HandleFailed, HandleAnswerAck
  <2>2. CASE HandleCallerActionFailed
    BY <2>2, QuietSent DEF HandleCallerActionFailed
  <2> QED BY <1>1, <2>1, <2>2, ReceiveSent DEF Receive
<1>3. ASSUME ~Terminating(c), ~Terminating(c') PROVE Going(c)'
  BY <1>1, <1>3, CallerGoing, ProvisionalGoing, AnsweredGoing, FailedGoing, CalleeDisconnectedGoing,
     AnswerAckGoing DEF LegMessage
<1> QED BY <1>1, <1>2, <1>3, HandlerKeeps

\* The registration of the next attempt
LEMMA RegistrationKeeps ==
  ASSUME Calm, CalleeInv, RegistrationMessage
  PROVE  CalleeInv'
<1>1. /\ CoordInv /\ CoordInv' /\ [Next]_vars /\ AttemptLegsOK /\ PastOK /\ current \in Nat
      /\ leg \in [Leg -> LiveLeg \cup {"none", "ended"}] /\ \A a \in Attempt : a \in Leg /\ a \in Nat
  <2>1. CoordInv /\ [Next]_vars /\ AttemptLegsOK /\ PastOK
    BY DEF CalleeInv, Next
  <2>2. current \in Attempt /\ leg \in [Leg -> LiveLeg \cup {"none", "ended"}]
    BY <2>1 DEF CoordInv, TypeOK, AggInv, AggTypeOK
  <2> QED BY <2>1, <2>2, CoordInvStep, LegNumbers DEF Attempt
<1>2. CASE ~Terminating(c) /\ ~Terminating(c')
  <2>1. /\ Going(c) /\ Going(c)' /\ Offering(c) /\ current' = current + 1 /\ current + 1 \in Attempt
        /\ leg' = [leg EXCEPT ![current + 1] = "dialing"] /\ UNCHANGED evq
    BY <1>2, RegisteredGoing, GoingNow
  <2>2. leg[current + 1] = "none"
    BY <1>1, <2>1 DEF AttemptLegsOK
  <2>3. \A a \in Attempt : leg'[a] = IF a = current + 1 THEN "dialing" ELSE leg[a]
    BY <1>1, <2>1
  <2>4. \A a \in Attempt : a < current' => a <= current /\ leg'[a] = leg[a]
    BY <1>1, <2>1, <2>3
  <2>5. Quiet(c, current)
    BY <2>1 DEF Going, HuntOK
  <2>6. \A a \in Attempt : a < current' => Quiet(c, a)
    <3> SUFFICES ASSUME NEW a \in Attempt, a < current' PROVE Quiet(c, a)
      OBVIOUS
    <3>1. a < current \/ a = current
      BY <1>1, <2>4
    <3> QED BY <1>1, <2>5, <3>1 DEF PastOK
  <2>7. PastOK'
    BY <1>1, <2>4, <2>6, PastStep
  <2>8. \A a \in Attempt : Sent(a)' = Sent(a)
    BY <1>1, <2>1, QuietSent
  <2>9. AttemptLegsOK'
    <3> SUFFICES ASSUME NEW a \in Attempt
                 PROVE  /\ a > current + 1 => leg'[a] = "none"
                        /\ "answered" \in Sent(a) => leg'[a] \in {"answered", "ended"} /\ "failed" \notin Sent(a)
                        /\ Sent(a) \cap {"failed", "disconnected"} # {} => leg'[a] = "ended"
                        /\ "originateFailed" \notin Sent(a)
                        /\ AiCall /\ a = 1 => leg'[a] = "none" /\ Sent(a) = {}
      BY <2>1, <2>8 DEF AttemptLegsOK
    <3>1. /\ a > current => leg[a] = "none"
          /\ "answered" \in Sent(a) => leg[a] \in {"answered", "ended"} /\ "failed" \notin Sent(a)
          /\ Sent(a) \cap {"failed", "disconnected"} # {} => leg[a] = "ended"
          /\ "originateFailed" \notin Sent(a)
          /\ AiCall /\ a = 1 => leg[a] = "none" /\ Sent(a) = {}
      BY <1>1 DEF AttemptLegsOK
    <3>2. a > current + 1 => a > current /\ a # current + 1
      BY <1>1
    <3>3. current # 0
      BY <1>1 DEF CoordInv, AggInv, AggTypeOK, Attempt
    <3>4. 1 # current + 1
      BY <1>1, <3>3
    <3> QED BY <2>2, <2>3, <3>1, <3>2, <3>4
  <2> QED BY <1>1, <2>1, <2>7, <2>9 DEF CalleeInv
<1>3. CASE Terminating(c) \/ Terminating(c')
  <2>1. UNCHANGED <<leg, current, evq>>
    <3>1. CASE AttemptRegistered /\ ~Terminating(c)
      <4>1. c \in Coordinator
        BY <1>1 DEF CoordInv, TypeOK
      <4>2. c'.state = c.state
        BY <3>1, <4>1 DEF AttemptRegistered, Arm, Registered, Coordinator
      <4> QED BY <1>3, <3>1, <4>2 DEF Terminating
    <3>2. CASE AttemptRegistered /\ Terminating(c)
      BY <3>2 DEF AttemptRegistered, Commit, ReleaseTopology, aggVars
    <3>3. CASE AttemptRejected
      BY <3>3 DEF AttemptRejected, Commit, ReleaseTopology, aggVars
    <3> QED BY <3>1, <3>2, <3>3 DEF RegistrationMessage
  <2> QED BY <1>1, <1>3, <2>1, QuietSent, HandlerKeeps
<1> QED BY <1>2, <1>3

\* Every step keeps the invariant.
LEMMA CalleeInvStep ==
  ASSUME Calm, CalleeInv, [Next]_vars
  PROVE  CalleeInv'
<1>0. /\ CoordInv /\ CoordInv' /\ PastOK /\ Caller \in Leg
      /\ RegistrationMessage \/ UNCHANGED current
  BY CoordInvStep, EveryStepGrows, LegNumbers DEF CalleeInv
<1>1. CASE RegistrationMessage
  BY <1>1, RegistrationKeeps
<1> SUFFICES ASSUME UNCHANGED current PROVE CalleeInv'
  BY <1>0, <1>1
<1>2. CASE LegMessage
  BY <1>2, LegMessageKeeps
<1>3. CASE MediaMessage
  <2>1. UNCHANGED <<leg, evq>>
    BY <1>3 DEF MediaMessage, IgnoreMedia, MediaFailed, ProvisionalPrepared,
     AnswerPrepared, TransferAnswerPrepared, OfferPrepared, MediaStarted, MediaResult
  <2>2. ASSUME ~Terminating(c), ~Terminating(c') PROVE Going(c)'
    BY <1>3, <2>2, MediaResultGoing, AnswerPreparedGoing, TransferAnswerGoing, OfferPreparedGoing,
       MediaStartedGoing DEF MediaMessage
  <2> QED BY <2>1, <2>2, QuietSent, HandlerKeeps
<1>4. CASE Registrar
  <2>1. Register /\ UNCHANGED <<leg, evq>>
    BY <1>4 DEF Registrar, Register, RefuseRegistration, Calm
  <2> QED BY <2>1, RegisterGoing, QuietSent, HandlerKeeps
<1>5. CASE TimerExpiry
  <2>1. UNCHANGED <<leg, evq>>
    BY <1>5 DEF TimerExpiry, CleanupExpires, SetupTimerExpires
  <2>2. ASSUME ~Terminating(c), ~Terminating(c') PROVE Going(c)'
    BY <1>5, <2>2, CleanupGoing, SetupTimerGoing DEF TimerExpiry
  <2> QED BY <2>1, <2>2, QuietSent, HandlerKeeps
<1>6. CASE Agent
  <2>1. UNCHANGED <<leg, evq>>
    BY <1>6 DEF Agent, AgentEndsCall, AgentEndRefused, AgentTransfers, AgentTransferRefused
  <2> QED BY <1>6, <2>1, AgentGoing, QuietSent, HandlerKeeps
<1>7. CASE AdapterAnswer \/ Legs
  <2>1. UNCHANGED <<aggVars, c>> /\ LegsMove /\ AttemptLegsOK'
    BY <1>7, WorldMoves
  <2>2. PastOK'
    BY <1>0, <2>1, PastStep DEF PastOK, LegsMove
  <2>3. ~Terminating(c)' => Going(c)'
    BY <2>1, WorldGoing DEF Terminating
  <2> QED BY <1>0, <2>1, <2>2, <2>3 DEF CalleeInv
<1>8. CASE BeginShutdown \/ SubmissionRefused \/ ForceCleanup \/ CallFinalized
  <2>1. UNCHANGED <<leg, evq>>
    BY <1>8 DEF BeginShutdown, SubmissionRefused, ForceCleanup, CallFinalized
  <2> QED BY <1>8, <2>1, EndTerminates, QuietSent, HandlerKeeps
<1>9. CASE SystemShutdown \/ CallOver \/ UNCHANGED vars
  <2>1. UNCHANGED <<leg, evq, c, current, winner, bridge>>
    BY <1>9 DEF SystemShutdown, CallOver, vars, aggVars
  <2>2. ASSUME ~Terminating(c), ~Terminating(c') PROVE Going(c)'
    <3>1. Going(c') /\ current \in Leg
      BY <2>1, <2>2, GoingNow
    <3> QED BY <2>1, <3>1, QuietSent, StoreGoing
  <2> QED BY <2>1, <2>2, QuietSent, HandlerKeeps
<1> QED BY <1>1, <1>2, <1>3, <1>4, <1>5, <1>6, <1>7, <1>8, <1>9 DEF Next

\* A call that has just been placed rings its first callee or asks its agent.
LEMMA CalleeInvInit == Init => CalleeInv
<1> SUFFICES ASSUME Init PROVE CalleeInv
  OBVIOUS
<1>1. CoordInv /\ current = 1 /\ winner = NoWinner /\ ~IsAnswered
  BY CoordInvInit DEF Init, AggInit, IsAnswered
<1>2. PICK remaining \in 0..(IF AiCall THEN 0 ELSE MaxAttempts - 1) : c = Started(remaining)
  BY DEF Init
<1>3. /\ ~c.transfer /\ ~c.transferFailed /\ ~c.answering /\ ~c.pendingAnswer /\ ~c.retry
      /\ c.pending = 0 /\ c.registering = 0 /\ c.registration = "idle" /\ c.state = "Establishing"
      /\ c.finish = "no" /\ c.told = [l \in Leg |-> {}]
      /\ c.mgen = (IF AiCall THEN 1 ELSE 0)
      /\ c.jobs = IF AiCall THEN <<Job("AiAgentAnswer", 1, 0, FALSE)>> ELSE <<>>
  BY <1>2 DEF Started
<1>4. \A l \in Leg : Sent(l) = {} /\ c.told[l] = {}
  BY <1>3 DEF Init, Sent
<1>5. \A a \in Attempt : a \in Leg /\ a # Caller
  BY LegNumbers
<1>6. ~Offering(c)
  BY <1>3 DEF Offering
<1>7. AnswerOK(c) /\ TransferOK(c) /\ ConnOK(c)
  BY <1>1, <1>3, <1>6 DEF AnswerOK, TransferOK, ConnOK
<1>8. HuntOK(c)
  <2>1. c.told[current] = {} /\ \A a \in Attempt : c.told[a] = {}
    BY <1>1, <1>4, <1>5, MaxAttemptsAssumption DEF Attempt
  <2> QED BY <1>3, <1>6, <2>1 DEF HuntOK
<1>9. JobsOK(c)
  <2> DEFINE j == Job("AiAgentAnswer", 1, 0, FALSE)
  <2>1. CASE AiCall
    <3>1. c.jobs = <<j>> /\ c.mgen = 1 /\ j.gen = 1 /\ j.kind = "AiAgentAnswer"
      BY <1>3, <2>1 DEF Job
    <3> HIDE DEF j
    <3>2. \A i \in DOMAIN c.jobs : i = 1 /\ c.jobs[i] = j
      BY <3>1
    <3>3. \A i \in DOMAIN c.jobs : c.jobs[i].gen <= c.mgen
      BY <3>1, <3>2
    <3>4. \A i \in FreshJobs(c.jobs, c.mgen) : i = 1 /\ c.jobs[i] = j
      BY <3>2 DEF FreshJobs
    <3>5. JobOK(c, j)
      BY <1>1, <1>3, <2>1, <3>1 DEF JobOK
    <3> QED BY <3>3, <3>4, <3>5 DEF JobsOK, QueueOK
  <2>2. CASE ~AiCall
    BY <1>3, <2>2 DEF JobsOK, QueueOK, FreshJobs
  <2> QED BY <2>1, <2>2
<1>10. AttemptLegsOK
  <2>1. \A a \in Attempt : a > 1 \/ (AiCall /\ a = 1) => leg[a] = "none"
    BY <1>5 DEF Init, Caller, Attempt
  <2> QED BY <1>1, <1>4, <1>5, <2>1 DEF AttemptLegsOK
<1>11. PastOK
  BY <1>1, <1>3 DEF PastOK, Attempt
<1> QED BY <1>1, <1>7, <1>8, <1>9, <1>10, <1>11 DEF CalleeInv, Going

\* What the invariant says of the callees
LEMMA CalleeInvariant == ASSUME Calm PROVE Spec => []CalleeInv
  BY CalleeInvInit, CalleeInvStep, PTL DEF Spec

\* At most one callee of a call, hunted or transferred to, runs that was not
\* told to end, and a connected caller is bridged to a callee that answered
\* and was not given up.  Refused submissions and drains are included; what is
\* assumed is that no deadline passes while SDP or the answer is under way, no
\* callee that was given up is heard late and no request is refused, because
\* under each of these handle_timer, handle_peer_leg_event and
\* handle_action_failure apply to one attempt what was meant for another.
THEOREM OneCalleeAtATime == ASSUME Calm PROVE Spec => []OneConnectedCallee
<1>1. CalleeInv => OneConnectedCallee
  <2> SUFFICES ASSUME CalleeInv PROVE OneConnectedCallee
    OBVIOUS
  <2>1. current \in Nat
    BY DEF CalleeInv, CoordInv, AggInv, AggTypeOK, Attempt
  <2>2. \A a \in Attempt : leg[a] \in LiveLeg /\ c.told[a] = {} => a = current
    <3> SUFFICES ASSUME NEW a \in Attempt, leg[a] \in LiveLeg, c.told[a] = {} PROVE a = current
      OBVIOUS
    <3>1. ~(a < current) /\ ~(a > current)
      BY DEF CalleeInv, PastOK, Quiet, AttemptLegsOK, LiveLeg
    <3> QED BY <2>1, <3>1 DEF Attempt
  <2>3. ConnectedToWinner
    BY DEF CalleeInv, Going, ConnOK, Stands, CalleeStands, Terminating, ConnectedToWinner
  <2> QED BY <2>2, <2>3 DEF OneConnectedCallee, OneLiveCallee
<1> QED BY <1>1, CalleeInvariant, PTL

\* The caller's INVITE is only answered with the media of a callee that
\* answered and that the coordinator has not given up, in hunts and for agents,
\* under the same assumption.
THEOREM AnswersComeFromLiveLegs == ASSUME Calm PROVE Spec => []AnswerFromLiveLeg
<1>1. CalleeInv => AnswerFromLiveLeg
  BY DEF CalleeInv, Going, AnswerOK, Stands, CalleeStands, AnswerFromLiveLeg
<1> QED BY <1>1, CalleeInvariant, PTL
=============================================================================
