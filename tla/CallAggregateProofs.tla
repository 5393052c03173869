----------------------- MODULE CallAggregateProofs -----------------------
(***************************************************************************)
(* Proofs about CallAggregate, for every number of attempts and every      *)
(* bound of the generation counters.                                       *)
(***************************************************************************)
EXTENDS CallAggregate, TLAPS

\* The operations of AggNext, with any media generation.
AggStep ==
  \/ \E a \in Attempt : RegisterAttempt(a)
  \/ FailAttempt \/ FailAttemptRefused
  \/ \E gen \in Nat :
       \/ MarkAnswered(gen)
       \/ MarkAnsweredThenRefused(gen)
       \/ MarkTransferAnswered(gen)
       \/ ActivateBridge(gen)
       \/ ActivateBridgeRefused(gen)
  \/ MarkAnsweredRefused
  \/ MarkTransferAnsweredRefused
  \/ \E l \in Leg : HandoffCoordinator(l)
  \/ ReleaseTopology

\* Every operation of CallAggregate is one of the steps the lemmas below reason about.
LEMMA AggNextIsStep == AggNext => AggStep
  BY MaxGenerationAssumption DEF AggNext, AggStep

\* Type correctness of the call's topology, for every step of CallRuntime.
LEMMA AggTypeInit == AggInit => AggTypeOK
<1> SUFFICES ASSUME AggInit PROVE AggTypeOK
  OBVIOUS
<1>1. /\ attemptState \in [Attempt -> AttemptStates]
      /\ legState \in [Leg -> LegStates]
      /\ bridge \in [Attempt -> BridgeStates]
      /\ bridgeGen \in [Attempt -> Nat]
  BY DEF AggInit, AttemptStates, LegStates, BridgeStates
<1>2. /\ current \in Attempt
      /\ winner \in Attempt \cup {NoWinner}
      /\ owner \in Leg /\ ownerGen \in 1..MaxGeneration
  BY MaxAttemptsAssumption, MaxGenerationAssumption DEF AggInit, Attempt, Leg, Caller
<1>3. left \subseteq Leg /\ released \in BOOLEAN
  BY DEF AggInit
<1> QED BY <1>1, <1>2, <1>3 DEF AggTypeOK

\* Each operation keeps the types of the topology.
LEMMA AggTypeStep == ASSUME AggTypeOK, AggStep PROVE AggTypeOK'
<1> USE DEF AggTypeOK
<1>w. Attempt \subseteq Leg /\ Caller \in Leg
  BY MaxAttemptsAssumption DEF Attempt, Leg, Caller
<1>r. AllReleased \in [Attempt -> BridgeStates]
  BY DEF AllReleased, BridgeStates
<1>v. ASSUME LegsLeave PROVE left' \subseteq Leg /\ legState' \in [Leg -> LegStates]
  BY <1>v, <1>w DEF LegsLeave, LegStates
<1>l. ASSUME ReleaseLegs
      PROVE  /\ left' \subseteq Leg /\ legState' \in [Leg -> LegStates]
             /\ bridge' \in [Attempt -> BridgeStates] /\ released' = TRUE
             /\ UNCHANGED <<bridgeGen, owner, ownerGen>>
  BY <1>l, <1>r, <1>v DEF ReleaseLegs
<1>s. \A a \in Attempt : SelectOver(a) \in [Attempt -> AttemptStates]
  BY DEF SelectOver, AttemptStates
<1>1. ASSUME NEW a \in Attempt, RegisterAttempt(a) PROVE AggTypeOK'
  BY <1>1, <1>w DEF RegisterAttempt, AttemptStates, LegStates
<1>2. CASE FailAttempt
  BY <1>2 DEF FailAttempt, AttemptStates
<1>3. CASE FailAttemptRefused
  BY <1>3, <1>l DEF FailAttemptRefused
<1>4. ASSUME NEW gen \in Nat, MarkAnswered(gen) PROVE AggTypeOK'
  BY <1>4, <1>s, <1>w DEF MarkAnswered, LegStates, BridgeStates
<1>5. ASSUME NEW gen \in Nat, MarkAnsweredThenRefused(gen) PROVE AggTypeOK'
  <2>1. /\ attemptState' \in [Attempt -> AttemptStates] /\ winner' \in Attempt
        /\ bridge' \in [Attempt -> BridgeStates] /\ bridgeGen' \in [Attempt -> Nat]
        /\ released' = TRUE /\ UNCHANGED <<current, owner, ownerGen>>
    BY <1>5, <1>s, <1>r DEF MarkAnsweredThenRefused, BridgeStates
  <2>2. left' \subseteq Leg /\ legState' \in [Leg -> LegStates]
    BY <1>5, <1>v DEF MarkAnsweredThenRefused
  <2> QED BY <2>1, <2>2
<1>6. ASSUME NEW gen \in Nat, MarkTransferAnswered(gen) PROVE AggTypeOK'
  <2>1. /\ attemptState' \in [Attempt -> AttemptStates] /\ winner' \in Attempt
        /\ bridge' \in [Attempt -> BridgeStates] /\ bridgeGen' \in [Attempt -> Nat]
        /\ UNCHANGED <<current, owner, ownerGen, released>>
    BY <1>6, <1>s, <1>r DEF MarkTransferAnswered, BridgeStates
  <2>2. left' \subseteq Leg /\ legState' \in [Leg -> LegStates]
    BY <1>6, <1>w DEF MarkTransferAnswered, LegStates, IsAnswered
  <2> QED BY <2>1, <2>2
<1>7. ASSUME NEW gen \in Nat, ActivateBridge(gen) PROVE AggTypeOK'
  BY <1>7 DEF ActivateBridge, MayActivate, IsAnswered, BridgeStates
<1>8. ASSUME NEW gen \in Nat, ActivateBridgeRefused(gen) PROVE AggTypeOK'
  BY <1>8, <1>l DEF ActivateBridgeRefused
<1>9. CASE MarkAnsweredRefused
  <2>1. attemptState' \in [Attempt -> AttemptStates]
    BY <1>9 DEF MarkAnsweredRefused, AttemptStates
  <2> QED BY <1>9, <1>l, <2>1 DEF MarkAnsweredRefused
<1>10. CASE MarkTransferAnsweredRefused
  BY <1>10, <1>l DEF MarkTransferAnsweredRefused
<1>11. ASSUME NEW l \in Leg, HandoffCoordinator(l) PROVE AggTypeOK'
  BY <1>11, MaxGenerationAssumption DEF HandoffCoordinator
<1>12. CASE ReleaseTopology
  BY <1>12, <1>l DEF ReleaseTopology
<1> QED BY <1>1, <1>2, <1>3, <1>4, <1>5, <1>6, <1>7, <1>8, <1>9, <1>10, <1>11, <1>12 DEF AggStep

\* What the topology relies on besides its types: the attempts are numbered in
\* the order they are registered, the winner has a bridge, and until the call
\* is released only legs of given-up attempts have left it.
Opened(a) == attemptState[a] # "Absent"

AttemptsInOrder ==
  Opened(current) /\ \A a \in Attempt : Opened(a) => a <= current

WinnerBridged == IsAnswered => bridge[winner] # "Absent"

LeftIsOver ==
  ~released => \A l \in left : l \in Attempt /\ TerminalAttempt(attemptState[l])

\* The inductive invariant.
AggInv ==
  /\ AggTypeOK
  /\ SelectedIsWinner
  /\ OneLiveBridge
  /\ AttemptsInOrder
  /\ WinnerBridged
  /\ LeftIsOver

\* A new call has no attempt, no winner and no bridge.
LEMMA AggInvInit == AggInit => AggInv
<1> SUFFICES ASSUME AggInit PROVE AggInv
  OBVIOUS
<1>1. AggTypeOK
  BY AggTypeInit
<1>2. SelectedIsWinner /\ OneLiveBridge /\ WinnerBridged /\ LeftIsOver
  BY DEF AggInit, SelectedIsWinner, OneLiveBridge, WinnerBridged, LeftIsOver, IsAnswered,
         NoWinner, Attempt
<1>3. AttemptsInOrder
  BY MaxAttemptsAssumption DEF AggInit, AttemptsInOrder, Opened, Attempt
<1> QED BY <1>1, <1>2, <1>3 DEF AggInv

\* An attempt that may be answered is neither terminal nor the winner.
LEMMA Answerable ==
  ASSUME AggInv, MayUpdateAttempt(current, "Answered")
  PROVE  /\ attemptState[current] \in {"Dialing", "Ringing", "Answered"}
         /\ current # winner
  BY DEF AggInv, AggTypeOK, MayUpdateAttempt, ValidAttemptTransition, SelectedIsWinner

\* fail_attempt accepts only an attempt that is open and not selected.
LEMMA Failable ==
  ASSUME AggInv, MayUpdateAttempt(current, "Failed")
  PROVE  attemptState[current] # "Selected" /\ current # winner
  BY DEF AggInv, AggTypeOK, MayUpdateAttempt, ValidAttemptTransition, SelectedIsWinner

\* Releasing the legs of a call keeps the invariant, whatever becomes of the
\* current attempt in the same step.
LEMMA ReleaseKeepsInv ==
  ASSUME AggInv, AggTypeOK', ReleaseLegs, UNCHANGED <<current, winner>>,
         \/ UNCHANGED attemptState
         \/ /\ attemptState' = [attemptState EXCEPT ![current] = "Answered"]
            /\ current # winner
  PROVE  AggInv'
<1> USE DEF AggInv, AggTypeOK
<1>1. SelectedIsWinner'
  BY DEF SelectedIsWinner
<1>2. OneLiveBridge'
  BY DEF OneLiveBridge, ReleaseLegs, AllReleased
<1>3. AttemptsInOrder'
  BY DEF AttemptsInOrder, Opened
<1>4. WinnerBridged'
  BY DEF WinnerBridged, IsAnswered, NoWinner, ReleaseLegs, AllReleased
<1>5. LeftIsOver'
  BY DEF LeftIsOver, ReleaseLegs
<1> QED BY <1>1, <1>2, <1>3, <1>4, <1>5

\* Each operation keeps the winner, the bridges and the order of the attempts.
LEMMA AggInvStep == ASSUME AggInv, AggStep PROVE AggInv'
<1>t. AggTypeOK /\ AggTypeOK'
  BY AggTypeStep DEF AggInv
<1>c. Caller \notin Attempt /\ NoWinner \notin Attempt
  BY DEF Caller, NoWinner, Attempt
<1> USE DEF AggInv, AggTypeOK
<1>1. ASSUME NEW a \in Attempt, RegisterAttempt(a) PROVE AggInv'
  <2>1. a # winner /\ a # current /\ a > current
    BY <1>1 DEF RegisterAttempt, SelectedIsWinner, AttemptsInOrder, Opened, Attempt
  <2>2. SelectedIsWinner'
    BY <1>1, <2>1 DEF RegisterAttempt, SelectedIsWinner
  <2>3. OneLiveBridge'
    BY <1>1, <1>c, <2>1 DEF RegisterAttempt, OneLiveBridge
  <2>4. AttemptsInOrder'
    BY <1>1, <2>1 DEF RegisterAttempt, AttemptsInOrder, Opened, Attempt
  <2>5. WinnerBridged' /\ LeftIsOver'
    BY <1>1, <2>1 DEF RegisterAttempt, WinnerBridged, IsAnswered, LeftIsOver, TerminalAttempt
  <2> QED BY <1>t, <2>2, <2>3, <2>4, <2>5
<1>2. CASE FailAttempt
  <2>1. attemptState[current] # "Selected" /\ current # winner
    BY <1>2, Failable DEF FailAttempt
  <2>2. SelectedIsWinner'
    BY <1>2, <2>1 DEF FailAttempt, SelectedIsWinner
  <2>3. OneLiveBridge' /\ WinnerBridged'
    BY <1>2 DEF FailAttempt, OneLiveBridge, WinnerBridged, IsAnswered
  <2>4. AttemptsInOrder' /\ LeftIsOver'
    BY <1>2 DEF FailAttempt, AttemptsInOrder, Opened, LeftIsOver, TerminalAttempt
  <2> QED BY <1>t, <2>2, <2>3, <2>4
<1>3. CASE FailAttemptRefused
  BY <1>3, <1>t, ReleaseKeepsInv DEF FailAttemptRefused
<1>4. ASSUME NEW gen \in Nat, MarkAnswered(gen) PROVE AggInv'
  <2>1. /\ attemptState[current] \in {"Dialing", "Ringing", "Answered"}
        /\ winner = NoWinner /\ ~released
    BY <1>4, Answerable DEF MarkAnswered
  <2>2. SelectedIsWinner'
    BY <1>4, <1>c, <2>1 DEF MarkAnswered, SelectedIsWinner, SelectOver
  <2>3. Caller \notin left /\ current \notin left
    BY <1>c, <2>1 DEF LeftIsOver, TerminalAttempt
  <2>4. \A a \in Attempt : bridge[a] \notin {"Planned", "Active"}
    BY <1>c, <2>1 DEF OneLiveBridge
  <2>5. legState'[Caller] = "Bridged" /\ legState'[current] = "Bridged"
    BY <1>4, <1>c, MaxAttemptsAssumption DEF MarkAnswered, Leg, Attempt, Caller
  <2>6. OneLiveBridge'
    BY <1>4, <2>3, <2>4, <2>5 DEF MarkAnswered, OneLiveBridge
  <2>7. AttemptsInOrder' /\ LeftIsOver'
    BY <1>4, <2>3 DEF MarkAnswered, AttemptsInOrder, Opened, SelectOver, LeftIsOver,
                      TerminalAttempt
  <2>8. WinnerBridged'
    BY <1>4 DEF MarkAnswered, WinnerBridged
  <2> QED BY <1>t, <2>2, <2>6, <2>7, <2>8
<1>5. ASSUME NEW gen \in Nat, MarkAnsweredThenRefused(gen) PROVE AggInv'
  <2>1. SelectedIsWinner'
    BY <1>5, <1>c DEF MarkAnsweredThenRefused, SelectedIsWinner, SelectOver
  <2>2. OneLiveBridge' /\ WinnerBridged'
    BY <1>5 DEF MarkAnsweredThenRefused, OneLiveBridge, WinnerBridged, AllReleased
  <2>3. AttemptsInOrder' /\ LeftIsOver'
    BY <1>5 DEF MarkAnsweredThenRefused, AttemptsInOrder, Opened, SelectOver, LeftIsOver
  <2> QED BY <1>t, <2>1, <2>2, <2>3
<1>6. ASSUME NEW gen \in Nat, MarkTransferAnswered(gen) PROVE AggInv'
  <2>1. /\ attemptState[current] \in {"Dialing", "Ringing", "Answered"}
        /\ current # winner /\ ~released
    BY <1>6, Answerable DEF MarkTransferAnswered
  <2>2. SelectedIsWinner'
    BY <1>6, <1>c DEF MarkTransferAnswered, SelectedIsWinner, SelectOver, TerminalAttempt
  <2>3. Caller \notin left' /\ current \notin left'
    BY <1>6, <1>c, <2>1 DEF MarkTransferAnswered, LeftIsOver, TerminalAttempt, IsAnswered
  <2>4. legState'[Caller] = "Bridged" /\ legState'[current] = "Bridged"
    BY <1>6, <1>c, MaxAttemptsAssumption DEF MarkTransferAnswered, Leg, Attempt, Caller
  <2>5. OneLiveBridge' /\ WinnerBridged'
    BY <1>6, <2>3, <2>4 DEF MarkTransferAnswered, OneLiveBridge, WinnerBridged, AllReleased
  <2>6. AttemptsInOrder'
    BY <1>6 DEF MarkTransferAnswered, AttemptsInOrder, Opened, SelectOver
  <2>7. LeftIsOver'
    <3>1. ASSUME NEW l \in left' PROVE l \in Attempt /\ TerminalAttempt(attemptState'[l])
      <4>1. CASE l \in left
        BY <1>6, <2>1, <4>1 DEF MarkTransferAnswered, LeftIsOver, SelectOver, TerminalAttempt
      <4>2. CASE l \notin left
        <5>1. l = winner /\ l \in Attempt /\ attemptState[l] = "Selected"
          BY <1>6, <3>1, <4>2 DEF MarkTransferAnswered, IsAnswered, SelectedIsWinner
        <5> QED BY <1>6, <2>1, <5>1 DEF MarkTransferAnswered, SelectOver, TerminalAttempt
      <4> QED BY <4>1, <4>2
    <3> QED BY <3>1 DEF LeftIsOver
  <2> QED BY <1>t, <2>2, <2>5, <2>6, <2>7
<1>7. ASSUME NEW gen \in Nat, ActivateBridge(gen) PROVE AggInv'
  <2>1. OneLiveBridge' /\ WinnerBridged'
    BY <1>7 DEF ActivateBridge, MayActivate, OneLiveBridge, WinnerBridged, IsAnswered
  <2>2. SelectedIsWinner' /\ AttemptsInOrder' /\ LeftIsOver'
    BY <1>7 DEF ActivateBridge, SelectedIsWinner, AttemptsInOrder, Opened, LeftIsOver
  <2> QED BY <1>t, <2>1, <2>2
<1>8. ASSUME NEW gen \in Nat, ActivateBridgeRefused(gen) PROVE AggInv'
  BY <1>8, <1>t, ReleaseKeepsInv DEF ActivateBridgeRefused
<1>9. CASE MarkAnsweredRefused
  BY <1>9, <1>t, Answerable, ReleaseKeepsInv DEF MarkAnsweredRefused
<1>10. CASE MarkTransferAnsweredRefused
  BY <1>10, <1>t, ReleaseKeepsInv DEF MarkTransferAnsweredRefused
<1>11. ASSUME NEW l \in Leg, HandoffCoordinator(l) PROVE AggInv'
  BY <1>11, <1>t DEF HandoffCoordinator, SelectedIsWinner, OneLiveBridge, AttemptsInOrder,
     Opened, WinnerBridged, IsAnswered, LeftIsOver
<1>12. CASE ReleaseTopology
  BY <1>12, <1>t, ReleaseKeepsInv DEF ReleaseTopology
<1> QED BY <1>1, <1>2, <1>3, <1>4, <1>5, <1>6, <1>7, <1>8, <1>9, <1>10, <1>11, <1>12 DEF AggStep

\* A step that leaves the topology alone keeps the invariant.
LEMMA AggInvStutter == ASSUME AggInv, UNCHANGED aggVars PROVE AggInv'
  BY DEF aggVars, AggInv, AggTypeOK, SelectedIsWinner, OneLiveBridge, AttemptsInOrder, Opened,
         WinnerBridged, IsAnswered, LeftIsOver

\* The strengthened invariant of the topology holds in every state.
LEMMA AggInvariant == AggSpec => []AggInv
<1>1. AggInv /\ [AggNext]_aggVars => AggInv'
  BY AggNextIsStep, AggInvStep, AggInvStutter
<1> QED BY AggInvInit, <1>1, PTL DEF AggSpec

\* CallAggregate and CallRuntime keep the types of the call's topology.
THEOREM AggTypeCorrect == AggSpec => []AggTypeOK
<1>1. AggInv => AggTypeOK
  BY DEF AggInv
<1> QED BY AggInvariant, <1>1, PTL

\* select_winner and replace_winner keep the winner and the Selected attempt in
\* agreement, through refusals and transfers.
THEOREM WinnerIsSelected == AggSpec => []SelectedIsWinner
<1>1. AggInv => SelectedIsWinner
  BY DEF AggInv
<1> QED BY AggInvariant, <1>1, PTL

\* add_bridge, activate_bridge and release_all_bridges never leave two bridges,
\* or one with a leg that has left the call, able to carry media.
THEOREM BridgeIsUnique == AggSpec => []OneLiveBridge
<1>1. AggInv => OneLiveBridge
  BY DEF AggInv
<1> QED BY AggInvariant, <1>1, PTL

\* One operation never selects an earlier attempt than the winner.
LEMMA StepMovesWinnerForward == ASSUME AggInv, AggStep PROVE WinnerStep
<1> SUFFICES ASSUME winner' # winner, IsAnswered
             PROVE  winner' > winner /\ winner \in left' /\ bridge'[winner] = "Released"
  BY DEF WinnerStep
<1> USE DEF AggInv, AggTypeOK
<1>1. PICK gen \in Nat : MarkTransferAnswered(gen)
  BY DEF AggStep, RegisterAttempt, FailAttempt, FailAttemptRefused, MarkAnswered,
         MarkAnsweredThenRefused, ActivateBridge, ActivateBridgeRefused, MarkAnsweredRefused,
         MarkTransferAnsweredRefused, HandoffCoordinator, ReleaseTopology, IsAnswered
<1>2. winner \in Attempt /\ attemptState[winner] = "Selected" /\ winner # current
  BY <1>1, Answerable DEF MarkTransferAnswered, IsAnswered, SelectedIsWinner
<1>3. winner < current
  BY <1>2 DEF AttemptsInOrder, Opened, Attempt
<1>4. bridge'[winner] = "Released"
  BY <1>1, <1>2 DEF MarkTransferAnswered, AllReleased, WinnerBridged, BridgeStates
<1> QED BY <1>1, <1>3, <1>4 DEF MarkTransferAnswered, Attempt

\* replace_winner only moves to a newer attempt, and mark_transfer_answered
\* takes the old winner's leg and bridge out of the call in the same step.
THEOREM WinnerForward == AggSpec => WinnerMovesForward
<1>1. AggInv /\ [AggNext]_aggVars => [WinnerStep]_aggVars
  BY AggNextIsStep, StepMovesWinnerForward
<1> QED BY AggInvariant, <1>1, PTL DEF AggSpec, WinnerMovesForward

\* One operation never reopens what has ended.
LEMMA StepKeepsEnd == ASSUME AggInv, AggStep PROVE EndStep
<1> SUFFICES ASSUME NEW b \in Attempt
             PROVE  /\ TerminalAttempt(attemptState[b]) => TerminalAttempt(attemptState'[b])
                    /\ bridge[b] = "Released" => bridge'[b] = "Released"
  BY DEF EndStep
<1> USE DEF AggInv, AggTypeOK, TerminalAttempt
<1>l. ASSUME ReleaseLegs PROVE bridge[b] = "Released" => bridge'[b] = "Released"
  BY <1>l DEF ReleaseLegs, AllReleased
<1>a. ASSUME MayUpdateAttempt(current, "Answered") PROVE ~TerminalAttempt(attemptState[current])
  BY <1>a, Answerable
<1>1. ASSUME NEW a \in Attempt, RegisterAttempt(a) PROVE EndStep!(b)
  BY <1>1 DEF RegisterAttempt
<1>2. CASE FailAttempt
  BY <1>2 DEF FailAttempt
<1>3. CASE FailAttemptRefused
  BY <1>3, <1>l DEF FailAttemptRefused
<1>4. ASSUME NEW gen \in Nat, MarkAnswered(gen) PROVE EndStep!(b)
  BY <1>4, <1>a DEF MarkAnswered, SelectOver
<1>5. ASSUME NEW gen \in Nat, MarkAnsweredThenRefused(gen) PROVE EndStep!(b)
  BY <1>5, <1>a DEF MarkAnsweredThenRefused, SelectOver, AllReleased
<1>6. ASSUME NEW gen \in Nat, MarkTransferAnswered(gen) PROVE EndStep!(b)
  BY <1>6, <1>a DEF MarkTransferAnswered, SelectOver, AllReleased
<1>7. ASSUME NEW gen \in Nat, ActivateBridge(gen) PROVE EndStep!(b)
  BY <1>7 DEF ActivateBridge, MayActivate
<1>8. ASSUME NEW gen \in Nat, ActivateBridgeRefused(gen) PROVE EndStep!(b)
  BY <1>8, <1>l DEF ActivateBridgeRefused
<1>9. CASE MarkAnsweredRefused
  BY <1>9, <1>a, <1>l DEF MarkAnsweredRefused
<1>10. CASE MarkTransferAnsweredRefused
  BY <1>10, <1>l DEF MarkTransferAnsweredRefused
<1>11. ASSUME NEW l \in Leg, HandoffCoordinator(l) PROVE EndStep!(b)
  BY <1>11 DEF HandoffCoordinator
<1>12. CASE ReleaseTopology
  BY <1>12, <1>l DEF ReleaseTopology
<1> QED BY <1>1, <1>2, <1>3, <1>4, <1>5, <1>6, <1>7, <1>8, <1>9, <1>10, <1>11, <1>12 DEF AggStep

\* valid_attempt_transition and the bridges' states: an attempt that was given
\* up is never selected later, and a released bridge never carries media again.
THEOREM EndForGood == AggSpec => EndIsFinal
<1>1. AggInv /\ [AggNext]_aggVars => [EndStep]_aggVars
  BY AggNextIsStep, StepKeepsEnd
<1> QED BY AggInvariant, <1>1, PTL DEF AggSpec, EndIsFinal
=============================================================================
