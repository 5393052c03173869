--------------------------- MODULE CallAggregate ---------------------------
(***************************************************************************)
(* The topology of one call: its legs, callee attempts, winner, bridges    *)
(* and coordinator identity (voipswitch-core `CallAggregate`), driven by   *)
(* the operations of voipswitchd's `CallRuntime`.  An operation that       *)
(* returns an error ends the call (`complete_processing` finalizes it in   *)
(* the same handler), so a failing operation keeps its partial effect and  *)
(* releases the topology in one step.                                      *)
(*                                                                         *)
(* Leg 0 is the caller; the session, the leg and the bridge of attempt a   *)
(* all carry the number a, as their identifiers do in the code.            *)
(***************************************************************************)
EXTENDS Naturals, FiniteSets

CONSTANTS
  MaxAttempts,     \* callee attempts one call may make
  MaxGeneration    \* last value of the generation counters

ASSUME MaxAttemptsAssumption == MaxAttempts \in Nat \ {0}
ASSUME MaxGenerationAssumption == MaxGeneration \in Nat \ {0}

Caller == 0
Attempt == 1..MaxAttempts
Leg == 0..MaxAttempts
NoWinner == 0

AttemptStates == {"Absent", "Planned", "Dialing", "Ringing", "Answered",
                  "Selected", "Cancelled", "Failed", "Destroyed"}
LegStates == {"Absent", "Dialing", "Bridged", "Destroyed"}
BridgeStates == {"Absent", "Planned", "Active", "Released"}

VARIABLES
  attemptState,    \* callee_attempts: the state of each attempt
  current,         \* current_attempt_id / current_callee_session_id
  winner,          \* the selected attempt; set exactly when the call is answered
  legState,        \* legs: the state of each leg
  left,            \* legs whose left_at_ms is set
  bridge,          \* bridges: the bridge of each attempt
  bridgeGen,       \* media_generation the bridge was planned with
  owner,           \* coordinator
  ownerGen,        \* coordinator_generation
  released         \* release_topology has run: the call is being finalized

aggVars == <<attemptState, current, winner, legState, left, bridge, bridgeGen,
             owner, ownerGen, released>>

----------------------------------------------------------------------------
(* Helpers *)

\* Mutant: a given-up attempt may still be answered.
MutantFailedMayAnswer(from, to) ==
  \/ from = "Planned" /\ to \in {"Dialing", "Cancelled", "Failed"}
  \/ from = "Dialing" /\ to \in {"Ringing", "Answered", "Cancelled", "Failed"}
  \/ from = "Ringing" /\ to \in {"Answered", "Cancelled", "Failed"}
  \/ from = "Answered" /\ to \in {"Selected", "Cancelled", "Failed"}
  \/ from = "Failed" /\ to = "Answered"
  \/ from \in {"Selected", "Cancelled", "Failed"} /\ to = "Destroyed"

\* valid_attempt_transition
ValidAttemptTransition(from, to) ==
  \/ from = "Planned" /\ to \in {"Dialing", "Cancelled", "Failed"}
  \/ from = "Dialing" /\ to \in {"Ringing", "Answered", "Cancelled", "Failed"}
  \/ from = "Ringing" /\ to \in {"Answered", "Cancelled", "Failed"}
  \/ from = "Answered" /\ to \in {"Selected", "Cancelled", "Failed"}
  \/ from \in {"Selected", "Cancelled", "Failed"} /\ to = "Destroyed"

\* update_attempt_state succeeds: the state is kept or moves along an edge.
MayUpdateAttempt(a, to) ==
  attemptState[a] = to \/ ValidAttemptTransition(attemptState[a], to)

TerminalAttempt(s) == s \in {"Cancelled", "Failed", "Destroyed"}

\* Mutant: the other attempts are left as they are.
MutantSelectOnly(a) == [attemptState EXCEPT ![a] = "Selected"]

\* The loop of select_winner and replace_winner: attempt a is selected and
\* every other attempt that is not terminal is cancelled.
SelectOver(a) ==
  [b \in Attempt |->
     IF b = a THEN "Selected"
     ELSE IF TerminalAttempt(attemptState[b]) \/ attemptState[b] = "Absent"
          THEN attemptState[b] ELSE "Cancelled"]

\* Mutant: only the bridges that carry media are released.
MutantActiveReleased ==
  [a \in Attempt |-> IF bridge[a] = "Active" THEN "Released" ELSE bridge[a]]

\* release_all_bridges
AllReleased ==
  [a \in Attempt |-> IF bridge[a] = "Absent" THEN "Absent" ELSE "Released"]

IsAnswered == winner # NoWinner

----------------------------------------------------------------------------
(* Operations *)

\* CallRuntime::new: the caller leg and the first attempt, already dialing.
AggInit ==
  /\ attemptState = [a \in Attempt |-> IF a = 1 THEN "Dialing" ELSE "Absent"]
  /\ current = 1
  /\ winner = NoWinner
  /\ legState = [l \in Leg |-> IF l \in {Caller, 1} THEN "Dialing" ELSE "Absent"]
  /\ left = {}
  /\ bridge = [a \in Attempt |-> "Absent"]
  /\ bridgeGen = [a \in Attempt |-> 0]
  /\ owner = Caller
  /\ ownerGen = 1
  /\ released = FALSE

\* release_topology: every bridge released, the caller and every attempt's leg left.
LegsLeave ==
  LET gone == {Caller} \cup {a \in Attempt : attemptState[a] # "Absent"}
  IN /\ left' = left \cup gone
     /\ legState' = [l \in Leg |-> IF l \in gone THEN "Destroyed" ELSE legState[l]]

ReleaseLegs ==
  /\ released' = TRUE
  /\ bridge' = AllReleased
  /\ LegsLeave
  /\ UNCHANGED <<bridgeGen, owner, ownerGen>>

ReleaseTopology ==
  /\ ~released
  /\ ReleaseLegs
  /\ UNCHANGED <<attemptState, current, winner>>

\* register_attempt: add_leg, add_callee_attempt, Planned -> Dialing, and the
\* new attempt, numbered after the current one, becomes the current one.
RegisterAttempt(a) ==
  /\ ~released
  /\ a = current + 1
  /\ attemptState[a] = "Absent"
  /\ attemptState' = [attemptState EXCEPT ![a] = "Dialing"]
  /\ legState' = [legState EXCEPT ![a] = "Dialing"]
  /\ current' = a
  /\ UNCHANGED <<winner, left, bridge, bridgeGen, owner, ownerGen, released>>

\* update_current_attempt(Failed, ..): an attempt of a hunt is given up.
FailAttempt ==
  /\ ~released
  /\ MayUpdateAttempt(current, "Failed")
  /\ attemptState' = [attemptState EXCEPT ![current] = "Failed"]
  /\ UNCHANGED <<current, winner, legState, left, bridge, bridgeGen, owner, ownerGen, released>>

FailAttemptRefused ==
  /\ ~released
  /\ ~MayUpdateAttempt(current, "Failed")
  /\ ReleaseLegs
  /\ UNCHANGED <<attemptState, current, winner>>

\* mark_answered: the current attempt is answered and selected, both legs are
\* bridged and their bridge is planned with the media generation.
MarkAnswered(gen) ==
  /\ ~released
  /\ MayUpdateAttempt(current, "Answered")
  /\ winner = NoWinner
  /\ bridge[current] = "Absent"
  /\ attemptState' = SelectOver(current)
  /\ winner' = current
  /\ legState' = [legState EXCEPT ![Caller] = "Bridged", ![current] = "Bridged"]
  /\ bridge' = [bridge EXCEPT ![current] = "Planned"]
  /\ bridgeGen' = [bridgeGen EXCEPT ![current] = gen]
  /\ UNCHANGED <<current, left, owner, ownerGen, released>>

MarkAnsweredRefused ==
  /\ ~released
  /\ \/ ~MayUpdateAttempt(current, "Answered") /\ UNCHANGED attemptState
     \/ /\ MayUpdateAttempt(current, "Answered")
        /\ IsAnswered
        /\ attemptState' = [attemptState EXCEPT ![current] = "Answered"]
  /\ ReleaseLegs
  /\ UNCHANGED <<current, winner>>

\* mark_answered, and in the same handler a deferred disconnect that asks to
\* give up the attempt just selected: the second operation is refused.
MarkAnsweredThenRefused(gen) ==
  /\ ~released
  /\ MayUpdateAttempt(current, "Answered")
  /\ winner = NoWinner
  /\ attemptState' = SelectOver(current)
  /\ winner' = current
  /\ released' = TRUE
  /\ bridge' = [AllReleased EXCEPT ![current] = "Released"]
  /\ bridgeGen' = [bridgeGen EXCEPT ![current] = gen]
  /\ LegsLeave
  /\ UNCHANGED <<current, owner, ownerGen>>

\* Mutant: the previous winner's leg stays in the call.
MutantTransferKeepsLeg(gen) ==
  /\ ~released
  /\ MayUpdateAttempt(current, "Answered")
  /\ bridge[current] = "Absent"
  /\ attemptState' = SelectOver(current)
  /\ winner' = current
  /\ legState' = [legState EXCEPT ![Caller] = "Bridged", ![current] = "Bridged"]
  /\ bridge' = [AllReleased EXCEPT ![current] = "Planned"]
  /\ bridgeGen' = [bridgeGen EXCEPT ![current] = gen]
  /\ UNCHANGED <<current, left, owner, ownerGen, released>>

\* mark_transfer_answered: the previous winner's leg leaves, the current
\* attempt replaces it, every older bridge is released and a new one planned.
MarkTransferAnswered(gen) ==
  /\ ~released
  /\ MayUpdateAttempt(current, "Answered")
  /\ bridge[current] = "Absent"
  /\ attemptState' = SelectOver(current)
  /\ winner' = current
  /\ left' = IF IsAnswered THEN left \cup {winner} ELSE left
  /\ legState' = [l \in Leg |-> IF l \in {Caller, current} THEN "Bridged"
                                ELSE IF IsAnswered /\ l = winner THEN "Destroyed"
                                ELSE legState[l]]
  /\ bridge' = [AllReleased EXCEPT ![current] = "Planned"]
  /\ bridgeGen' = [bridgeGen EXCEPT ![current] = gen]
  /\ UNCHANGED <<current, owner, ownerGen, released>>

MarkTransferAnsweredRefused ==
  /\ ~released
  /\ ~MayUpdateAttempt(current, "Answered")
  /\ ReleaseLegs
  /\ UNCHANGED <<attemptState, current, winner>>

\* The bridge current_bridge_id names: the one of the winner.
MayActivate(gen) ==
  IsAnswered /\ bridgeGen[winner] = gen /\ bridge[winner] \in {"Planned", "Active"}

\* activate_current_bridge
ActivateBridge(gen) ==
  /\ ~released
  /\ MayActivate(gen)
  /\ bridge' = [bridge EXCEPT ![winner] = "Active"]
  /\ UNCHANGED <<attemptState, current, winner, legState, left, bridgeGen, owner, ownerGen, released>>

ActivateBridgeRefused(gen) ==
  /\ ~released
  /\ ~MayActivate(gen)
  /\ ReleaseLegs
  /\ UNCHANGED <<attemptState, current, winner>>

\* handoff_candidates: a leg that can take over the coordination.
HandoffCandidate(l) ==
  l # owner /\ legState[l] \notin {"Absent", "Destroyed"} /\ l \notin left

\* Mutant: the generation is not checked against its last value.
MutantHandoffUnchecked(l) ==
  /\ ~released
  /\ HandoffCandidate(l)
  /\ owner' = l
  /\ ownerGen' = ownerGen + 1
  /\ UNCHANGED <<attemptState, current, winner, legState, left, bridge, bridgeGen, released>>

\* handoff_coordinator with the expected owner and generation; checked_add
\* refuses the step past the last generation.
HandoffCoordinator(l) ==
  /\ ~released
  /\ HandoffCandidate(l)
  /\ ownerGen < MaxGeneration
  /\ owner' = l
  /\ ownerGen' = ownerGen + 1
  /\ UNCHANGED <<attemptState, current, winner, legState, left, bridge, bridgeGen, released>>

AggNext ==
  \/ \E a \in Attempt : RegisterAttempt(a)
  \/ FailAttempt \/ FailAttemptRefused
  \/ \E gen \in 1..MaxGeneration :
       \/ MarkAnswered(gen)
       \/ MarkAnsweredThenRefused(gen)
       \/ MarkTransferAnswered(gen)
       \/ ActivateBridge(gen)
       \/ ActivateBridgeRefused(gen)
  \/ MarkAnsweredRefused
  \/ MarkTransferAnsweredRefused
  \/ \E l \in Leg : HandoffCoordinator(l)
  \/ ReleaseTopology

AggSpec == AggInit /\ [][AggNext]_aggVars
----------------------------------------------------------------------------
(* Properties *)

\* Every attempt, bridge and generation of the topology has its type, and the
\* coordinator generation never passes its last value.
AggTypeOK ==
  /\ attemptState \in [Attempt -> AttemptStates]
  /\ current \in Attempt
  /\ winner \in Attempt \cup {NoWinner}
  /\ legState \in [Leg -> LegStates]
  /\ left \subseteq Leg
  /\ bridge \in [Attempt -> BridgeStates]
  /\ bridgeGen \in [Attempt -> Nat]
  /\ owner \in Leg
  /\ ownerGen \in 1..MaxGeneration
  /\ released \in BOOLEAN

\* The winner field of the aggregate and the Selected state of the attempts
\* never disagree, whichever of select_winner and replace_winner ran last and
\* whatever attempt was given up, cancelled or refused in between.
SelectedIsWinner ==
  \A a \in Attempt : attemptState[a] = "Selected" <=> winner = a

\* At most one bridge can carry media: a bridge that is not released is the
\* winner's, and both of its legs are bridged and still in the call.
OneLiveBridge ==
  \A a \in Attempt :
    bridge[a] \in {"Planned", "Active"} =>
      /\ winner = a
      /\ {Caller, a} \cap left = {}
      /\ legState[Caller] = "Bridged" /\ legState[a] = "Bridged"

\* A winner is only ever replaced by a newer attempt (replace_winner moves it
\* to the current one), and its leg and bridge leave the call in that step.
WinnerStep ==
  winner' # winner /\ IsAnswered =>
    /\ winner' > winner
    /\ winner \in left'
    /\ bridge'[winner] = "Released"
WinnerMovesForward == [][WinnerStep]_aggVars

\* What is over stays over: a cancelled or failed attempt never comes back to
\* be selected and a released bridge is never planned or activated again.
EndStep ==
  \A a \in Attempt :
    /\ TerminalAttempt(attemptState[a]) => TerminalAttempt(attemptState'[a])
    /\ bridge[a] = "Released" => bridge'[a] = "Released"
EndIsFinal == [][EndStep]_aggVars
=============================================================================
