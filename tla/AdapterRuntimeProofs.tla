------------------------- MODULE AdapterRuntimeProofs -------------------------
(***************************************************************************)
(* Proofs about AdapterRuntime, for every set of calls, number of attempts *)
(* and hand-overs and every capacity of the queues.                        *)
(***************************************************************************)
EXTENDS AdapterRuntime, FiniteSetTheorems, SequenceTheorems, TLAPS

----------------------------------------------------------------------------
(* The inductive invariant *)

Msgs ==
  [kind : {"event", "end", "peer", "peerEnd"}, from : 0..MaxAttempts, arg : 1..MaxInputs]
    \cup [kind : {"prepare", "target"}, from : {0}, arg : Handoffs]
    \cup [kind : {"reg", "refused"}, from : {0}, arg : 2..MaxAttempts]
    \cup [kind : {"shutdown", "force", "final"}, from : {0}, arg : {0}]
Letters == [to : Boxes, msg : Msgs]

Invites == {"none", "creating", "created", "rejected", "call"}
Owners == [sess : -1..MaxAttempts, gen : Nat]
HubRecord ==
  [at : {"none", "running", "handed", "leaving", "gone", "dropped"}, sess : 0..MaxAttempts, gen : Nat,
   phase : {"talking", "ending", "finalizing"}, callee : 1..MaxAttempts, told : BOOLEAN, seen : Nat]
LegRecord == [at : {"none", "running", "handed", "merged", "gone"}, seen : Nat, out : Seq(Msgs)]
RegRecord == [attempt : {0} \cup 2..MaxAttempts, sess : 0..MaxAttempts, gen : Nat]
Answers == {"wait", "ok", "failed"}
HandoffRecord ==
  [state : {"none", "asked", "ready", "replied"}, call : Calls \cup {0}, source : 0..MaxAttempts,
   target : 0..MaxAttempts, gen : Nat, src : Answers, tgt : Answers]
Phases == {"open", "draining", "forced", "closing", "closed"}

\* The state of the loop and of its manager, of the actors, and of the events.
LoopTypes ==
  /\ invite \in [Calls -> Invites] /\ fin \in [Calls -> {"none", "running", "stored", "done"}]
  /\ finished \subseteq Calls /\ loop \in [phase : Phases, tell : SUBSET Calls] /\ shutdown \in BOOLEAN
  /\ owner \in [Calls -> Owners] /\ sessions \subseteq Sessions /\ pending \in [Calls -> 0..MaxHandoffs]
ActorTypes ==
  /\ hub \in [Calls -> HubRecord] /\ leg \in [Callees -> LegRecord]
  /\ reg \in [Calls -> RegRecord] /\ handoff \in [Handoffs -> HandoffRecord]
MailTypes ==
  /\ mbox \in [Boxes -> Seq(Msgs)] /\ queue \in Seq(Letters)
  /\ Len(queue) <= DispatcherCapacity /\ \A b \in Boxes : Len(mbox[b]) <= MailboxCapacity
EventTypes ==
  /\ inputs \in 0..MaxInputs /\ sent \in [Sessions -> 0..MaxInputs] /\ \A s \in Sessions : sent[s] <= inputs
  /\ applied \in [Sessions -> [1..MaxInputs -> Nat]]
Admission == Cardinality(Creating) <= AdmissionCapacity

Types == LoopTypes /\ ActorTypes /\ MailTypes /\ EventTypes /\ Admission

\* A call that was not admitted has nothing in the manager, and no actor.
FreshCalls ==
  \A c \in Calls : invite[c] # "call" => owner[c] = NoOwner /\ pending[c] = 0 /\ hub[c] = NoHub

\* The owner of a call is the session and the generation of its coordinator,
\* whether its actor runs, is quiesced or is gone.
OwnerOK ==
  \A c \in Calls : owner[c] # NoOwner =>
    owner[c] = [sess |-> hub[c].sess, gen |-> hub[c].gen] /\ <<c, owner[c].sess>> \in sessions

\* A pending hand-over has not been answered.
TokenOK == TokenIsCurrent /\ \A c \in Calls : pending[c] # 0 => Outstanding(pending[c])

\* A hand-over is one between two legs of an admitted call.
HandoffOK ==
  \A h \in Handoffs : Outstanding(h) =>
    /\ handoff[h].call \in Calls /\ invite[handoff[h].call] = "call"
    /\ handoff[h].source # handoff[h].target /\ handoff[h].target \in 1..MaxAttempts

\* Only the coordinator on the caller's leg registers attempts.
RegOK == \A c \in Calls : reg[c].attempt # 0 => reg[c].sess = 0

\* A closed loop has no hand-over left.
ClosedOK == loop.phase = "closed" => \A c \in Calls : pending[c] = 0

Links == FreshCalls /\ OwnerOK /\ TokenOK /\ HandoffOK /\ ClosedOK
IInv == Types /\ Links /\ RegOK

----------------------------------------------------------------------------
(* Messages, mailboxes and records *)

\* The numbers of the constants.
LEMMA Numbers ==
  /\ MaxAttempts \in Nat /\ MaxAttempts >= 1 /\ MaxInputs \in Nat /\ MaxHandoffs \in Nat
  /\ Hub \in Nat /\ Hub = MaxAttempts + 1 /\ AdmissionCapacity \in Nat /\ AdmissionCapacity >= 1
  /\ MailboxCapacity \in Nat /\ MailboxCapacity >= 1 /\ DispatcherCapacity \in Nat /\ DispatcherCapacity >= 1
BY RuntimeAssumption DEF Hub

\* Which boxes and sessions there are.
LEMMA Places ==
  /\ \A c \in Calls : \A n \in 0..MaxAttempts : <<c, n>> \in Sessions /\ <<c, n>> \in Boxes
  /\ \A c \in Calls : \A n \in 1..MaxAttempts : <<c, n>> \in Callees
  /\ \A c \in Calls : <<c, Hub>> \in Boxes
  /\ \A s \in Sessions : s \in Boxes /\ s[1] \in Calls /\ s[2] \in 0..MaxAttempts /\ s = <<s[1], s[2]>>
  /\ \A s \in Callees : s \in Sessions /\ s[1] \in Calls /\ s[2] \in 1..MaxAttempts
BY Numbers DEF Sessions, Boxes, Callees

\* The messages of the model.
LEMMA Messages ==
  /\ Shutdown \in Msgs /\ ForceShutdown \in Msgs /\ Msg("final", 0, 0) \in Msgs
  /\ \A h \in Handoffs : Msg("prepare", 0, h) \in Msgs /\ Msg("target", 0, h) \in Msgs
  /\ \A n \in 2..MaxAttempts : Msg("reg", 0, n) \in Msgs /\ Msg("refused", 0, n) \in Msgs
  /\ \A k \in {"event", "end", "peer", "peerEnd"}, f \in 0..MaxAttempts, n \in 1..MaxInputs :
       Msg(k, f, n) \in Msgs
BY DEF Shutdown, ForceShutdown, Msg, Msgs

\* ... and what their arguments are.
LEMMA MessageArgs ==
  ASSUME NEW m \in Msgs
  PROVE  /\ m.kind \in {"event", "end", "peer", "peerEnd"} => m.from \in 0..MaxAttempts /\ m.arg \in 1..MaxInputs
         /\ m.kind \in {"prepare", "target"} => m.arg \in Handoffs
         /\ m.kind \in {"reg", "refused"} => m.arg \in 2..MaxAttempts
BY DEF Msgs

\* A letter is a message and its box.
LEMMA DispatchType ==
  ASSUME NEW b \in Boxes, NEW m \in Msgs
  PROVE  Dispatch(b, m) \in Letters
BY DEF Dispatch, Letters

\* The dispatcher's queue with room takes a message, ...
LEMMA QueueTakesOne ==
  ASSUME MailTypes, Room(1), NEW d \in Letters
  PROVE  Append(queue, d) \in Seq(Letters) /\ Len(Append(queue, d)) <= DispatcherCapacity
<1>1. queue \in Seq(Letters) /\ Len(queue) \in Nat /\ Len(queue) + 1 <= DispatcherCapacity
  BY DEF MailTypes, Room
<1>2. Append(queue, d) \in Seq(Letters) /\ Len(Append(queue, d)) = Len(queue) + 1
  BY <1>1, AppendProperties
<1> QED BY <1>1, <1>2

\* ... and with more room two.
LEMMA QueueTakesTwo ==
  ASSUME MailTypes, Room(2), NEW d \in Letters, NEW e \in Letters
  PROVE  /\ Append(queue, d) \in Seq(Letters) /\ Len(Append(queue, d)) <= DispatcherCapacity
         /\ queue \o <<d, e>> \in Seq(Letters) /\ Len(queue \o <<d, e>>) <= DispatcherCapacity
<1>1. queue \in Seq(Letters) /\ Len(queue) \in Nat /\ Len(queue) + 2 <= DispatcherCapacity
  BY DEF MailTypes, Room
<1>2. Append(queue, d) \in Seq(Letters) /\ Len(Append(queue, d)) = Len(queue) + 1
  BY <1>1, AppendProperties
<1>3. <<d, e>> \in Seq(Letters) /\ Len(<<d, e>>) = 2 OBVIOUS
<1>4. queue \o <<d, e>> \in Seq(Letters) /\ Len(queue \o <<d, e>>) = Len(queue) + 2
  BY <1>1, <1>3, ConcatProperties
<1> QED BY <1>1, <1>2, <1>4, Numbers

\* What is put in or taken out of a mailbox.
LEMMA MailMoves ==
  ASSUME NEW q \in Seq(Msgs), Len(q) <= MailboxCapacity
  PROVE  /\ \A m \in Msgs : Len(q) < MailboxCapacity =>
              Append(q, m) \in Seq(Msgs) /\ Len(Append(q, m)) <= MailboxCapacity
         /\ q # << >> => /\ Tail(q) \in Seq(Msgs) /\ Len(Tail(q)) <= MailboxCapacity /\ Head(q) \in Msgs
                         /\ Len(Tail(q)) < MailboxCapacity
<1>1. Len(q) \in Nat OBVIOUS
<1>2. \A m \in Msgs : Append(q, m) \in Seq(Msgs) /\ Len(Append(q, m)) = Len(q) + 1 BY AppendProperties
<1>3. q # << >> => Tail(q) \in Seq(Msgs) /\ Len(Tail(q)) = Len(q) - 1 /\ Head(q) \in Msgs /\ Len(q) > 0
  BY HeadTailProperties
<1> QED BY <1>1, <1>2, <1>3, Numbers

\* Two states of a coordinator with the same leg and generation.
SameLeg(h, g) == h.sess = g.sess /\ h.gen = g.gen

\* The changes of a coordinator's state that leave its leg alone.
LEMMA HubMoves ==
  ASSUME NEW h \in HubRecord
  PROVE  /\ \A a \in {"none", "running", "handed", "leaving", "gone", "dropped"} :
              [h EXCEPT !.at = a] \in HubRecord /\ SameLeg([h EXCEPT !.at = a], h)
         /\ \A p \in {"talking", "ending", "finalizing"} :
              [h EXCEPT !.phase = p] \in HubRecord /\ SameLeg([h EXCEPT !.phase = p], h)
         /\ End(h) \in HubRecord /\ SameLeg(End(h), h)
         /\ \A n \in 1..MaxAttempts : [h EXCEPT !.callee = n] \in HubRecord /\ SameLeg([h EXCEPT !.callee = n], h)
         /\ \A t \in BOOLEAN : [h EXCEPT !.told = t] \in HubRecord /\ SameLeg([h EXCEPT !.told = t], h)
         /\ \A n \in Nat : [h EXCEPT !.seen = n] \in HubRecord /\ SameLeg([h EXCEPT !.seen = n], h)
BY Numbers DEF HubRecord, SameLeg, End

\* A step changes the state of one coordinator, and not its leg.
HubChange(c) == \E h \in HubRecord : hub' = [hub EXCEPT ![c] = h] /\ SameLeg(h, hub[c])

\* Two states of a hand-over between the same legs.
SameHandoff(h, g) == h.call = g.call /\ h.source = g.source /\ h.target = g.target /\ h.gen = g.gen

\* A step leaves the hand-overs alone but for what the two actors answered.
AnswersOnly ==
  /\ handoff' \in [Handoffs -> HandoffRecord]
  /\ \A h \in Handoffs : SameHandoff(handoff'[h], handoff[h]) /\ handoff'[h].state = handoff[h].state

\* No change is one of these changes.
LEMMA NoChange ==
  ASSUME ActorTypes
  PROVE  /\ \A c \in Calls : hub' = hub => HubChange(c)
         /\ handoff' = handoff => AnswersOnly
<1>1. ASSUME NEW c \in Calls, hub' = hub PROVE HubChange(c)
  <2>1. hub[c] \in HubRecord /\ hub' = [hub EXCEPT ![c] = hub[c]] /\ SameLeg(hub[c], hub[c])
    BY <1>1 DEF ActorTypes, SameLeg
  <2> QED BY <2>1 DEF HubChange
<1>2. ASSUME handoff' = handoff PROVE AnswersOnly
  BY <1>2 DEF AnswersOnly, ActorTypes, SameHandoff
<1> QED BY <1>1, <1>2

\* An actor's answer.
LEMMA Answer ==
  ASSUME ActorTypes, NEW h \in Handoffs, NEW a \in Answers,
         \/ handoff' = [handoff EXCEPT ![h].src = a]
         \/ handoff' = [handoff EXCEPT ![h].tgt = a]
  PROVE  AnswersOnly
<1>1. handoff[h] \in HandoffRecord /\ handoff \in [Handoffs -> HandoffRecord] BY DEF ActorTypes
<1>2. [handoff[h] EXCEPT !.src = a] \in HandoffRecord /\ [handoff[h] EXCEPT !.tgt = a] \in HandoffRecord
  BY <1>1 DEF HandoffRecord
<1>3. handoff' \in [Handoffs -> HandoffRecord] BY <1>1, <1>2
<1>4. ASSUME NEW g \in Handoffs
      PROVE  SameHandoff(handoff'[g], handoff[g]) /\ handoff'[g].state = handoff[g].state
  BY <1>1 DEF HandoffRecord, SameHandoff
<1> QED BY <1>3, <1>4 DEF AnswersOnly

\* The finalizer starts at most once, and the coordinator keeps its leg.
LEMMA BeginFinishType ==
  ASSUME LoopTypes, ActorTypes, NEW c \in Calls, NEW h \in HubRecord, SameLeg(h, hub[c]), BeginFinish(c, h)
  PROVE  HubChange(c) /\ fin' \in [Calls -> {"none", "running", "stored", "done"}]
<1>1. [h EXCEPT !.phase = "finalizing"] \in HubRecord /\ SameLeg([h EXCEPT !.phase = "finalizing"], h)
  BY HubMoves
<1>2. SameLeg([h EXCEPT !.phase = "finalizing"], hub[c]) BY <1>1 DEF SameLeg
<1>3. HubChange(c) BY <1>1, <1>2 DEF HubChange, BeginFinish
<1>4. fin' \in [Calls -> {"none", "running", "stored", "done"}] BY DEF BeginFinish, LoopTypes
<1> QED BY <1>3, <1>4

\* What handling a message may change.
HubEffect(c) ==
  /\ HubChange(c) /\ AnswersOnly
  /\ fin' \in [Calls -> {"none", "running", "stored", "done"}]
  /\ applied' \in [Sessions -> [1..MaxInputs -> Nat]]

\* handle_control, outside of the finalization.
LEMMA HandlesEffect ==
  ASSUME LoopTypes, ActorTypes, EventTypes, NEW c \in Calls, NEW m \in Msgs, HubHandles(c, m)
  PROVE  HubEffect(c)
<1> DEFINE h == hub[c]
<1>1. h \in HubRecord /\ SameLeg(h, h) BY DEF ActorTypes, SameLeg
<1>2. fin \in [Calls -> {"none", "running", "stored", "done"}] /\ applied \in [Sessions -> [1..MaxInputs -> Nat]]
  BY DEF LoopTypes, EventTypes
<1>3. ASSUME UNCHANGED <<hub, fin, applied, handoff>> PROVE HubEffect(c)
  BY <1>2, <1>3, NoChange DEF HubEffect
<1>4. CASE m.kind = "force"
  <2>1. BeginFinish(c, [h EXCEPT !.at = "leaving"]) /\ UNCHANGED <<applied, handoff>>
    BY <1>4 DEF HubHandles
  <2>2. [h EXCEPT !.at = "leaving"] \in HubRecord /\ SameLeg([h EXCEPT !.at = "leaving"], h) BY <1>1, HubMoves
  <2> HIDE DEF h
  <2>3. HubChange(c) /\ fin' \in [Calls -> {"none", "running", "stored", "done"}]
    <3> DEFINE g == [h EXCEPT !.at = "leaving"]
    <3>1. g \in HubRecord /\ SameLeg(g, hub[c]) /\ BeginFinish(c, g) BY <2>1, <2>2 DEF h
    <3> HIDE DEF g
    <3> QED BY <3>1, BeginFinishType
  <2> QED BY <1>2, <2>1, <2>3, NoChange DEF HubEffect
<1>6. CASE /\ m.kind \in {"event", "end", "peer", "peerEnd"}
           /\ (m.from = 0 /\ Fresh(h.seen, m)) \/ m.from = h.callee
  <2> DEFINE read == IF m.from = 0 THEN [h EXCEPT !.seen = m.arg] ELSE h
             new == IF m.kind \in {"end", "peerEnd"} THEN End(read) ELSE read
  <2>1. hub' = [hub EXCEPT ![c] = new] /\ Count(c, m) /\ UNCHANGED <<fin, handoff>>
    BY <1>6, SMTT(30) DEF HubHandles
  <2>2. m.from \in 0..MaxAttempts /\ m.arg \in 1..MaxInputs BY <1>6, MessageArgs
  <2>3. read \in HubRecord /\ SameLeg(read, h)
    <3>1. m.arg \in Nat BY <2>2, Numbers
    <3> QED BY <1>1, <3>1, HubMoves
  <2> HIDE DEF read
  <2>4. End(read) \in HubRecord /\ SameLeg(End(read), read) BY <2>3, HubMoves
  <2>5. new \in HubRecord /\ SameLeg(new, h) BY <2>3, <2>4 DEF SameLeg
  <2> HIDE DEF new
  <2>6. HubChange(c) BY <2>1, <2>5 DEF HubChange
  <2>7. applied' \in [Sessions -> [1..MaxInputs -> Nat]]
    <3>1. <<c, m.from>> \in Sessions BY <2>2, Places
    <3>2. applied[<<c, m.from>>] \in [1..MaxInputs -> Nat] BY <1>2, <3>1
    <3>3. [applied[<<c, m.from>>] EXCEPT ![m.arg] = @ + 1] \in [1..MaxInputs -> Nat]
      <4> DEFINE a == applied[<<c, m.from>>]
                 i == m.arg
      <4>1. a \in [1..MaxInputs -> Nat] /\ i \in 1..MaxInputs BY <2>2, <3>2
      <4> HIDE DEF a, i
      <4>2. a[i] + 1 \in Nat BY <4>1
      <4>3. [a EXCEPT ![i] = @ + 1] \in [1..MaxInputs -> Nat] BY <4>1, <4>2
      <4> QED BY <4>3 DEF a, i
    <3>4. applied' = [applied EXCEPT ![<<c, m.from>>] = [applied[<<c, m.from>>] EXCEPT ![m.arg] = @ + 1]]
      BY <2>1, <1>2, <3>1 DEF Count
    <3> QED BY <1>2, <3>1, <3>3, <3>4
  <2> QED BY <1>2, <2>1, <2>6, <2>7, NoChange DEF HubEffect
<1>7. CASE m.kind \in {"shutdown", "refused"}
  <2>1. hub' = [hub EXCEPT ![c] = End(h)] /\ UNCHANGED <<fin, applied, handoff>> BY <1>7 DEF HubHandles
  <2>2. HubChange(c) BY <1>1, <2>1, HubMoves DEF HubChange
  <2> QED BY <1>2, <2>1, <2>2, NoChange DEF HubEffect
<1>8. CASE m.kind = "reg" /\ h.phase = "talking"
  <2>1. hub' = [hub EXCEPT ![c].callee = m.arg] /\ UNCHANGED <<fin, applied, handoff>> BY <1>8 DEF HubHandles
  <2>2. m.arg \in 1..MaxAttempts BY <1>8, MessageArgs, Numbers
  <2>3. HubChange(c) BY <1>1, <2>1, <2>2, HubMoves DEF HubChange
  <2> QED BY <1>2, <2>1, <2>3, NoChange DEF HubEffect
<1>9. CASE /\ m.kind \notin {"force", "shutdown", "refused"} /\ ~(m.kind = "reg" /\ h.phase = "talking")
           /\ ~(/\ m.kind \in {"event", "end", "peer", "peerEnd"}
                /\ (m.from = 0 /\ Fresh(h.seen, m)) \/ m.from = h.callee)
  <2>1. UNCHANGED <<hub, fin, applied, handoff>> BY <1>9 DEF HubHandles
  <2> QED BY <1>3, <2>1
<1> QED BY <1>4, <1>6, <1>7, <1>8, <1>9

\* prepare_handoff.
LEMMA PreparesEffect ==
  ASSUME LoopTypes, ActorTypes, EventTypes, NEW c \in Calls, NEW i \in Handoffs, HubPrepares(c, i)
  PROVE  HubEffect(c)
<1>1. hub[c] \in HubRecord BY DEF ActorTypes
<1>2. PICK f \in BOOLEAN : /\ handoff' = [handoff EXCEPT ![i].src = IF f THEN "ok" ELSE "failed"]
                           /\ hub' = [hub EXCEPT ![c].at = IF f THEN "handed" ELSE @]
  <2> DEFINE fits == /\ handoff[i].source = hub[c].sess /\ handoff[i].gen = hub[c].gen
                     /\ handoff[i].target = hub[c].callee /\ hub[c].phase # "finalizing"
  <2>1. /\ handoff' = [handoff EXCEPT ![i].src = IF fits THEN "ok" ELSE "failed"]
        /\ hub' = [hub EXCEPT ![c].at = IF fits THEN "handed" ELSE @]
    BY Zenon DEF HubPrepares
  <2>2. fits \in BOOLEAN OBVIOUS
  <2> HIDE DEF fits
  <2> QED BY <2>1, <2>2
<1>3. HubChange(c)
  <2>1. CASE f BY <1>1, <1>2, <2>1, HubMoves DEF HubChange
  <2>2. CASE ~f
    <3>1. hub' = hub BY <1>1, <1>2, <2>2 DEF ActorTypes, HubRecord
    <3> QED BY <3>1, NoChange
  <2> QED BY <2>1, <2>2
<1>4. AnswersOnly
  <2>1. (IF f THEN "ok" ELSE "failed") \in Answers BY DEF Answers
  <2> QED BY <1>2, <2>1, Answer
<1>5. UNCHANGED <<fin, applied>> BY DEF HubPrepares
<1> QED BY <1>3, <1>4, <1>5 DEF HubEffect, LoopTypes, EventTypes

----------------------------------------------------------------------------
(* Steps that leave the manager alone *)

\* A hand-over that is not answered.
Live(h) == h.state \in {"asked", "ready"}

\* A step that changes no leg of a coordinator and registers no owner and no
\* hand-over keeps the links, if it forgets a hand-over with its owner, its
\* target or its answer.
LEMMA LinksKept ==
  ASSUME LoopTypes, Links,
         \A c \in Calls : invite'[c] = "call" <=> invite[c] = "call",
         \A c \in Calls : SameLeg(hub'[c], hub[c]) /\ (invite[c] # "call" => hub'[c] = hub[c]),
         \A h \in Handoffs : Live(handoff'[h]) => Live(handoff[h]) /\ SameHandoff(handoff'[h], handoff[h]),
         \A c \in Calls : owner'[c] # NoOwner => owner'[c] = owner[c] /\ <<c, owner[c].sess>> \in sessions',
         \A c \in Calls : pending'[c] # 0 =>
           /\ pending'[c] = pending[c] /\ owner'[c] # NoOwner /\ Live(handoff'[pending[c]])
           /\ <<c, handoff[pending[c]].target>> \in sessions',
         loop'.phase = "closed" => \A c \in Calls : pending'[c] = 0
  PROVE  Links'
<1>1. \A c \in Calls : pending[c] # 0 => pending[c] \in Handoffs BY Numbers DEF LoopTypes, Handoffs
<1>2. FreshCalls'
  <2>1. ASSUME NEW c \in Calls, invite'[c] # "call"
        PROVE  owner'[c] = NoOwner /\ pending'[c] = 0 /\ hub'[c] = NoHub
    <3>1. invite[c] # "call" BY <2>1
    <3>2. owner[c] = NoOwner /\ pending[c] = 0 /\ hub[c] = NoHub BY <3>1 DEF Links, FreshCalls
    <3> QED BY <3>1, <3>2
  <2> QED BY <2>1 DEF FreshCalls
<1>3. OwnerOK' BY DEF Links, OwnerOK, SameLeg
<1>4. TokenOK'
  <2>1. ASSUME NEW c \in Calls, pending'[c] # 0
        PROVE  /\ Live(handoff'[pending'[c]])
               /\ handoff'[pending'[c]].call = c
               /\ owner'[c] = [sess |-> handoff'[pending'[c]].source, gen |-> handoff'[pending'[c]].gen]
               /\ <<c, handoff'[pending'[c]].target>> \in sessions'
    <3>1. /\ pending'[c] = pending[c] /\ owner'[c] # NoOwner /\ Live(handoff'[pending[c]])
          /\ <<c, handoff[pending[c]].target>> \in sessions'
      BY <2>1
    <3>2. SameHandoff(handoff'[pending[c]], handoff[pending[c]]) BY <1>1, <2>1, <3>1
    <3>3. /\ handoff[pending[c]].call = c
          /\ owner[c] = [sess |-> handoff[pending[c]].source, gen |-> handoff[pending[c]].gen]
      BY <2>1, <3>1 DEF Links, TokenOK, TokenIsCurrent
    <3>4. owner'[c] = owner[c] BY <3>1
    <3> QED BY <3>1, <3>2, <3>3, <3>4 DEF SameHandoff
  <2>2. TokenIsCurrent' BY <2>1, Zenon DEF TokenIsCurrent
  <2>3. \A c \in Calls : pending'[c] # 0 => Outstanding(pending[c])' BY <2>1 DEF Live, Outstanding
  <2> QED BY <2>2, <2>3 DEF TokenOK
<1>5. HandoffOK' BY DEF Links, HandoffOK, SameHandoff, Live, Outstanding
<1>6. ClosedOK' BY DEF ClosedOK
<1> QED BY <1>2, <1>3, <1>4, <1>5, <1>6 DEF Links

\* A pending hand-over has an owner.
LEMMA TokenHasOwner ==
  ASSUME LoopTypes, ActorTypes, Links, NEW c \in Calls, pending[c] # 0
  PROVE  /\ pending[c] \in Handoffs /\ Live(handoff[pending[c]]) /\ owner[c] # NoOwner
         /\ handoff[pending[c]].call = c /\ <<c, handoff[pending[c]].target>> \in sessions
<1>1. pending[c] \in Handoffs BY Numbers DEF LoopTypes, Handoffs
<1>2. handoff[pending[c]].source \in 0..MaxAttempts BY <1>1 DEF ActorTypes, HandoffRecord
<1>3. /\ owner[c] = [sess |-> handoff[pending[c]].source, gen |-> handoff[pending[c]].gen]
      /\ handoff[pending[c]].call = c /\ <<c, handoff[pending[c]].target>> \in sessions
  BY DEF Links, TokenOK, TokenIsCurrent
<1>4. owner[c].sess # -1 BY <1>2, <1>3, Numbers
<1>5. owner[c] # NoOwner BY <1>4 DEF NoOwner
<1>6. Live(handoff[pending[c]]) BY DEF Links, TokenOK, Outstanding, Live
<1> QED BY <1>1, <1>3, <1>5, <1>6

\* A coordinator's own step, with no more than an answer to a hand-over.
LEMMA QuietStep ==
  ASSUME LoopTypes, ActorTypes, Links, UNCHANGED manager,
         \A c \in Calls : invite'[c] = "call" <=> invite[c] = "call",
         hub' = hub \/ \E c \in Calls : hub[c].at # "none" /\ HubChange(c),
         AnswersOnly,
         loop'.phase = "closed" => loop.phase = "closed"
  PROVE  Links'
<1>1. \A c \in Calls : SameLeg(hub'[c], hub[c]) /\ (invite[c] # "call" => hub'[c] = hub[c])
  <2>1. CASE hub' = hub BY <2>1 DEF SameLeg
  <2>2. ASSUME NEW c \in Calls, hub[c].at # "none", HubChange(c), NEW d \in Calls
        PROVE  SameLeg(hub'[d], hub[d]) /\ (invite[d] # "call" => hub'[d] = hub[d])
    <3>1. PICK h \in HubRecord : hub' = [hub EXCEPT ![c] = h] /\ SameLeg(h, hub[c]) BY <2>2 DEF HubChange
    <3>2. invite[c] = "call" BY <2>2 DEF Links, FreshCalls, NoHub
    <3>3. hub \in [Calls -> HubRecord] BY DEF ActorTypes
    <3>4. CASE d = c BY <3>1, <3>2, <3>3, <3>4
    <3>5. CASE d # c BY <3>1, <3>3, <3>5 DEF SameLeg
    <3> QED BY <3>4, <3>5
  <2> QED BY <2>1, <2>2
<1>2. \A h \in Handoffs : SameHandoff(handoff'[h], handoff[h]) /\ (Live(handoff'[h]) <=> Live(handoff[h]))
  BY DEF AnswersOnly, Live
<1>3. UNCHANGED <<owner, sessions, pending>> BY DEF manager
<1>4. \A c \in Calls : owner'[c] # NoOwner => owner'[c] = owner[c] /\ <<c, owner[c].sess>> \in sessions'
  BY <1>3 DEF Links, OwnerOK
<1>5. ASSUME NEW c \in Calls, pending'[c] # 0
      PROVE  /\ pending'[c] = pending[c] /\ owner'[c] # NoOwner /\ Live(handoff'[pending[c]])
             /\ <<c, handoff[pending[c]].target>> \in sessions'
  <2>1. pending[c] # 0 BY <1>3, <1>5
  <2> QED BY <1>2, <1>3, <2>1, TokenHasOwner
<1>6. loop'.phase = "closed" => \A c \in Calls : pending'[c] = 0 BY <1>3 DEF Links, ClosedOK
<1> QED BY <1>1, <1>2, <1>4, <1>5, <1>6, LinksKept

\* A step changes one mailbox, and keeps it in its bound.
LEMMA OneBox ==
  ASSUME MailTypes, NEW b \in Boxes, NEW q \in Seq(Msgs), Len(q) <= MailboxCapacity
  PROVE  /\ [mbox EXCEPT ![b] = q] \in [Boxes -> Seq(Msgs)]
         /\ \A a \in Boxes : Len([mbox EXCEPT ![b] = q][a]) <= MailboxCapacity
BY DEF MailTypes

\* The dispatcher.
LEMMA DeliverInv == ASSUME IInv, Deliver PROVE IInv'
<1>1. LoopTypes /\ ActorTypes /\ MailTypes /\ EventTypes /\ Admission /\ Links /\ RegOK BY DEF IInv, Types
<1>2. UNCHANGED <<invite, manager, hub, leg, reg, handoff, fin, finished, loop, shutdown, traffic>> BY DEF Deliver
<1>3. queue # << >> /\ queue' = Tail(queue) BY DEF Deliver
<1>4. queue \in Seq(Letters) /\ Len(queue) <= DispatcherCapacity BY <1>1 DEF MailTypes
<1>5. /\ queue' \in Seq(Letters) /\ Len(queue') <= DispatcherCapacity /\ Head(queue) \in Letters
  <2>1. Head(queue) \in Letters /\ Tail(queue) \in Seq(Letters) /\ Len(Tail(queue)) = Len(queue) - 1 /\ Len(queue) \in Nat
    BY <1>3, <1>4, HeadTailProperties
  <2> QED BY <1>3, <1>4, <2>1, Numbers
<1>6. Head(queue).to \in Boxes /\ Head(queue).msg \in Msgs BY <1>5 DEF Letters
<1>7. MailTypes'
  <2>1. CASE mbox' = mbox BY <1>1, <1>5, <2>1 DEF MailTypes
  <2>2. CASE /\ Len(mbox[Head(queue).to]) < MailboxCapacity
             /\ mbox' = [mbox EXCEPT ![Head(queue).to] = Append(@, Head(queue).msg)]
    <3> DEFINE b == Head(queue).to
               q == Append(mbox[b], Head(queue).msg)
    <3>1. mbox[b] \in Seq(Msgs) /\ Len(mbox[b]) <= MailboxCapacity BY <1>1, <1>6 DEF MailTypes
    <3>2. q \in Seq(Msgs) /\ Len(q) <= MailboxCapacity BY <1>6, <2>2, <3>1, MailMoves
    <3>3. mbox' = [mbox EXCEPT ![b] = q] BY <2>2
    <3>4. b \in Boxes BY <1>6
    <3> HIDE DEF b, q
    <3> QED BY <1>1, <1>5, <3>2, <3>3, <3>4, OneBox DEF MailTypes
  <2> QED BY <2>1, <2>2 DEF Deliver
<1>8. Links' BY <1>1, <1>2, NoChange, QuietStep
<1>9. LoopTypes' /\ ActorTypes' /\ EventTypes' /\ Admission' /\ RegOK'
  BY <1>1, <1>2 DEF LoopTypes, ActorTypes, EventTypes, Admission, Creating, RegOK, traffic, manager
<1> QED BY <1>7, <1>8, <1>9 DEF IInv, Types

\* Fewer calls that are being created.
LEMMA FewerCreating ==
  ASSUME Admission, Creating' \subseteq Creating
  PROVE  Admission'
<1>1. IsFiniteSet(Creating) BY RuntimeAssumption, FS_Subset DEF Creating
<1>2. Cardinality(Creating') <= Cardinality(Creating) /\ IsFiniteSet(Creating') BY <1>1, FS_Subset
<1>3. Cardinality(Creating) \in Nat /\ Cardinality(Creating') \in Nat BY <1>1, <1>2, FS_CardinalityType
<1> QED BY <1>2, <1>3, Numbers DEF Admission

\* An INVITE is offered, and refused or created.
LEMMA InviteInv == ASSUME IInv, NEW c \in Calls, Offer(c) \/ CreateCall(c) PROVE IInv'
<1>1. LoopTypes /\ ActorTypes /\ MailTypes /\ EventTypes /\ Admission /\ Links /\ RegOK BY DEF IInv, Types
<1>2. UNCHANGED <<manager, actors, reg, handoff, fin, finished, loop, shutdown, traffic>> BY DEF Offer, CreateCall
<1>3. invite \in [Calls -> Invites] BY <1>1 DEF LoopTypes
<1>4. PICK r \in {"creating", "created", "rejected"} : invite' = [invite EXCEPT ![c] = r]
  BY DEF Offer, CreateCall
<1>5. invite[c] # "call" BY DEF Offer, CreateCall
<1>6. Links'
  <2>1. \A d \in Calls : invite'[d] = "call" <=> invite[d] = "call" BY <1>3, <1>4, <1>5
  <2>2. UNCHANGED <<hub, handoff, loop>> BY <1>2 DEF actors
  <2> QED BY <1>1, <1>2, <2>1, <2>2, NoChange, QuietStep
<1>7. Admission'
  <2>1. CASE r # "creating"
    <3>1. Creating' \subseteq Creating BY <1>3, <1>4, <2>1 DEF Creating
    <3> QED BY <1>1, <3>1, FewerCreating
  <2>2. CASE r = "creating"
    <3>1. invite'[c] = "creating" BY <1>3, <1>4, <2>2
    <3>2. Offer(c) /\ ~(Cardinality(Creating) >= AdmissionCapacity)
      BY <1>3, <3>1 DEF Offer, CreateCall
    <3>3. IsFiniteSet(Creating) BY RuntimeAssumption, FS_Subset DEF Creating
    <3>4. Creating' = Creating \cup {c}
      BY <1>3, <1>4, <2>2, <3>2 DEF Creating, Offer
    <3>5. Cardinality(Creating') <= Cardinality(Creating) + 1 /\ Cardinality(Creating) \in Nat
          /\ Cardinality(Creating') \in Nat
      <4>1. IsFiniteSet(Creating \cup {c}) /\ Cardinality(Creating \cup {c}) =
               IF c \in Creating THEN Cardinality(Creating) ELSE Cardinality(Creating) + 1
        BY <3>3, FS_AddElement
      <4>2. Cardinality(Creating) \in Nat BY <3>3, FS_CardinalityType
      <4> QED BY <3>4, <4>1, <4>2
    <3> QED BY <3>2, <3>5, Numbers DEF Admission
  <2> QED BY <2>1, <2>2
<1>8. LoopTypes' BY <1>1, <1>2, <1>3, <1>4 DEF LoopTypes, Invites, manager
<1>9. ActorTypes' /\ MailTypes' /\ EventTypes' /\ RegOK'
  BY <1>1, <1>2 DEF ActorTypes, MailTypes, EventTypes, RegOK, traffic, actors
<1> QED BY <1>6, <1>7, <1>8, <1>9 DEF IInv, Types

\* The adapter's events.
LEMMA LegEventInv == ASSUME IInv, NEW s \in Sessions, LegEvent(s) PROVE IInv'
<1>1. LoopTypes /\ ActorTypes /\ MailTypes /\ EventTypes /\ Admission /\ Links /\ RegOK BY DEF IInv, Types
<1>2. UNCHANGED <<invite, manager, hub, leg, mbox, reg, handoff, fin, finished, loop, shutdown, applied>>
  BY DEF LegEvent
<1>3. PICK n \in Int, kind \in {"event", "end"} :
        /\ n = sent[s] + 1 \/ (n = sent[s] /\ sent[s] > 0)
        /\ sent' = [sent EXCEPT ![s] = n] /\ inputs' = inputs + 1
        /\ queue' = Append(queue, Dispatch(s, Msg(kind, s[2], n)))
  <2>1. PICK again \in BOOLEAN, kind \in {"event", "end"} :
          /\ again => sent[s] > 0
          /\ sent' = [sent EXCEPT ![s] = IF again THEN sent[s] ELSE sent[s] + 1]
          /\ inputs' = inputs + 1
          /\ queue' = Append(queue, Dispatch(s, Msg(kind, s[2], IF again THEN sent[s] ELSE sent[s] + 1)))
    BY Zenon DEF LegEvent
  <2>2. sent[s] \in Int BY <1>1 DEF EventTypes
  <2>3. (IF again THEN sent[s] ELSE sent[s] + 1) \in Int BY <2>2
  <2> QED BY <2>1, <2>3
<1>4. inputs < MaxInputs /\ Room(1) BY DEF LegEvent
<1>5. inputs \in 0..MaxInputs /\ sent \in [Sessions -> 0..MaxInputs] /\ \A t \in Sessions : sent[t] <= inputs
  BY <1>1 DEF EventTypes
<1>6. n \in 1..MaxInputs /\ n <= inputs + 1 BY <1>3, <1>4, <1>5, Numbers
<1>7. EventTypes'
  <2>1. inputs' \in 0..MaxInputs BY <1>3, <1>4, <1>5, Numbers
  <2>2. sent' \in [Sessions -> 0..MaxInputs] BY <1>3, <1>5, <1>6, Numbers
  <2>3. ASSUME NEW t \in Sessions PROVE sent'[t] <= inputs'
    <3>1. CASE t = s BY <1>3, <1>5, <1>6, <3>1
    <3>2. CASE t # s BY <1>3, <1>5, <3>2, Numbers
    <3> QED BY <3>1, <3>2
  <2> QED BY <1>1, <1>2, <2>1, <2>2, <2>3 DEF EventTypes
<1>8. MailTypes'
  <2>1. s \in Boxes /\ s[2] \in 0..MaxAttempts BY Places
  <2>2. Msg(kind, s[2], n) \in Msgs BY <1>3, <1>6, <2>1, Messages
  <2>3. Dispatch(s, Msg(kind, s[2], n)) \in Letters BY <2>1, <2>2, DispatchType
  <2> QED BY <1>1, <1>2, <1>3, <1>4, <2>3, QueueTakesOne DEF MailTypes
<1>9. Links' BY <1>1, <1>2, NoChange, QuietStep
<1>10. LoopTypes' /\ ActorTypes' /\ Admission' /\ RegOK'
  BY <1>1, <1>2 DEF LoopTypes, ActorTypes, Admission, Creating, RegOK, manager
<1> QED BY <1>7, <1>8, <1>9, <1>10 DEF IInv, Types

\* The phases of the loop before it is closed.
LEMMA PhaseInv ==
  ASSUME IInv, RequestShutdown \/ Drain \/ ForceDrain \/ LeaveLoop
  PROVE  IInv'
<1>1. LoopTypes /\ ActorTypes /\ MailTypes /\ EventTypes /\ Admission /\ Links /\ RegOK BY DEF IInv, Types
<1>2. UNCHANGED <<invite, manager, actors, reg, handoff, fin, finished, traffic>>
  BY DEF RequestShutdown, Drain, ForceDrain, LeaveLoop
<1>3. /\ loop' \in [phase : Phases, tell : SUBSET Calls] /\ shutdown' \in BOOLEAN
      /\ loop'.phase = "closed" => loop.phase = "closed"
  <2>1. Registered \subseteq Calls BY DEF Registered
  <2>2. CASE RequestShutdown BY <1>1, <2>2 DEF RequestShutdown, LoopTypes
  <2>3. CASE Drain \/ ForceDrain \/ LeaveLoop
    <3>1. shutdown' \in BOOLEAN BY <1>1, <2>3 DEF Drain, ForceDrain, LeaveLoop, LoopTypes
    <3>2. \E p \in {"draining", "forced", "closing"} : loop' = [phase |-> p, tell |-> Registered]
      BY <2>3 DEF Drain, ForceDrain, LeaveLoop, EnterPhase
    <3> QED BY <2>1, <3>1, <3>2 DEF Phases
  <2> QED BY <2>2, <2>3
<1>4. Links'
  <2>1. UNCHANGED <<hub, handoff>> BY <1>2 DEF actors
  <2> QED BY <1>1, <1>2, <1>3, <2>1, NoChange, QuietStep
<1>5. LoopTypes' BY <1>1, <1>2, <1>3 DEF LoopTypes, manager
<1>6. ActorTypes' /\ MailTypes' /\ EventTypes' /\ Admission' /\ RegOK'
  BY <1>1, <1>2 DEF ActorTypes, MailTypes, EventTypes, Admission, Creating, RegOK, traffic, actors
<1> QED BY <1>4, <1>5, <1>6 DEF IInv, Types

\* shutdown_coordinators.
LEMMA TellInv == ASSUME IInv, NEW c \in Calls, TellCoordinator(c) PROVE IInv'
<1>1. LoopTypes /\ ActorTypes /\ MailTypes /\ EventTypes /\ Admission /\ Links /\ RegOK BY DEF IInv, Types
<1>2. UNCHANGED <<invite, manager, hub, leg, mbox, reg, handoff, fin, finished, shutdown, traffic>>
  BY DEF TellCoordinator
<1>3. loop' = [loop EXCEPT !.tell = @ \ {c}] /\ loop \in [phase : Phases, tell : SUBSET Calls]
  BY <1>1 DEF TellCoordinator, LoopTypes
<1>4. loop' \in [phase : Phases, tell : SUBSET Calls] /\ loop'.phase = loop.phase BY <1>3
<1>5. MailTypes'
  <2> DEFINE m == IF loop.phase = "draining" THEN Shutdown ELSE ForceShutdown
  <2>1. Dispatch(<<c, Hub>>, m) \in Letters BY Messages, Places, DispatchType
  <2>2. Room(1) /\ (queue' = queue \/ queue' = Append(queue, Dispatch(<<c, Hub>>, m))) BY DEF TellCoordinator
  <2> HIDE DEF m
  <2> QED BY <1>1, <1>2, <2>1, <2>2, QueueTakesOne DEF MailTypes
<1>6. Links' BY <1>1, <1>2, <1>4, NoChange, QuietStep
<1>7. LoopTypes' BY <1>1, <1>2, <1>4 DEF LoopTypes, manager
<1>8. ActorTypes' /\ EventTypes' /\ Admission' /\ RegOK'
  BY <1>1, <1>2 DEF ActorTypes, EventTypes, Admission, Creating, RegOK, traffic
<1> QED BY <1>5, <1>6, <1>7, <1>8 DEF IInv, Types

\* finalize_call and CallFinalized.
LEMMA FinalizerInv == ASSUME IInv, NEW c \in Calls, Finalizer(c) PROVE IInv'
<1>1. LoopTypes /\ ActorTypes /\ MailTypes /\ EventTypes /\ Admission /\ Links /\ RegOK BY DEF IInv, Types
<1>2. UNCHANGED <<invite, manager, hub, leg, mbox, reg, handoff, finished, loop, shutdown, traffic>>
  BY DEF Finalizer, FinalizeCall, NotifyFinalized, actors
<1>3. fin' \in [Calls -> {"none", "running", "stored", "done"}]
  BY <1>1 DEF Finalizer, FinalizeCall, NotifyFinalized, LoopTypes
<1>4. MailTypes'
  <2> DEFINE d == Dispatch(<<c, Hub>>, Msg("final", 0, 0))
  <2>1. d \in Letters BY Messages, Places, DispatchType
  <2>2. queue' = queue \/ (Room(1) /\ queue' = Append(queue, d))
    BY DEF Finalizer, FinalizeCall, NotifyFinalized, actors
  <2> HIDE DEF d
  <2> QED BY <1>1, <1>2, <2>1, <2>2, QueueTakesOne DEF MailTypes
<1>5. Links' BY <1>1, <1>2, NoChange, QuietStep
<1>6. LoopTypes' BY <1>1, <1>2, <1>3 DEF LoopTypes, manager
<1>7. ActorTypes' /\ EventTypes' /\ Admission' /\ RegOK'
  BY <1>1, <1>2 DEF ActorTypes, EventTypes, Admission, Creating, RegOK, traffic
<1> QED BY <1>4, <1>5, <1>6, <1>7 DEF IInv, Types

----------------------------------------------------------------------------
(* The actors *)

\* The coordinator takes a message.
LEMMA HubTakesInv == ASSUME IInv, NEW c \in Calls, HubTakes(c) PROVE IInv'
<1>1. LoopTypes /\ ActorTypes /\ MailTypes /\ EventTypes /\ Admission /\ Links /\ RegOK BY DEF IInv, Types
<1>2. UNCHANGED <<invite, manager, leg, queue, reg, finished, loop, shutdown, inputs, sent>> BY DEF HubTakes
<1>3. hub[c] \in HubRecord /\ hub[c].at = "running" BY <1>1 DEF HubTakes, ActorTypes
<1> DEFINE own == <<c, hub[c].sess>>
           b == IF mbox[own] # << >> THEN own ELSE <<c, Hub>>
           m == Head(mbox[b])
<1>4. b \in Boxes
  <2>1. hub[c].sess \in 0..MaxAttempts BY <1>3 DEF HubRecord
  <2> QED BY <2>1, Places
<1>5. /\ mbox[b] # << >>
      /\ CASE m.kind = "prepare" -> HubPrepares(c, m.arg)
           [] m.kind # "prepare" /\ hub[c].phase = "finalizing" ->
                /\ hub' = [hub EXCEPT ![c].at = IF m.kind \in {"force", "final"} THEN "leaving" ELSE @]
                /\ UNCHANGED <<fin, applied, handoff>>
           [] OTHER -> HubHandles(c, m)
      /\ mbox' = IF m.kind = "reg" /\ hub[c].phase # "talking" /\ Open(<<c, m.arg>>)
                    /\ Len(mbox[<<c, m.arg>>]) < MailboxCapacity
                 THEN [[mbox EXCEPT ![b] = Tail(@)] EXCEPT ![<<c, m.arg>>] = Append(@, Shutdown)]
                 ELSE [mbox EXCEPT ![b] = Tail(@)]
  BY Zenon DEF HubTakes
<1> HIDE DEF b
<1>6. /\ m \in Msgs /\ mbox[b] \in Seq(Msgs) /\ Len(mbox[b]) <= MailboxCapacity
      /\ Tail(mbox[b]) \in Seq(Msgs) /\ Len(Tail(mbox[b])) < MailboxCapacity
  BY <1>1, <1>4, <1>5, MailMoves, Numbers DEF MailTypes
<1> HIDE DEF m
<1>7. HubEffect(c)
  <2>1. CASE m.kind = "prepare"
    <3>1. m.arg \in Handoffs BY <1>6, <2>1, MessageArgs
    <3> QED BY <1>1, <1>5, <2>1, <3>1, PreparesEffect
  <2>2. CASE m.kind # "prepare" /\ hub[c].phase = "finalizing"
    <3>1. /\ hub' = [hub EXCEPT ![c].at = IF m.kind \in {"force", "final"} THEN "leaving" ELSE @]
          /\ UNCHANGED <<fin, applied, handoff>>
      BY <1>5, <2>2
    <3>2. HubChange(c)
      <4> DEFINE a == IF m.kind \in {"force", "final"} THEN "leaving" ELSE hub[c].at
      <4>1. a \in {"none", "running", "handed", "leaving", "gone", "dropped"} BY <1>3
      <4>2. hub' = [hub EXCEPT ![c] = [hub[c] EXCEPT !.at = a]] BY <3>1
      <4> HIDE DEF a
      <4> QED BY <1>3, <4>1, <4>2, HubMoves DEF HubChange
    <3> QED BY <1>1, <3>1, <3>2, NoChange DEF HubEffect, LoopTypes, EventTypes
  <2>3. CASE m.kind # "prepare" /\ hub[c].phase # "finalizing"
    <3>1. HubHandles(c, m) BY <1>5, <2>3
    <3> QED BY <1>1, <1>6, <3>1, HandlesEffect
  <2> QED BY <2>1, <2>2, <2>3
<1>8. MailTypes'
  <2>1. CASE mbox' = [mbox EXCEPT ![b] = Tail(@)]
    BY <1>1, <1>2, <1>4, <1>6, <2>1, OneBox, Numbers DEF MailTypes
  <2>2. CASE /\ m.kind = "reg" /\ Len(mbox[<<c, m.arg>>]) < MailboxCapacity
             /\ mbox' = [[mbox EXCEPT ![b] = Tail(@)] EXCEPT ![<<c, m.arg>>] = Append(@, Shutdown)]
    <3> DEFINE d == <<c, m.arg>>
               t == Tail(mbox[b])
    <3>1. d \in Boxes
      <4>1. m.arg \in 0..MaxAttempts BY <1>6, <2>2, MessageArgs, Numbers
      <4> QED BY <4>1, Places
    <3>2. mbox' = [[mbox EXCEPT ![b] = t] EXCEPT ![d] = Append(@, Shutdown)] /\ Len(mbox[d]) < MailboxCapacity BY <2>2
    <3>3. t \in Seq(Msgs) /\ Len(t) < MailboxCapacity BY <1>6
    <3>4. mbox[d] \in Seq(Msgs) BY <1>1, <3>1 DEF MailTypes
    <3> HIDE DEF d, t
    <3>5. /\ Append(t, Shutdown) \in Seq(Msgs) /\ Len(Append(t, Shutdown)) <= MailboxCapacity
          /\ Append(mbox[d], Shutdown) \in Seq(Msgs) /\ Len(Append(mbox[d], Shutdown)) <= MailboxCapacity
      BY <3>2, <3>3, <3>4, MailMoves, Messages, Numbers
    <3>6. ASSUME NEW a \in Boxes PROVE mbox'[a] \in {Append(t, Shutdown), Append(mbox[d], Shutdown), t, mbox[a]}
      BY <1>1, <1>4, <3>1, <3>2 DEF MailTypes
    <3>7. mbox' \in [Boxes -> Seq(Msgs)] /\ \A a \in Boxes : Len(mbox'[a]) <= MailboxCapacity
      <4>1. ASSUME NEW a \in Boxes PROVE mbox'[a] \in Seq(Msgs) /\ Len(mbox'[a]) <= MailboxCapacity
        <5>1. mbox[a] \in Seq(Msgs) /\ Len(mbox[a]) <= MailboxCapacity /\ Len(t) <= MailboxCapacity
          BY <1>1, <3>3, Numbers DEF MailTypes
        <5> QED BY <3>3, <3>5, <3>6, <5>1
      <4>2. mbox' = [a \in Boxes |-> mbox'[a]] BY <1>1, <3>2 DEF MailTypes
      <4> QED BY <4>1, <4>2
    <3> QED BY <1>1, <1>2, <3>7 DEF MailTypes
  <2> QED BY <1>5, <2>1, <2>2
<1>9. Links'
  <2>1. hub[c].at # "none" BY <1>3
  <2> QED BY <1>1, <1>2, <1>7, <2>1, QuietStep DEF HubEffect
<1>10. ActorTypes'
  <2>1. hub' \in [Calls -> HubRecord] BY <1>1, <1>7 DEF HubEffect, HubChange, ActorTypes
  <2>2. handoff' \in [Handoffs -> HandoffRecord] BY <1>7 DEF HubEffect, AnswersOnly
  <2> QED BY <1>1, <1>2, <2>1, <2>2 DEF ActorTypes
<1>11. LoopTypes' BY <1>1, <1>2, <1>7 DEF LoopTypes, manager, HubEffect
<1>12. EventTypes' BY <1>1, <1>2, <1>7 DEF EventTypes, HubEffect
<1>13. Admission' /\ RegOK' BY <1>1, <1>2 DEF Admission, Creating, RegOK
<1> QED BY <1>8, <1>9, <1>10, <1>11, <1>12, <1>13 DEF IInv, Types

\* The coordinator sees the shutdown, ends its call or loses its mailbox.
LEMMA HubEndsInv ==
  ASSUME IInv, NEW c \in Calls, HubSeesShutdown(c) \/ FinishCall(c) \/ LoseMailbox(c)
  PROVE  IInv'
<1>1. LoopTypes /\ ActorTypes /\ MailTypes /\ EventTypes /\ Admission /\ Links /\ RegOK BY DEF IInv, Types
<1>2. UNCHANGED <<invite, manager, leg, mbox, queue, reg, handoff, finished, loop, shutdown, traffic>>
  BY DEF HubSeesShutdown, FinishCall, LoseMailbox
<1>3. hub[c] \in HubRecord /\ SameLeg(hub[c], hub[c]) BY <1>1 DEF ActorTypes, SameLeg
<1>4. hub[c].at = "running" BY DEF HubSeesShutdown, FinishCall, LoseMailbox
<1>5. HubChange(c) /\ fin' \in [Calls -> {"none", "running", "stored", "done"}]
  <2>1. CASE HubSeesShutdown(c)
    <3> DEFINE g == End(hub[c])
    <3>1. g \in HubRecord /\ SameLeg(g, hub[c]) BY <1>3, HubMoves
    <3>2. hub' = [hub EXCEPT ![c] = [g EXCEPT !.told = TRUE]] BY <2>1 DEF HubSeesShutdown
    <3> HIDE DEF g
    <3>3. [g EXCEPT !.told = TRUE] \in HubRecord /\ SameLeg([g EXCEPT !.told = TRUE], g) BY <3>1, HubMoves
    <3>4. SameLeg([g EXCEPT !.told = TRUE], hub[c]) BY <3>1, <3>3 DEF SameLeg
    <3>5. HubChange(c) BY <3>2, <3>3, <3>4 DEF HubChange
    <3> QED BY <1>1, <2>1, <3>5 DEF HubSeesShutdown, LoopTypes
  <2>2. CASE FinishCall(c) BY <1>1, <1>3, <2>2, BeginFinishType DEF FinishCall
  <2>3. CASE LoseMailbox(c)
    <3> DEFINE g == [hub[c] EXCEPT !.at = "leaving"]
    <3>1. g \in HubRecord /\ SameLeg(g, hub[c]) BY <1>3, HubMoves
    <3>2. BeginFinish(c, g) BY <2>3 DEF LoseMailbox
    <3> HIDE DEF g
    <3> QED BY <1>1, <3>1, <3>2, BeginFinishType
  <2> QED BY <2>1, <2>2, <2>3
<1>6. Links'
  <2>1. hub[c].at # "none" BY <1>4
  <2> QED BY <1>1, <1>2, <1>5, <2>1, NoChange, QuietStep
<1>7. ActorTypes'
  <2>1. hub' \in [Calls -> HubRecord] BY <1>1, <1>5 DEF HubChange, ActorTypes
  <2> QED BY <1>1, <1>2, <2>1 DEF ActorTypes
<1>8. LoopTypes' BY <1>1, <1>2, <1>5 DEF LoopTypes, manager
<1>9. MailTypes' /\ EventTypes' /\ Admission' /\ RegOK'
  BY <1>1, <1>2 DEF MailTypes, EventTypes, Admission, Creating, RegOK, traffic
<1> QED BY <1>6, <1>7, <1>8, <1>9 DEF IInv, Types

\* The coordinator's actor ends.
LEMMA LeaveHubInv == ASSUME IInv, NEW c \in Calls, LeaveHub(c) PROVE IInv'
<1>1. LoopTypes /\ ActorTypes /\ MailTypes /\ EventTypes /\ Admission /\ Links /\ RegOK BY DEF IInv, Types
<1>2. UNCHANGED <<invite, manager, leg, queue, reg, handoff, fin, loop, shutdown, traffic>> BY DEF LeaveHub
<1>3. hub[c] \in HubRecord /\ hub[c].at = "leaving" BY <1>1 DEF ActorTypes, LeaveHub
<1>4. HubChange(c)
  <2>1. hub' = [hub EXCEPT ![c] = [hub[c] EXCEPT !.at = "gone"]] BY DEF LeaveHub
  <2> QED BY <1>3, <2>1, HubMoves DEF HubChange
<1>5. finished' \subseteq Calls BY <1>1 DEF LeaveHub, LoopTypes
<1>6. MailTypes'
  <2> DEFINE callee == <<c, hub[c].callee>>
             tells == hub[c].sess # hub[c].callee /\ Open(callee)
             ends == {<<c, hub[c].sess>>, <<c, Hub>>}
  <2>1. /\ tells => Len(mbox[callee]) < MailboxCapacity
        /\ mbox' = [b \in Boxes |-> CASE b = callee /\ tells -> Append(mbox[b], Shutdown)
                                      [] b \in ends -> << >>
                                      [] OTHER -> mbox[b]]
    BY DEF LeaveHub
  <2>2. callee \notin ends \/ ~tells
    <3>1. hub[c].callee \in 1..MaxAttempts BY <1>3 DEF HubRecord
    <3>2. hub[c].callee # Hub BY <3>1, Numbers
    <3> QED BY <3>2
  <2> HIDE DEF callee, tells, ends
  <2>3. ASSUME NEW b \in Boxes PROVE mbox'[b] \in Seq(Msgs) /\ Len(mbox'[b]) <= MailboxCapacity
    <3>1. mbox[b] \in Seq(Msgs) /\ Len(mbox[b]) <= MailboxCapacity BY <1>1 DEF MailTypes
    <3>2. CASE b = callee /\ tells
      <4>1. mbox'[b] = Append(mbox[b], Shutdown) BY <2>1, <2>2, <3>2
      <4> QED BY <2>1, <3>1, <3>2, <4>1, MailMoves, Messages
    <3>3. CASE b \in ends /\ ~(b = callee /\ tells)
      <4>1. mbox'[b] = << >> BY <2>1, <2>2, <3>3
      <4> QED BY <4>1, Numbers
    <3>4. CASE b \notin ends /\ ~(b = callee /\ tells)
      <4>1. mbox'[b] = mbox[b] BY <2>1, <2>2, <3>4
      <4> QED BY <3>1, <4>1
    <3> QED BY <3>2, <3>3, <3>4
  <2>4. mbox' \in [Boxes -> Seq(Msgs)]
    <3>1. mbox' = [b \in Boxes |-> mbox'[b]] BY <2>1
    <3> QED BY <2>3, <3>1
  <2> QED BY <1>1, <1>2, <2>3, <2>4 DEF MailTypes
<1>7. Links'
  <2>1. hub[c].at # "none" BY <1>3
  <2> QED BY <1>1, <1>2, <1>4, <2>1, NoChange, QuietStep
<1>8. ActorTypes'
  <2>1. hub' \in [Calls -> HubRecord] BY <1>1, <1>4 DEF HubChange, ActorTypes
  <2> QED BY <1>1, <1>2, <2>1 DEF ActorTypes
<1>9. LoopTypes' BY <1>1, <1>2, <1>5 DEF LoopTypes, manager
<1>10. EventTypes' /\ Admission' /\ RegOK'
  BY <1>1, <1>2 DEF EventTypes, Admission, Creating, RegOK, traffic
<1> QED BY <1>6, <1>7, <1>8, <1>9, <1>10 DEF IInv, Types

\* The coordinator asks for the registration of an attempt.
LEMMA StartAttemptInv ==
  ASSUME IInv, "AttemptAfterHandoff" \notin Races, NEW c \in Calls, StartAttempt(c)
  PROVE  IInv'
<1>1. LoopTypes /\ ActorTypes /\ MailTypes /\ EventTypes /\ Admission /\ Links /\ RegOK BY DEF IInv, Types
<1>2. UNCHANGED <<invite, manager, actors, handoff, fin, finished, loop, shutdown, sent, applied>>
  BY DEF StartAttempt
<1>3. /\ inputs < MaxInputs /\ inputs' = inputs + 1 /\ hub[c].callee < MaxAttempts /\ hub[c].sess = 0
      /\ reg' = [reg EXCEPT ![c] = [attempt |-> hub[c].callee + 1, sess |-> hub[c].sess, gen |-> hub[c].gen]]
  BY DEF StartAttempt
<1>4. hub[c].callee \in 1..MaxAttempts /\ hub[c].gen \in Nat BY <1>1 DEF ActorTypes, HubRecord
<1>5. [attempt |-> hub[c].callee + 1, sess |-> hub[c].sess, gen |-> hub[c].gen] \in RegRecord
  BY <1>3, <1>4, Numbers DEF RegRecord
<1>6. ActorTypes' BY <1>1, <1>2, <1>3, <1>5 DEF ActorTypes, actors
<1>7. RegOK' BY <1>1, <1>3 DEF RegOK, ActorTypes
<1>8. EventTypes'
  <2>1. inputs' \in 0..MaxInputs /\ inputs' >= inputs /\ inputs \in Nat
    BY <1>1, <1>3, Numbers DEF EventTypes
  <2>2. \A s \in Sessions : sent[s] <= inputs' BY <1>1, <1>3, <2>1, Numbers DEF EventTypes
  <2> QED BY <1>1, <1>2, <2>1, <2>2 DEF EventTypes
<1>9. Links'
  <2>1. UNCHANGED hub BY <1>2 DEF actors
  <2> QED BY <1>1, <1>2, <2>1, NoChange, QuietStep
<1>10. LoopTypes' /\ MailTypes' /\ Admission'
  BY <1>1, <1>2 DEF LoopTypes, MailTypes, Admission, Creating, manager, actors
<1> QED BY <1>6, <1>7, <1>8, <1>9, <1>10 DEF IInv, Types

\* A callee's actor.
LEMMA LegActorInv == ASSUME IInv, NEW s \in Callees, LegActor(s) PROVE IInv'
<1>1. LoopTypes /\ ActorTypes /\ MailTypes /\ EventTypes /\ Admission /\ Links /\ RegOK BY DEF IInv, Types
<1>2. UNCHANGED <<invite, manager, hub, reg, fin, finished, loop, shutdown, traffic>>
  BY DEF LegActor, LegTakes, LegForwards, LegLosesMailbox
<1>3. leg[s] \in LegRecord /\ leg \in [Callees -> LegRecord] BY <1>1 DEF ActorTypes
<1>4. s \in Boxes /\ s[1] \in Calls /\ s[2] \in 0..MaxAttempts
  BY Places, Numbers
<1>5. mbox[s] \in Seq(Msgs) /\ Len(mbox[s]) <= MailboxCapacity BY <1>1, <1>4 DEF MailTypes
<1>6. << >> \in Seq(Msgs) /\ Len(<< >>) <= MailboxCapacity BY Numbers
<1>7. [NoLeg EXCEPT !.at = "gone"] \in LegRecord BY <1>6 DEF NoLeg, LegRecord
<1>8. LegExits(s) \in [Callees -> LegRecord] BY <1>3, <1>7 DEF LegExits
<1>9. \A n \in Nat : \A q \in Seq(Msgs) : [leg[s] EXCEPT !.seen = n, !.out = q] \in LegRecord BY <1>3 DEF LegRecord
<1>10. [leg[s] EXCEPT !.at = "handed"] \in LegRecord /\ [leg[s] EXCEPT !.out = << >>] \in LegRecord
  BY <1>3, <1>6 DEF LegRecord
<1>11. leg' \in [Callees -> LegRecord] /\ AnswersOnly /\ MailTypes'
  <2>1. CASE LegTakes(s)
    <3> DEFINE m == Head(mbox[s])
    <3>1. /\ mbox[s] # << >> /\ UNCHANGED queue
          /\ mbox' = [mbox EXCEPT ![s] = IF m.kind \in {"shutdown", "force"} THEN << >> ELSE Tail(@)]
      BY <2>1 DEF LegTakes
    <3>2. m \in Msgs /\ Tail(mbox[s]) \in Seq(Msgs) /\ Len(Tail(mbox[s])) <= MailboxCapacity
      BY <1>5, <3>1, MailMoves
    <3>3. CASE m.kind \in {"event", "end"}
      <4> DEFINE p == Msg(IF m.kind = "end" THEN "peerEnd" ELSE "peer", s[2], m.arg)
                 l == [leg[s] EXCEPT !.seen = m.arg, !.out = <<p>>]
      <4>1. UNCHANGED handoff /\ (leg' = leg \/ leg' = [leg EXCEPT ![s].seen = m.arg, ![s].out = <<p>>])
        BY <2>1, <3>3 DEF LegTakes
      <4>2. m.arg \in 1..MaxInputs /\ m.arg \in Nat BY <3>2, <3>3, MessageArgs, Numbers
      <4>3. p \in Msgs BY <1>4, <4>2, Messages
      <4>4. <<p>> \in Seq(Msgs) BY <4>3
      <4> HIDE DEF p
      <4>5. l \in LegRecord BY <1>9, <4>2, <4>4
      <4>6. [leg EXCEPT ![s].seen = m.arg, ![s].out = <<p>>] = [leg EXCEPT ![s] = l] BY <1>3
      <4>7. leg' \in [Callees -> LegRecord] BY <1>3, <4>1, <4>5, <4>6
      <4>8. AnswersOnly BY <1>1, <4>1, NoChange
      <4> HIDE DEF m
      <4>9. MailTypes' BY <1>1, <1>4, <1>6, <3>1, <3>2, OneBox DEF MailTypes
      <4> QED BY <4>7, <4>8, <4>9
    <3>4. CASE m.kind = "target"
      <4>1. leg' = [leg EXCEPT ![s].at = "handed"] /\ handoff' = [handoff EXCEPT ![m.arg].tgt = "ok"]
        BY <2>1, <3>4 DEF LegTakes
      <4>2. m.arg \in Handoffs BY <3>2, <3>4, MessageArgs
      <4>3. leg' \in [Callees -> LegRecord] BY <1>3, <1>10, <4>1
      <4>4. AnswersOnly BY <1>1, <4>1, <4>2, Answer DEF Answers
      <4> HIDE DEF m
      <4>5. MailTypes' BY <1>1, <1>4, <1>6, <3>1, <3>2, OneBox DEF MailTypes
      <4> QED BY <4>3, <4>4, <4>5
    <3>5. CASE m.kind \notin {"event", "end", "target"}
      <4>1. leg' = LegExits(s) /\ UNCHANGED handoff BY <2>1, <3>5 DEF LegTakes
      <4>2. leg' \in [Callees -> LegRecord] /\ AnswersOnly BY <1>1, <1>8, <4>1, NoChange
      <4> HIDE DEF m
      <4>3. MailTypes' BY <1>1, <1>4, <1>6, <3>1, <3>2, OneBox DEF MailTypes
      <4> QED BY <4>2, <4>3
    <3> QED BY <3>3, <3>4, <3>5
  <2>2. CASE LegForwards(s)
    <3> DEFINE m == Head(leg[s].out)
               d == Dispatch(<<s[1], Hub>>, m)
    <3>1. leg[s].out \in Seq(Msgs) /\ leg[s].out # << >> BY <1>3, <2>2 DEF LegRecord, LegForwards
    <3>2. m \in Msgs BY <3>1
    <3>3. d \in Letters BY <1>4, <3>2, Places, DispatchType
    <3>4. /\ queue' = queue \/ (Room(1) /\ queue' = Append(queue, d))
          /\ leg' = [leg EXCEPT ![s].out = << >>] \/ leg' = LegExits(s)
          /\ mbox' = mbox \/ mbox' = [mbox EXCEPT ![s] = << >>]
          /\ handoff' = handoff
      BY <2>2 DEF LegForwards
    <3> HIDE DEF m, d
    <3>5. leg' \in [Callees -> LegRecord] BY <1>3, <1>8, <1>10, <3>4
    <3>6. AnswersOnly BY <1>1, <3>4, NoChange
    <3>7. queue' \in Seq(Letters) /\ Len(queue') <= DispatcherCapacity
      BY <1>1, <3>3, <3>4, QueueTakesOne DEF MailTypes
    <3>8. mbox' \in [Boxes -> Seq(Msgs)] /\ \A b \in Boxes : Len(mbox'[b]) <= MailboxCapacity
      BY <1>1, <1>4, <1>6, <3>4, OneBox DEF MailTypes
    <3> QED BY <3>5, <3>6, <3>7, <3>8 DEF MailTypes
  <2>3. CASE LegLosesMailbox(s)
    <3>1. leg' = LegExits(s) /\ UNCHANGED <<mbox, queue, handoff>> BY <2>3 DEF LegLosesMailbox
    <3> QED BY <1>1, <1>8, <3>1, NoChange DEF MailTypes
  <2> QED BY <2>1, <2>2, <2>3 DEF LegActor
<1>12. Links' BY <1>1, <1>2, <1>11, QuietStep
<1>13. ActorTypes' BY <1>1, <1>2, <1>11 DEF ActorTypes, AnswersOnly
<1>14. LoopTypes' /\ EventTypes' /\ Admission' /\ RegOK'
  BY <1>1, <1>2 DEF LoopTypes, EventTypes, Admission, Creating, RegOK, traffic, manager
<1> QED BY <1>11, <1>12, <1>13, <1>14 DEF IInv, Types

----------------------------------------------------------------------------
(* Registration and hand-over *)

\* recover_actors starts actors again and changes no leg.
LEMMA RecoverKeeps ==
  ASSUME ActorTypes, Links, NEW h \in Handoffs, Live(handoff[h]), Recover(h)
  PROVE  /\ hub' \in [Calls -> HubRecord] /\ leg' \in [Callees -> LegRecord]
         /\ \A c \in Calls : SameLeg(hub'[c], hub[c]) /\ (invite[c] # "call" => hub'[c] = hub[c])
<1> DEFINE d == handoff[h].call
           t == <<d, handoff[h].target>>
<1>1. d \in Calls /\ invite[d] = "call" /\ t \in Callees
  <2>1. d \in Calls /\ invite[d] = "call" /\ handoff[h].target \in 1..MaxAttempts
    BY DEF Links, HandoffOK, Live, Outstanding
  <2> QED BY <2>1, Places
<1>2. hub \in [Calls -> HubRecord] /\ leg \in [Callees -> LegRecord] BY DEF ActorTypes
<1>3. /\ hub' = IF handoff[h].src = "ok" THEN [hub EXCEPT ![d].at = "running", ![d].told = FALSE] ELSE hub
      /\ leg' = IF handoff[h].tgt = "ok" THEN [leg EXCEPT ![t].at = "running"] ELSE leg
  BY DEF Recover
<1> HIDE DEF d, t
<1>4. [leg[t] EXCEPT !.at = "running"] \in LegRecord BY <1>1, <1>2 DEF LegRecord
<1>5. leg' \in [Callees -> LegRecord] BY <1>1, <1>2, <1>3, <1>4
<1> DEFINE g == [hub[d] EXCEPT !.at = "running"]
           g2 == [g EXCEPT !.told = FALSE]
<1>6. g \in HubRecord /\ SameLeg(g, hub[d]) BY <1>1, <1>2, HubMoves
<1>7. [hub EXCEPT ![d].at = "running", ![d].told = FALSE] = [hub EXCEPT ![d] = g2]
  BY <1>1, <1>2
<1> HIDE DEF g
<1>8. g2 \in HubRecord /\ SameLeg(g2, g) BY <1>6, HubMoves
<1> HIDE DEF g2
<1>9. SameLeg(g2, hub[d]) BY <1>6, <1>8 DEF SameLeg
<1>10. hub' = hub \/ hub' = [hub EXCEPT ![d] = g2] BY <1>3, <1>7
<1>11. hub' \in [Calls -> HubRecord] BY <1>2, <1>8, <1>10
<1>12. ASSUME NEW c \in Calls PROVE SameLeg(hub'[c], hub[c]) /\ (invite[c] # "call" => hub'[c] = hub[c])
  <2>1. CASE c = d BY <1>1, <1>2, <1>9, <1>10, <2>1 DEF SameLeg
  <2>2. CASE c # d BY <1>2, <1>10, <2>2 DEF SameLeg
  <2> QED BY <2>1, <2>2
<1> QED BY <1>5, <1>11, <1>12

\* A hand-over's replies: one is lost, or both are in.
LEMMA HandoffTaskInv == ASSUME IInv, NEW h \in Handoffs, HandoffTask(h) PROVE IInv'
<1>1. LoopTypes /\ ActorTypes /\ MailTypes /\ EventTypes /\ Admission /\ Links /\ RegOK BY DEF IInv, Types
<1>2. UNCHANGED <<invite, manager, mbox, queue, reg, fin, finished, loop, shutdown, traffic>>
  BY DEF HandoffTask, LoseReply, AwaitReadiness, actors
<1>3. handoff \in [Handoffs -> HandoffRecord] /\ handoff[h] \in HandoffRecord BY <1>1 DEF ActorTypes
<1>4. Live(handoff[h]) BY DEF HandoffTask, LoseReply, AwaitReadiness, Live
<1>5. Links' /\ ActorTypes'
  <2>1. CASE LoseReply(h)
    <3>1. UNCHANGED <<hub, leg>> BY <2>1 DEF LoseReply, actors
    <3>2. AnswersOnly BY <1>1, <2>1, Answer DEF LoseReply, Answers
    <3>3. Links' BY <1>1, <1>2, <3>1, <3>2, QuietStep
    <3> QED BY <1>1, <1>2, <3>1, <3>2, <3>3 DEF ActorTypes, AnswersOnly
  <2>2. CASE AwaitReadiness(h)
    <3>1. PICK st \in {"ready", "replied"} :
            /\ handoff' = [handoff EXCEPT ![h].state = st]
            /\ st = "ready" => UNCHANGED <<hub, leg>>
            /\ st = "replied" => Recover(h) /\ loop.phase = "closed"
      BY <2>2 DEF AwaitReadiness
    <3>2. handoff' \in [Handoffs -> HandoffRecord]
      <4>1. [handoff[h] EXCEPT !.state = st] \in HandoffRecord BY <1>3 DEF HandoffRecord
      <4> QED BY <1>3, <3>1, <4>1
    <3>3. /\ hub' \in [Calls -> HubRecord] /\ leg' \in [Callees -> LegRecord]
          /\ \A c \in Calls : SameLeg(hub'[c], hub[c]) /\ (invite[c] # "call" => hub'[c] = hub[c])
      <4>1. CASE st = "ready" BY <1>1, <3>1, <4>1 DEF ActorTypes, SameLeg
      <4>2. CASE st = "replied" BY <1>1, <1>4, <3>1, <4>2, RecoverKeeps
      <4> QED BY <4>1, <4>2
    <3>4. \A g \in Handoffs : SameHandoff(handoff'[g], handoff[g])
                              /\ (Live(handoff'[g]) => Live(handoff[g]))
      BY <1>3, <1>4, <3>1 DEF HandoffRecord, SameHandoff, Live
    <3>5. UNCHANGED <<owner, sessions, pending, loop, invite>> BY <1>2 DEF manager
    <3>6. \A c \in Calls : owner'[c] # NoOwner => owner'[c] = owner[c] /\ <<c, owner[c].sess>> \in sessions'
      BY <1>1, <3>5 DEF Links, OwnerOK
    <3>7. ASSUME NEW c \in Calls, pending'[c] # 0
          PROVE  /\ pending'[c] = pending[c] /\ owner'[c] # NoOwner /\ Live(handoff'[pending[c]])
                 /\ <<c, handoff[pending[c]].target>> \in sessions'
      <4>1. pending[c] # 0 BY <3>5, <3>7
      <4>2. /\ pending[c] \in Handoffs /\ Live(handoff[pending[c]]) /\ owner[c] # NoOwner
            /\ <<c, handoff[pending[c]].target>> \in sessions
        BY <1>1, <4>1, TokenHasOwner
      <4>3. st = "ready" BY <1>1, <3>1, <4>1 DEF Links, ClosedOK
      <4>4. Live(handoff'[pending[c]]) BY <1>3, <3>1, <4>2, <4>3 DEF HandoffRecord, Live
      <4> QED BY <3>5, <4>2, <4>4
    <3>8. loop'.phase = "closed" => \A c \in Calls : pending'[c] = 0 BY <1>1, <3>5 DEF Links, ClosedOK
    <3>9. Links' BY <1>1, <3>3, <3>4, <3>5, <3>6, <3>7, <3>8, LinksKept
    <3> QED BY <1>1, <1>2, <3>2, <3>3, <3>9 DEF ActorTypes
  <2> QED BY <2>1, <2>2 DEF HandoffTask
<1>6. LoopTypes' /\ MailTypes' /\ EventTypes' /\ Admission' /\ RegOK'
  BY <1>1, <1>2 DEF LoopTypes, MailTypes, EventTypes, Admission, Creating, RegOK, traffic, manager
<1> QED BY <1>5, <1>6 DEF IInv, Types

\* A created call is admitted.
LEMMA AdmitInv == ASSUME IInv, NEW c \in Calls, Admit(c) PROVE IInv'
<1>1. LoopTypes /\ ActorTypes /\ MailTypes /\ EventTypes /\ Admission /\ Links /\ RegOK BY DEF IInv, Types
<1>2. UNCHANGED <<pending, mbox, reg, handoff, fin, finished, loop, shutdown, traffic>> BY DEF Admit
<1>3. /\ loop.phase # "closed" /\ invite[c] = "created" /\ Room(1)
      /\ invite' = [invite EXCEPT ![c] = "call"]
      /\ owner' = [owner EXCEPT ![c] = [sess |-> 0, gen |-> 1]]
      /\ hub' = [hub EXCEPT ![c].at = "running"]
      /\ leg' = [leg EXCEPT ![<<c, 1>>].at = "running"]
  BY DEF Admit
<1>4. invite \in [Calls -> Invites] /\ owner \in [Calls -> Owners] /\ hub \in [Calls -> HubRecord]
      /\ leg \in [Callees -> LegRecord]
  BY <1>1 DEF LoopTypes, ActorTypes
<1>5. <<c, 0>> \in Sessions /\ <<c, 1>> \in Sessions /\ <<c, 1>> \in Callees BY Places, Numbers
<1>6. sessions \subseteq sessions' /\ <<c, 0>> \in sessions' /\ sessions' \subseteq Sessions
  BY <1>1, <1>5 DEF Admit, LoopTypes
<1>7. owner[c] = NoOwner /\ pending[c] = 0 /\ hub[c] = NoHub BY <1>1, <1>3 DEF Links, FreshCalls
<1>8. LoopTypes'
  <2>1. [sess |-> 0, gen |-> 1] \in Owners BY Numbers DEF Owners
  <2> QED BY <1>1, <1>2, <1>3, <1>4, <1>6, <2>1 DEF LoopTypes, Invites
<1>9. ActorTypes'
  <2>1. [hub[c] EXCEPT !.at = "running"] \in HubRecord /\ [leg[<<c, 1>>] EXCEPT !.at = "running"] \in LegRecord
    <3>1. hub[c] \in HubRecord /\ leg[<<c, 1>>] \in LegRecord BY <1>4, <1>5
    <3> QED BY <3>1, HubMoves DEF LegRecord
  <2>2. hub' \in [Calls -> HubRecord] BY <1>3, <1>4, <2>1
  <2>3. leg' \in [Callees -> LegRecord] BY <1>3, <1>4, <1>5, <2>1
  <2> QED BY <1>1, <1>2, <2>2, <2>3 DEF ActorTypes
<1>10. MailTypes'
  <2>1. Dispatch(<<c, Hub>>, Shutdown) \in Letters /\ Dispatch(<<c, Hub>>, ForceShutdown) \in Letters
    BY Messages, Places, DispatchType
  <2>2. \/ queue' = queue
        \/ queue' = Append(queue, Dispatch(<<c, Hub>>, Shutdown))
        \/ queue' = Append(queue, Dispatch(<<c, Hub>>, ForceShutdown))
    BY DEF Admit
  <2> QED BY <1>1, <1>2, <1>3, <2>1, <2>2, QueueTakesOne DEF MailTypes
<1>11. Links'
  <2>1. FreshCalls' BY <1>1, <1>2, <1>3, <1>4 DEF Links, FreshCalls
  <2>2. OwnerOK'
    <3>1. hub'[c].sess = 0 /\ hub'[c].gen = 1 /\ owner'[c] = [sess |-> 0, gen |-> 1]
      BY <1>3, <1>4, <1>7 DEF NoHub
    <3>2. \A d \in Calls : d # c => hub'[d] = hub[d] /\ owner'[d] = owner[d] BY <1>3, <1>4
    <3> QED BY <1>1, <1>6, <3>1, <3>2 DEF Links, OwnerOK
  <2>3. TokenOK'
    <3>1. \A d \in Calls : pending[d] # 0 => owner'[d] = owner[d] BY <1>3, <1>4, <1>7
    <3>2. TokenIsCurrent' BY <1>1, <1>2, <1>6, <3>1 DEF Links, TokenOK, TokenIsCurrent
    <3> QED BY <1>1, <1>2, <3>2 DEF Links, TokenOK, Outstanding
  <2>4. HandoffOK' BY <1>1, <1>2, <1>3, <1>4 DEF Links, HandoffOK, Outstanding
  <2>5. ClosedOK' BY <1>1, <1>2 DEF Links, ClosedOK
  <2> QED BY <2>1, <2>2, <2>3, <2>4, <2>5 DEF Links
<1>12. Admission'
  <2>1. Creating' \subseteq Creating BY <1>3, <1>4 DEF Creating
  <2> QED BY <1>1, <2>1, FewerCreating
<1>13. EventTypes' /\ RegOK' BY <1>1, <1>2 DEF EventTypes, RegOK, traffic
<1> QED BY <1>8, <1>9, <1>10, <1>11, <1>12, <1>13 DEF IInv, Types

\* A finished call is forgotten.
LEMMA DestroyCallInv == ASSUME IInv, NEW c \in Calls, DestroyCall(c) PROVE IInv'
<1>1. LoopTypes /\ ActorTypes /\ MailTypes /\ EventTypes /\ Admission /\ Links /\ RegOK BY DEF IInv, Types
<1>2. UNCHANGED <<invite, actors, reg, handoff, fin, loop, shutdown, traffic>> BY DEF DestroyCall
<1>3. /\ sessions' = {s \in sessions : s[1] # c} /\ owner' = [owner EXCEPT ![c] = NoOwner]
      /\ pending' = [pending EXCEPT ![c] = 0] /\ finished' = finished \ {c} /\ loop.phase # "closed"
  BY DEF DestroyCall, Destroy
<1>4. owner \in [Calls -> Owners] /\ pending \in [Calls -> 0..MaxHandoffs] BY <1>1 DEF LoopTypes
<1>5. LoopTypes'
  <2>1. NoOwner \in Owners BY Numbers DEF NoOwner, Owners
  <2>2. owner' \in [Calls -> Owners] BY <1>3, <1>4, <2>1
  <2>3. pending' \in [Calls -> 0..MaxHandoffs] BY <1>3, <1>4, Numbers
  <2> QED BY <1>1, <1>2, <1>3, <2>2, <2>3 DEF LoopTypes
<1>6. UNCHANGED <<hub, handoff>> BY <1>2 DEF actors
<1>7. Links'
  <2>1. \A d \in Calls : owner'[d] # NoOwner => owner'[d] = owner[d] /\ <<d, owner[d].sess>> \in sessions'
    <3>1. ASSUME NEW d \in Calls, owner'[d] # NoOwner PROVE owner'[d] = owner[d] /\ <<d, owner[d].sess>> \in sessions'
      <4>1. d # c /\ owner'[d] = owner[d] BY <1>3, <1>4, <3>1
      <4>2. <<d, owner[d].sess>> \in sessions BY <1>1, <3>1, <4>1 DEF Links, OwnerOK
      <4> QED BY <1>3, <4>1, <4>2
    <3> QED BY <3>1
  <2>2. ASSUME NEW d \in Calls, pending'[d] # 0
        PROVE  /\ pending'[d] = pending[d] /\ owner'[d] # NoOwner /\ Live(handoff'[pending[d]])
               /\ <<d, handoff[pending[d]].target>> \in sessions'
    <3>1. d # c /\ pending'[d] = pending[d] /\ pending[d] # 0 /\ owner'[d] = owner[d] BY <1>3, <1>4, <2>2
    <3>2. Live(handoff[pending[d]]) /\ owner[d] # NoOwner /\ <<d, handoff[pending[d]].target>> \in sessions
      BY <1>1, <3>1, TokenHasOwner
    <3>3. Live(handoff'[pending[d]]) BY <1>6, <3>2
    <3>4. <<d, handoff[pending[d]].target>> \in sessions' BY <1>3, <3>1, <3>2
    <3> QED BY <3>1, <3>2, <3>3, <3>4
  <2>3. loop'.phase = "closed" => \A d \in Calls : pending'[d] = 0 BY <1>2, <1>3
  <2>4. /\ \A d \in Calls : SameLeg(hub'[d], hub[d]) /\ hub'[d] = hub[d]
        /\ \A h \in Handoffs : Live(handoff'[h]) => Live(handoff[h]) /\ SameHandoff(handoff'[h], handoff[h])
    BY <1>6 DEF SameLeg, SameHandoff
  <2>5. \A d \in Calls : invite'[d] = "call" <=> invite[d] = "call" BY <1>2
  <2> QED BY <1>1, <2>1, <2>2, <2>3, <2>4, <2>5, LinksKept
<1>8. ActorTypes' /\ MailTypes' /\ EventTypes' /\ Admission' /\ RegOK'
  BY <1>1, <1>2 DEF ActorTypes, MailTypes, EventTypes, Admission, Creating, RegOK, traffic, actors
<1> QED BY <1>5, <1>7, <1>8 DEF IInv, Types

\* An attempt is registered in the place of the one before, which is never the
\* owner's leg.
LEMMA RegisterAttemptInv == ASSUME IInv, NEW c \in Calls, RegisterAttempt(c) PROVE IInv'
<1>1. LoopTypes /\ ActorTypes /\ MailTypes /\ EventTypes /\ Admission /\ Links /\ RegOK BY DEF IInv, Types
<1>2. UNCHANGED <<invite, owner, hub, mbox, handoff, fin, finished, loop, shutdown, traffic>> BY DEF RegisterAttempt
<1> DEFINE n == reg[c].attempt
           old == <<c, n - 1>>
<1>3. reg[c] \in RegRecord /\ n # 0 /\ reg[c].sess = 0 BY <1>1 DEF RegisterAttempt, ActorTypes, RegOK
<1>4. n \in 2..MaxAttempts /\ n - 1 \in 1..MaxAttempts /\ n \in 1..MaxAttempts /\ n - 1 \in 0..MaxAttempts
      /\ n \in 0..MaxAttempts
  BY <1>3, Numbers DEF RegRecord
<1>5. old \in Boxes /\ old \in Sessions /\ <<c, n>> \in Sessions /\ <<c, n>> \in Callees /\ <<c, Hub>> \in Boxes
  BY <1>4, Places
<1>6. /\ reg' = [reg EXCEPT ![c] = NoReg]
      /\ \/ /\ owner[c] = [sess |-> reg[c].sess, gen |-> reg[c].gen]
            /\ sessions' = (sessions \ {old}) \cup {<<c, n>>} /\ pending' = WithoutHandoffs(old)
            /\ leg' = [leg EXCEPT ![<<c, n>>].at = "running"]
         \/ UNCHANGED <<sessions, pending, leg>>
  BY DEF RegisterAttempt
<1>7. MailTypes'
  <2> DEFINE answer == Dispatch(<<c, Hub>>, Msg("reg", 0, n))
             refuse == Dispatch(<<c, Hub>>, Msg("refused", 0, n))
             goodbye == Dispatch(old, Shutdown)
  <2>1. /\ Room(2)
        /\ \/ queue' = queue \/ queue' = Append(queue, answer) \/ queue' = Append(queue, refuse)
           \/ queue' = queue \o <<goodbye, answer>>
    BY DEF RegisterAttempt
  <2>2. answer \in Letters /\ refuse \in Letters /\ goodbye \in Letters
    BY <1>4, <1>5, Messages, DispatchType
  <2> HIDE DEF answer, refuse, goodbye
  <2>3. queue' \in Seq(Letters) /\ Len(queue') <= DispatcherCapacity
    BY <1>1, <2>1, <2>2, QueueTakesTwo DEF MailTypes
  <2> QED BY <1>1, <1>2, <2>3 DEF MailTypes
<1> HIDE DEF n
<1>8. pending' \in [Calls -> 0..MaxHandoffs] /\ sessions' \subseteq Sessions
      /\ \A d \in Calls : pending'[d] = pending[d] \/ pending'[d] = 0
  <2>1. pending \in [Calls -> 0..MaxHandoffs] /\ sessions \subseteq Sessions BY <1>1 DEF LoopTypes
  <2>2. \A d \in Calls : WithoutHandoffs(old)[d] = pending[d] \/ WithoutHandoffs(old)[d] = 0
    BY DEF WithoutHandoffs
  <2>3. WithoutHandoffs(old) \in [Calls -> 0..MaxHandoffs] BY <2>1, Numbers DEF WithoutHandoffs
  <2> QED BY <1>5, <1>6, <2>1, <2>2, <2>3
<1>9. Links'
  <2>1. \A d \in Calls : owner'[d] # NoOwner => owner'[d] = owner[d] /\ <<d, owner[d].sess>> \in sessions'
    <3>1. ASSUME NEW d \in Calls, owner[d] # NoOwner PROVE <<d, owner[d].sess>> \in sessions'
      <4>1. <<d, owner[d].sess>> \in sessions BY <1>1, <3>1 DEF Links, OwnerOK
      <4>2. CASE UNCHANGED sessions BY <4>1, <4>2
      <4>3. CASE /\ owner[c] = [sess |-> reg[c].sess, gen |-> reg[c].gen]
                 /\ sessions' = (sessions \ {old}) \cup {<<c, n>>}
        <5>1. <<d, owner[d].sess>> # old
          <6>1. CASE d # c BY <6>1
          <6>2. CASE d = c
            <7>1. owner[d].sess = 0 /\ n - 1 # 0 BY <1>3, <1>4, <4>3, <6>2, Numbers
            <7> QED BY <7>1
          <6> QED BY <6>1, <6>2
        <5> QED BY <4>1, <4>3, <5>1
      <4> QED BY <1>6, <4>2, <4>3
    <3> QED BY <1>2, <3>1
  <2>2. ASSUME NEW d \in Calls, pending'[d] # 0
        PROVE  /\ pending'[d] = pending[d] /\ owner'[d] # NoOwner /\ Live(handoff'[pending[d]])
               /\ <<d, handoff[pending[d]].target>> \in sessions'
    <3>1. pending'[d] = pending[d] /\ pending[d] # 0 BY <1>8, <2>2
    <3>2. Live(handoff[pending[d]]) /\ owner[d] # NoOwner /\ <<d, handoff[pending[d]].target>> \in sessions
      BY <1>1, <3>1, TokenHasOwner
    <3>3. <<d, handoff[pending[d]].target>> \in sessions'
      <4>1. CASE UNCHANGED sessions BY <3>2, <4>1
      <4>2. CASE sessions' = (sessions \ {old}) \cup {<<c, n>>} /\ pending' = WithoutHandoffs(old)
        <5>1. <<d, handoff[pending[d]].target>> # old
          BY <2>2, <3>1, <4>2 DEF WithoutHandoffs
        <5> QED BY <3>2, <4>2, <5>1
      <4> QED BY <1>6, <4>1, <4>2
    <3> QED BY <1>2, <3>1, <3>2, <3>3
  <2>3. loop'.phase = "closed" => \A d \in Calls : pending'[d] = 0 BY <1>1, <1>2, <1>8 DEF Links, ClosedOK
  <2>4. /\ \A d \in Calls : SameLeg(hub'[d], hub[d]) /\ hub'[d] = hub[d]
        /\ \A h \in Handoffs : Live(handoff'[h]) => Live(handoff[h]) /\ SameHandoff(handoff'[h], handoff[h])
    BY <1>2 DEF SameLeg, SameHandoff
  <2>5. \A d \in Calls : invite'[d] = "call" <=> invite[d] = "call" BY <1>2
  <2> QED BY <1>1, <2>1, <2>2, <2>3, <2>4, <2>5, LinksKept
<1>10. ActorTypes'
  <2>1. NoReg \in RegRecord BY Numbers DEF NoReg, RegRecord
  <2>2. reg' \in [Calls -> RegRecord] BY <1>1, <1>6, <2>1 DEF ActorTypes
  <2>3. [leg[<<c, n>>] EXCEPT !.at = "running"] \in LegRecord BY <1>1, <1>5 DEF ActorTypes, LegRecord
  <2>4. leg' \in [Callees -> LegRecord] BY <1>1, <1>5, <1>6, <2>3 DEF ActorTypes
  <2> QED BY <1>1, <1>2, <2>2, <2>4 DEF ActorTypes
<1>11. RegOK' BY <1>1, <1>6 DEF RegOK, ActorTypes, NoReg
<1>12. LoopTypes' BY <1>1, <1>2, <1>8 DEF LoopTypes
<1>13. EventTypes' /\ Admission' BY <1>1, <1>2 DEF EventTypes, Admission, Creating, traffic
<1> QED BY <1>7, <1>9, <1>10, <1>11, <1>12, <1>13 DEF IInv, Types

\* A hand-over is asked for.
LEMMA RequestHandoffInv ==
  ASSUME IInv, NEW h \in Handoffs, NEW c \in Calls, NEW target \in 1..MaxAttempts, RequestHandoff(h, c, target)
  PROVE  IInv'
<1>1. LoopTypes /\ ActorTypes /\ MailTypes /\ EventTypes /\ Admission /\ Links /\ RegOK BY DEF IInv, Types
<1>2. UNCHANGED <<invite, owner, sessions, hub, leg, mbox, reg, fin, finished, loop, shutdown, sent, applied>>
  BY DEF RequestHandoff
<1>3. handoff[h] = NoHandoff /\ invite[c] = "call" /\ inputs < MaxInputs /\ inputs' = inputs + 1 /\ Room(2)
      /\ loop.phase # "closed"
  BY DEF RequestHandoff, Serving
<1>4. handoff \in [Handoffs -> HandoffRecord] BY <1>1 DEF ActorTypes
<1>5. EventTypes'
  <2>1. inputs' \in 0..MaxInputs /\ inputs' >= inputs /\ inputs \in Nat BY <1>1, <1>3, Numbers DEF EventTypes
  <2>2. \A s \in Sessions : sent[s] <= inputs' BY <1>1, <1>3, <2>1, Numbers DEF EventTypes
  <2> QED BY <1>1, <1>2, <2>1, <2>2 DEF EventTypes
<1>6. Admission' /\ RegOK' BY <1>1, <1>2 DEF Admission, Creating, RegOK
<1>7. ~Live(handoff[h]) BY <1>3 DEF Live, NoHandoff
<1>8. CASE handoff' = [handoff EXCEPT ![h].state = "replied"] /\ UNCHANGED <<pending, queue>>
  <2>1. handoff' \in [Handoffs -> HandoffRecord]
    <3>1. [handoff[h] EXCEPT !.state = "replied"] \in HandoffRecord BY <1>4 DEF HandoffRecord
    <3> QED BY <1>4, <1>8, <3>1
  <2>2. \A g \in Handoffs : SameHandoff(handoff'[g], handoff[g]) /\ (Live(handoff'[g]) <=> Live(handoff[g]))
    BY <1>4, <1>7, <1>8 DEF HandoffRecord, SameHandoff, Live
  <2>3. Links'
    <3>1. \A d \in Calls : owner'[d] # NoOwner => owner'[d] = owner[d] /\ <<d, owner[d].sess>> \in sessions'
      BY <1>1, <1>2 DEF Links, OwnerOK
    <3>2. ASSUME NEW d \in Calls, pending'[d] # 0
          PROVE  /\ pending'[d] = pending[d] /\ owner'[d] # NoOwner /\ Live(handoff'[pending[d]])
                 /\ <<d, handoff[pending[d]].target>> \in sessions'
      BY <1>1, <1>2, <1>8, <2>2, <3>2, TokenHasOwner
    <3>3. \A d \in Calls : SameLeg(hub'[d], hub[d]) /\ hub'[d] = hub[d] BY <1>2 DEF SameLeg
    <3>4. loop'.phase = "closed" => \A d \in Calls : pending'[d] = 0 BY <1>2, <1>3
    <3>5. \A d \in Calls : invite'[d] = "call" <=> invite[d] = "call" BY <1>2
    <3> QED BY <1>1, <2>2, <3>1, <3>2, <3>3, <3>4, <3>5, LinksKept
  <2> QED BY <1>1, <1>2, <1>5, <1>6, <1>8, <2>1, <2>3 DEF IInv, Types, LoopTypes, ActorTypes, MailTypes
<1>9. CASE /\ CanPrepare(c, target) /\ pending' = [pending EXCEPT ![c] = h]
           /\ handoff' = [handoff EXCEPT ![h] =
                [state |-> "asked", call |-> c, source |-> owner[c].sess, target |-> target,
                 gen |-> owner[c].gen, src |-> "wait", tgt |-> "wait"]]
           /\ queue' = queue \o <<Dispatch(<<c, Hub>>, Msg("prepare", 0, h)),
                                  Dispatch(<<c, target>>, Msg("target", 0, h))>>
  <2> DEFINE new == [state |-> "asked", call |-> c, source |-> owner[c].sess, target |-> target,
                     gen |-> owner[c].gen, src |-> "wait", tgt |-> "wait"]
  <2>1. owner[c] # NoOwner /\ <<c, target>> \in sessions /\ pending[c] = 0 /\ target # owner[c].sess
    BY <1>9 DEF CanPrepare
  <2>2. owner[c] = [sess |-> hub[c].sess, gen |-> hub[c].gen] /\ hub[c].sess \in 0..MaxAttempts /\ hub[c].gen \in Nat
    BY <1>1, <2>1 DEF Links, OwnerOK, ActorTypes, HubRecord
  <2>3. target \in 0..MaxAttempts BY Numbers
  <2>4. new \in HandoffRecord BY <2>2, <2>3 DEF HandoffRecord, Answers
  <2>5. /\ new.state = "asked" /\ new.call = c /\ new.source = owner[c].sess /\ new.target = target
        /\ new.gen = owner[c].gen
    OBVIOUS
  <2>6. handoff' = [handoff EXCEPT ![h] = new] BY <1>9
  <2> HIDE DEF new
  <2>7. handoff' \in [Handoffs -> HandoffRecord] BY <1>4, <2>4, <2>6
  <2>8. h \in 0..MaxHandoffs BY Numbers DEF Handoffs
  <2>9. LoopTypes' BY <1>1, <1>2, <1>9, <2>8 DEF LoopTypes
  <2>10. ActorTypes' BY <1>1, <1>2, <2>7 DEF ActorTypes
  <2>11. MailTypes'
    <3>1. Dispatch(<<c, Hub>>, Msg("prepare", 0, h)) \in Letters /\ Dispatch(<<c, target>>, Msg("target", 0, h)) \in Letters
      BY <2>3, Messages, Places, DispatchType
    <3>2. queue' \in Seq(Letters) /\ Len(queue') <= DispatcherCapacity
      BY <1>1, <1>3, <1>9, <3>1, QueueTakesTwo
    <3> QED BY <1>1, <1>2, <3>2 DEF MailTypes
  <2>12. pending \in [Calls -> 0..MaxHandoffs] BY <1>1 DEF LoopTypes
  <2>13. FreshCalls' BY <1>1, <1>2, <1>3, <1>9, <2>12 DEF Links, FreshCalls
  <2>14. OwnerOK' BY <1>1, <1>2 DEF Links, OwnerOK
  <2>15. HandoffOK'
    <3>1. ASSUME NEW g \in Handoffs, Live(handoff'[g])
          PROVE  /\ handoff'[g].call \in Calls /\ invite'[handoff'[g].call] = "call"
                 /\ handoff'[g].source # handoff'[g].target /\ handoff'[g].target \in 1..MaxAttempts
      <4>1. CASE g = h
        <5>1. handoff'[g] = new BY <1>4, <2>6, <4>1
        <5> QED BY <1>2, <1>3, <2>1, <2>5, <5>1
      <4>2. CASE g # h
        <5>1. handoff'[g] = handoff[g] BY <1>4, <2>6, <4>2
        <5> QED BY <1>1, <1>2, <3>1, <5>1 DEF Links, HandoffOK, Live, Outstanding
      <4> QED BY <4>1, <4>2
    <3> QED BY <3>1 DEF HandoffOK, Live, Outstanding
  <2>16. TokenOK'
    <3>1. ASSUME NEW d \in Calls, pending'[d] # 0
          PROVE  /\ Live(handoff'[pending'[d]]) /\ handoff'[pending'[d]].call = d
                 /\ owner'[d] = [sess |-> handoff'[pending'[d]].source, gen |-> handoff'[pending'[d]].gen]
                 /\ <<d, handoff'[pending'[d]].target>> \in sessions'
      <4>1. CASE d = c
        <5>1. handoff'[pending'[d]] = new BY <1>4, <1>9, <2>6, <2>12, <4>1
        <5> QED BY <1>2, <2>1, <2>2, <2>5, <4>1, <5>1 DEF Live
      <4>2. CASE d # c
        <5>1. pending'[d] = pending[d] /\ pending[d] # 0 BY <1>9, <2>12, <3>1, <4>2
        <5>2. pending[d] \in Handoffs /\ Live(handoff[pending[d]]) BY <1>1, <5>1, TokenHasOwner
        <5>3. handoff'[pending'[d]] = handoff[pending[d]] BY <1>4, <1>7, <2>6, <5>1, <5>2
        <5>4. /\ handoff[pending[d]].call = d
              /\ owner[d] = [sess |-> handoff[pending[d]].source, gen |-> handoff[pending[d]].gen]
              /\ <<d, handoff[pending[d]].target>> \in sessions
          BY <1>1, <5>1 DEF Links, TokenOK, TokenIsCurrent
        <5> QED BY <1>2, <5>2, <5>3, <5>4
      <4> QED BY <4>1, <4>2
    <3>2. TokenIsCurrent' BY <3>1, Zenon DEF TokenIsCurrent
    <3>3. \A d \in Calls : pending'[d] # 0 => Outstanding(pending[d])' BY <3>1 DEF Live, Outstanding
    <3> QED BY <3>2, <3>3 DEF TokenOK
  <2>17. ClosedOK' BY <1>2, <1>3 DEF ClosedOK
  <2> QED BY <1>5, <1>6, <2>9, <2>10, <2>11, <2>13, <2>14, <2>15, <2>16, <2>17 DEF IInv, Types, Links
<1> QED BY <1>8, <1>9 DEF RequestHandoff

\* A hand-over is committed, and owner and coordinator move together, or
\* aborted, and both stay.
LEMMA CompleteHandoffInv == ASSUME IInv, NEW h \in Handoffs, CompleteHandoff(h) PROVE IInv'
<1>1. LoopTypes /\ ActorTypes /\ MailTypes /\ EventTypes /\ Admission /\ Links /\ RegOK BY DEF IInv, Types
<1>2. UNCHANGED <<invite, queue, reg, fin, finished, loop, shutdown, traffic>> BY DEF CompleteHandoff
<1> DEFINE c == handoff[h].call
           source == <<c, handoff[h].source>>
           target == <<c, handoff[h].target>>
<1>3. handoff \in [Handoffs -> HandoffRecord] /\ handoff[h] \in HandoffRecord BY <1>1 DEF ActorTypes
<1>4. Live(handoff[h]) /\ handoff' = [handoff EXCEPT ![h].state = "replied"] /\ loop.phase # "closed"
  BY DEF CompleteHandoff, Ready, Live, Serving
<1>5. c \in Calls /\ invite[c] = "call" /\ handoff[h].source # handoff[h].target /\ handoff[h].target \in 1..MaxAttempts
  BY <1>1, <1>4 DEF Links, HandoffOK, Live, Outstanding
<1>6. handoff[h].source \in 0..MaxAttempts /\ handoff[h].gen \in Nat /\ handoff[h].target \in 0..MaxAttempts
  BY <1>3 DEF HandoffRecord
<1>7. source \in Boxes /\ target \in Callees BY <1>5, <1>6, Places
<1>8. handoff' \in [Handoffs -> HandoffRecord]
  <2>1. [handoff[h] EXCEPT !.state = "replied"] \in HandoffRecord BY <1>3 DEF HandoffRecord
  <2> QED BY <1>3, <1>4, <2>1
<1>9. \A g \in Handoffs : /\ SameHandoff(handoff'[g], handoff[g])
                          /\ Live(handoff'[g]) <=> (g # h /\ Live(handoff[g]))
  BY <1>3, <1>4 DEF HandoffRecord, SameHandoff, Live
<1>10. EventTypes' /\ Admission' /\ RegOK' BY <1>1, <1>2 DEF EventTypes, Admission, Creating, RegOK, traffic
<1>11. pending \in [Calls -> 0..MaxHandoffs] /\ owner \in [Calls -> Owners] /\ hub \in [Calls -> HubRecord]
       /\ leg \in [Callees -> LegRecord] /\ mbox \in [Boxes -> Seq(Msgs)]
  BY <1>1 DEF LoopTypes, ActorTypes, MailTypes
<1>12. \A d \in Calls : d # c => pending[d] # h
  <2>1. ASSUME NEW d \in Calls, pending[d] = h PROVE d = c
    <3>1. pending[d] # 0 BY <2>1 DEF Handoffs
    <3> QED BY <1>1, <2>1, <3>1, TokenHasOwner
  <2> QED BY <2>1
<1>13. CASE /\ CanCommit(h)
            /\ owner' = [owner EXCEPT ![c] = [sess |-> target[2], gen |-> handoff[h].gen + 1]]
            /\ sessions' = sessions \ {source} /\ pending' = [pending EXCEPT ![c] = 0]
            /\ hub' = [hub EXCEPT ![c] = Installed(h)] /\ leg' = [leg EXCEPT ![target] = [NoLeg EXCEPT !.at = "merged"]]
            /\ mbox' = [mbox EXCEPT ![source] = << >>]
  <2>1. <<c, handoff[h].target>> \in sessions BY <1>13 DEF CanCommit
  <2>2. /\ Installed(h) \in HubRecord /\ Installed(h).sess = handoff[h].target
        /\ Installed(h).gen = handoff[h].gen + 1
    <3>1. leg[<<c, handoff[h].target>>].seen \in Nat BY <1>7, <1>11 DEF LegRecord
    <3>2. hub[c] \in HubRecord BY <1>5, <1>11
    <3>3. handoff[h].gen + 1 \in Nat BY <1>6
    <3> QED BY <1>6, <3>1, <3>2, <3>3 DEF Installed, HubRecord
  <2>3. hub' \in [Calls -> HubRecord] BY <1>5, <1>11, <1>13, <2>2
  <2>4. leg' \in [Callees -> LegRecord]
    <3>1. << >> \in Seq(Msgs) OBVIOUS
    <3>2. [NoLeg EXCEPT !.at = "merged"] \in LegRecord BY <3>1 DEF NoLeg, LegRecord
    <3> QED BY <1>7, <1>11, <1>13, <3>2
  <2>5. MailTypes'
    <3>1. << >> \in Seq(Msgs) /\ Len(<< >>) <= MailboxCapacity BY Numbers
    <3>2. mbox' = [mbox EXCEPT ![source] = << >>] BY <1>13
    <3> HIDE DEF source
    <3> QED BY <1>1, <1>2, <1>7, <3>1, <3>2, OneBox DEF MailTypes
  <2>6. LoopTypes'
    <3>1. [sess |-> target[2], gen |-> handoff[h].gen + 1] \in Owners BY <1>6, Numbers DEF Owners
    <3>2. owner' \in [Calls -> Owners] BY <1>11, <1>13, <3>1
    <3>3. pending' \in [Calls -> 0..MaxHandoffs]
      <4>1. 0 \in 0..MaxHandoffs BY Numbers
      <4>2. pending' = [pending EXCEPT ![c] = 0] BY <1>13
      <4> HIDE DEF c
      <4> QED BY <1>11, <4>1, <4>2
    <3> QED BY <1>1, <1>2, <1>13, <3>2, <3>3 DEF LoopTypes
  <2>7. ActorTypes' BY <1>1, <1>2, <1>8, <2>3, <2>4 DEF ActorTypes
  <2>8. /\ \A d \in Calls : d # c => hub'[d] = hub[d] /\ owner'[d] = owner[d] /\ pending'[d] = pending[d]
        /\ hub'[c] = Installed(h) /\ owner'[c] = [sess |-> handoff[h].target, gen |-> handoff[h].gen + 1]
        /\ pending'[c] = 0
    BY <1>5, <1>11, <1>13
  <2>9. sessions' = sessions \ {source} BY <1>13
  <2>10. FreshCalls' BY <1>1, <1>2, <1>5, <2>8 DEF Links, FreshCalls
  <2>11. OwnerOK'
    <3>1. ASSUME NEW d \in Calls, owner'[d] # NoOwner
          PROVE  owner'[d] = [sess |-> hub'[d].sess, gen |-> hub'[d].gen] /\ <<d, owner'[d].sess>> \in sessions'
      <4>1. CASE d = c BY <1>5, <2>1, <2>2, <2>8, <2>9, <4>1
      <4>2. CASE d # c
        <5>1. owner[d] = [sess |-> hub[d].sess, gen |-> hub[d].gen] /\ <<d, owner[d].sess>> \in sessions
          BY <1>1, <2>8, <3>1, <4>2 DEF Links, OwnerOK
        <5> QED BY <2>8, <2>9, <4>2, <5>1
      <4> QED BY <4>1, <4>2
    <3> QED BY <3>1 DEF OwnerOK
  <2>12. TokenOK'
    <3>1. ASSUME NEW d \in Calls, pending'[d] # 0
          PROVE  /\ Live(handoff'[pending'[d]]) /\ handoff'[pending'[d]].call = d
                 /\ owner'[d] = [sess |-> handoff'[pending'[d]].source, gen |-> handoff'[pending'[d]].gen]
                 /\ <<d, handoff'[pending'[d]].target>> \in sessions'
      <4>1. d # c /\ pending'[d] = pending[d] /\ pending[d] # 0 /\ owner'[d] = owner[d] BY <2>8, <3>1
      <4>2. /\ pending[d] \in Handoffs /\ Live(handoff[pending[d]])
            /\ handoff[pending[d]].call = d /\ <<d, handoff[pending[d]].target>> \in sessions
        BY <1>1, <4>1, TokenHasOwner
      <4>3. owner[d] = [sess |-> handoff[pending[d]].source, gen |-> handoff[pending[d]].gen]
        BY <1>1, <4>1 DEF Links, TokenOK, TokenIsCurrent
      <4>4. pending[d] # h BY <1>12, <4>1
      <4>5. Live(handoff'[pending[d]]) /\ SameHandoff(handoff'[pending[d]], handoff[pending[d]])
        BY <1>9, <4>2, <4>4
      <4>6. <<d, handoff[pending[d]].target>> \in sessions' BY <2>9, <4>1, <4>2
      <4> QED BY <4>1, <4>2, <4>3, <4>5, <4>6 DEF SameHandoff
    <3>2. TokenIsCurrent' BY <3>1, Zenon DEF TokenIsCurrent
    <3>3. \A d \in Calls : pending'[d] # 0 => Outstanding(pending[d])' BY <3>1 DEF Live, Outstanding
    <3> QED BY <3>2, <3>3 DEF TokenOK
  <2>13. HandoffOK' BY <1>1, <1>2, <1>9 DEF Links, HandoffOK, SameHandoff, Live, Outstanding
  <2>14. ClosedOK' BY <1>2, <1>4 DEF ClosedOK
  <2> QED BY <1>10, <2>5, <2>6, <2>7, <2>10, <2>11, <2>12, <2>13, <2>14 DEF IInv, Types, Links
<1>14. CASE /\ pending' = [pending EXCEPT ![c] = IF @ = h THEN 0 ELSE @] /\ Recover(h)
            /\ UNCHANGED <<owner, sessions, mbox>>
  <2>1. /\ hub' \in [Calls -> HubRecord] /\ leg' \in [Callees -> LegRecord]
        /\ \A d \in Calls : SameLeg(hub'[d], hub[d]) /\ (invite[d] # "call" => hub'[d] = hub[d])
    BY <1>1, <1>4, <1>14, RecoverKeeps
  <2>2. /\ pending' \in [Calls -> 0..MaxHandoffs]
        /\ \A d \in Calls : pending'[d] # 0 => pending'[d] = pending[d] /\ pending[d] # h
    BY <1>5, <1>11, <1>12, <1>14, Numbers
  <2>3. ASSUME NEW d \in Calls, pending'[d] # 0
        PROVE  /\ pending'[d] = pending[d] /\ owner'[d] # NoOwner /\ Live(handoff'[pending[d]])
               /\ <<d, handoff[pending[d]].target>> \in sessions'
    <3>1. pending'[d] = pending[d] /\ pending[d] # h /\ pending[d] # 0 BY <2>2, <2>3
    <3> QED BY <1>1, <1>9, <1>14, <3>1, TokenHasOwner
  <2>4. \A d \in Calls : owner'[d] # NoOwner => owner'[d] = owner[d] /\ <<d, owner[d].sess>> \in sessions'
    BY <1>1, <1>14 DEF Links, OwnerOK
  <2>5. loop'.phase = "closed" => \A d \in Calls : pending'[d] = 0 BY <1>2, <1>4
  <2>6. \A d \in Calls : invite'[d] = "call" <=> invite[d] = "call" BY <1>2
  <2>7. Links' BY <1>1, <1>9, <2>1, <2>3, <2>4, <2>5, <2>6, LinksKept
  <2> QED BY <1>1, <1>2, <1>8, <1>10, <1>14, <2>1, <2>2, <2>7 DEF IInv, Types, LoopTypes, ActorTypes, MailTypes
<1> QED BY <1>13, <1>14 DEF CompleteHandoff

\* The connection is closed: the manager is empty.
LEMMA CloseInv == ASSUME IInv, Close PROVE IInv'
<1>1. LoopTypes /\ ActorTypes /\ MailTypes /\ EventTypes /\ Admission /\ Links /\ RegOK BY DEF IInv, Types
<1>2. UNCHANGED <<leg, mbox, fin, shutdown, traffic>> BY DEF Close
<1>3. /\ loop' = [loop EXCEPT !.phase = "closed"] /\ queue' = << >> /\ sessions' = {} /\ finished' = {}
      /\ owner' = [c \in Calls |-> NoOwner] /\ pending' = [c \in Calls |-> 0]
      /\ invite' = [c \in Calls |-> IF c \in Inflight THEN "rejected" ELSE invite[c]]
      /\ reg' = [c \in Calls |-> NoReg]
      /\ handoff' = [h \in Handoffs |-> IF Ready(h) THEN [handoff[h] EXCEPT !.state = "replied"] ELSE handoff[h]]
  BY DEF Close
<1>4. invite \in [Calls -> Invites] /\ handoff \in [Handoffs -> HandoffRecord] /\ hub \in [Calls -> HubRecord]
  BY <1>1 DEF LoopTypes, ActorTypes
<1>5. LoopTypes'
  <2>1. invite' \in [Calls -> Invites] BY <1>3, <1>4 DEF Invites
  <2>2. NoOwner \in Owners BY Numbers DEF NoOwner, Owners
  <2>3. owner' \in [Calls -> Owners] BY <1>3, <2>2
  <2>4. pending' \in [Calls -> 0..MaxHandoffs]
    <3>1. 0 \in 0..MaxHandoffs BY Numbers
    <3> QED BY <1>3, <3>1
  <2>5. loop' \in [phase : Phases, tell : SUBSET Calls] BY <1>1, <1>3 DEF LoopTypes, Phases
  <2> QED BY <1>1, <1>2, <1>3, <2>1, <2>3, <2>4, <2>5 DEF LoopTypes
<1>6. ASSUME NEW c \in Calls
      PROVE  /\ hub'[c] = hub[c] \/ (hub'[c] = [hub[c] EXCEPT !.at = "dropped"] /\ invite[c] = "call")
             /\ hub'[c] \in HubRecord /\ SameLeg(hub'[c], hub[c])
  <2>1. hub[c] \in HubRecord BY <1>4
  <2>2. hub'[c] = IF \E h \in Handoffs : Ready(h) /\ handoff[h].call = c /\ handoff[h].src = "ok"
                  THEN [hub[c] EXCEPT !.at = "dropped"] ELSE hub[c]
    BY DEF Close
  <2>3. (\E h \in Handoffs : Ready(h) /\ handoff[h].call = c /\ handoff[h].src = "ok") => invite[c] = "call"
    BY <1>1 DEF Links, HandoffOK, Outstanding, Ready
  <2>4. [hub[c] EXCEPT !.at = "dropped"] \in HubRecord /\ SameLeg([hub[c] EXCEPT !.at = "dropped"], hub[c])
    BY <2>1, HubMoves
  <2>5. SameLeg(hub[c], hub[c]) BY DEF SameLeg
  <2> QED BY <2>1, <2>2, <2>3, <2>4, <2>5
<1>7. hub' \in [Calls -> HubRecord]
  <2>1. hub' = [c \in Calls |-> hub'[c]] BY DEF Close
  <2> QED BY <1>6, <2>1
<1>8. ASSUME NEW h \in Handoffs
      PROVE  handoff'[h] \in HandoffRecord /\ SameHandoff(handoff'[h], handoff[h]) /\ (Live(handoff'[h]) => Live(handoff[h]))
  <2>1. handoff[h] \in HandoffRecord BY <1>4
  <2>2. handoff'[h] = [handoff[h] EXCEPT !.state = "replied"] \/ handoff'[h] = handoff[h] BY <1>3
  <2> QED BY <2>1, <2>2 DEF HandoffRecord, SameHandoff, Live
<1>9. ActorTypes'
  <2>1. NoReg \in RegRecord BY Numbers DEF NoReg, RegRecord
  <2>2. reg' \in [Calls -> RegRecord] BY <1>3, <2>1
  <2>3. handoff' \in [Handoffs -> HandoffRecord]
    <3>1. handoff' = [h \in Handoffs |-> handoff'[h]] BY <1>3
    <3> QED BY <1>8, <3>1
  <2> QED BY <1>1, <1>2, <1>7, <2>2, <2>3 DEF ActorTypes
<1>10. MailTypes'
  <2>1. queue' \in Seq(Letters) /\ Len(queue') <= DispatcherCapacity BY <1>3, Numbers
  <2> QED BY <1>1, <1>2, <2>1 DEF MailTypes
<1>11. Links'
  <2>1. \A c \in Calls : invite'[c] = "call" <=> invite[c] = "call" BY <1>3, <1>4 DEF Inflight
  <2>2. \A c \in Calls : SameLeg(hub'[c], hub[c]) /\ (invite[c] # "call" => hub'[c] = hub[c]) BY <1>6
  <2>3. \A c \in Calls : owner'[c] = NoOwner /\ pending'[c] = 0 BY <1>3
  <2> QED BY <1>1, <1>8, <2>1, <2>2, <2>3, LinksKept
<1>12. Admission'
  <2>1. Creating' \subseteq Creating BY <1>3, <1>4 DEF Creating, Inflight
  <2> QED BY <1>1, <2>1, FewerCreating
<1>13. RegOK' BY <1>3 DEF RegOK, NoReg
<1>14. EventTypes' BY <1>1, <1>2 DEF EventTypes, traffic
<1> QED BY <1>5, <1>9, <1>10, <1>11, <1>12, <1>13, <1>14 DEF IInv, Types

----------------------------------------------------------------------------
(* The theorem *)

\* The invariant holds when the runtime starts.
LEMMA InitInv == ASSUME Init PROVE IInv
<1>1. LoopTypes
  <2>1. NoOwner \in Owners /\ 0 \in 0..MaxHandoffs BY Numbers DEF NoOwner, Owners
  <2> QED BY <2>1 DEF Init, LoopTypes, Invites, Phases
<1>2. ActorTypes
  <2>1. NoHub \in HubRecord BY Numbers DEF NoHub, HubRecord
  <2>2. << >> \in Seq(Msgs) OBVIOUS
  <2>3. NoLeg \in LegRecord BY <2>2 DEF NoLeg, LegRecord
  <2>4. NoReg \in RegRecord BY Numbers DEF NoReg, RegRecord
  <2>5. NoHandoff \in HandoffRecord BY Numbers DEF NoHandoff, HandoffRecord, Answers
  <2> QED BY <2>1, <2>3, <2>4, <2>5 DEF Init, ActorTypes
<1>3. MailTypes
  <2>1. << >> \in Seq(Msgs) /\ << >> \in Seq(Letters) /\ Len(<< >>) = 0 OBVIOUS
  <2> QED BY <2>1, Numbers DEF Init, MailTypes
<1>4. EventTypes
  <2>1. 0 \in 0..MaxInputs BY Numbers
  <2>2. sent \in [Sessions -> 0..MaxInputs] /\ inputs \in 0..MaxInputs /\ \A s \in Sessions : sent[s] <= inputs
    BY <2>1 DEF Init
  <2>3. applied \in [Sessions -> [1..MaxInputs -> Nat]]
    <3>1. [n \in 1..MaxInputs |-> 0] \in [1..MaxInputs -> Nat] OBVIOUS
    <3> QED BY <3>1 DEF Init
  <2> QED BY <2>2, <2>3 DEF EventTypes
<1>5. Admission
  <2>1. Creating = {} BY DEF Init, Creating
  <2> QED BY <2>1, FS_EmptySet, Numbers DEF Admission
<1>6. Links
  <2>1. FreshCalls BY DEF Init, FreshCalls
  <2>2. OwnerOK BY DEF Init, OwnerOK
  <2>3. TokenOK BY DEF Init, TokenOK, TokenIsCurrent
  <2>4. HandoffOK BY DEF Init, HandoffOK, Outstanding, NoHandoff
  <2>5. ClosedOK BY DEF Init, ClosedOK
  <2> QED BY <2>1, <2>2, <2>3, <2>4, <2>5 DEF Links
<1>7. RegOK BY DEF Init, RegOK, NoReg
<1> QED BY <1>1, <1>2, <1>3, <1>4, <1>5, <1>6, <1>7 DEF IInv, Types

\* Every step keeps the invariant, if no attempt follows a hand-over.
LEMMA NextInv ==
  ASSUME "AttemptAfterHandoff" \notin Races, IInv, [Next]_vars
  PROVE  IInv'
<1>1. CASE UNCHANGED vars
  BY <1>1 DEF vars, manager, actors, traffic, IInv, Types, Links, LoopTypes, ActorTypes, MailTypes, EventTypes,
              Admission, Creating, FreshCalls, OwnerOK, TokenOK, TokenIsCurrent, Outstanding, HandoffOK, ClosedOK, RegOK
<1>2. CASE LoopInput
  BY <1>2, TellInv, AdmitInv, DestroyCallInv, RegisterAttemptInv, CompleteHandoffInv DEF LoopInput
<1>3. CASE LoopEnd \/ LeaveLoop \/ RequestShutdown BY <1>3, PhaseInv, CloseInv DEF LoopEnd
<1>4. ASSUME NEW c \in Calls, Offer(c) \/ CreateCall(c) \/ HubStep(c) \/ StartAttempt(c) \/ Finalizer(c)
      PROVE  IInv'
  BY <1>4, InviteInv, HubTakesInv, HubEndsInv, LeaveHubInv, StartAttemptInv, FinalizerInv DEF HubStep
<1>5. ASSUME NEW c \in Calls, NEW h \in Handoffs, NEW n \in 1..MaxAttempts, RequestHandoff(h, c, n)
      PROVE  IInv'
  BY <1>5, RequestHandoffInv
<1>6. CASE Deliver BY <1>6, DeliverInv
<1>7. CASE \E s \in Sessions : LegEvent(s) BY <1>7, LegEventInv
<1>8. CASE \E s \in Callees : LegActor(s) BY <1>8, LegActorInv
<1>9. CASE \E h \in Handoffs : HandoffTask(h) BY <1>9, HandoffTaskInv
<1> QED BY <1>1, <1>2, <1>3, <1>4, <1>5, <1>6, <1>7, <1>8, <1>9 DEF Next

\* The invariant gives the property.
LEMMA InvGivesOneOwner == ASSUME IInv PROVE OneOwner
<1>1. LoopTypes /\ ActorTypes /\ MailTypes /\ Admission /\ Links BY DEF IInv, Types
<1>2. TypeOK
  <2>1. \A c \in Calls : invite[c] \in {"none", "creating", "created", "rejected", "call"}
    BY <1>1 DEF LoopTypes, Invites
  <2>2. \A c \in Calls : hub[c].at \in {"none", "running", "handed", "leaving", "gone", "dropped"}
    BY <1>1 DEF ActorTypes, HubRecord
  <2>3. \A s \in Callees : leg[s].at \in {"none", "running", "handed", "merged", "gone"}
    BY <1>1 DEF ActorTypes, LegRecord
  <2>4. \A h \in Handoffs : handoff[h].state \in {"none", "asked", "ready", "replied"}
    BY <1>1 DEF ActorTypes, HandoffRecord
  <2>5. loop.phase \in {"open", "draining", "forced", "closing", "closed"} BY <1>1 DEF LoopTypes, Phases
  <2>6. /\ Cardinality(Creating) <= AdmissionCapacity
        /\ sessions \subseteq Sessions /\ pending \in [Calls -> 0..MaxHandoffs]
        /\ Len(queue) <= DispatcherCapacity /\ \A b \in Boxes : Len(mbox[b]) <= MailboxCapacity
    BY <1>1 DEF LoopTypes, MailTypes, Admission
  <2> QED BY <2>1, <2>2, <2>3, <2>4, <2>5, <2>6 DEF TypeOK
<1>3. TokenIsCurrent BY <1>1 DEF Links, TokenOK
<1>4. OwnerReachable BY <1>1 DEF Links, OwnerOK, OwnerReachable
<1> QED BY <1>2, <1>3, <1>4 DEF OneOwner

\* commit_coordinator_handoff, unregister_session and destroy_call keep the
\* manager in step with the actors: for any calls, attempts, hand-overs and
\* queue sizes the owner of a call is the session and generation its
\* coordinator runs on, that session is registered, a pending hand-over names
\* it and a registered target, and admission and queues stay within their
\* bounds.  The hunt after a hand-over is left out: handle_attempt_registration
\* then unregisters the attempt before, which may be the owner's own leg.
THEOREM CallHasOneOwner ==
  ASSUME "AttemptAfterHandoff" \notin Races
  PROVE  Spec => []OneOwner
<1>1. Init => IInv BY InitInv
<1>2. IInv /\ [Next]_vars => IInv' BY NextInv
<1>3. IInv => OneOwner BY InvGivesOneOwner
<1> QED BY <1>1, <1>2, <1>3, PTL DEF Spec

----------------------------------------------------------------------------
(* What is under way *)

\* The messages that EventsOnce depends on.
Tracked == {"event", "end", "peer", "peerEnd", "target"}

\* With mailboxes mb and dispatcher's queue q, m is on its way to the box b, ...
OnIn(mb, q, b, m) ==
  /\ m.kind \in Tracked
  /\ (\E i \in 1..Len(mb[b]) : mb[b][i] = m) \/ (\E j \in 1..Len(q) : q[j] = Dispatch(b, m))

\* ... and x is on its way to it ahead of y.
AheadIn(mb, q, b, x, y) ==
  /\ x.kind \in Tracked /\ y.kind \in Tracked
  /\ \/ \E i, j \in 1..Len(mb[b]) : i < j /\ mb[b][i] = x /\ mb[b][j] = y
     \/ \E i \in 1..Len(mb[b]), j \in 1..Len(q) : mb[b][i] = x /\ q[j] = Dispatch(b, y)
     \/ \E i, j \in 1..Len(q) : i < j /\ q[i] = Dispatch(b, x) /\ q[j] = Dispatch(b, y)

On(b, m) == OnIn(mbox, queue, b, m)
Ahead(b, x, y) == AheadIn(mbox, queue, b, x, y)

\* Nothing is added to what is under way, and its order is kept.
EbbIn(mb, q, mc, r) ==
  /\ \A b \in Boxes, m \in Msgs : OnIn(mc, r, b, m) => OnIn(mb, q, b, m)
  /\ \A b \in Boxes, x \in Msgs, y \in Msgs : AheadIn(mc, r, b, x, y) => AheadIn(mb, q, b, x, y)
Ebb == EbbIn(mbox, queue, mbox', queue')

Mailboxes == [Boxes -> Seq(Msgs)]

\* An order between two things under way is one of two things under way.
LEMMA AheadIsOn ==
  ASSUME NEW mb, NEW q, NEW b, NEW x, NEW y, AheadIn(mb, q, b, x, y)
  PROVE  OnIn(mb, q, b, x) /\ OnIn(mb, q, b, y)
BY DEF AheadIn, OnIn

\* Two steps that add nothing add nothing together.
LEMMA EbbTwice ==
  ASSUME NEW mb, NEW q, NEW mc, NEW r, NEW md, NEW t, EbbIn(mb, q, mc, r), EbbIn(mc, r, md, t)
  PROVE  EbbIn(mb, q, md, t)
BY DEF EbbIn

\* Nothing happens.
LEMMA EbbStill == ASSUME NEW mb, NEW q PROVE EbbIn(mb, q, mb, q)
BY DEF EbbIn

\* A message behind all others.
LEMMA FlowSend ==
  ASSUME NEW mb, NEW q \in Seq(Letters), NEW d \in Letters
  PROVE  /\ \A b \in Boxes, m \in Msgs : OnIn(mb, Append(q, d), b, m) => OnIn(mb, q, b, m) \/ d = Dispatch(b, m)
         /\ \A b \in Boxes, x \in Msgs, y \in Msgs : AheadIn(mb, Append(q, d), b, x, y) =>
              AheadIn(mb, q, b, x, y) \/ (d = Dispatch(b, y) /\ OnIn(mb, q, b, x))
<1>1. /\ Len(q) \in Nat /\ Len(Append(q, d)) = Len(q) + 1
      /\ \A i \in 1..Len(q) : Append(q, d)[i] = q[i]
      /\ Append(q, d)[Len(q) + 1] = d
  OBVIOUS
<1> DEFINE r == Append(q, d)
<1>2. /\ \A i \in 1..Len(r) : (i \in 1..Len(q) /\ r[i] = q[i]) \/ (i = Len(q) + 1 /\ r[i] = d)
      /\ \A i, j \in 1..Len(r) : i < j => i \in 1..Len(q) /\ r[i] = q[i]
  BY <1>1
<1> HIDE DEF r
<1>3. ASSUME NEW b \in Boxes, NEW m \in Msgs, OnIn(mb, r, b, m)
      PROVE  OnIn(mb, q, b, m) \/ d = Dispatch(b, m)
  BY <1>2, <1>3 DEF OnIn
<1>4. ASSUME NEW b \in Boxes, NEW x \in Msgs, NEW y \in Msgs, AheadIn(mb, r, b, x, y)
      PROVE  AheadIn(mb, q, b, x, y) \/ (d = Dispatch(b, y) /\ OnIn(mb, q, b, x))
  <2>1. CASE \E i, j \in 1..Len(mb[b]) : i < j /\ mb[b][i] = x /\ mb[b][j] = y
    BY <1>4, <2>1 DEF AheadIn
  <2>2. CASE \E i \in 1..Len(mb[b]), j \in 1..Len(r) : mb[b][i] = x /\ r[j] = Dispatch(b, y)
    BY <1>2, <1>4, <2>2 DEF AheadIn, OnIn
  <2>3. CASE \E i, j \in 1..Len(r) : i < j /\ r[i] = Dispatch(b, x) /\ r[j] = Dispatch(b, y)
    <3>1. PICK i \in 1..Len(r), j \in 1..Len(r) : i < j /\ r[i] = Dispatch(b, x) /\ r[j] = Dispatch(b, y)
      BY <2>3
    <3>2. i \in 1..Len(q) /\ q[i] = Dispatch(b, x) BY <1>2, <3>1
    <3>3. CASE j \in 1..Len(q) /\ r[j] = q[j]
      BY <1>4, <3>1, <3>2, <3>3 DEF AheadIn
    <3>4. CASE r[j] = d
      BY <1>4, <3>1, <3>2, <3>4 DEF AheadIn, OnIn
    <3> QED BY <1>2, <3>3, <3>4
  <2> QED BY <1>4, <2>1, <2>2, <2>3 DEF AheadIn
<1> QED BY <1>3, <1>4 DEF r

\* A message that is not tracked.
LEMMA FlowSendOther ==
  ASSUME NEW mb, NEW q \in Seq(Letters), NEW d \in Letters, d.msg.kind \notin Tracked
  PROVE  EbbIn(mb, q, mb, Append(q, d))
<1>1. \A b \in Boxes, m \in Msgs : d = Dispatch(b, m) => m.kind \notin Tracked BY DEF Dispatch
<1>2. ASSUME NEW b \in Boxes, NEW m \in Msgs, OnIn(mb, Append(q, d), b, m)
      PROVE  OnIn(mb, q, b, m)
  <2>1. m.kind \in Tracked BY <1>2 DEF OnIn
  <2>2. OnIn(mb, q, b, m) \/ d = Dispatch(b, m) BY <1>2, FlowSend
  <2> QED BY <1>1, <2>1, <2>2
<1>3. ASSUME NEW b \in Boxes, NEW x \in Msgs, NEW y \in Msgs, AheadIn(mb, Append(q, d), b, x, y)
      PROVE  AheadIn(mb, q, b, x, y)
  <2>1. y.kind \in Tracked BY <1>3 DEF AheadIn
  <2>2. AheadIn(mb, q, b, x, y) \/ (d = Dispatch(b, y) /\ OnIn(mb, q, b, x)) BY <1>3, FlowSend
  <2> QED BY <1>1, <2>1, <2>2
<1> QED BY <1>2, <1>3 DEF EbbIn

\* A mailbox after its first message was taken.
LEMMA TailOf ==
  ASSUME NEW S, NEW q \in Seq(S), q # << >>
  PROVE  /\ Len(q) \in Nat /\ Len(q) >= 1 /\ Head(q) = q[1] /\ Head(q) \in S /\ Tail(q) \in Seq(S)
         /\ \A i \in 1..Len(Tail(q)) : i + 1 \in 1..Len(q) /\ Tail(q)[i] = q[i + 1]
<1>1. Len(q) \in Nat /\ Len(q) >= 1 /\ Head(q) = q[1] /\ Head(q) \in S /\ Tail(q) \in Seq(S)
      /\ Len(Tail(q)) = Len(q) - 1
  OBVIOUS
<1>2. \A i \in 1..(Len(q) - 1) : i + 1 \in 1..Len(q) /\ Tail(q)[i] = q[i + 1]
  BY <1>1
<1> QED BY <1>1, <1>2

\* The first message of a mailbox is taken: it was ahead of everything that is left.
LEMMA FlowTake ==
  ASSUME NEW mb \in Mailboxes, NEW q \in Seq(Letters), NEW a \in Boxes, mb[a] # << >>
  PROVE  /\ EbbIn(mb, q, [mb EXCEPT ![a] = Tail(@)], q)
         /\ Head(mb[a]) \in Msgs
         /\ Head(mb[a]).kind \in Tracked =>
              /\ OnIn(mb, q, a, Head(mb[a]))
              /\ \A y \in Msgs : OnIn([mb EXCEPT ![a] = Tail(@)], q, a, y) => AheadIn(mb, q, a, Head(mb[a]), y)
<1> DEFINE mc == [mb EXCEPT ![a] = Tail(@)]
<1>1. mb[a] \in Seq(Msgs) BY DEF Mailboxes
<1>2. /\ Len(mb[a]) \in Nat /\ Len(mb[a]) >= 1 /\ Head(mb[a]) = mb[a][1] /\ Head(mb[a]) \in Msgs
      /\ \A i \in 1..Len(Tail(mb[a])) : i + 1 \in 1..Len(mb[a]) /\ Tail(mb[a])[i] = mb[a][i + 1]
  BY <1>1, TailOf
<1>3. mc[a] = Tail(mb[a]) /\ \A b \in Boxes : b # a => mc[b] = mb[b] BY DEF Mailboxes
<1>4. \A i \in 1..Len(mc[a]) : i + 1 \in 1..Len(mb[a]) /\ mc[a][i] = mb[a][i + 1] BY <1>2, <1>3
<1>5. Len(mc[a]) \in Nat BY <1>1, <1>3, TailOf
<1> HIDE DEF mc
<1>6. ASSUME NEW b \in Boxes, NEW m \in Msgs, OnIn(mc, q, b, m) PROVE OnIn(mb, q, b, m)
  BY <1>3, <1>4, <1>6 DEF OnIn
<1>7. ASSUME NEW b \in Boxes, NEW x \in Msgs, NEW y \in Msgs, AheadIn(mc, q, b, x, y)
      PROVE  AheadIn(mb, q, b, x, y)
  <2>1. CASE b # a BY <1>3, <1>7, <2>1 DEF AheadIn
  <2>2. CASE b = a
    <3>1. CASE \E i, j \in 1..Len(mc[a]) : i < j /\ mc[a][i] = x /\ mc[a][j] = y
      <4>1. PICK i \in 1..Len(mc[a]), j \in 1..Len(mc[a]) : i < j /\ mc[a][i] = x /\ mc[a][j] = y BY <3>1
      <4>2. i + 1 < j + 1 /\ i + 1 \in 1..Len(mb[a]) /\ j + 1 \in 1..Len(mb[a]) /\ mb[a][i + 1] = x /\ mb[a][j + 1] = y
        BY <1>4, <1>5, <4>1
      <4> QED BY <1>7, <2>2, <4>2 DEF AheadIn
    <3>2. CASE \E i \in 1..Len(mc[a]), j \in 1..Len(q) : mc[a][i] = x /\ q[j] = Dispatch(a, y)
      BY <1>4, <1>7, <2>2, <3>2 DEF AheadIn
    <3>3. CASE \E i, j \in 1..Len(q) : i < j /\ q[i] = Dispatch(a, x) /\ q[j] = Dispatch(a, y)
      BY <1>7, <2>2, <3>3 DEF AheadIn
    <3> QED BY <1>7, <2>2, <3>1, <3>2, <3>3 DEF AheadIn
  <2> QED BY <2>1, <2>2
<1>8. ASSUME Head(mb[a]).kind \in Tracked
      PROVE  /\ OnIn(mb, q, a, Head(mb[a]))
             /\ \A y \in Msgs : OnIn(mc, q, a, y) => AheadIn(mb, q, a, Head(mb[a]), y)
  <2>1. 1 \in 1..Len(mb[a]) /\ mb[a][1] = Head(mb[a]) BY <1>2
  <2>2. ASSUME NEW y \in Msgs, OnIn(mc, q, a, y) PROVE AheadIn(mb, q, a, Head(mb[a]), y)
    <3>1. CASE \E i \in 1..Len(mc[a]) : mc[a][i] = y
      <4>1. PICK i \in 1..Len(mc[a]) : mc[a][i] = y BY <3>1
      <4>2. i + 1 \in 1..Len(mb[a]) /\ mb[a][i + 1] = y /\ 1 < i + 1 BY <1>4, <1>5, <4>1
      <4> QED BY <1>8, <2>1, <2>2, <4>2 DEF AheadIn, OnIn
    <3>2. CASE \E j \in 1..Len(q) : q[j] = Dispatch(a, y)
      BY <1>8, <2>1, <2>2, <3>2 DEF AheadIn, OnIn
    <3> QED BY <2>2, <3>1, <3>2 DEF OnIn
  <2> QED BY <1>8, <2>1, <2>2 DEF OnIn
<1> QED BY <1>2, <1>6, <1>7, <1>8 DEF mc, EbbIn

\* A message that is not tracked goes into a mailbox.
LEMMA FlowPutOther ==
  ASSUME NEW mb \in Mailboxes, NEW q, NEW a \in Boxes, NEW n \in Msgs, n.kind \notin Tracked
  PROVE  EbbIn(mb, q, [mb EXCEPT ![a] = Append(@, n)], q)
<1> DEFINE mc == [mb EXCEPT ![a] = Append(@, n)]
<1>1. mb[a] \in Seq(Msgs) /\ Len(mb[a]) \in Nat BY DEF Mailboxes
<1>2. mc[a] = Append(mb[a], n) /\ \A b \in Boxes : b # a => mc[b] = mb[b] BY DEF Mailboxes
<1>3. \A i \in 1..Len(mc[a]) : (i \in 1..Len(mb[a]) /\ mc[a][i] = mb[a][i]) \/ mc[a][i] = n
  BY <1>1, <1>2
<1> HIDE DEF mc
<1>4. ASSUME NEW b \in Boxes, NEW m \in Msgs, OnIn(mc, q, b, m) PROVE OnIn(mb, q, b, m)
  BY <1>2, <1>3, <1>4 DEF OnIn
<1>5. ASSUME NEW b \in Boxes, NEW x \in Msgs, NEW y \in Msgs, AheadIn(mc, q, b, x, y)
      PROVE  AheadIn(mb, q, b, x, y)
  BY <1>2, <1>3, <1>5 DEF AheadIn
<1> QED BY <1>4, <1>5 DEF mc, EbbIn

\* Mailboxes are emptied.
LEMMA FlowDrop ==
  ASSUME NEW mb, NEW q, NEW mc, NEW r, \A b \in Boxes : mc[b] = mb[b] \/ mc[b] = << >>, r = q \/ r = << >>
  PROVE  EbbIn(mb, q, mc, r)
<1>1. \A i \in 1..Len(<< >>) : FALSE OBVIOUS
<1>2. ASSUME NEW b \in Boxes, NEW m \in Msgs, OnIn(mc, r, b, m) PROVE OnIn(mb, q, b, m)
  BY <1>1, <1>2 DEF OnIn
<1>3. ASSUME NEW b \in Boxes, NEW x \in Msgs, NEW y \in Msgs, AheadIn(mc, r, b, x, y)
      PROVE  AheadIn(mb, q, b, x, y)
  BY <1>1, <1>3 DEF AheadIn
<1> QED BY <1>2, <1>3 DEF EbbIn

\* The dispatcher moves its first message into the mailbox, or drops it.
LEMMA FlowDeliver ==
  ASSUME NEW mb \in Mailboxes, NEW q \in Seq(Letters), q # << >>, NEW mc,
         mc = mb \/ mc = [mb EXCEPT ![Head(q).to] = Append(@, Head(q).msg)]
  PROVE  EbbIn(mb, q, mc, Tail(q))
<1> DEFINE d == Head(q)
           r == Tail(q)
<1>1. /\ Len(q) \in Nat /\ Len(q) >= 1 /\ d = q[1] /\ d \in Letters /\ r \in Seq(Letters)
      /\ \A i \in 1..Len(r) : i + 1 \in 1..Len(q) /\ r[i] = q[i + 1]
  BY TailOf
<1>2. Len(r) \in Nat /\ 1 \in 1..Len(q) BY <1>1
<1>3. d.to \in Boxes /\ d.msg \in Msgs /\ d = Dispatch(d.to, d.msg) BY <1>1 DEF Letters, Dispatch
<1> HIDE DEF d, r
<1>4. ASSUME NEW b \in Boxes
      PROVE  \A i \in 1..Len(mc[b]) : \/ i \in 1..Len(mb[b]) /\ mc[b][i] = mb[b][i]
                                      \/ i = Len(mb[b]) + 1 /\ mc[b][i] = d.msg /\ b = d.to
  <2>1. mb[b] \in Seq(Msgs) BY DEF Mailboxes
  <2>2. mc[b] = mb[b] \/ (b = d.to /\ mc[b] = Append(mb[b], d.msg)) BY DEF Mailboxes, d
  <2>3. CASE mc[b] = mb[b] BY <2>3
  <2>4. CASE b = d.to /\ mc[b] = Append(mb[b], d.msg) BY <2>1, <2>4
  <2> QED BY <2>2, <2>3, <2>4
<1>5. ASSUME NEW b \in Boxes, NEW m \in Msgs, OnIn(mc, r, b, m) PROVE OnIn(mb, q, b, m)
  BY <1>1, <1>2, <1>3, <1>4, <1>5 DEF OnIn
<1>6. ASSUME NEW b \in Boxes, NEW x \in Msgs, NEW y \in Msgs, AheadIn(mc, r, b, x, y)
      PROVE  AheadIn(mb, q, b, x, y)
  <2>0. x.kind \in Tracked /\ y.kind \in Tracked /\ mb[b] \in Seq(Msgs) /\ Len(mb[b]) \in Nat
    BY <1>6 DEF AheadIn, Mailboxes
  <2>1. CASE \E i, j \in 1..Len(mc[b]) : i < j /\ mc[b][i] = x /\ mc[b][j] = y
    <3>1. PICK i \in 1..Len(mc[b]), j \in 1..Len(mc[b]) : i < j /\ mc[b][i] = x /\ mc[b][j] = y BY <2>1
    <3>2. j \in 1..Len(mb[b]) \/ j = Len(mb[b]) + 1 BY <1>4
    <3>3. i \in 1..Len(mb[b]) /\ mb[b][i] = x BY <1>4, <2>0, <3>1, <3>2
    <3>4. CASE j \in 1..Len(mb[b]) /\ mc[b][j] = mb[b][j] BY <2>0, <3>1, <3>3, <3>4 DEF AheadIn
    <3>5. CASE mc[b][j] = d.msg /\ b = d.to BY <1>1, <1>2, <1>3, <2>0, <3>1, <3>3, <3>5 DEF AheadIn
    <3> QED BY <1>4, <3>4, <3>5
  <2>2. CASE \E i \in 1..Len(mc[b]), j \in 1..Len(r) : mc[b][i] = x /\ r[j] = Dispatch(b, y)
    <3>1. PICK i \in 1..Len(mc[b]), j \in 1..Len(r) : mc[b][i] = x /\ r[j] = Dispatch(b, y) BY <2>2
    <3>2. j + 1 \in 1..Len(q) /\ q[j + 1] = Dispatch(b, y) /\ 1 < j + 1 BY <1>1, <1>2, <3>1
    <3>3. CASE i \in 1..Len(mb[b]) /\ mc[b][i] = mb[b][i] BY <2>0, <3>1, <3>2, <3>3 DEF AheadIn
    <3>4. CASE mc[b][i] = d.msg /\ b = d.to BY <1>1, <1>2, <1>3, <2>0, <3>1, <3>2, <3>4 DEF AheadIn
    <3> QED BY <1>4, <3>3, <3>4
  <2>3. CASE \E i, j \in 1..Len(r) : i < j /\ r[i] = Dispatch(b, x) /\ r[j] = Dispatch(b, y)
    <3>1. PICK i \in 1..Len(r), j \in 1..Len(r) : i < j /\ r[i] = Dispatch(b, x) /\ r[j] = Dispatch(b, y) BY <2>3
    <3>2. /\ i + 1 \in 1..Len(q) /\ j + 1 \in 1..Len(q) /\ i + 1 < j + 1
          /\ q[i + 1] = Dispatch(b, x) /\ q[j + 1] = Dispatch(b, y)
      BY <1>1, <1>2, <3>1
    <3> QED BY <2>0, <3>2 DEF AheadIn
  <2> QED BY <1>6, <2>1, <2>2, <2>3 DEF AheadIn
<1> QED BY <1>5, <1>6 DEF EbbIn, r

----------------------------------------------------------------------------
(* The invariant for EventsOnce *)

\* An event as the adapter sent it, and one that a callee's actor has accepted.
Raw(m) == m.kind \in {"event", "end"}
Peer(m) == m.kind \in {"peer", "peerEnd"}

Onto(h) == <<handoff[h].call, handoff[h].target>>
ReadyRequest(h) == Msg("target", 0, h)

\* Every message is addressed to the one that is to read it.
Addressed ==
  \A b \in Boxes, m \in Msgs : On(b, m) =>
    /\ Raw(m) => b \in Sessions /\ m.from = b[2] /\ m.arg <= sent[b]
    /\ Peer(m) => b[2] = Hub /\ m.from # 0
    /\ m.kind = "target" => handoff[m.arg].state # "none" /\ b = Onto(m.arg)

\* A registered callee has an actor, an attempt that is not registered and a
\* call that is not admitted have none, and the leg the coordinator was handed
\* over to has given its actor up.
LegsOK ==
  /\ \A s \in Callees : s \in sessions => leg[s].at # "none"
  /\ \A c \in Calls : reg[c].attempt # 0 => leg[<<c, reg[c].attempt>>].at = "none"
  /\ \A c \in Calls : invite[c] # "call" => \A n \in 1..MaxAttempts : leg[<<c, n>>].at = "none"
  /\ \A c \in Calls : hub[c].sess # 0 => leg[<<c, hub[c].sess>>].at = "merged"

\* One hand-over at a time waits for a leg; a leg that has agreed waits, and one
\* that is taken for lost has no request under way.
TargetsOK ==
  /\ \A g, h \in Handoffs : Outstanding(g) /\ Outstanding(h) /\ Onto(g) = Onto(h) => g = h
  /\ \A h \in Handoffs : Outstanding(h) =>
       /\ leg[Onto(h)].at # "none"
       /\ pending[handoff[h].call] # h => Onto(h) \notin sessions
       /\ handoff[h].tgt = "ok" => leg[Onto(h)].at = "handed"
       /\ handoff[h].tgt = "failed" => ~On(Onto(h), ReadyRequest(h))

\* The coordinator will read the event, if the hand-over under way is completed.
PastHandoff(s, r) ==
  \/ leg[s].at = "merged"
  \/ \E h \in Handoffs : /\ Outstanding(h) /\ Onto(h) = s
                         /\ handoff[h].tgt = "ok" \/ Ahead(s, ReadyRequest(h), r)

\* Such an event is newer than all that the leg has read or has yet to read.
FreshPastHandoff ==
  \A s \in Callees, r \in Msgs : Raw(r) /\ On(s, r) /\ PastHandoff(s, r) =>
    /\ r.arg > leg[s].seen
    /\ \A x \in Msgs : Raw(x) /\ Ahead(s, x, r) => x.arg < r.arg

\* The leg's actor reads, or may read, its events.
Reads(s) == leg[s].at \notin {"merged", "gone"}

\* What the leg's actor has accepted and the coordinator has not handled.
FromLeg(s, m) == Peer(m) /\ m.from = s[2]
Out(s, m) == \E i \in 1..Len(leg[s].out) : leg[s].out[i] = m
Arriving(s, m) == FromLeg(s, m) /\ On(<<s[1], Hub>>, m)
Passed(s, m) == Arriving(s, m) \/ Out(s, m)

\* It arrives in order and once: it was not handled, and what was accepted or
\* handled is what the leg's actor has seen.
PassedOnce ==
  \A s \in Callees :
    /\ leg[s].seen <= sent[s]
    /\ \A x \in Msgs : Out(s, x) => FromLeg(s, x)
    /\ \A x \in Msgs : Passed(s, x) =>
         applied[s][x.arg] = 0 /\ x.arg <= sent[s] /\ (Reads(s) => x.arg <= leg[s].seen)
    /\ \A x, y \in Msgs : FromLeg(s, x) /\ FromLeg(s, y) /\ Ahead(<<s[1], Hub>>, x, y) => x.arg < y.arg
    /\ \A x, y \in Msgs : Arriving(s, x) /\ Out(s, y) => x.arg < y.arg
    /\ \A n \in 1..MaxInputs : applied[s][n] # 0 => n <= sent[s] /\ (Reads(s) => n <= leg[s].seen)

\* After a hand-over the coordinator reads what nobody has handled or accepted.
TakenOverOnce ==
  \A s \in Callees, r \in Msgs : leg[s].at = "merged" /\ Raw(r) /\ On(s, r) =>
    applied[s][r.arg] = 0 /\ \A x \in Msgs : Passed(s, x) => x.arg # r.arg

\* The coordinator has seen what it has handled of the caller's events.
CallerOnce ==
  \A c \in Calls : hub[c].sess = 0 =>
    \A n \in 1..MaxInputs : applied[<<c, 0>>][n] # 0 => n <= hub[c].seen

Shape == Addressed /\ LegsOK /\ TargetsOK
Once == FreshPastHandoff /\ PassedOnce /\ TakenOverOnce /\ CallerOnce /\ EventsOnce
EventInv == Shape /\ Once

----------------------------------------------------------------------------
(* Steps that move nothing forward *)

\* The leg's actor goes on, ends, or sends what it had accepted; it accepts
\* nothing and is not handed over.
LegRests(s) ==
  /\ leg'[s].out = leg[s].out \/ leg'[s].out = << >>
  /\ \/ leg'[s].at = "gone" /\ leg'[s].seen = 0 /\ leg[s].at = "running"
     \/ leg'[s].at = leg[s].at /\ leg'[s].seen = leg[s].seen

\* ... or it starts, or is started again.
LegStarts(s) == leg'[s] = [leg[s] EXCEPT !.at = "running"] /\ leg[s].at \in {"none", "handed"}

\* What either does to the leg: it is not handed over, and reads as before.
LegQuiet(s) ==
  /\ leg'[s].out = leg[s].out \/ leg'[s].out = << >>
  /\ leg'[s].at = "merged" => leg[s].at = "merged"
  /\ leg'[s].seen = leg[s].seen \/ (leg'[s].seen = 0 /\ leg'[s].at = "gone")
  /\ leg'[s].at \notin {"merged", "gone"} => Reads(s) /\ leg'[s].seen = leg[s].seen

\* A hand-over keeps its legs.
HandoffsStay ==
  \A h \in Handoffs : handoff[h].state # "none" =>
    handoff'[h].state # "none" /\ SameHandoff(handoff'[h], handoff[h])

\* Hand-overs come to an end, or a reply is lost.
HandoffsRest ==
  /\ HandoffsStay
  /\ \A h \in Handoffs : Outstanding(h)' =>
       /\ Outstanding(h)
       /\ \/ handoff'[h].tgt = handoff[h].tgt
          \/ handoff'[h].tgt = "failed" /\ ~On(Onto(h), ReadyRequest(h))

\* No event is added to what is under way, and the order of the events is kept.
Event(m) == Raw(m) \/ Peer(m)
Calm ==
  /\ \A b \in Boxes, m \in Msgs : Event(m) /\ OnIn(mbox', queue', b, m) => On(b, m)
  /\ \A b \in Boxes, x \in Msgs, y \in Msgs :
       Event(x) /\ Event(y) /\ AheadIn(mbox', queue', b, x, y) => Ahead(b, x, y)

\* The coordinator keeps its leg and what it has seen.
HubsRest == \A c \in Calls : hub'[c].sess = hub[c].sess /\ hub'[c].seen = hub[c].seen

\* A name for the box of a call's coordinator.
LEMMA HubBox == \A s \in Callees : s \in Boxes /\ s \in Sessions /\ <<s[1], Hub>> \in Boxes /\ s[1] \in Calls
BY Places

\* A hand-over that waits is one between legs.
LEMMA OntoCallee ==
  ASSUME Links, NEW h \in Handoffs, Outstanding(h)
  PROVE  handoff[h].call \in Calls /\ handoff[h].target \in 1..MaxAttempts /\ Onto(h) \in Callees
         /\ Onto(h)[1] = handoff[h].call /\ Onto(h)[2] = handoff[h].target
BY Places DEF Links, HandoffOK, Onto

\* What is under way is addressed as before.
LEMMA AddressedKept ==
  ASSUME ActorTypes, Shape, Ebb, HandoffsStay, UNCHANGED sent
  PROVE  Addressed'
<1> SUFFICES ASSUME NEW b \in Boxes, NEW m \in Msgs, On(b, m)'
             PROVE  /\ Raw(m) => b \in Sessions /\ m.from = b[2] /\ m.arg <= sent'[b]
                    /\ Peer(m) => b[2] = Hub /\ m.from # 0
                    /\ m.kind = "target" => handoff'[m.arg].state # "none" /\ b = Onto(m.arg)'
  BY DEF Addressed, Raw, Peer
<1>1. On(b, m) BY DEF On, Ebb, EbbIn
<1>2. m.kind = "target" => m.arg \in Handoffs BY MessageArgs
<1> QED BY <1>1, <1>2 DEF Shape, Addressed, HandoffsStay, SameHandoff, Onto

\* What is past a hand-over was past it before.
LEMMA PastKept ==
  ASSUME Links, Ebb, HandoffsRest, NEW s \in Callees, NEW r \in Msgs, PastHandoff(s, r)',
         leg'[s].at = "merged" => leg[s].at = "merged"
  PROVE  PastHandoff(s, r)
<1>1. CASE leg'[s].at = "merged" BY <1>1 DEF PastHandoff
<1>2. ASSUME NEW h \in Handoffs, Outstanding(h)', Onto(h)' = s,
             handoff'[h].tgt = "ok" \/ Ahead(s, ReadyRequest(h), r)'
      PROVE  PastHandoff(s, r)
  <2>1. Outstanding(h) /\ Onto(h) = s /\ (handoff'[h].tgt = "ok" => handoff[h].tgt = "ok")
    <3>1. Outstanding(h) /\ (handoff'[h].tgt = "ok" => handoff[h].tgt = "ok") BY <1>2 DEF HandoffsRest
    <3>2. handoff[h].state # "none" BY <3>1 DEF Outstanding
    <3> QED BY <1>2, <3>1, <3>2 DEF HandoffsRest, HandoffsStay, SameHandoff, Onto
  <2>2. Ahead(s, ReadyRequest(h), r)' => Ahead(s, ReadyRequest(h), r)
    BY HubBox, Messages DEF Ahead, Ebb, EbbIn, ReadyRequest
  <2> QED BY <1>2, <2>1, <2>2 DEF PastHandoff
<1>3. \/ leg'[s].at = "merged"
      \/ \E h \in Handoffs : /\ Outstanding(h)' /\ Onto(h)' = s
                             /\ handoff'[h].tgt = "ok" \/ Ahead(s, ReadyRequest(h), r)'
  BY DEF PastHandoff, ReadyRequest, Msg
<1> QED BY <1>1, <1>2, <1>3


\* What the coordinator has still to handle of a leg's events.
LEMMA EventFlow ==
  ASSUME Calm, NEW s \in Callees, leg'[s].out = leg[s].out \/ leg'[s].out = << >>
  PROVE  /\ \A m \in Msgs : Raw(m) /\ On(s, m)' => On(s, m)
         /\ \A m \in Msgs : Out(s, m)' => Out(s, m)
         /\ \A m \in Msgs : Arriving(s, m)' => Arriving(s, m)
         /\ \A m \in Msgs : Passed(s, m)' => Passed(s, m)
         /\ \A x, y \in Msgs : Raw(x) /\ Raw(y) /\ Ahead(s, x, y)' => Ahead(s, x, y)
         /\ \A x, y \in Msgs : FromLeg(s, x) /\ FromLeg(s, y) /\ Ahead(<<s[1], Hub>>, x, y)'
              => Ahead(<<s[1], Hub>>, x, y)
<1>1. \A b \in Boxes, m \in Msgs : Event(m) /\ On(b, m)' => On(b, m) BY DEF On, Calm
<1>2. \A b \in Boxes, x \in Msgs, y \in Msgs : Event(x) /\ Event(y) /\ Ahead(b, x, y)' => Ahead(b, x, y)
  BY DEF Ahead, Calm
<1>3. \A m \in Msgs : Out(s, m)' => Out(s, m)
  <2>1. \A i \in 1..Len(<< >>) : FALSE OBVIOUS
  <2> QED BY <2>1 DEF Out
<1>4. \A m \in Msgs : Arriving(s, m)' => Arriving(s, m) BY <1>1, HubBox DEF Arriving, FromLeg, Event
<1>5. \A m \in Msgs : Raw(m) /\ On(s, m)' => On(s, m) BY <1>1, HubBox DEF Event
<1>6. \A x, y \in Msgs : Raw(x) /\ Raw(y) /\ Ahead(s, x, y)' => Ahead(s, x, y) BY <1>2, HubBox DEF Event
<1>7. \A x, y \in Msgs : FromLeg(s, x) /\ FromLeg(s, y) /\ Ahead(<<s[1], Hub>>, x, y)' => Ahead(<<s[1], Hub>>, x, y)
  BY <1>2, HubBox DEF Event, FromLeg
<1> QED BY <1>3, <1>4, <1>5, <1>6, <1>7 DEF Passed

\* A step that moves nothing forward applies nothing twice.
LEMMA OnceKept ==
  ASSUME IInv, Once, Calm, UNCHANGED <<sent, applied>>, HubsRest, \A s \in Callees : LegQuiet(s),
         \A s \in Callees, r \in Msgs : Raw(r) /\ On(s, r)' /\ PastHandoff(s, r)' => PastHandoff(s, r)
  PROVE  Once'
<1>0. LoopTypes /\ ActorTypes /\ MailTypes /\ EventTypes /\ Links BY DEF IInv, Types
<1>1. ASSUME NEW s \in Callees
      PROVE  /\ leg'[s].at = "merged" => leg[s].at = "merged"
             /\ leg'[s].seen = leg[s].seen \/ (leg'[s].seen = 0 /\ leg'[s].at = "gone")
             /\ leg'[s].at \notin {"merged", "gone"} => Reads(s) /\ leg'[s].seen = leg[s].seen
             /\ leg[s].seen \in Nat
  <2>1. leg[s] \in LegRecord BY <1>0 DEF ActorTypes
  <2> QED BY <2>1 DEF LegQuiet, LegRecord
<1>2. ASSUME NEW s \in Callees
      PROVE  /\ \A m \in Msgs : Raw(m) /\ On(s, m)' => On(s, m)
             /\ \A m \in Msgs : Out(s, m)' => Out(s, m)
             /\ \A m \in Msgs : Arriving(s, m)' => Arriving(s, m)
             /\ \A m \in Msgs : Passed(s, m)' => Passed(s, m)
             /\ \A x, y \in Msgs : Raw(x) /\ Raw(y) /\ Ahead(s, x, y)' => Ahead(s, x, y)
             /\ \A x, y \in Msgs : FromLeg(s, x) /\ FromLeg(s, y) /\ Ahead(<<s[1], Hub>>, x, y)'
                  => Ahead(<<s[1], Hub>>, x, y)
  BY EventFlow DEF LegQuiet
<1>3. FreshPastHandoff'
  <2> SUFFICES ASSUME NEW s \in Callees, NEW r \in Msgs, Raw(r), On(s, r)', PastHandoff(s, r)'
               PROVE  r.arg > leg'[s].seen /\ \A x \in Msgs : Raw(x) /\ Ahead(s, x, r)' => x.arg < r.arg
    BY DEF FreshPastHandoff, Raw
  <2>1. On(s, r) /\ PastHandoff(s, r) BY <1>2
  <2>2. r.arg > leg[s].seen /\ \A x \in Msgs : Raw(x) /\ Ahead(s, x, r) => x.arg < r.arg
    BY <2>1 DEF Once, FreshPastHandoff
  <2>3. r.arg \in 1..MaxInputs BY MessageArgs DEF Raw
  <2>4. r.arg > leg'[s].seen BY <1>1, <2>2, <2>3
  <2> QED BY <1>2, <2>2, <2>4
<1>4. PassedOnce'
  <2> SUFFICES ASSUME NEW s \in Callees
               PROVE  /\ leg'[s].seen <= sent'[s]
                      /\ \A x \in Msgs : Out(s, x)' => FromLeg(s, x)
                      /\ \A x \in Msgs : Passed(s, x)' =>
                           applied'[s][x.arg] = 0 /\ x.arg <= sent'[s] /\ (Reads(s)' => x.arg <= leg'[s].seen)
                      /\ \A x, y \in Msgs : FromLeg(s, x) /\ FromLeg(s, y) /\ Ahead(<<s[1], Hub>>, x, y)' => x.arg < y.arg
                      /\ \A x, y \in Msgs : Arriving(s, x)' /\ Out(s, y)' => x.arg < y.arg
                      /\ \A n \in 1..MaxInputs : applied'[s][n] # 0 =>
                           n <= sent'[s] /\ (Reads(s)' => n <= leg'[s].seen)
    BY DEF PassedOnce, FromLeg, Peer
  <2>1. Reads(s)' => Reads(s) /\ leg'[s].seen = leg[s].seen BY <1>1 DEF Reads
  <2>2. leg'[s].seen <= sent'[s]
    <3>1. sent[s] \in 0..MaxInputs BY <1>0, HubBox DEF EventTypes
    <3>2. sent'[s] = sent[s] /\ leg[s].seen <= sent[s] BY DEF Once, PassedOnce
    <3>3. leg'[s].seen = leg[s].seen \/ leg'[s].seen = 0 BY <1>1
    <3> QED BY <3>1, <3>2, <3>3, Numbers
  <2> QED BY <1>2, <2>1, <2>2 DEF Once, PassedOnce
<1>5. TakenOverOnce'
  <2> SUFFICES ASSUME NEW s \in Callees, NEW r \in Msgs, leg'[s].at = "merged", Raw(r), On(s, r)'
               PROVE  applied'[s][r.arg] = 0 /\ \A x \in Msgs : Passed(s, x)' => x.arg # r.arg
    BY DEF TakenOverOnce, Raw
  <2> QED BY <1>1, <1>2 DEF Once, TakenOverOnce
<1>6. CallerOnce' BY DEF Once, CallerOnce, HubsRest
<1>7. EventsOnce' BY DEF Once, EventsOnce
<1> QED BY <1>3, <1>4, <1>5, <1>6, <1>7 DEF Once

\* The hand-overs under way wait for their legs as before.
LEMMA TargetsKept ==
  ASSUME IInv, Shape, HandoffsRest,
         \A b \in Boxes, h \in Handoffs : OnIn(mbox', queue', b, ReadyRequest(h)) => On(b, ReadyRequest(h)),
         \A h \in Handoffs : Outstanding(h) /\ Outstanding(h)' =>
           /\ leg'[Onto(h)].at # "none"
           /\ handoff[h].tgt = "ok" => leg'[Onto(h)].at = "handed"
           /\ pending'[handoff[h].call] # h => Onto(h) \notin sessions'
  PROVE  TargetsOK'
<1>1. ASSUME NEW h \in Handoffs, Outstanding(h)'
      PROVE  /\ Outstanding(h) /\ Onto(h)' = Onto(h) /\ handoff'[h].call = handoff[h].call
             /\ \/ handoff'[h].tgt = handoff[h].tgt
                \/ handoff'[h].tgt = "failed" /\ ~On(Onto(h), ReadyRequest(h))
  <2>1. Outstanding(h) BY <1>1 DEF HandoffsRest
  <2>2. handoff[h].state # "none" BY <2>1 DEF Outstanding
  <2> QED BY <1>1, <2>1, <2>2 DEF HandoffsRest, HandoffsStay, SameHandoff, Onto
<1>2. ASSUME NEW g \in Handoffs, NEW h \in Handoffs, Outstanding(g)', Outstanding(h)', Onto(g)' = Onto(h)'
      PROVE  g = h
  BY <1>1, <1>2 DEF Shape, TargetsOK
<1>3. ASSUME NEW h \in Handoffs, Outstanding(h)'
      PROVE  /\ leg'[Onto(h)'].at # "none"
             /\ pending'[handoff'[h].call] # h => Onto(h)' \notin sessions'
             /\ handoff'[h].tgt = "ok" => leg'[Onto(h)'].at = "handed"
             /\ handoff'[h].tgt = "failed" => ~On(Onto(h), ReadyRequest(h))'
  <2>1. Outstanding(h) /\ Onto(h)' = Onto(h) /\ handoff'[h].call = handoff[h].call BY <1>1, <1>3
  <2>2. Onto(h) \in Boxes BY <2>1, OntoCallee, HubBox DEF IInv
  <2>3. handoff[h].tgt = "failed" => ~On(Onto(h), ReadyRequest(h)) BY <2>1 DEF Shape, TargetsOK
  <2>4. handoff'[h].tgt = "ok" => handoff[h].tgt = "ok" BY <1>1, <1>3
  <2>5. ASSUME handoff'[h].tgt = "failed" PROVE ~On(Onto(h), ReadyRequest(h))'
    <3>1. ~On(Onto(h), ReadyRequest(h)) BY <1>1, <1>3, <2>3, <2>5
    <3>2. ~OnIn(mbox', queue', Onto(h), ReadyRequest(h)) BY <2>2, <3>1
    <3> QED BY <2>1, <3>2 DEF On, ReadyRequest, Msg
  <2> QED BY <1>3, <2>1, <2>4, <2>5
<1> QED BY <1>2, <1>3 DEF TargetsOK

\* The legs and the hand-overs fit together as before, if no leg starts and no
\* session is registered.
LEMMA ShapeKept ==
  ASSUME IInv, Shape, Ebb, HandoffsRest, UNCHANGED sent, \A s \in Callees : LegRests(s),
         \A c \in Calls : hub'[c].sess = hub[c].sess, sessions' \subseteq sessions,
         \A c \in Calls : reg'[c].attempt # 0 => leg[<<c, reg'[c].attempt>>].at = "none",
         \A c \in Calls : reg'[c].attempt \in {0} \cup 2..MaxAttempts,
         \A c \in Calls : invite'[c] = "call" <=> invite[c] = "call",
         \A c \in Calls : pending'[c] = pending[c] \/ \A n \in 1..MaxAttempts : <<c, n>> \notin sessions'
  PROVE  Shape'
<1>0. LoopTypes /\ ActorTypes /\ MailTypes /\ EventTypes /\ Links BY DEF IInv, Types
<1>1. Addressed' BY <1>0, AddressedKept DEF HandoffsRest
<1>2. \A s \in Callees : /\ leg'[s].at = "none" <=> leg[s].at = "none"
                         /\ leg[s].at \in {"merged", "handed"} => leg'[s].at = leg[s].at
  BY DEF LegRests
<1>3. LegsOK'
  <2>1. \A s \in Callees : s \in sessions' => leg'[s].at # "none" BY <1>2 DEF Shape, LegsOK
  <2>2. ASSUME NEW c \in Calls, reg'[c].attempt # 0 PROVE leg'[<<c, reg'[c].attempt>>].at = "none"
    <3>1. reg'[c].attempt \in 2..MaxAttempts BY <2>2
    <3>2. reg'[c].attempt \in 1..MaxAttempts BY <3>1, Numbers
    <3> QED BY <1>2, <2>2, <3>2, Places
  <2>3. ASSUME NEW c \in Calls, invite'[c] # "call" PROVE \A n \in 1..MaxAttempts : leg'[<<c, n>>].at = "none"
    BY <1>2, <2>3, Places DEF Shape, LegsOK
  <2>4. ASSUME NEW c \in Calls, hub'[c].sess # 0 PROVE leg'[<<c, hub'[c].sess>>].at = "merged"
    <3>1. hub[c].sess \in 0..MaxAttempts BY <1>0 DEF ActorTypes, HubRecord
    <3>2. hub'[c].sess = hub[c].sess /\ hub[c].sess \in 1..MaxAttempts BY <2>4, <3>1, Numbers
    <3> QED BY <1>2, <2>4, <3>2, Places DEF Shape, LegsOK
  <2> QED BY <2>1, <2>2, <2>3, <2>4 DEF LegsOK
<1>4. ASSUME NEW h \in Handoffs, Outstanding(h)
      PROVE  /\ leg'[Onto(h)].at # "none"
             /\ handoff[h].tgt = "ok" => leg'[Onto(h)].at = "handed"
             /\ pending'[handoff[h].call] # h => Onto(h) \notin sessions'
  <2>1. /\ handoff[h].call \in Calls /\ handoff[h].target \in 1..MaxAttempts /\ Onto(h) \in Callees
        /\ Onto(h) = <<handoff[h].call, handoff[h].target>>
    BY <1>0, <1>4, OntoCallee DEF Onto
  <2>2. /\ leg[Onto(h)].at # "none"
        /\ pending[handoff[h].call] # h => Onto(h) \notin sessions
        /\ handoff[h].tgt = "ok" => leg[Onto(h)].at = "handed"
    BY <1>4 DEF Shape, TargetsOK
  <2>3. leg'[Onto(h)].at # "none" /\ (handoff[h].tgt = "ok" => leg'[Onto(h)].at = "handed") BY <1>2, <2>1, <2>2
  <2>4. pending'[handoff[h].call] # h => Onto(h) \notin sessions' BY <2>1, <2>2
  <2> QED BY <2>3, <2>4
<1>5. TargetsOK' BY <1>4, TargetsKept, Messages DEF Ebb, EbbIn, On, ReadyRequest
<1> QED BY <1>1, <1>3, <1>5 DEF Shape

\* Nothing moves, so no event does, ...
LEMMA EbbIsCalm == ASSUME Ebb PROVE Calm
BY DEF Ebb, EbbIn, Calm, On, Ahead

\* ... and a leg that rests or starts is quiet.
LEMMA RestIsQuiet ==
  ASSUME ActorTypes, NEW s \in Callees, LegRests(s) \/ LegStarts(s)
  PROVE  LegQuiet(s)
<1>1. leg[s] \in LegRecord BY DEF ActorTypes
<1>2. CASE LegRests(s) BY <1>1, <1>2 DEF LegRests, LegQuiet, Reads, LegRecord
<1>3. CASE LegStarts(s) BY <1>1, <1>3 DEF LegStarts, LegQuiet, Reads, LegRecord
<1> QED BY <1>2, <1>3

\* A step in which legs rest or start.
LEMMA OnceRests ==
  ASSUME IInv, Once, Ebb, HandoffsRest, UNCHANGED <<sent, applied>>, HubsRest,
         \A s \in Callees : LegRests(s) \/ LegStarts(s)
  PROVE  Once'
<1>0. ActorTypes /\ Links BY DEF IInv, Types
<1>1. \A s \in Callees : LegQuiet(s) BY <1>0, RestIsQuiet
<1>2. \A s \in Callees, r \in Msgs : PastHandoff(s, r)' => PastHandoff(s, r) BY <1>0, <1>1, PastKept DEF LegQuiet
<1> QED BY <1>1, <1>2, EbbIsCalm, OnceKept

\* ... together.
LEMMA RestStep ==
  ASSUME IInv, EventInv, Ebb, HandoffsRest, UNCHANGED <<sent, applied>>, HubsRest, \A s \in Callees : LegRests(s),
         sessions' \subseteq sessions,
         \A c \in Calls : reg'[c].attempt # 0 => leg[<<c, reg'[c].attempt>>].at = "none",
         \A c \in Calls : reg'[c].attempt \in {0} \cup 2..MaxAttempts,
         \A c \in Calls : invite'[c] = "call" <=> invite[c] = "call",
         \A c \in Calls : pending'[c] = pending[c] \/ \A n \in 1..MaxAttempts : <<c, n>> \notin sessions'
  PROVE  EventInv'
BY OnceRests, ShapeKept DEF EventInv, HubsRest

\* What a step leaves alone rests.
LEMMA Resting ==
  ASSUME IInv, EventInv
  PROVE  /\ leg' = leg => \A s \in Callees : LegRests(s)
         /\ handoff' = handoff => HandoffsRest
         /\ hub' = hub => HubsRest
         /\ mbox' = mbox /\ queue' = queue => Ebb
         /\ reg' = reg => /\ \A c \in Calls : reg'[c].attempt # 0 => leg[<<c, reg'[c].attempt>>].at = "none"
                          /\ \A c \in Calls : reg'[c].attempt \in {0} \cup 2..MaxAttempts
<1>1. leg' = leg => \A s \in Callees : LegRests(s) BY DEF LegRests
<1>2. handoff' = handoff => HandoffsRest BY DEF HandoffsRest, HandoffsStay, Outstanding, SameHandoff
<1>3. hub' = hub => HubsRest BY DEF HubsRest
<1>4. mbox' = mbox /\ queue' = queue => Ebb BY EbbStill DEF Ebb
<1>5. reg' = reg => \A c \in Calls : reg'[c].attempt # 0 => leg[<<c, reg'[c].attempt>>].at = "none"
  BY DEF EventInv, Shape, LegsOK
<1>6. reg' = reg => \A c \in Calls : reg'[c].attempt \in {0} \cup 2..MaxAttempts
  BY DEF IInv, Types, ActorTypes, RegRecord
<1> QED BY <1>1, <1>2, <1>3, <1>4, <1>5, <1>6

\* The types of the queues.
LEMMA MailParts == ASSUME IInv PROVE mbox \in Mailboxes /\ queue \in Seq(Letters)
BY DEF IInv, Types, MailTypes, Mailboxes

\* A message that is not tracked is dispatched.
LEMMA EbbOther ==
  ASSUME IInv, UNCHANGED mbox, NEW b \in Boxes, NEW m \in Msgs, m.kind \notin Tracked,
         queue' = Append(queue, Dispatch(b, m))
  PROVE  Ebb
<1>1. Dispatch(b, m) \in Letters /\ Dispatch(b, m).msg.kind \notin Tracked BY DispatchType DEF Dispatch
<1>2. EbbIn(mbox, queue, mbox, Append(queue, Dispatch(b, m)))
  <2> DEFINE d == Dispatch(b, m)
  <2>1. d \in Letters /\ d.msg.kind \notin Tracked BY <1>1
  <2> HIDE DEF d
  <2>2. EbbIn(mbox, queue, mbox, Append(queue, d)) BY <2>1, MailParts, FlowSendOther
  <2> QED BY <2>2 DEF d
<1> QED BY <1>2 DEF Ebb

\* The messages that are not tracked.
LEMMA Others ==
  /\ Shutdown.kind \notin Tracked /\ ForceShutdown.kind \notin Tracked
  /\ \A k \in {"reg", "refused", "prepare", "final"} : \A n : Msg(k, 0, n).kind \notin Tracked
BY DEF Shutdown, ForceShutdown, Msg, Tracked

\* The dispatcher delivers.
LEMMA DeliverOnce == ASSUME IInv, EventInv, Deliver PROVE EventInv'
<1>1. UNCHANGED <<invite, manager, hub, leg, reg, handoff, fin, finished, loop, shutdown, traffic>> BY DEF Deliver
<1>2. UNCHANGED <<invite, sessions, pending, hub, leg, reg, handoff, sent, applied>>
  BY <1>1 DEF manager, traffic
<1>3. Ebb
  <2>1. queue # << >> /\ queue' = Tail(queue) BY DEF Deliver
  <2>2. mbox' = mbox \/ mbox' = [mbox EXCEPT ![Head(queue).to] = Append(@, Head(queue).msg)] BY DEF Deliver
  <2>3. EbbIn(mbox, queue, mbox', Tail(queue)) BY <2>1, <2>2, MailParts, FlowDeliver
  <2> QED BY <2>1, <2>3 DEF Ebb
<1> QED BY <1>2, <1>3, Resting, RestStep

\* An INVITE is offered, or its call created.
LEMMA InviteOnce == ASSUME IInv, EventInv, NEW c \in Calls, Offer(c) \/ CreateCall(c) PROVE EventInv'
<1>1. UNCHANGED <<manager, actors, reg, handoff, fin, finished, loop, shutdown, traffic>> BY DEF Offer, CreateCall
<1>2. UNCHANGED <<sessions, pending, hub, leg, mbox, queue, reg, handoff, sent, applied>>
  BY <1>1 DEF manager, actors, traffic
<1>3. \A d \in Calls : invite'[d] = "call" <=> invite[d] = "call"
  <2>1. invite \in [Calls -> Invites] BY DEF IInv, Types, LoopTypes
  <2> QED BY <2>1 DEF Offer, CreateCall
<1> QED BY <1>2, <1>3, Resting, RestStep

\* The phase of the loop changes.
LEMMA PhaseOnce ==
  ASSUME IInv, EventInv, RequestShutdown \/ Drain \/ ForceDrain \/ LeaveLoop
  PROVE  EventInv'
<1>1. UNCHANGED <<invite, manager, actors, reg, handoff, traffic>>
  BY DEF RequestShutdown, Drain, ForceDrain, LeaveLoop
<1>2. UNCHANGED <<invite, sessions, pending, hub, leg, mbox, queue, reg, handoff, sent, applied>>
  BY <1>1 DEF manager, actors, traffic
<1> QED BY <1>2, Resting, RestStep

\* A coordinator is told, or not.
LEMMA TellOnce == ASSUME IInv, EventInv, NEW c \in Calls, TellCoordinator(c) PROVE EventInv'
<1>1. UNCHANGED <<invite, manager, hub, leg, mbox, reg, handoff, fin, finished, shutdown, traffic>>
  BY DEF TellCoordinator
<1>2. UNCHANGED <<invite, sessions, pending, hub, leg, mbox, reg, handoff, sent, applied>>
  BY <1>1 DEF manager, traffic
<1>3. Ebb
  <2>1. \/ queue' = queue
        \/ queue' = Append(queue, Dispatch(<<c, Hub>>, Shutdown))
        \/ queue' = Append(queue, Dispatch(<<c, Hub>>, ForceShutdown))
    BY DEF TellCoordinator
  <2> QED BY <1>2, <2>1, Resting, EbbOther, Others, Messages, Places
<1> QED BY <1>2, <1>3, Resting, RestStep

\* The finalizer runs, and reports.
LEMMA FinalizerOnce == ASSUME IInv, EventInv, NEW c \in Calls, Finalizer(c) PROVE EventInv'
<1>1. UNCHANGED <<invite, manager, hub, leg, mbox, reg, handoff, finished, loop, shutdown, traffic>>
  BY DEF Finalizer, FinalizeCall, NotifyFinalized, actors
<1>2. UNCHANGED <<invite, sessions, pending, hub, leg, mbox, reg, handoff, sent, applied>>
  BY <1>1 DEF manager, traffic
<1>3. Ebb
  <2>1. queue' = queue \/ queue' = Append(queue, Dispatch(<<c, Hub>>, Msg("final", 0, 0)))
    BY DEF Finalizer, FinalizeCall, NotifyFinalized, actors
  <2> QED BY <1>2, <2>1, Resting, EbbOther, Others, Messages, Places
<1> QED BY <1>2, <1>3, Resting, RestStep

\* The coordinator sees a shutdown or comes to an end.
LEMMA HubEndsOnce ==
  ASSUME IInv, EventInv, NEW c \in Calls, HubSeesShutdown(c) \/ FinishCall(c) \/ LoseMailbox(c)
  PROVE  EventInv'
<1>1. UNCHANGED <<invite, manager, leg, mbox, queue, reg, handoff, finished, loop, shutdown, traffic>>
  BY DEF HubSeesShutdown, FinishCall, LoseMailbox
<1>2. UNCHANGED <<invite, sessions, pending, leg, mbox, queue, reg, handoff, sent, applied>>
  BY <1>1 DEF manager, traffic
<1>3. HubsRest
  <2>1. hub \in [Calls -> HubRecord] /\ hub[c] \in HubRecord BY DEF IInv, Types, ActorTypes
  <2>2. \/ hub' = [hub EXCEPT ![c] = [End(hub[c]) EXCEPT !.told = TRUE]]
        \/ hub' = [hub EXCEPT ![c] = [hub[c] EXCEPT !.phase = "finalizing"]]
        \/ hub' = [hub EXCEPT ![c] = [[hub[c] EXCEPT !.at = "leaving"] EXCEPT !.phase = "finalizing"]]
    BY DEF HubSeesShutdown, FinishCall, LoseMailbox, BeginFinish
  <2>3. hub'[c].sess = hub[c].sess /\ hub'[c].seen = hub[c].seen BY <2>1, <2>2 DEF End, HubRecord
  <2>4. \A d \in Calls : d # c => hub'[d] = hub[d] BY <2>1, <2>2
  <2> QED BY <2>3, <2>4 DEF HubsRest
<1> QED BY <1>2, <1>3, Resting, RestStep

\* The coordinator has left.
LEMMA LeaveHubOnce == ASSUME IInv, EventInv, NEW c \in Calls, LeaveHub(c) PROVE EventInv'
<1>1. UNCHANGED <<invite, manager, leg, queue, reg, handoff, fin, loop, shutdown, traffic>> BY DEF LeaveHub
<1>2. UNCHANGED <<invite, sessions, pending, leg, queue, reg, handoff, sent, applied>>
  BY <1>1 DEF manager, traffic
<1>3. HubsRest
  <2>1. hub \in [Calls -> HubRecord] /\ hub[c] \in HubRecord BY DEF IInv, Types, ActorTypes
  <2>2. hub' = [hub EXCEPT ![c].at = "gone"] BY DEF LeaveHub
  <2>3. hub'[c].sess = hub[c].sess /\ hub'[c].seen = hub[c].seen BY <2>1, <2>2 DEF HubRecord
  <2>4. \A d \in Calls : d # c => hub'[d] = hub[d] BY <2>1, <2>2
  <2> QED BY <2>3, <2>4 DEF HubsRest
<1>4. Ebb
  <2> DEFINE callee == <<c, hub[c].callee>>
             tells == hub[c].sess # hub[c].callee /\ Open(callee)
             mine == {<<c, hub[c].sess>>, <<c, Hub>>}
             mb == [b \in Boxes |-> IF b \in mine /\ ~(b = callee /\ tells) THEN << >> ELSE mbox[b]]
  <2>1. mbox' = [b \in Boxes |-> CASE b = callee /\ tells -> Append(mbox[b], Shutdown)
                                   [] b \in mine -> << >>
                                   [] OTHER -> mbox[b]]
    BY DEF LeaveHub
  <2>2. hub[c].callee \in 1..MaxAttempts BY DEF IInv, Types, ActorTypes, HubRecord
  <2>3. callee \in Boxes BY <2>2, Places
  <2>8. callee \notin mine \/ ~tells
    <3>1. hub[c].callee # Hub BY <2>2, Numbers
    <3> QED BY <3>1
  <2> HIDE DEF callee, tells, mine
  <2>4. mb \in Mailboxes
    <3>1. << >> \in Seq(Msgs) OBVIOUS
    <3> QED BY <3>1, MailParts DEF Mailboxes
  <2>5. EbbIn(mbox, queue, mb, queue)
    <3>1. \A b \in Boxes : mb[b] = mbox[b] \/ mb[b] = << >> OBVIOUS
    <3> HIDE DEF mb
    <3> QED BY <3>1, FlowDrop
  <2>6. CASE ~tells
    <3>1. mbox' = mb BY <2>1, <2>6
    <3> QED BY <1>2, <2>5, <3>1 DEF Ebb
  <2>7. CASE tells
    <3>1. mbox' = [mb EXCEPT ![callee] = Append(@, Shutdown)]
      <4>1. mb[callee] = mbox[callee] /\ DOMAIN mb = Boxes BY <2>3, <2>7
      <4>2. \A b \in Boxes : b # callee => mbox'[b] = mb[b] BY <2>1
      <4>3. mbox'[callee] = Append(mbox[callee], Shutdown) BY <2>1, <2>3, <2>7, <2>8
      <4>6. mbox' = [b \in Boxes |-> mbox'[b]]
        <5> DEFINE f(b) == CASE b = callee /\ tells -> Append(mbox[b], Shutdown) [] b \in mine -> << >> [] OTHER -> mbox[b]
        <5>1. mbox' = [b \in Boxes |-> f(b)] BY <2>1
        <5> HIDE DEF f
        <5> QED BY <5>1
      <4> HIDE DEF mb
      <4>4. mbox' = [b \in Boxes |-> IF b = callee THEN Append(mb[callee], Shutdown) ELSE mb[b]] BY <4>1, <4>2, <4>3, <4>6
      <4>5. mb = [b \in Boxes |-> mb[b]] BY <2>4 DEF Mailboxes
      <4> QED BY <2>3, <4>4, <4>5
    <3> HIDE DEF mb
    <3>2. EbbIn(mb, queue, [mb EXCEPT ![callee] = Append(@, Shutdown)], queue)
      BY <2>3, <2>4, FlowPutOther, Others, Messages
    <3> QED BY <1>2, <2>5, <3>1, <3>2, EbbTwice DEF Ebb
  <2> QED BY <2>6, <2>7
<1> QED BY <1>2, <1>3, <1>4, Resting, RestStep

\* The coordinator asks for the registration of an attempt, which has no actor yet.
LEMMA StartAttemptOnce == ASSUME IInv, EventInv, NEW c \in Calls, StartAttempt(c) PROVE EventInv'
<1>1. UNCHANGED <<invite, manager, actors, handoff, fin, finished, loop, shutdown, sent, applied>>
  BY DEF StartAttempt
<1>2. UNCHANGED <<invite, sessions, pending, hub, leg, mbox, queue, handoff, sent, applied>>
  BY <1>1 DEF manager, actors
<1>3. reg \in [Calls -> RegRecord] /\ hub[c] \in HubRecord BY DEF IInv, Types, ActorTypes
<1>4. /\ hub[c].callee < MaxAttempts /\ leg[<<c, hub[c].callee + 1>>].at = "none"
      /\ reg' = [reg EXCEPT ![c] = [attempt |-> hub[c].callee + 1, sess |-> hub[c].sess, gen |-> hub[c].gen]]
  BY DEF StartAttempt
<1>5. reg'[c].attempt = hub[c].callee + 1 /\ \A d \in Calls : d # c => reg'[d] = reg[d] BY <1>3, <1>4
<1>6. hub[c].callee + 1 \in 2..MaxAttempts BY <1>3, <1>4, Numbers DEF HubRecord
<1>7. \A d \in Calls : d # c => /\ reg[d].attempt # 0 => leg[<<d, reg[d].attempt>>].at = "none"
                                /\ reg[d].attempt \in {0} \cup 2..MaxAttempts
  BY <1>3 DEF EventInv, Shape, LegsOK, RegRecord
<1>8. \A d \in Calls : reg'[d].attempt # 0 => leg[<<d, reg'[d].attempt>>].at = "none" BY <1>4, <1>5, <1>7
<1>9. \A d \in Calls : reg'[d].attempt \in {0} \cup 2..MaxAttempts BY <1>5, <1>6, <1>7
<1> QED BY <1>2, <1>8, <1>9, Resting, RestStep

\* The call is destroyed with its sessions.
LEMMA DestroyCallOnce == ASSUME IInv, EventInv, NEW c \in Calls, DestroyCall(c) PROVE EventInv'
<1>1. UNCHANGED <<invite, actors, reg, handoff, fin, loop, shutdown, traffic>> BY DEF DestroyCall
<1>2. UNCHANGED <<invite, hub, leg, mbox, queue, reg, handoff, sent, applied>> BY <1>1 DEF actors, traffic
<1>3. sessions' = {s \in sessions : s[1] # c} /\ pending' = [pending EXCEPT ![c] = 0] BY DEF DestroyCall, Destroy
<1>4. \A d \in Calls : pending'[d] = pending[d] \/ \A n \in 1..MaxAttempts : <<d, n>> \notin sessions'
  <2>1. pending \in [Calls -> 0..MaxHandoffs] BY DEF IInv, Types, LoopTypes
  <2> QED BY <1>3, <2>1
<1>5. sessions' \subseteq sessions BY <1>3
<1> QED BY <1>2, <1>4, <1>5, Resting, RestStep

\* The connection is closed with everything under way in the dispatcher.
LEMMA CloseOnce == ASSUME IInv, EventInv, Close PROVE EventInv'
<1>1. UNCHANGED <<leg, mbox, sent, applied>> BY DEF Close, traffic
<1>2. /\ queue' = << >> /\ sessions' = {} /\ reg' = [c \in Calls |-> NoReg]
      /\ invite' = [c \in Calls |-> IF c \in Inflight THEN "rejected" ELSE invite[c]]
      /\ handoff' = [h \in Handoffs |-> IF Ready(h) THEN [handoff[h] EXCEPT !.state = "replied"] ELSE handoff[h]]
  BY DEF Close
<1>3. Ebb BY <1>1, <1>2, FlowDrop DEF Ebb
<1>4. HandoffsRest
  <2> SUFFICES ASSUME NEW h \in Handoffs
               PROVE  /\ handoff[h].state # "none" => handoff'[h].state # "none"
                      /\ SameHandoff(handoff'[h], handoff[h])
                      /\ Outstanding(h)' => Outstanding(h) /\ handoff'[h].tgt = handoff[h].tgt
    BY DEF HandoffsRest, HandoffsStay
  <2>1. handoff[h] \in HandoffRecord BY DEF IInv, Types, ActorTypes
  <2>2. CASE Ready(h)
    <3>1. handoff'[h] = [handoff[h] EXCEPT !.state = "replied"] BY <1>2, <2>2
    <3> QED BY <2>1, <3>1 DEF HandoffRecord, SameHandoff, Outstanding
  <2>3. CASE ~Ready(h)
    <3>1. handoff'[h] = handoff[h] BY <1>2, <2>3
    <3> QED BY <3>1 DEF SameHandoff, Outstanding
  <2> QED BY <2>2, <2>3
<1>5. HubsRest
  <2> SUFFICES ASSUME NEW c \in Calls PROVE hub'[c].sess = hub[c].sess /\ hub'[c].seen = hub[c].seen
    BY DEF HubsRest
  <2>1. hub[c] \in HubRecord BY DEF IInv, Types, ActorTypes
  <2>2. hub'[c] = [hub[c] EXCEPT !.at = "dropped"] \/ hub'[c] = hub[c] BY DEF Close
  <2> QED BY <2>1, <2>2 DEF HubRecord
<1>6. \A c \in Calls : invite'[c] = "call" <=> invite[c] = "call" BY <1>2 DEF Inflight
<1>7. \A c \in Calls : reg'[c].attempt = 0 BY <1>2 DEF NoReg
<1>8. \A c \in Calls : \A n \in 1..MaxAttempts : <<c, n>> \notin sessions' BY <1>2
<1>9. sessions' \subseteq sessions BY <1>2
<1> QED BY <1>1, <1>3, <1>4, <1>5, <1>6, <1>7, <1>8, <1>9, Resting, RestStep

\* A reply is lost: the request is no longer under way.
LEMMA LoseReplyOnce == ASSUME IInv, EventInv, NEW h \in Handoffs, LoseReply(h) PROVE EventInv'
<1>1. UNCHANGED <<invite, manager, actors, reg, fin, finished, loop, shutdown, traffic>> BY DEF LoseReply
<1>2. UNCHANGED <<invite, sessions, pending, hub, leg, mbox, queue, reg, sent, applied>>
  BY <1>1 DEF manager, actors, traffic
<1>3. handoff \in [Handoffs -> HandoffRecord] /\ handoff[h] \in HandoffRecord BY DEF IInv, Types, ActorTypes
<1>4. \/ handoff' = [handoff EXCEPT ![h].src = "failed"]
      \/ handoff' = [handoff EXCEPT ![h].tgt = "failed"] /\ ~Carried("target", h)
  BY DEF LoseReply
<1>5. Outstanding(h) BY DEF LoseReply, Outstanding
<1>6. ~Carried("target", h) => ~On(Onto(h), ReadyRequest(h))
  <2>1. Onto(h) \in Boxes BY <1>5, OntoCallee, HubBox DEF IInv
  <2>2. ReadyRequest(h).kind = "target" /\ ReadyRequest(h).arg = h BY DEF ReadyRequest, Msg
  <2>3. mbox[Onto(h)] \in Seq(Msgs) /\ queue \in Seq(Letters) BY <2>1, MailParts DEF Mailboxes
  <2>4. DOMAIN mbox[Onto(h)] = 1..Len(mbox[Onto(h)]) /\ DOMAIN queue = 1..Len(queue) BY <2>3
  <2>5. Dispatch(Onto(h), ReadyRequest(h)).msg = ReadyRequest(h) BY DEF Dispatch
  <2> QED BY <2>1, <2>2, <2>4, <2>5 DEF On, OnIn, Carried
<1>7. HandoffsRest
  <2>1. ASSUME NEW g \in Handoffs, g # h
        PROVE  handoff'[g] = handoff[g]
    BY <1>3, <1>4, <2>1
  <2>2. /\ handoff'[h].state = handoff[h].state /\ SameHandoff(handoff'[h], handoff[h])
        /\ \/ handoff'[h].tgt = handoff[h].tgt
           \/ handoff'[h].tgt = "failed" /\ ~On(Onto(h), ReadyRequest(h))
    BY <1>3, <1>4, <1>6 DEF HandoffRecord, SameHandoff
  <2> QED BY <2>1, <2>2 DEF HandoffsRest, HandoffsStay, Outstanding, SameHandoff
<1> QED BY <1>2, <1>7, Resting, RestStep

\* A callee's actor loses its last sender and ends.
LEMMA LegLosesMailboxOnce == ASSUME IInv, EventInv, NEW s \in Callees, LegLosesMailbox(s) PROVE EventInv'
<1>1. UNCHANGED <<invite, manager, hub, mbox, queue, reg, handoff, fin, finished, loop, shutdown, traffic>>
  BY DEF LegLosesMailbox
<1>2. UNCHANGED <<invite, sessions, pending, hub, mbox, queue, reg, handoff, sent, applied>>
  BY <1>1 DEF manager, traffic
<1>3. \A t \in Callees : LegRests(t)
  <2>1. leg \in [Callees -> LegRecord] BY DEF IInv, Types, ActorTypes
  <2>2. leg' = [leg EXCEPT ![s] = [NoLeg EXCEPT !.at = "gone"]] /\ leg[s].at = "running"
    BY DEF LegLosesMailbox, LegExits
  <2>3. leg'[s] = [NoLeg EXCEPT !.at = "gone"] /\ \A t \in Callees : t # s => leg'[t] = leg[t] BY <2>1, <2>2
  <2> QED BY <2>2, <2>3 DEF LegRests, NoLeg
<1> QED BY <1>2, <1>3, Resting, RestStep

----------------------------------------------------------------------------
(* Steps that start a leg's actor or send an event on *)

\* A created call is admitted: its first leg starts.
LEMMA AdmitOnce == ASSUME IInv, EventInv, NEW c \in Calls, Admit(c) PROVE EventInv'
<1>0. LoopTypes /\ ActorTypes /\ Links BY DEF IInv, Types
<1>1. UNCHANGED <<pending, mbox, reg, handoff, traffic>> BY DEF Admit
<1>2. UNCHANGED <<pending, mbox, reg, handoff, sent, applied>> BY <1>1 DEF traffic
<1>3. /\ invite[c] = "created" /\ invite' = [invite EXCEPT ![c] = "call"]
      /\ hub' = [hub EXCEPT ![c].at = "running"] /\ leg' = [leg EXCEPT ![<<c, 1>>].at = "running"]
      /\ sessions' \subseteq sessions \cup {<<c, 0>>, <<c, 1>>}
  BY DEF Admit
<1>4. /\ invite \in [Calls -> Invites] /\ hub \in [Calls -> HubRecord] /\ leg \in [Callees -> LegRecord]
      /\ reg \in [Calls -> RegRecord]
  BY <1>0 DEF LoopTypes, ActorTypes
<1>5. <<c, 1>> \in Callees /\ <<c, 0>> \notin Callees BY Places, Numbers DEF Callees
<1>6. leg[<<c, 1>>].at = "none" /\ hub[c].sess = 0
  <2>1. 1 \in 1..MaxAttempts BY Numbers
  <2>2. leg[<<c, 1>>].at = "none" BY <1>3, <2>1 DEF EventInv, Shape, LegsOK
  <2> QED BY <1>0, <1>3, <2>2 DEF Links, FreshCalls, NoHub
<1>7. /\ LegStarts(<<c, 1>>) /\ leg'[<<c, 1>>].at = "running"
      /\ \A s \in Callees : s # <<c, 1>> => leg'[s] = leg[s]
  <2>1. leg'[<<c, 1>>] = [leg[<<c, 1>>] EXCEPT !.at = "running"] BY <1>3, <1>4, <1>5
  <2>2. leg[<<c, 1>>] \in LegRecord BY <1>4, <1>5
  <2> QED BY <1>3, <1>4, <1>5, <1>6, <2>1, <2>2 DEF LegStarts, LegRecord
<1>8. Ebb
  <2>1. \/ queue' = queue
        \/ queue' = Append(queue, Dispatch(<<c, Hub>>, Shutdown))
        \/ queue' = Append(queue, Dispatch(<<c, Hub>>, ForceShutdown))
    BY DEF Admit
  <2> QED BY <1>2, <2>1, Resting, EbbOther, Others, Messages, Places
<1>9. HubsRest
  <2>1. hub'[c].sess = hub[c].sess /\ hub'[c].seen = hub[c].seen BY <1>3, <1>4 DEF HubRecord
  <2>2. \A d \in Calls : d # c => hub'[d] = hub[d] BY <1>3, <1>4
  <2> QED BY <2>1, <2>2 DEF HubsRest
<1>10. HandoffsRest BY <1>2, Resting
<1>11. Once'
  <2>1. \A s \in Callees : LegRests(s) \/ LegStarts(s) BY <1>7 DEF LegRests
  <2> QED BY <1>2, <1>8, <1>9, <1>10, <2>1, OnceRests DEF EventInv
<1>12. Addressed' BY <1>0, <1>2, <1>8, <1>10, AddressedKept DEF EventInv, HandoffsRest
<1>13. LegsOK'
  <2>1. ASSUME NEW s \in Callees, s \in sessions' PROVE leg'[s].at # "none"
    BY <1>3, <1>5, <1>7, <2>1 DEF EventInv, Shape, LegsOK
  <2>2. ASSUME NEW d \in Calls, reg'[d].attempt # 0 PROVE leg'[<<d, reg'[d].attempt>>].at = "none"
    <3>1. reg[d].attempt \in 2..MaxAttempts BY <1>2, <1>4, <2>2 DEF RegRecord
    <3>2. reg[d].attempt \in 1..MaxAttempts /\ reg[d].attempt # 1 BY <3>1, Numbers
    <3>3. <<d, reg[d].attempt>> \in Callees /\ <<d, reg[d].attempt>> # <<c, 1>> BY <3>2, Places
    <3> QED BY <1>2, <1>7, <2>2, <3>3 DEF EventInv, Shape, LegsOK
  <2>3. ASSUME NEW d \in Calls, invite'[d] # "call" PROVE \A n \in 1..MaxAttempts : leg'[<<d, n>>].at = "none"
    <3>1. d # c /\ invite[d] # "call" BY <1>3, <1>4, <2>3
    <3> QED BY <1>7, <3>1, Places DEF EventInv, Shape, LegsOK
  <2>4. ASSUME NEW d \in Calls, hub'[d].sess # 0 PROVE leg'[<<d, hub'[d].sess>>].at = "merged"
    <3>1. hub'[d].sess = hub[d].sess /\ hub[d].sess \in 0..MaxAttempts BY <1>4, <1>9 DEF HubsRest, HubRecord
    <3>2. d # c /\ hub[d].sess \in 1..MaxAttempts BY <1>6, <2>4, <3>1, Numbers
    <3> QED BY <1>7, <2>4, <3>1, <3>2, Places DEF EventInv, Shape, LegsOK
  <2> QED BY <2>1, <2>2, <2>3, <2>4 DEF LegsOK
<1>14. TargetsOK'
  <2>1. ASSUME NEW h \in Handoffs, Outstanding(h)
        PROVE  /\ leg'[Onto(h)].at # "none"
               /\ handoff[h].tgt = "ok" => leg'[Onto(h)].at = "handed"
               /\ pending'[handoff[h].call] # h => Onto(h) \notin sessions'
    <3>1. handoff[h].call # c BY <1>0, <1>3, <2>1 DEF Links, HandoffOK
    <3>2. Onto(h) \in Callees /\ Onto(h) # <<c, 1>> /\ Onto(h) # <<c, 0>> BY <1>0, <2>1, <3>1, OntoCallee DEF Onto
    <3> QED BY <1>2, <1>3, <1>7, <2>1, <3>2 DEF EventInv, Shape, TargetsOK
  <2> QED BY <1>8, <1>10, <2>1, TargetsKept, Messages DEF EventInv, Ebb, EbbIn, On, ReadyRequest
<1> QED BY <1>11, <1>12, <1>13, <1>14 DEF EventInv, Shape

\* Two messages that are not tracked.
LEMMA EbbTwoOthers ==
  ASSUME IInv, UNCHANGED mbox, NEW b \in Boxes, NEW m \in Msgs, m.kind \notin Tracked,
         NEW d \in Boxes, NEW n \in Msgs, n.kind \notin Tracked,
         queue' = queue \o <<Dispatch(b, m), Dispatch(d, n)>>
  PROVE  Ebb
<1> DEFINE e == Dispatch(b, m)
           f == Dispatch(d, n)
<1>1. e \in Letters /\ e.msg.kind \notin Tracked /\ f \in Letters /\ f.msg.kind \notin Tracked
  BY DispatchType DEF Dispatch
<1>2. queue' = queue \o <<e, f>> OBVIOUS
<1> HIDE DEF e, f
<1>3. queue \in Seq(Letters) BY MailParts
<1>4. queue \o <<e, f>> = Append(Append(queue, e), f) /\ Append(queue, e) \in Seq(Letters) BY <1>1, <1>3
<1>5. EbbIn(mbox, queue, mbox, Append(queue, e)) BY <1>1, <1>3, FlowSendOther
<1>6. EbbIn(mbox, Append(queue, e), mbox, Append(Append(queue, e), f)) BY <1>1, <1>4, FlowSendOther
<1> QED BY <1>2, <1>4, <1>5, <1>6, EbbTwice DEF Ebb

\* An attempt is registered, and its leg starts; the attempt before is
\* unregistered with the hand-over to it.
LEMMA RegisterAttemptOnce == ASSUME IInv, EventInv, NEW c \in Calls, RegisterAttempt(c) PROVE EventInv'
<1>0. LoopTypes /\ ActorTypes /\ Links /\ RegOK BY DEF IInv, Types
<1> DEFINE n == reg[c].attempt
           old == <<c, n - 1>>
           answer == Dispatch(<<c, Hub>>, Msg("reg", 0, n))
           goodbye == Dispatch(old, Shutdown)
<1>1. UNCHANGED <<invite, owner, hub, mbox, handoff, traffic>> BY DEF RegisterAttempt
<1>2. UNCHANGED <<invite, owner, hub, mbox, handoff, sent, applied>> BY <1>1 DEF traffic
<1>3. n # 0 /\ reg' = [reg EXCEPT ![c] = NoReg] BY DEF RegisterAttempt
<1>4. reg \in [Calls -> RegRecord] /\ leg \in [Callees -> LegRecord] /\ hub \in [Calls -> HubRecord]
      /\ pending \in [Calls -> 0..MaxHandoffs]
  BY <1>0 DEF ActorTypes, LoopTypes
<1>5. n \in 2..MaxAttempts /\ n - 1 \in 1..MaxAttempts /\ n \in 1..MaxAttempts /\ n - 1 # n
  BY <1>3, <1>4, Numbers DEF RegRecord
<1>6. <<c, n>> \in Callees /\ old \in Callees /\ old \in Boxes /\ <<c, Hub>> \in Boxes
  BY <1>5, Places
<1>7. reg'[c].attempt = 0 /\ \A d \in Calls : d # c => reg'[d] = reg[d] BY <1>3, <1>4 DEF NoReg
<1>8. leg[<<c, n>>].at = "none" BY <1>3 DEF EventInv, Shape, LegsOK
<1>9. CASE ~(owner[c] = [sess |-> reg[c].sess, gen |-> reg[c].gen] /\ HubAlive(c))
  <2>1. UNCHANGED <<sessions, pending, leg>> BY <1>9 DEF RegisterAttempt
  <2>2. Ebb
    <3>1. queue' = queue \/ queue' = Append(queue, Dispatch(<<c, Hub>>, Msg("refused", 0, n)))
      BY <1>9 DEF RegisterAttempt
    <3>2. Msg("refused", 0, n) \in Msgs /\ Msg("refused", 0, n).kind \notin Tracked BY <1>5, Messages, Others
    <3> HIDE DEF n
    <3> QED BY <1>2, <1>6, <3>1, <3>2, Resting, EbbOther
  <2>3. /\ \A d \in Calls : reg'[d].attempt # 0 => leg[<<d, reg'[d].attempt>>].at = "none"
        /\ \A d \in Calls : reg'[d].attempt \in {0} \cup 2..MaxAttempts
    <3>1. \A d \in Calls : /\ reg[d].attempt # 0 => leg[<<d, reg[d].attempt>>].at = "none"
                           /\ reg[d].attempt \in {0} \cup 2..MaxAttempts
      BY <1>4 DEF EventInv, Shape, LegsOK, RegRecord
    <3> QED BY <1>7, <3>1
  <2> QED BY <1>2, <2>1, <2>2, <2>3, Resting, RestStep
<1>10. CASE owner[c] = [sess |-> reg[c].sess, gen |-> reg[c].gen] /\ HubAlive(c)
  <2>1. /\ sessions' = (sessions \ {old}) \cup {<<c, n>>} /\ pending' = WithoutHandoffs(old)
        /\ leg' = [leg EXCEPT ![<<c, n>>].at = "running"]
        /\ queue' = queue \o <<goodbye, answer>> \/ queue' = Append(queue, answer)
    BY <1>10 DEF RegisterAttempt
  <2>2. invite[c] = "call" /\ owner[c].sess = 0
    <3>1. owner[c].sess = 0 BY <1>0, <1>3, <1>10 DEF RegOK
    <3> QED BY <1>0, <3>1 DEF Links, FreshCalls, NoOwner
  <2>3. Ebb
    <3>1. Msg("reg", 0, n) \in Msgs /\ Msg("reg", 0, n).kind \notin Tracked
          /\ Shutdown \in Msgs /\ Shutdown.kind \notin Tracked
      BY <1>5, Messages, Others
    <3>2. \/ queue' = queue \o <<Dispatch(old, Shutdown), Dispatch(<<c, Hub>>, Msg("reg", 0, n))>>
          \/ queue' = Append(queue, Dispatch(<<c, Hub>>, Msg("reg", 0, n)))
      BY <2>1
    <3> HIDE DEF n, old
    <3> QED BY <1>2, <1>6, <3>1, <3>2, EbbOther, EbbTwoOthers
  <2>4. /\ LegStarts(<<c, n>>) /\ leg'[<<c, n>>].at = "running"
        /\ \A s \in Callees : s # <<c, n>> => leg'[s] = leg[s]
    <3>1. leg'[<<c, n>>] = [leg[<<c, n>>] EXCEPT !.at = "running"] BY <1>4, <1>6, <2>1
    <3>2. leg[<<c, n>>] \in LegRecord BY <1>4, <1>6
    <3> QED BY <1>4, <1>6, <1>8, <2>1, <3>1, <3>2 DEF LegStarts, LegRecord
  <2>5. HubsRest /\ HandoffsRest BY <1>2, Resting
  <2>6. Once'
    <3>1. \A s \in Callees : LegRests(s) \/ LegStarts(s) BY <2>4 DEF LegRests
    <3> QED BY <1>2, <2>3, <2>5, <3>1, OnceRests DEF EventInv
  <2>7. Addressed' BY <1>0, <1>2, <2>3, <2>5, AddressedKept DEF EventInv, HandoffsRest
  <2>8. LegsOK'
    <3>1. ASSUME NEW s \in Callees, s \in sessions' PROVE leg'[s].at # "none"
      BY <2>1, <2>4, <3>1 DEF EventInv, Shape, LegsOK
    <3>2. ASSUME NEW d \in Calls, reg'[d].attempt # 0 PROVE leg'[<<d, reg'[d].attempt>>].at = "none"
      <4>1. d # c /\ reg'[d] = reg[d] BY <1>7, <3>2
      <4>2. reg[d].attempt \in 1..MaxAttempts BY <1>4, <3>2, <4>1, Numbers DEF RegRecord
      <4>3. <<d, reg[d].attempt>> \in Callees /\ <<d, reg[d].attempt>> # <<c, n>> BY <4>1, <4>2, Places
      <4> QED BY <2>4, <3>2, <4>1, <4>3 DEF EventInv, Shape, LegsOK
    <3>3. ASSUME NEW d \in Calls, invite'[d] # "call" PROVE \A k \in 1..MaxAttempts : leg'[<<d, k>>].at = "none"
      <4>1. d # c /\ invite[d] # "call" BY <1>2, <2>2, <3>3
      <4> QED BY <2>4, <4>1, Places DEF EventInv, Shape, LegsOK
    <3>4. ASSUME NEW d \in Calls, hub'[d].sess # 0 PROVE leg'[<<d, hub'[d].sess>>].at = "merged"
      <4>1. hub[d].sess \in 0..MaxAttempts /\ hub[d].sess # 0 BY <1>2, <1>4, <3>4 DEF HubRecord
      <4>2. <<d, hub[d].sess>> \in Callees
        <5>1. hub[d].sess \in 1..MaxAttempts BY <4>1, Numbers
        <5> QED BY <5>1, Places
      <4>3. leg[<<d, hub[d].sess>>].at = "merged" BY <4>1 DEF EventInv, Shape, LegsOK
      <4> QED BY <1>2, <1>8, <2>4, <4>2, <4>3
    <3> QED BY <3>1, <3>2, <3>3, <3>4 DEF LegsOK
  <2>9. TargetsOK'
    <3>1. ASSUME NEW h \in Handoffs, Outstanding(h)
          PROVE  /\ leg'[Onto(h)].at # "none"
                 /\ handoff[h].tgt = "ok" => leg'[Onto(h)].at = "handed"
                 /\ pending'[handoff[h].call] # h => Onto(h) \notin sessions'
      <4> DEFINE d == handoff[h].call
      <4>1. d \in Calls /\ Onto(h) \in Callees /\ Onto(h) = <<d, handoff[h].target>> BY <1>0, <3>1, OntoCallee DEF Onto
      <4>2. /\ leg[Onto(h)].at # "none"
            /\ pending[d] # h => Onto(h) \notin sessions
            /\ handoff[h].tgt = "ok" => leg[Onto(h)].at = "handed"
        BY <3>1 DEF EventInv, Shape, TargetsOK
      <4>3. Onto(h) # <<c, n>> /\ leg'[Onto(h)] = leg[Onto(h)] BY <1>8, <2>4, <4>1, <4>2
      <4> HIDE DEF d
      <4>4. ASSUME pending'[d] # h PROVE Onto(h) \notin sessions'
        <5>1. CASE pending[d] # h BY <2>1, <4>2, <4>3, <5>1
        <5>2. CASE pending[d] = h
          <6>1. d = c /\ n - 1 \in {handoff[h].source, handoff[h].target}
            BY <2>1, <4>1, <4>4, <5>2 DEF WithoutHandoffs
          <6>2. pending[c] # 0 BY <5>2, <6>1 DEF Handoffs
          <6>3. handoff[h].source = 0
            <7>1. owner[c] = [sess |-> handoff[h].source, gen |-> handoff[h].gen]
              BY <1>0, <5>2, <6>1, <6>2 DEF Links, TokenOK, TokenIsCurrent
            <7> QED BY <2>2, <7>1
          <6>4. handoff[h].target = n - 1 BY <1>5, <6>1, <6>3
          <6>5. Onto(h) = old BY <4>1, <6>1, <6>4
          <6> QED BY <2>1, <4>3, <6>5
        <5> QED BY <5>1, <5>2
      <4> QED BY <4>2, <4>3, <4>4 DEF d
    <3> QED BY <2>3, <2>5, <3>1, TargetsKept, Messages DEF EventInv, Ebb, EbbIn, On, ReadyRequest
  <2> QED BY <2>6, <2>7, <2>8, <2>9 DEF EventInv, Shape
<1> QED BY <1>9, <1>10

\* The adapter sends an event of a leg: a new one is newer than all that is
\* under way; one that is sent again meets no hand-over.
LEMMA LegEventOnce ==
  ASSUME "ResentAfterHandoff" \notin Races, IInv, EventInv, NEW s \in Sessions, LegEvent(s)
  PROVE  EventInv'
<1>0. LoopTypes /\ ActorTypes /\ EventTypes /\ Links BY DEF IInv, Types
<1>1. UNCHANGED <<invite, manager, hub, leg, mbox, reg, handoff, applied>> BY DEF LegEvent
<1>2. UNCHANGED <<invite, sessions, pending, hub, leg, mbox, reg, handoff, applied>> BY <1>1 DEF manager
<1>3. inputs < MaxInputs /\ inputs \in 0..MaxInputs /\ sent \in [Sessions -> 0..MaxInputs] /\ sent[s] <= inputs
      /\ sent[s] \in 0..MaxInputs
  BY <1>0 DEF LegEvent, EventTypes
<1>4. PICK n \in 1..MaxInputs, kind \in {"event", "end"} :
        /\ n = sent[s] + 1 \/ (n = sent[s] /\ Deduplicated(s))
        /\ sent' = [sent EXCEPT ![s] = n]
        /\ queue' = Append(queue, Dispatch(s, Msg(kind, s[2], n)))
  <2>1. PICK again \in BOOLEAN, kind \in {"event", "end"} :
          /\ again => sent[s] > 0 /\ (~Deduplicated(s) => "ResentAfterHandoff" \in Races)
          /\ sent' = [sent EXCEPT ![s] = IF again THEN sent[s] ELSE sent[s] + 1]
          /\ queue' = Append(queue, Dispatch(s, Msg(kind, s[2], IF again THEN sent[s] ELSE sent[s] + 1)))
    BY Zenon DEF LegEvent
  <2>2. CASE again
    <3>1. sent[s] \in 1..MaxInputs BY <1>3, <2>1, <2>2, Numbers
    <3> QED BY <2>1, <2>2, <3>1
  <2>3. CASE ~again
    <3>1. sent[s] + 1 \in 1..MaxInputs BY <1>3, Numbers
    <3> QED BY <2>1, <2>3, <3>1
  <2> QED BY <2>2, <2>3
<1> DEFINE new == Msg(kind, s[2], n)
<1>5. /\ new \in Msgs /\ Raw(new) /\ new.arg = n /\ new.from = s[2] /\ new.kind \in Tracked
      /\ new.kind # "target" /\ ~Peer(new)
  <2>1. s[2] \in 0..MaxAttempts BY Places
  <2>2. new \in Msgs BY <2>1, Messages
  <2> QED BY <2>2 DEF Msg, Raw, Peer, Tracked
<1>6. /\ \A b \in Boxes, m \in Msgs : OnIn(mbox', queue', b, m) => On(b, m) \/ (b = s /\ m = new)
      /\ \A b \in Boxes, x \in Msgs, y \in Msgs : AheadIn(mbox', queue', b, x, y) =>
           Ahead(b, x, y) \/ (b = s /\ y = new /\ On(b, x))
  <2> DEFINE d == Dispatch(s, new)
  <2>1. d \in Letters /\ queue' = Append(queue, d) /\ queue \in Seq(Letters)
    BY <1>4, <1>5, Places, MailParts, DispatchType
  <2>2. \A b, m : d = Dispatch(b, m) => b = s /\ m = new BY DEF Dispatch
  <2> HIDE DEF d, new
  <2>3. /\ \A b \in Boxes, m \in Msgs : OnIn(mbox, Append(queue, d), b, m) => OnIn(mbox, queue, b, m) \/ d = Dispatch(b, m)
        /\ \A b \in Boxes, x \in Msgs, y \in Msgs : AheadIn(mbox, Append(queue, d), b, x, y) =>
             AheadIn(mbox, queue, b, x, y) \/ (d = Dispatch(b, y) /\ OnIn(mbox, queue, b, x))
    BY <2>1, FlowSend
  <2>4. mbox' = mbox BY <1>2
  <2> QED BY <2>1, <2>2, <2>3, <2>4 DEF On, Ahead
<1> HIDE DEF new
<1>7. sent'[s] = n /\ n >= sent[s] /\ \A t \in Sessions : t # s => sent'[t] = sent[t] BY <1>3, <1>4
<1>8. \A t \in Sessions : sent[t] \in 0..MaxInputs /\ sent'[t] \in 0..MaxInputs /\ sent[t] <= sent'[t]
  BY <1>3, <1>7, Numbers
<1>9. Addressed'
  <2> SUFFICES ASSUME NEW b \in Boxes, NEW m \in Msgs, On(b, m)'
               PROVE  /\ Raw(m) => b \in Sessions /\ m.from = b[2] /\ m.arg <= sent'[b]
                      /\ Peer(m) => b[2] = Hub /\ m.from # 0
                      /\ m.kind = "target" => handoff'[m.arg].state # "none" /\ b = Onto(m.arg)'
    BY DEF Addressed, Raw, Peer
  <2>1. On(b, m) \/ (b = s /\ m = new) BY <1>6 DEF On
  <2>2. CASE On(b, m)
    <3>1. /\ Raw(m) => b \in Sessions /\ m.from = b[2] /\ m.arg <= sent[b]
          /\ Peer(m) => b[2] = Hub /\ m.from # 0
          /\ m.kind = "target" => handoff[m.arg].state # "none" /\ b = Onto(m.arg)
      BY <2>2 DEF EventInv, Shape, Addressed
    <3>2. ASSUME Raw(m) PROVE m.arg <= sent'[b]
      <4>1. m.arg \in 1..MaxInputs BY <3>2, MessageArgs DEF Raw
      <4> QED BY <1>8, <3>1, <3>2, <4>1, Numbers
    <3> QED BY <1>2, <3>1, <3>2 DEF Onto
  <2>3. CASE b = s /\ m = new
    <3>1. m.arg <= sent'[b] BY <1>5, <1>7, <2>3, Numbers
    <3> QED BY <1>5, <2>3, <3>1
  <2> QED BY <2>1, <2>2, <2>3
<1>10. LegsOK' BY <1>2 DEF EventInv, Shape, LegsOK
<1>11. TargetsOK'
  <2>1. HandoffsRest BY <1>2, Resting
  <2>2. \A b \in Boxes, h \in Handoffs : OnIn(mbox', queue', b, ReadyRequest(h)) => On(b, ReadyRequest(h))
    <3>1. \A h \in Handoffs : ReadyRequest(h) \in Msgs /\ ReadyRequest(h).kind = "target"
      BY Messages DEF ReadyRequest, Msg
    <3> QED BY <1>5, <1>6, <3>1
  <2>3. \A h \in Handoffs : Outstanding(h) =>
           /\ leg'[Onto(h)].at # "none"
           /\ handoff[h].tgt = "ok" => leg'[Onto(h)].at = "handed"
           /\ pending'[handoff[h].call] # h => Onto(h) \notin sessions'
    BY <1>2 DEF EventInv, Shape, TargetsOK
  <2> QED BY <2>1, <2>2, <2>3, TargetsKept DEF EventInv
<1>12. FreshPastHandoff'
  <2> SUFFICES ASSUME NEW t \in Callees, NEW r \in Msgs, Raw(r), On(t, r)', PastHandoff(t, r)'
               PROVE  r.arg > leg'[t].seen /\ \A x \in Msgs : Raw(x) /\ Ahead(t, x, r)' => x.arg < r.arg
    BY DEF FreshPastHandoff, Raw
  <2>1. t \in Boxes /\ t \in Sessions /\ leg[t].seen \in Nat
    BY <1>0, HubBox DEF ActorTypes, LegRecord
  <2>2. \/ leg[t].at = "merged"
        \/ \E h \in Handoffs : /\ Outstanding(h) /\ Onto(h) = t
                               /\ handoff[h].tgt = "ok" \/ Ahead(t, ReadyRequest(h), r)'
    BY <1>2 DEF PastHandoff, Outstanding, Onto, ReadyRequest, Msg
  <2>3. CASE t = s /\ r = new
    <3>1. n = sent[s] + 1
      <4>1. ~Deduplicated(s) BY <2>2, <2>3 DEF Deduplicated, LegAlive, Outstanding, Onto
      <4> QED BY <1>4, <4>1
    <3>2. leg[t].seen <= sent[t] BY DEF EventInv, Once, PassedOnce
    <3>3. r.arg > leg'[t].seen BY <1>2, <1>3, <1>5, <2>1, <2>3, <3>1, <3>2, Numbers
    <3>4. ASSUME NEW x \in Msgs, Raw(x), Ahead(t, x, r)' PROVE x.arg < r.arg
      <4>1. Ahead(t, x, r) \/ On(t, x) BY <1>6, <2>1, <3>4 DEF Ahead
      <4>2. On(t, x) BY <4>1, AheadIsOn DEF Ahead, On
      <4>3. x.arg <= sent[t] BY <2>1, <3>4, <4>2 DEF EventInv, Shape, Addressed
      <4>4. x.arg \in 1..MaxInputs BY <3>4, MessageArgs DEF Raw
      <4> QED BY <1>3, <1>5, <2>3, <3>1, <4>3, <4>4, Numbers
    <3> QED BY <3>3, <3>4
  <2>4. CASE ~(t = s /\ r = new)
    <3>1. On(t, r) BY <1>6, <2>1, <2>4 DEF On
    <3>2. \A x \in Msgs : Ahead(t, x, r)' => Ahead(t, x, r) BY <1>6, <2>1, <2>4 DEF Ahead
    <3>3. \A h \in Handoffs : Ahead(t, ReadyRequest(h), r)' => Ahead(t, ReadyRequest(h), r)
      BY <3>2, Messages DEF ReadyRequest, Msg
    <3>4. PastHandoff(t, r) BY <2>2, <3>3 DEF PastHandoff
    <3> QED BY <1>2, <3>1, <3>2, <3>4 DEF EventInv, Once, FreshPastHandoff
  <2> QED BY <2>3, <2>4
<1>13. ASSUME NEW t \in Callees, NEW m \in Msgs
       PROVE  /\ Out(t, m)' <=> Out(t, m)
              /\ Arriving(t, m)' => Arriving(t, m)
              /\ Passed(t, m)' => Passed(t, m)
              /\ \A y \in Msgs : Ahead(<<t[1], Hub>>, m, y)' => Ahead(<<t[1], Hub>>, m, y)
  <2>1. <<t[1], Hub>> \in Boxes /\ <<t[1], Hub>> # s
    <3>1. s[2] \in 0..MaxAttempts /\ <<t[1], Hub>>[2] = Hub BY Places
    <3>2. s[2] # Hub BY <3>1, Numbers
    <3> QED BY <3>1, <3>2, HubBox
  <2>2. On(<<t[1], Hub>>, m)' => On(<<t[1], Hub>>, m) BY <1>6, <2>1 DEF On
  <2>3. \A y \in Msgs : Ahead(<<t[1], Hub>>, m, y)' => Ahead(<<t[1], Hub>>, m, y) BY <1>6, <2>1 DEF Ahead
  <2>4. Out(t, m)' <=> Out(t, m) BY <1>2 DEF Out
  <2> QED BY <2>2, <2>3, <2>4 DEF Passed, Arriving, FromLeg, Peer
<1>14. PassedOnce'
  <2> SUFFICES ASSUME NEW t \in Callees
               PROVE  /\ leg'[t].seen <= sent'[t]
                      /\ \A x \in Msgs : Out(t, x)' => FromLeg(t, x)
                      /\ \A x \in Msgs : Passed(t, x)' =>
                           applied'[t][x.arg] = 0 /\ x.arg <= sent'[t] /\ (Reads(t)' => x.arg <= leg'[t].seen)
                      /\ \A x, y \in Msgs : FromLeg(t, x) /\ FromLeg(t, y) /\ Ahead(<<t[1], Hub>>, x, y)' => x.arg < y.arg
                      /\ \A x, y \in Msgs : Arriving(t, x)' /\ Out(t, y)' => x.arg < y.arg
                      /\ \A k \in 1..MaxInputs : applied'[t][k] # 0 =>
                           k <= sent'[t] /\ (Reads(t)' => k <= leg'[t].seen)
    BY DEF PassedOnce, FromLeg, Peer
  <2>1. t \in Sessions /\ leg[t].seen \in Nat BY <1>0, HubBox DEF ActorTypes, LegRecord
  <2>2. sent[t] \in 0..MaxInputs /\ sent'[t] \in 0..MaxInputs /\ sent[t] <= sent'[t] BY <1>8, <2>1
  <2>3. /\ leg[t].seen <= sent[t]
        /\ \A x \in Msgs : Out(t, x) => FromLeg(t, x)
        /\ \A x \in Msgs : Passed(t, x) =>
             applied[t][x.arg] = 0 /\ x.arg <= sent[t] /\ (Reads(t) => x.arg <= leg[t].seen)
        /\ \A x, y \in Msgs : FromLeg(t, x) /\ FromLeg(t, y) /\ Ahead(<<t[1], Hub>>, x, y) => x.arg < y.arg
        /\ \A x, y \in Msgs : Arriving(t, x) /\ Out(t, y) => x.arg < y.arg
        /\ \A k \in 1..MaxInputs : applied[t][k] # 0 => k <= sent[t] /\ (Reads(t) => k <= leg[t].seen)
    BY DEF EventInv, Once, PassedOnce
  <2>4. Reads(t)' <=> Reads(t) BY <1>2 DEF Reads
  <2>5. leg'[t].seen <= sent'[t] BY <1>2, <2>1, <2>2, <2>3, Numbers
  <2>6. ASSUME NEW x \in Msgs, Passed(t, x)'
        PROVE  applied'[t][x.arg] = 0 /\ x.arg <= sent'[t] /\ (Reads(t)' => x.arg <= leg'[t].seen)
    <3>1. Passed(t, x) BY <1>13, <2>6
    <3>2. x.arg \in 1..MaxInputs
      <4>1. Peer(x) BY <2>3, <3>1 DEF Passed, Arriving, FromLeg
      <4> QED BY <4>1, MessageArgs DEF Peer
    <3> QED BY <1>2, <2>2, <2>3, <2>4, <3>1, <3>2, Numbers
  <2>7. ASSUME NEW k \in 1..MaxInputs, applied'[t][k] # 0
        PROVE  k <= sent'[t] /\ (Reads(t)' => k <= leg'[t].seen)
    BY <1>2, <2>2, <2>3, <2>4, <2>7, Numbers
  <2> QED BY <1>13, <2>3, <2>5, <2>6, <2>7
<1>15. TakenOverOnce'
  <2> SUFFICES ASSUME NEW t \in Callees, NEW r \in Msgs, leg'[t].at = "merged", Raw(r), On(t, r)'
               PROVE  applied'[t][r.arg] = 0 /\ \A x \in Msgs : Passed(t, x)' => x.arg # r.arg
    BY DEF TakenOverOnce, Raw
  <2>1. t \in Boxes /\ t \in Sessions /\ leg[t].at = "merged" BY <1>2, HubBox
  <2>2. CASE t = s /\ r = new
    <3>1. n = sent[s] + 1
      <4>1. ~Deduplicated(s) BY <2>1, <2>2 DEF Deduplicated, LegAlive
      <4> QED BY <1>4, <4>1
    <3>2. ~(n <= sent[t]) /\ r.arg = n BY <1>3, <1>5, <2>2, <3>1, Numbers
    <3>3. \A x \in Msgs : Passed(t, x) => x.arg <= sent[t] BY DEF EventInv, Once, PassedOnce
    <3>4. applied[t][n] # 0 => n <= sent[t] BY DEF EventInv, Once, PassedOnce
    <3> QED BY <1>2, <1>13, <3>2, <3>3, <3>4
  <2>3. CASE ~(t = s /\ r = new)
    <3>1. On(t, r) BY <1>6, <2>1, <2>3 DEF On
    <3> QED BY <1>2, <1>13, <2>1, <3>1 DEF EventInv, Once, TakenOverOnce
  <2> QED BY <2>2, <2>3
<1>16. CallerOnce' /\ EventsOnce' BY <1>2 DEF EventInv, Once, CallerOnce, EventsOnce
<1> QED BY <1>9, <1>10, <1>11, <1>12, <1>14, <1>15, <1>16 DEF EventInv, Shape, Once

\* A leg whose state is not "none" keeps it so, and stays merged or handed.
LEMMA ShapeOfLegs ==
  ASSUME IInv, Shape, UNCHANGED <<invite, sessions, pending, hub, reg>>,
         \A s \in Callees : leg'[s].at = "none" <=> leg[s].at = "none",
         \A s \in Callees : leg[s].at \in {"merged", "handed"} => leg'[s].at = leg[s].at
  PROVE  /\ LegsOK'
         /\ \A h \in Handoffs : Outstanding(h) =>
              /\ leg'[Onto(h)].at # "none"
              /\ handoff[h].tgt = "ok" => leg'[Onto(h)].at = "handed"
              /\ pending'[handoff[h].call] # h => Onto(h) \notin sessions'
<1>0. LoopTypes /\ ActorTypes /\ Links BY DEF IInv, Types
<1>1. ASSUME NEW s \in Callees, s \in sessions' PROVE leg'[s].at # "none" BY <1>1 DEF Shape, LegsOK
<1>2. ASSUME NEW c \in Calls, reg'[c].attempt # 0 PROVE leg'[<<c, reg'[c].attempt>>].at = "none"
  <2>1. reg[c] \in RegRecord /\ reg[c].attempt # 0 BY <1>0, <1>2 DEF ActorTypes
  <2>2. reg[c].attempt \in 1..MaxAttempts BY <2>1, Numbers DEF RegRecord
  <2> QED BY <2>1, <2>2, Places DEF Shape, LegsOK
<1>3. ASSUME NEW c \in Calls, invite'[c] # "call" PROVE \A n \in 1..MaxAttempts : leg'[<<c, n>>].at = "none"
  BY <1>3, Places DEF Shape, LegsOK
<1>4. ASSUME NEW c \in Calls, hub'[c].sess # 0 PROVE leg'[<<c, hub'[c].sess>>].at = "merged"
  <2>1. hub[c] \in HubRecord /\ hub[c].sess # 0 BY <1>0, <1>4 DEF ActorTypes
  <2>2. hub[c].sess \in 1..MaxAttempts BY <2>1, Numbers DEF HubRecord
  <2>3. leg[<<c, hub[c].sess>>].at = "merged" BY <2>1 DEF Shape, LegsOK
  <2> QED BY <2>2, <2>3, Places
<1>5. LegsOK' BY <1>1, <1>2, <1>3, <1>4 DEF LegsOK
<1>6. ASSUME NEW h \in Handoffs, Outstanding(h)
      PROVE  /\ leg'[Onto(h)].at # "none"
             /\ handoff[h].tgt = "ok" => leg'[Onto(h)].at = "handed"
             /\ pending'[handoff[h].call] # h => Onto(h) \notin sessions'
  <2>1. Onto(h) \in Callees BY <1>0, <1>6, OntoCallee
  <2> QED BY <1>6, <2>1 DEF Shape, TargetsOK
<1> QED BY <1>5, <1>6

\* A callee's actor accepts an event: it has not been handled, and what stays
\* behind it past a hand-over is newer.
LEMMA LegAcceptsOnce ==
  ASSUME IInv, EventInv, NEW s \in Callees, leg[s].at = "running", leg[s].out = << >>, mbox[s] # << >>,
         NEW p \in Msgs, p = Msg(IF Head(mbox[s]).kind = "end" THEN "peerEnd" ELSE "peer", s[2], Head(mbox[s]).arg),
         Raw(Head(mbox[s])), Fresh(leg[s].seen, Head(mbox[s])),
         leg' = [leg EXCEPT ![s].seen = Head(mbox[s]).arg, ![s].out = <<p>>],
         mbox' = [mbox EXCEPT ![s] = Tail(@)],
         UNCHANGED <<invite, sessions, pending, hub, queue, reg, handoff, sent, applied>>
  PROVE  EventInv'
<1>0. LoopTypes /\ ActorTypes /\ EventTypes /\ Links BY DEF IInv, Types
<1> DEFINE m == Head(mbox[s])
<1>1. s \in Boxes /\ mbox \in Mailboxes /\ queue \in Seq(Letters) BY HubBox, MailParts
<1>2. /\ Ebb /\ m \in Msgs /\ On(s, m)
      /\ \A y \in Msgs : OnIn(mbox', queue', s, y) => Ahead(s, m, y)
  <2>1. m.kind \in Tracked BY DEF Raw, Tracked
  <2> QED BY <1>1, <2>1, FlowTake DEF Ebb, On, Ahead
<1>3. Raw(m) /\ m.arg > leg[s].seen /\ m.arg \in 1..MaxInputs
  <2>1. Raw(m) /\ m.arg > leg[s].seen BY DEF Fresh
  <2>2. m.kind \in {"event", "end"} BY <2>1 DEF Raw
  <2> HIDE DEF m
  <2> QED BY <1>2, <2>1, <2>2, MessageArgs
<1>4. FromLeg(s, p) /\ p.arg = m.arg /\ leg'[s].out = <<p>> /\ leg'[s].seen = m.arg /\ leg'[s].at = "running"
      /\ \A t \in Callees : t # s => leg'[t] = leg[t]
  <2>1. leg \in [Callees -> LegRecord] /\ leg[s] \in LegRecord BY <1>0 DEF ActorTypes
  <2>2. leg'[s] = [leg[s] EXCEPT !.seen = m.arg, !.out = <<p>>] BY <2>1
  <2>3. leg'[s].out = <<p>> /\ leg'[s].seen = m.arg /\ leg'[s].at = "running" BY <2>1, <2>2 DEF LegRecord
  <2>4. FromLeg(s, p) /\ p.arg = m.arg BY DEF FromLeg, Peer, Msg
  <2> QED BY <2>1, <2>3, <2>4
<1> HIDE DEF m
<1>5. HandoffsRest /\ HubsRest BY Resting
<1>6. Shape'
  <2>1. Addressed' BY <1>0, <1>2, <1>5, AddressedKept DEF EventInv, HandoffsRest
  <2>2. \A t \in Callees : leg'[t].at = leg[t].at BY <1>4
  <2>3. /\ LegsOK'
        /\ \A h \in Handoffs : Outstanding(h) =>
             /\ leg'[Onto(h)].at # "none"
             /\ handoff[h].tgt = "ok" => leg'[Onto(h)].at = "handed"
             /\ pending'[handoff[h].call] # h => Onto(h) \notin sessions'
    BY <2>2, ShapeOfLegs DEF EventInv
  <2>4. TargetsOK' BY <1>2, <1>5, <2>3, TargetsKept, Messages DEF EventInv, Ebb, EbbIn, On, ReadyRequest
  <2> QED BY <2>1, <2>3, <2>4 DEF Shape
<1>7. ASSUME NEW t \in Callees, t # s
      PROVE  /\ \A x \in Msgs : Raw(x) /\ On(t, x)' => On(t, x)
             /\ \A x \in Msgs : Out(t, x)' => Out(t, x)
             /\ \A x \in Msgs : Arriving(t, x)' => Arriving(t, x)
             /\ \A x \in Msgs : Passed(t, x)' => Passed(t, x)
             /\ \A x, y \in Msgs : Raw(x) /\ Raw(y) /\ Ahead(t, x, y)' => Ahead(t, x, y)
             /\ \A x, y \in Msgs : FromLeg(t, x) /\ FromLeg(t, y) /\ Ahead(<<t[1], Hub>>, x, y)'
                  => Ahead(<<t[1], Hub>>, x, y)
  BY <1>2, <1>4, <1>7, EbbIsCalm, EventFlow
<1>8. /\ \A x \in Msgs : On(s, x)' => On(s, x) /\ Ahead(s, m, x)
      /\ \A x \in Msgs : Out(s, x)' => x = p
      /\ \A x \in Msgs : Arriving(s, x)' => Arriving(s, x)
      /\ \A x \in Msgs, y \in Msgs : Ahead(s, x, y)' => Ahead(s, x, y)
      /\ \A x \in Msgs, y \in Msgs : Ahead(<<s[1], Hub>>, x, y)' => Ahead(<<s[1], Hub>>, x, y)
  <2>1. \A x \in Msgs : On(s, x)' => On(s, x) /\ Ahead(s, m, x) BY <1>1, <1>2 DEF On, Ebb, EbbIn
  <2>2. \A x \in Msgs : Out(s, x)' => x = p
    <3>1. \A i \in 1..Len(<<p>>) : <<p>>[i] = p OBVIOUS
    <3> QED BY <1>4, <3>1 DEF Out
  <2>3. \A x \in Msgs : Arriving(s, x)' => Arriving(s, x)
    BY <1>2, HubBox DEF Arriving, FromLeg, Peer, On, Ebb, EbbIn
  <2>4. \A b \in Boxes, x \in Msgs, y \in Msgs : Ahead(b, x, y)' => Ahead(b, x, y) BY <1>2 DEF Ahead, Ebb, EbbIn
  <2> QED BY <1>1, <2>1, <2>2, <2>3, <2>4, HubBox
<1>9. /\ leg[s].seen <= sent[s] /\ leg[s].seen \in Nat /\ Reads(s) /\ m.arg <= sent[s]
      /\ \A x \in Msgs : Arriving(s, x) => applied[s][x.arg] = 0 /\ x.arg <= sent[s] /\ x.arg <= leg[s].seen
      /\ \A x, y \in Msgs : FromLeg(s, x) /\ FromLeg(s, y) /\ Ahead(<<s[1], Hub>>, x, y) => x.arg < y.arg
      /\ \A n \in 1..MaxInputs : applied[s][n] # 0 => n <= sent[s] /\ n <= leg[s].seen
  <2>1. Reads(s) BY DEF Reads
  <2>2. m.arg <= sent[s] BY <1>1, <1>2, <1>3 DEF EventInv, Shape, Addressed
  <2>3. leg[s].seen \in Nat BY <1>0 DEF ActorTypes, LegRecord
  <2> QED BY <2>1, <2>2, <2>3 DEF EventInv, Once, PassedOnce, Passed
<1>10. FreshPastHandoff'
  <2> SUFFICES ASSUME NEW t \in Callees, NEW r \in Msgs, Raw(r), On(t, r)', PastHandoff(t, r)'
               PROVE  r.arg > leg'[t].seen /\ \A x \in Msgs : Raw(x) /\ Ahead(t, x, r)' => x.arg < r.arg
    BY DEF FreshPastHandoff, Raw
  <2>1. PastHandoff(t, r)
    <3>1. leg'[t].at = "merged" => leg[t].at = "merged" BY <1>4
    <3> QED BY <1>0, <1>2, <1>5, <3>1, PastKept
  <2>2. CASE t # s BY <1>4, <1>7, <2>1, <2>2 DEF EventInv, Once, FreshPastHandoff
  <2>3. CASE t = s
    <3>1. On(s, r) /\ Ahead(s, m, r) BY <1>8, <2>3
    <3>2. \A x \in Msgs : Raw(x) /\ Ahead(s, x, r) => x.arg < r.arg
      BY <2>1, <2>3, <3>1 DEF EventInv, Once, FreshPastHandoff
    <3>3. r.arg \in 1..MaxInputs BY MessageArgs DEF Raw
    <3>4. r.arg > leg'[s].seen BY <1>2, <1>3, <1>4, <3>1, <3>2, <3>3, Numbers
    <3> QED BY <1>8, <2>3, <3>2, <3>4
  <2> QED BY <2>2, <2>3
<1>11. PassedOnce'
  <2> SUFFICES ASSUME NEW t \in Callees
               PROVE  /\ leg'[t].seen <= sent'[t]
                      /\ \A x \in Msgs : Out(t, x)' => FromLeg(t, x)
                      /\ \A x \in Msgs : Passed(t, x)' =>
                           applied'[t][x.arg] = 0 /\ x.arg <= sent'[t] /\ (Reads(t)' => x.arg <= leg'[t].seen)
                      /\ \A x, y \in Msgs : FromLeg(t, x) /\ FromLeg(t, y) /\ Ahead(<<t[1], Hub>>, x, y)' => x.arg < y.arg
                      /\ \A x, y \in Msgs : Arriving(t, x)' /\ Out(t, y)' => x.arg < y.arg
                      /\ \A k \in 1..MaxInputs : applied'[t][k] # 0 =>
                           k <= sent'[t] /\ (Reads(t)' => k <= leg'[t].seen)
    BY DEF PassedOnce, FromLeg, Peer
  <2>1. CASE t # s
    <3>1. Reads(t)' <=> Reads(t) BY <1>4, <2>1 DEF Reads
    <3> QED BY <1>4, <1>7, <2>1, <3>1 DEF EventInv, Once, PassedOnce
  <2>2. CASE t = s
    <3>1. leg'[s].seen <= sent'[s] BY <1>4, <1>9
    <3>2. ASSUME NEW x \in Msgs, Arriving(s, x)
          PROVE  applied[s][x.arg] = 0 /\ x.arg <= sent[s] /\ x.arg < m.arg
      <4>1. x.arg \in 1..MaxInputs BY <3>2, MessageArgs DEF Arriving, FromLeg, Peer
      <4> QED BY <1>3, <1>9, <3>2, <4>1, Numbers
    <3>3. applied[s][m.arg] = 0 BY <1>3, <1>9, Numbers
    <3>4. ASSUME NEW x \in Msgs, Passed(s, x)'
          PROVE  applied[s][x.arg] = 0 /\ x.arg <= sent[s] /\ x.arg <= m.arg
      <4>1. Arriving(s, x) \/ x = p BY <1>8, <3>4 DEF Passed
      <4>2. CASE Arriving(s, x)
        <5>1. x.arg \in 1..MaxInputs BY <4>2, MessageArgs DEF Arriving, FromLeg, Peer
        <5> QED BY <1>3, <3>2, <4>2, <5>1, Numbers
      <4>3. CASE x = p BY <1>3, <1>4, <1>9, <3>3, <4>3, Numbers
      <4> QED BY <4>1, <4>2, <4>3
    <3>5. \A x, y \in Msgs : Arriving(s, x)' /\ Out(s, y)' => x.arg < y.arg BY <1>4, <1>8, <3>2
    <3>6. ASSUME NEW k \in 1..MaxInputs, applied[s][k] # 0 PROVE k <= sent[s] /\ k <= m.arg
      BY <1>3, <1>9, <3>6, Numbers
    <3> QED BY <1>4, <1>8, <1>9, <2>2, <3>1, <3>4, <3>5, <3>6
  <2> QED BY <2>1, <2>2
<1>12. TakenOverOnce'
  <2> SUFFICES ASSUME NEW t \in Callees, NEW r \in Msgs, leg'[t].at = "merged", Raw(r), On(t, r)'
               PROVE  applied'[t][r.arg] = 0 /\ \A x \in Msgs : Passed(t, x)' => x.arg # r.arg
    BY DEF TakenOverOnce, Raw
  <2>1. t # s /\ leg[t].at = "merged" BY <1>4
  <2> QED BY <1>7, <2>1 DEF EventInv, Once, TakenOverOnce
<1>13. CallerOnce' /\ EventsOnce' BY DEF EventInv, Once, CallerOnce, EventsOnce
<1> QED BY <1>6, <1>10, <1>11, <1>12, <1>13 DEF EventInv, Once

\* A callee's actor agrees to a hand-over: what stays in its mailbox came
\* behind the request.
LEMMA LegAgreesOnce ==
  ASSUME IInv, EventInv, NEW s \in Callees, leg[s].at = "running", mbox[s] # << >>,
         Head(mbox[s]).kind = "target",
         leg' = [leg EXCEPT ![s].at = "handed"], handoff' = [handoff EXCEPT ![Head(mbox[s]).arg].tgt = "ok"],
         mbox' = [mbox EXCEPT ![s] = Tail(@)],
         UNCHANGED <<invite, sessions, pending, hub, queue, reg, sent, applied>>
  PROVE  EventInv'
<1>0. LoopTypes /\ ActorTypes /\ EventTypes /\ Links BY DEF IInv, Types
<1> DEFINE m == Head(mbox[s])
<1>1. s \in Boxes /\ mbox \in Mailboxes /\ queue \in Seq(Letters) BY HubBox, MailParts
<1>2. /\ Ebb /\ m \in Msgs /\ On(s, m)
      /\ \A y \in Msgs : OnIn(mbox', queue', s, y) => Ahead(s, m, y)
  <2>1. m.kind \in Tracked BY DEF Tracked
  <2> QED BY <1>1, <2>1, FlowTake DEF Ebb, On, Ahead
<1>3. m.kind = "target" /\ handoff' = [handoff EXCEPT ![m.arg].tgt = "ok"] OBVIOUS
<1> HIDE DEF m
<1> DEFINE h == m.arg
<1>4. h \in Handoffs /\ m = ReadyRequest(h)
  <2>1. h \in Handoffs BY <1>2, <1>3, MessageArgs
  <2>2. m \in [kind : {"prepare", "target"}, from : {0}, arg : Handoffs] BY <1>2, <1>3 DEF Msgs
  <2> QED BY <1>3, <2>1, <2>2 DEF ReadyRequest, Msg
<1>5. handoff[h].state # "none" /\ s = Onto(h) BY <1>1, <1>2, <1>3 DEF EventInv, Shape, Addressed
<1>6. /\ handoff'[h].tgt = "ok" /\ handoff'[h].state = handoff[h].state /\ SameHandoff(handoff'[h], handoff[h])
      /\ \A g \in Handoffs : g # h => handoff'[g] = handoff[g]
  <2>1. handoff \in [Handoffs -> HandoffRecord] /\ handoff[h] \in HandoffRecord BY <1>0, <1>4 DEF ActorTypes
  <2>2. handoff'[h] = [handoff[h] EXCEPT !.tgt = "ok"] BY <1>3, <1>4, <2>1
  <2> QED BY <1>3, <1>4, <2>1, <2>2 DEF HandoffRecord, SameHandoff
<1> HIDE DEF h
<1>7. \A g \in Handoffs : /\ handoff'[g].state = handoff[g].state /\ SameHandoff(handoff'[g], handoff[g])
                          /\ (Outstanding(g)' <=> Outstanding(g)) /\ Onto(g)' = Onto(g)
  BY <1>6 DEF SameHandoff, Outstanding, Onto
<1>8. /\ leg'[s].at = "handed" /\ leg'[s].seen = leg[s].seen /\ leg'[s].out = leg[s].out
      /\ \A t \in Callees : t # s => leg'[t] = leg[t]
  <2>1. leg \in [Callees -> LegRecord] /\ leg[s] \in LegRecord BY <1>0 DEF ActorTypes
  <2>2. leg'[s] = [leg[s] EXCEPT !.at = "handed"] BY <2>1
  <2> QED BY <2>1, <2>2 DEF LegRecord
<1>9. Addressed'
  <2>1. HandoffsStay BY <1>7 DEF HandoffsStay
  <2> QED BY <1>0, <1>2, <2>1, AddressedKept DEF EventInv
<1>10. /\ LegsOK'
       /\ \A g \in Handoffs : Outstanding(g) =>
            /\ leg'[Onto(g)].at # "none"
            /\ handoff[g].tgt = "ok" => leg'[Onto(g)].at = "handed"
            /\ pending'[handoff[g].call] # g => Onto(g) \notin sessions'
  <2>1. \A t \in Callees : leg'[t].at = "none" <=> leg[t].at = "none" BY <1>8
  <2>2. \A t \in Callees : leg[t].at \in {"merged", "handed"} => leg'[t].at = leg[t].at BY <1>8
  <2> QED BY <2>1, <2>2, ShapeOfLegs DEF EventInv
<1>11. TargetsOK'
  <2>1. ASSUME NEW f \in Handoffs, NEW g \in Handoffs, Outstanding(f)', Outstanding(g)', Onto(f)' = Onto(g)'
        PROVE  f = g
    BY <1>7, <2>1 DEF EventInv, Shape, TargetsOK
  <2>2. ASSUME NEW g \in Handoffs, Outstanding(g)'
        PROVE  /\ leg'[Onto(g)'].at # "none"
               /\ pending'[handoff'[g].call] # g => Onto(g)' \notin sessions'
               /\ handoff'[g].tgt = "ok" => leg'[Onto(g)'].at = "handed"
               /\ handoff'[g].tgt = "failed" => ~On(Onto(g), ReadyRequest(g))'
    <3>1. Outstanding(g) /\ Onto(g)' = Onto(g) /\ handoff'[g].call = handoff[g].call BY <1>7, <2>2 DEF SameHandoff
    <3>2. CASE g = h BY <1>5, <1>6, <1>8, <1>10, <3>1, <3>2
    <3>3. CASE g # h
      <4>1. handoff'[g] = handoff[g] BY <1>6, <3>3
      <4>2. ASSUME handoff[g].tgt = "failed" PROVE ~On(Onto(g), ReadyRequest(g))'
        <5>1. ~On(Onto(g), ReadyRequest(g)) BY <3>1, <4>2 DEF EventInv, Shape, TargetsOK
        <5>2. Onto(g) \in Boxes /\ ReadyRequest(g) \in Msgs
          BY <1>0, <3>1, OntoCallee, HubBox, Messages DEF ReadyRequest
        <5>3. ~OnIn(mbox', queue', Onto(g), ReadyRequest(g)) BY <1>2, <5>1, <5>2 DEF On, Ebb, EbbIn
        <5> QED BY <3>1, <5>3 DEF On, ReadyRequest, Msg
      <4> QED BY <1>10, <3>1, <4>1, <4>2
    <3> QED BY <3>2, <3>3
  <2> QED BY <2>1, <2>2 DEF TargetsOK
<1>12. Once'
  <2>1. \A t \in Callees : LegQuiet(t)
    <3>1. LegQuiet(s) BY <1>8 DEF LegQuiet, Reads
    <3>2. \A t \in Callees : t # s => LegQuiet(t) BY <1>8 DEF LegQuiet, Reads
    <3> QED BY <3>1, <3>2
  <2>2. ASSUME NEW t \in Callees, NEW r \in Msgs, On(t, r)', PastHandoff(t, r)'
        PROVE  PastHandoff(t, r)
    <3>1. \/ leg'[t].at = "merged"
          \/ \E g \in Handoffs : /\ Outstanding(g)' /\ Onto(g)' = t
                                 /\ handoff'[g].tgt = "ok" \/ Ahead(t, ReadyRequest(g), r)'
      BY <2>2 DEF PastHandoff, ReadyRequest, Msg
    <3>2. CASE leg'[t].at = "merged" BY <1>8, <3>2 DEF PastHandoff
    <3>3. ASSUME NEW g \in Handoffs, Outstanding(g)', Onto(g)' = t,
                 handoff'[g].tgt = "ok" \/ Ahead(t, ReadyRequest(g), r)'
          PROVE  PastHandoff(t, r)
      <4>1. Outstanding(g) /\ Onto(g) = t BY <1>7, <3>3
      <4>2. CASE g = h
        <5>1. t = s /\ Ahead(t, ReadyRequest(g), r) BY <1>2, <1>4, <1>5, <2>2, <4>1, <4>2 DEF On
        <5> QED BY <4>1, <5>1 DEF PastHandoff
      <4>3. CASE g # h
        <5>1. Ahead(t, ReadyRequest(g), r)' => Ahead(t, ReadyRequest(g), r)
          BY <1>2, HubBox, Messages DEF Ahead, Ebb, EbbIn, ReadyRequest
        <5> QED BY <1>6, <3>3, <4>1, <4>3, <5>1 DEF PastHandoff
      <4> QED BY <4>2, <4>3
    <3> QED BY <3>1, <3>2, <3>3
  <2>3. HubsRest BY Resting
  <2> QED BY <1>2, <2>1, <2>2, <2>3, EbbIsCalm, OnceKept DEF EventInv
<1> QED BY <1>9, <1>10, <1>11, <1>12 DEF EventInv, Shape

\* A callee's actor takes a message.
LEMMA LegTakesOnce == ASSUME IInv, EventInv, NEW s \in Callees, LegTakes(s) PROVE EventInv'
<1>0. LoopTypes /\ ActorTypes /\ EventTypes /\ Links BY DEF IInv, Types
<1> DEFINE m == Head(mbox[s])
<1>1. UNCHANGED <<invite, manager, hub, queue, reg, traffic>> BY DEF LegTakes
<1>2. UNCHANGED <<invite, sessions, pending, hub, queue, reg, sent, applied>> BY <1>1 DEF manager, traffic
<1>3. leg[s].at = "running" /\ leg[s].out = << >> /\ mbox[s] # << >> BY DEF LegTakes
<1>4. s \in Boxes /\ mbox \in Mailboxes /\ queue \in Seq(Letters) /\ m \in Msgs /\ leg \in [Callees -> LegRecord]
  <2>1. s \in Boxes /\ mbox \in Mailboxes /\ queue \in Seq(Letters) BY HubBox, MailParts
  <2> QED BY <1>0, <1>3, <2>1, FlowTake DEF ActorTypes
<1>5. mbox' = [mbox EXCEPT ![s] = Tail(@)] \/ mbox' = [mbox EXCEPT ![s] = << >>] BY DEF LegTakes
<1>6. m.kind \notin {"shutdown", "force"} => mbox' = [mbox EXCEPT ![s] = Tail(@)] BY DEF LegTakes
<1>7. Ebb
  <2>1. CASE mbox' = [mbox EXCEPT ![s] = Tail(@)] BY <1>2, <1>3, <1>4, <2>1, FlowTake DEF Ebb
  <2>2. CASE mbox' = [mbox EXCEPT ![s] = << >>]
    <3>1. \A b \in Boxes : mbox'[b] = mbox[b] \/ mbox'[b] = << >> BY <1>4, <2>2 DEF Mailboxes
    <3> QED BY <1>2, <3>1, FlowDrop DEF Ebb
  <2> QED BY <1>5, <2>1, <2>2
<1>8. CASE m.kind \in {"event", "end"}
  <2> DEFINE p == Msg(IF m.kind = "end" THEN "peerEnd" ELSE "peer", s[2], m.arg)
  <2>1. /\ UNCHANGED handoff
        /\ leg' = IF Fresh(leg[s].seen, m) THEN [leg EXCEPT ![s].seen = m.arg, ![s].out = <<p>>] ELSE leg
    BY <1>8 DEF LegTakes
  <2>2. CASE Fresh(leg[s].seen, m)
    <3>1. p \in Msgs
      <4>1. m.arg \in 1..MaxInputs BY <1>4, <1>8, MessageArgs
      <4>2. s[2] \in 0..MaxAttempts BY Places, Numbers
      <4> HIDE DEF m
      <4> QED BY <4>1, <4>2, Messages
    <3>2. Raw(m) /\ mbox' = [mbox EXCEPT ![s] = Tail(@)] BY <1>6, <1>8 DEF Raw
    <3>3. leg' = [leg EXCEPT ![s].seen = m.arg, ![s].out = <<p>>] BY <2>1, <2>2
    <3> QED BY <1>2, <1>3, <2>1, <2>2, <3>1, <3>2, <3>3, LegAcceptsOnce
  <2>3. CASE ~Fresh(leg[s].seen, m)
    <3>1. leg' = leg BY <2>1, <2>3
    <3> QED BY <1>2, <1>7, <2>1, <3>1, Resting, RestStep
  <2> QED BY <2>2, <2>3
<1>9. CASE m.kind = "target"
  <2>1. leg' = [leg EXCEPT ![s].at = "handed"] /\ handoff' = [handoff EXCEPT ![m.arg].tgt = "ok"]
    BY <1>9 DEF LegTakes
  <2>2. mbox' = [mbox EXCEPT ![s] = Tail(@)] BY <1>6, <1>9
  <2> QED BY <1>2, <1>3, <1>9, <2>1, <2>2, LegAgreesOnce
<1>10. CASE m.kind \notin {"event", "end", "target"}
  <2>1. leg' = [leg EXCEPT ![s] = [NoLeg EXCEPT !.at = "gone"]] /\ UNCHANGED handoff BY <1>10 DEF LegTakes, LegExits
  <2>2. \A t \in Callees : LegRests(t)
    <3>1. leg'[s] = [NoLeg EXCEPT !.at = "gone"] /\ \A t \in Callees : t # s => leg'[t] = leg[t] BY <1>4, <2>1
    <3> QED BY <1>3, <3>1 DEF LegRests, NoLeg
  <2> QED BY <1>2, <1>7, <2>1, <2>2, Resting, RestStep
<1> QED BY <1>8, <1>9, <1>10

\* A callee's actor sends on what it has accepted: behind all that it has sent
\* before, and older than all that it will accept.
LEMMA LegForwardsOnce == ASSUME IInv, EventInv, NEW s \in Callees, LegForwards(s) PROVE EventInv'
<1>0. LoopTypes /\ ActorTypes /\ EventTypes /\ Links BY DEF IInv, Types
<1> DEFINE m == Head(leg[s].out)
           box == <<s[1], Hub>>
<1>1. UNCHANGED <<invite, manager, hub, reg, handoff, traffic>> BY DEF LegForwards
<1>2. UNCHANGED <<invite, sessions, pending, hub, reg, handoff, sent, applied>> BY <1>1 DEF manager, traffic
<1>3. /\ leg[s].at = "running" /\ leg[s].out # << >>
      /\ queue' = queue \/ queue' = Append(queue, Dispatch(box, m))
      /\ \/ leg' = [leg EXCEPT ![s].out = << >>] /\ mbox' = mbox
         \/ leg' = [leg EXCEPT ![s] = [NoLeg EXCEPT !.at = "gone"]] /\ mbox' = [mbox EXCEPT ![s] = << >>]
  BY DEF LegForwards, LegExits
<1>4. leg \in [Callees -> LegRecord] /\ leg[s] \in LegRecord /\ leg[s].out \in Seq(Msgs)
  BY <1>0 DEF ActorTypes, LegRecord
<1>5. m \in Msgs /\ Out(s, m)
  <2>1. Len(leg[s].out) \in Nat /\ Len(leg[s].out) >= 1 /\ m = leg[s].out[1] /\ m \in Msgs BY <1>3, <1>4, TailOf
  <2>2. 1 \in 1..Len(leg[s].out) BY <2>1
  <2> QED BY <2>1, <2>2 DEF Out
<1>6. /\ leg'[s].out = << >>
      /\ \/ leg'[s].at = "gone" /\ leg'[s].seen = 0
         \/ leg'[s].at = leg[s].at /\ leg'[s].seen = leg[s].seen
      /\ \A t \in Callees : t # s => leg'[t] = leg[t]
  <2>1. CASE leg' = [leg EXCEPT ![s].out = << >>]
    <3>1. leg'[s] = [leg[s] EXCEPT !.out = << >>] BY <1>4, <2>1
    <3> QED BY <1>4, <2>1, <3>1 DEF LegRecord
  <2>2. CASE leg' = [leg EXCEPT ![s] = [NoLeg EXCEPT !.at = "gone"]]
    <3>1. leg'[s] = [NoLeg EXCEPT !.at = "gone"] BY <1>4, <2>2
    <3> QED BY <1>4, <2>2, <3>1 DEF NoLeg
  <2> QED BY <1>3, <2>1, <2>2
<1>7. \A t \in Callees : LegRests(t)
  BY <1>3, <1>6 DEF LegRests
<1>8. \A b \in Boxes : mbox'[b] = mbox[b] \/ mbox'[b] = << >>
  <2>1. mbox \in Mailboxes BY MailParts
  <2> QED BY <1>3, <2>1 DEF Mailboxes
<1>9. CASE queue' = queue
  <2>1. Ebb BY <1>8, <1>9, FlowDrop DEF Ebb
  <2> QED BY <1>2, <1>7, <2>1, Resting, RestStep
<1>10. CASE queue' = Append(queue, Dispatch(box, m))
  <2>0. FromLeg(s, m) /\ Peer(m) /\ m.from = s[2] /\ m.from # 0 /\ ~Raw(m) /\ m.kind # "target" /\ box \in Boxes
    <3>1. FromLeg(s, m) BY <1>5 DEF EventInv, Once, PassedOnce
    <3>2. s[2] # 0 BY Places
    <3> QED BY <3>1, <3>2, HubBox DEF FromLeg, Peer, Raw
  <2> HIDE DEF m, box
  <2>1. /\ \A b \in Boxes, x \in Msgs : OnIn(mbox', queue', b, x) => On(b, x) \/ (b = box /\ x = m)
        /\ \A b \in Boxes, x \in Msgs, y \in Msgs : AheadIn(mbox', queue', b, x, y) =>
             Ahead(b, x, y) \/ (b = box /\ y = m /\ On(b, x))
    <3> DEFINE d == Dispatch(box, m)
    <3>1. d \in Letters /\ queue \in Seq(Letters) BY <1>5, <2>0, MailParts, DispatchType
    <3>2. \A b, x : d = Dispatch(b, x) => b = box /\ x = m BY DEF Dispatch
    <3>3. queue' = Append(queue, d) BY <1>10
    <3> HIDE DEF d
    <3>4. /\ \A b \in Boxes, x \in Msgs : OnIn(mbox, Append(queue, d), b, x) => OnIn(mbox, queue, b, x) \/ d = Dispatch(b, x)
          /\ \A b \in Boxes, x \in Msgs, y \in Msgs : AheadIn(mbox, Append(queue, d), b, x, y) =>
               AheadIn(mbox, queue, b, x, y) \/ (d = Dispatch(b, y) /\ OnIn(mbox, queue, b, x))
      BY <3>1, FlowSend
    <3>5. EbbIn(mbox, Append(queue, d), mbox', Append(queue, d)) BY <1>8, FlowDrop
    <3> QED BY <3>2, <3>3, <3>4, <3>5 DEF On, Ahead, EbbIn
  <2>2. Addressed'
    <3> SUFFICES ASSUME NEW b \in Boxes, NEW x \in Msgs, On(b, x)'
                 PROVE  /\ Raw(x) => b \in Sessions /\ x.from = b[2] /\ x.arg <= sent'[b]
                        /\ Peer(x) => b[2] = Hub /\ x.from # 0
                        /\ x.kind = "target" => handoff'[x.arg].state # "none" /\ b = Onto(x.arg)'
      BY DEF Addressed, Raw, Peer
    <3>1. On(b, x) \/ (b = box /\ x = m) BY <2>1 DEF On
    <3>2. CASE On(b, x) BY <1>2, <3>2 DEF EventInv, Shape, Addressed, Onto
    <3>3. CASE b = box /\ x = m
      <4>1. box[2] = Hub BY DEF box
      <4> QED BY <2>0, <3>3, <4>1
    <3> QED BY <3>1, <3>2, <3>3
  <2>3. /\ LegsOK'
        /\ \A h \in Handoffs : Outstanding(h) =>
             /\ leg'[Onto(h)].at # "none"
             /\ handoff[h].tgt = "ok" => leg'[Onto(h)].at = "handed"
             /\ pending'[handoff[h].call] # h => Onto(h) \notin sessions'
    <3>1. \A t \in Callees : leg'[t].at = "none" <=> leg[t].at = "none" BY <1>7 DEF LegRests
    <3>2. \A t \in Callees : leg[t].at \in {"merged", "handed"} => leg'[t].at = leg[t].at BY <1>7 DEF LegRests
    <3> QED BY <1>2, <3>1, <3>2, ShapeOfLegs DEF EventInv
  <2>4. HandoffsRest /\ HubsRest BY <1>2, Resting
  <2>5. TargetsOK'
    <3>1. \A b \in Boxes, h \in Handoffs : OnIn(mbox', queue', b, ReadyRequest(h)) => On(b, ReadyRequest(h))
      <4>1. \A h \in Handoffs : ReadyRequest(h) \in Msgs /\ ReadyRequest(h).kind = "target"
        BY Messages DEF ReadyRequest, Msg
      <4> QED BY <2>0, <2>1, <4>1
    <3> QED BY <2>3, <2>4, <3>1, TargetsKept DEF EventInv
  <2>6. ASSUME NEW t \in Callees
        PROVE  /\ \A x \in Msgs : On(t, x)' => On(t, x)
               /\ \A x, y \in Msgs : Ahead(t, x, y)' => Ahead(t, x, y)
               /\ \A x \in Msgs : Out(t, x)' => Out(t, x)
               /\ \A x \in Msgs : Arriving(t, x)' => Arriving(t, x) \/ (t = s /\ x = m)
               /\ \A x \in Msgs : Passed(t, x)' => Passed(t, x)
               /\ \A x, y \in Msgs : FromLeg(t, x) /\ FromLeg(t, y) /\ Ahead(<<t[1], Hub>>, x, y)'
                    => Ahead(<<t[1], Hub>>, x, y) \/ (t = s /\ y = m /\ Arriving(s, x))
    <3>1. t \in Boxes /\ <<t[1], Hub>> \in Boxes /\ t # box
      <4>1. t[2] \in 1..MaxAttempts /\ box[2] = Hub BY Places DEF box
      <4>2. t[2] # Hub BY <4>1, Numbers
      <4> QED BY <4>1, <4>2, HubBox
    <3>2. \A x \in Msgs : On(t, x)' => On(t, x) BY <2>1, <3>1 DEF On
    <3>3. \A x, y \in Msgs : Ahead(t, x, y)' => Ahead(t, x, y) BY <2>1, <3>1 DEF Ahead
    <3>4. \A x \in Msgs : Out(t, x)' => Out(t, x)
      <4>1. \A i \in 1..Len(<< >>) : FALSE OBVIOUS
      <4> QED BY <1>6, <4>1 DEF Out
    <3>5. <<t[1], Hub>> = box /\ FromLeg(t, m) => t = s
      <4>1. t = <<t[1], t[2]>> /\ s = <<s[1], s[2]>> BY Places
      <4> QED BY <2>0, <4>1 DEF box, FromLeg
    <3>6. \A x \in Msgs : Arriving(t, x)' => Arriving(t, x) \/ (t = s /\ x = m)
      <4> SUFFICES ASSUME NEW x \in Msgs, FromLeg(t, x), On(<<t[1], Hub>>, x)'
                   PROVE  Arriving(t, x) \/ (t = s /\ x = m)
        BY DEF Arriving, FromLeg, Peer
      <4>1. On(<<t[1], Hub>>, x) \/ (<<t[1], Hub>> = box /\ x = m) BY <2>1, <3>1 DEF On
      <4> QED BY <3>5, <4>1 DEF Arriving
    <3>7. \A x \in Msgs : Passed(t, x)' => Passed(t, x) BY <1>5, <3>4, <3>6 DEF Passed
    <3>8. ASSUME NEW x \in Msgs, NEW y \in Msgs, FromLeg(t, x), FromLeg(t, y), Ahead(<<t[1], Hub>>, x, y)'
          PROVE  Ahead(<<t[1], Hub>>, x, y) \/ (t = s /\ y = m /\ Arriving(s, x))
      <4>1. Ahead(<<t[1], Hub>>, x, y) \/ (<<t[1], Hub>> = box /\ y = m /\ On(<<t[1], Hub>>, x))
        BY <2>1, <3>1, <3>8 DEF Ahead
      <4> QED BY <3>5, <3>8, <4>1 DEF Arriving
    <3> QED BY <3>2, <3>3, <3>4, <3>6, <3>7, <3>8
  <2>7. \A t \in Callees : LegQuiet(t) BY <1>0, <1>7, RestIsQuiet
  <2>8. FreshPastHandoff'
    <3> SUFFICES ASSUME NEW t \in Callees, NEW r \in Msgs, Raw(r), On(t, r)', PastHandoff(t, r)'
                 PROVE  r.arg > leg'[t].seen /\ \A x \in Msgs : Raw(x) /\ Ahead(t, x, r)' => x.arg < r.arg
      BY DEF FreshPastHandoff, Raw
    <3>1. \A h \in Handoffs : Ahead(t, ReadyRequest(h), r)' => Ahead(t, ReadyRequest(h), r)
      BY <2>6, Messages DEF ReadyRequest, Msg
    <3>2. PastHandoff(t, r)
      <4>1. leg'[t].at = "merged" => leg[t].at = "merged" BY <2>7 DEF LegQuiet
      <4>2. \/ leg'[t].at = "merged"
            \/ \E h \in Handoffs : /\ Outstanding(h) /\ Onto(h) = t
                                   /\ handoff[h].tgt = "ok" \/ Ahead(t, ReadyRequest(h), r)'
        BY <1>2 DEF PastHandoff, Outstanding, Onto, ReadyRequest, Msg
      <4> QED BY <3>1, <4>1, <4>2 DEF PastHandoff
    <3>3. r.arg > leg[t].seen /\ \A x \in Msgs : Raw(x) /\ Ahead(t, x, r) => x.arg < r.arg
      BY <2>6, <3>2 DEF EventInv, Once, FreshPastHandoff
    <3>4. r.arg \in 1..MaxInputs BY MessageArgs DEF Raw
    <3>5. leg'[t].seen = leg[t].seen \/ leg'[t].seen = 0 BY <2>7 DEF LegQuiet
    <3>6. r.arg > leg'[t].seen BY <3>3, <3>4, <3>5
    <3> QED BY <2>6, <3>3, <3>6
  <2>9. PassedOnce'
    <3> SUFFICES ASSUME NEW t \in Callees
                 PROVE  /\ leg'[t].seen <= sent'[t]
                        /\ \A x \in Msgs : Out(t, x)' => FromLeg(t, x)
                        /\ \A x \in Msgs : Passed(t, x)' =>
                             applied'[t][x.arg] = 0 /\ x.arg <= sent'[t] /\ (Reads(t)' => x.arg <= leg'[t].seen)
                        /\ \A x, y \in Msgs : FromLeg(t, x) /\ FromLeg(t, y) /\ Ahead(<<t[1], Hub>>, x, y)' => x.arg < y.arg
                        /\ \A x, y \in Msgs : Arriving(t, x)' /\ Out(t, y)' => x.arg < y.arg
                        /\ \A k \in 1..MaxInputs : applied'[t][k] # 0 =>
                             k <= sent'[t] /\ (Reads(t)' => k <= leg'[t].seen)
      BY DEF PassedOnce, FromLeg, Peer
    <3>1. Reads(t)' => Reads(t) /\ leg'[t].seen = leg[t].seen BY <2>7 DEF Reads, LegQuiet
    <3>2. leg'[t].seen <= sent'[t]
      <4>1. sent[t] \in 0..MaxInputs BY <1>0, HubBox DEF EventTypes
      <4>2. sent'[t] = sent[t] /\ leg[t].seen <= sent[t] BY <1>2 DEF EventInv, Once, PassedOnce
      <4>3. leg'[t].seen = leg[t].seen \/ leg'[t].seen = 0 BY <2>7 DEF LegQuiet
      <4> QED BY <4>1, <4>2, <4>3, Numbers
    <3>3. \A x, y \in Msgs : Arriving(t, x)' /\ Out(t, y)' => x.arg < y.arg
      <4>1. t = s => \A y \in Msgs : ~Out(t, y)'
        <5>1. \A i \in 1..Len(<< >>) : FALSE OBVIOUS
        <5> QED BY <1>6, <5>1 DEF Out
      <4> QED BY <2>6, <4>1 DEF EventInv, Once, PassedOnce
    <3>4. \A x, y \in Msgs : FromLeg(t, x) /\ FromLeg(t, y) /\ Ahead(<<t[1], Hub>>, x, y)' => x.arg < y.arg
      BY <1>5, <2>6 DEF EventInv, Once, PassedOnce
    <3>5. /\ \A x \in Msgs : Out(t, x)' => FromLeg(t, x)
          /\ \A x \in Msgs : Passed(t, x)' =>
               applied'[t][x.arg] = 0 /\ x.arg <= sent'[t] /\ (Reads(t)' => x.arg <= leg'[t].seen)
          /\ \A k \in 1..MaxInputs : applied'[t][k] # 0 =>
               k <= sent'[t] /\ (Reads(t)' => k <= leg'[t].seen)
      BY <1>2, <2>6, <3>1 DEF EventInv, Once, PassedOnce
    <3> QED BY <3>2, <3>3, <3>4, <3>5
  <2>10. TakenOverOnce'
    <3> SUFFICES ASSUME NEW t \in Callees, NEW r \in Msgs, leg'[t].at = "merged", Raw(r), On(t, r)'
                 PROVE  applied'[t][r.arg] = 0 /\ \A x \in Msgs : Passed(t, x)' => x.arg # r.arg
      BY DEF TakenOverOnce, Raw
    <3>1. leg[t].at = "merged" BY <2>7 DEF LegQuiet
    <3> QED BY <1>2, <2>6, <3>1 DEF EventInv, Once, TakenOverOnce
  <2>11. CallerOnce' /\ EventsOnce' BY <1>2 DEF EventInv, Once, CallerOnce, EventsOnce
  <2> QED BY <2>2, <2>3, <2>5, <2>8, <2>9, <2>10, <2>11 DEF EventInv, Shape, Once
<1> QED BY <1>3, <1>9, <1>10

----------------------------------------------------------------------------
(* The coordinator handles an event *)

\* The coordinator's actor takes the first message of a mailbox.
LEMMA HubTakesFlow ==
  ASSUME IInv, NEW c \in Calls, NEW b \in Boxes, mbox[b] # << >>, NEW n, UNCHANGED queue,
         \/ mbox' = [mbox EXCEPT ![b] = Tail(@)]
         \/ n \in 2..MaxAttempts /\ mbox' = [[mbox EXCEPT ![b] = Tail(@)] EXCEPT ![<<c, n>>] = Append(@, Shutdown)]
  PROVE  /\ Ebb
         /\ Head(mbox[b]).kind \in Tracked =>
              /\ On(b, Head(mbox[b]))
              /\ \A y \in Msgs : OnIn(mbox', queue', b, y) => Ahead(b, Head(mbox[b]), y)
<1> DEFINE mc == [mbox EXCEPT ![b] = Tail(@)]
<1>1. mbox \in Mailboxes /\ queue \in Seq(Letters) BY MailParts
<1>2. /\ EbbIn(mbox, queue, mc, queue)
      /\ Head(mbox[b]).kind \in Tracked =>
           /\ OnIn(mbox, queue, b, Head(mbox[b]))
           /\ \A y \in Msgs : OnIn(mc, queue, b, y) => AheadIn(mbox, queue, b, Head(mbox[b]), y)
  BY <1>1, FlowTake
<1>3. EbbIn(mc, queue, mbox', queue)
  <2>1. mc \in Mailboxes
    <3>1. Tail(mbox[b]) \in Seq(Msgs)
      <4>1. mbox[b] \in Seq(Msgs) BY <1>1 DEF Mailboxes
      <4> QED BY <4>1, TailOf
    <3> QED BY <1>1, <3>1 DEF Mailboxes
  <2>2. CASE mbox' = mc BY <2>2, EbbStill
  <2>3. CASE n \in 2..MaxAttempts /\ mbox' = [[mbox EXCEPT ![b] = Tail(@)] EXCEPT ![<<c, n>>] = Append(@, Shutdown)]
    <3>1. <<c, n>> \in Boxes
      <4>1. n \in 0..MaxAttempts BY <2>3, Numbers
      <4> QED BY <4>1, Places
    <3>2. mbox' = [mc EXCEPT ![<<c, n>>] = Append(@, Shutdown)] BY <2>3
    <3> HIDE DEF mc
    <3> QED BY <2>1, <3>1, <3>2, FlowPutOther, Messages, Others
  <2> QED BY <2>2, <2>3
<1> HIDE DEF mc
<1>4. Ebb BY <1>2, <1>3, EbbTwice DEF Ebb
<1>5. \A y \in Msgs : OnIn(mbox', queue, b, y) => OnIn(mc, queue, b, y) BY <1>3 DEF EbbIn
<1> QED BY <1>2, <1>4, <1>5 DEF On, Ahead

\* An event of a callee is applied that was not applied before and does not
\* come again.
LEMMA CalleeEventOnce ==
  ASSUME IInv, EventInv, Ebb, UNCHANGED <<leg, handoff, sent>>, HubsRest,
         NEW s \in Callees, NEW k \in 1..MaxInputs, applied' = [applied EXCEPT ![s][k] = @ + 1],
         applied[s][k] = 0, k <= sent[s], Reads(s) => k <= leg[s].seen,
         \A x \in Msgs : Passed(s, x)' => x.arg # k,
         leg[s].at = "merged" => \A r \in Msgs : Raw(r) /\ On(s, r)' => r.arg # k
  PROVE  Once'
<1>0. ActorTypes /\ Links /\ EventTypes BY DEF IInv, Types
<1>1. /\ applied'[s][k] = 1
      /\ \A n \in 1..MaxInputs : n # k => applied'[s][n] = applied[s][n]
      /\ \A t \in Sessions : t # s => applied'[t] = applied[t]
  <2>1. applied \in [Sessions -> [1..MaxInputs -> Nat]] /\ s \in Sessions BY <1>0, HubBox DEF EventTypes
  <2> DEFINE a == [applied[s] EXCEPT ![k] = @ + 1]
  <2>2. applied' = [applied EXCEPT ![s] = a] OBVIOUS
  <2>3. applied[s] \in [1..MaxInputs -> Nat] BY <2>1
  <2>6. a[k] = applied[s][k] + 1 /\ \A n \in 1..MaxInputs : n # k => a[n] = applied[s][n] BY <2>3
  <2> HIDE DEF a
  <2>4. a[k] = 1 /\ \A n \in 1..MaxInputs : n # k => a[n] = applied[s][n]
    <3>1. applied[s][k] = 0 OBVIOUS
    <3>2. a[k] = 0 + 1 BY <2>6, <3>1
    <3> QED BY <2>6, <3>2
  <2>5. applied'[s] = a /\ \A t \in Sessions : t # s => applied'[t] = applied[t] BY <2>1, <2>2
  <2> QED BY <2>4, <2>5
<1>2. HandoffsRest /\ Calm BY Resting, EbbIsCalm
<1>3. ASSUME NEW t \in Callees
      PROVE  /\ \A m \in Msgs : Raw(m) /\ On(t, m)' => On(t, m)
             /\ \A m \in Msgs : Out(t, m)' => Out(t, m)
             /\ \A m \in Msgs : Arriving(t, m)' => Arriving(t, m)
             /\ \A m \in Msgs : Passed(t, m)' => Passed(t, m)
             /\ \A x, y \in Msgs : Raw(x) /\ Raw(y) /\ Ahead(t, x, y)' => Ahead(t, x, y)
             /\ \A x, y \in Msgs : FromLeg(t, x) /\ FromLeg(t, y) /\ Ahead(<<t[1], Hub>>, x, y)'
                  => Ahead(<<t[1], Hub>>, x, y)
  BY <1>2, EventFlow
<1>4. FreshPastHandoff'
  <2> SUFFICES ASSUME NEW t \in Callees, NEW r \in Msgs, Raw(r), On(t, r)', PastHandoff(t, r)'
               PROVE  r.arg > leg'[t].seen /\ \A x \in Msgs : Raw(x) /\ Ahead(t, x, r)' => x.arg < r.arg
    BY DEF FreshPastHandoff, Raw
  <2>1. PastHandoff(t, r) BY <1>0, <1>2, PastKept
  <2> QED BY <1>3, <2>1 DEF EventInv, Once, FreshPastHandoff
<1>5. ASSUME NEW t \in Callees, NEW n \in 1..MaxInputs, ~(t = s /\ n = k) PROVE applied'[t][n] = applied[t][n]
  BY <1>1, <1>5, HubBox
<1>6. PassedOnce'
  <2> SUFFICES ASSUME NEW t \in Callees
               PROVE  /\ leg'[t].seen <= sent'[t]
                      /\ \A x \in Msgs : Out(t, x)' => FromLeg(t, x)
                      /\ \A x \in Msgs : Passed(t, x)' =>
                           applied'[t][x.arg] = 0 /\ x.arg <= sent'[t] /\ (Reads(t)' => x.arg <= leg'[t].seen)
                      /\ \A x, y \in Msgs : FromLeg(t, x) /\ FromLeg(t, y) /\ Ahead(<<t[1], Hub>>, x, y)' => x.arg < y.arg
                      /\ \A x, y \in Msgs : Arriving(t, x)' /\ Out(t, y)' => x.arg < y.arg
                      /\ \A n \in 1..MaxInputs : applied'[t][n] # 0 =>
                           n <= sent'[t] /\ (Reads(t)' => n <= leg'[t].seen)
    BY DEF PassedOnce, FromLeg, Peer
  <2>1. Reads(t)' <=> Reads(t) BY DEF Reads
  <2>2. ASSUME NEW x \in Msgs, Passed(t, x)'
        PROVE  applied'[t][x.arg] = 0 /\ x.arg <= sent'[t] /\ (Reads(t)' => x.arg <= leg'[t].seen)
    <3>1. Passed(t, x) BY <1>3, <2>2
    <3>2. x.arg \in 1..MaxInputs
      <4>1. Peer(x) BY <3>1 DEF EventInv, Once, PassedOnce, Passed, Arriving, FromLeg
      <4> QED BY <4>1, MessageArgs DEF Peer
    <3>3. applied[t][x.arg] = 0 /\ x.arg <= sent[t] /\ (Reads(t) => x.arg <= leg[t].seen)
      BY <3>1 DEF EventInv, Once, PassedOnce
    <3>4. ~(t = s /\ x.arg = k) BY <2>2
    <3> QED BY <1>5, <2>1, <3>2, <3>3, <3>4
  <2>3. ASSUME NEW n \in 1..MaxInputs, applied'[t][n] # 0
        PROVE  n <= sent'[t] /\ (Reads(t)' => n <= leg'[t].seen)
    <3>1. CASE t = s /\ n = k BY <2>1, <3>1
    <3>2. CASE ~(t = s /\ n = k) BY <1>5, <2>1, <2>3, <3>2 DEF EventInv, Once, PassedOnce
    <3> QED BY <3>1, <3>2
  <2>4. leg'[t].seen <= sent'[t] BY DEF EventInv, Once, PassedOnce
  <2> QED BY <1>3, <2>2, <2>3, <2>4 DEF EventInv, Once, PassedOnce
<1>7. TakenOverOnce'
  <2> SUFFICES ASSUME NEW t \in Callees, NEW r \in Msgs, leg'[t].at = "merged", Raw(r), On(t, r)'
               PROVE  applied'[t][r.arg] = 0 /\ \A x \in Msgs : Passed(t, x)' => x.arg # r.arg
    BY DEF TakenOverOnce, Raw
  <2>1. On(t, r) /\ leg[t].at = "merged" BY <1>3
  <2>2. applied[t][r.arg] = 0 /\ \A x \in Msgs : Passed(t, x) => x.arg # r.arg
    BY <2>1 DEF EventInv, Once, TakenOverOnce
  <2>3. r.arg \in 1..MaxInputs BY MessageArgs DEF Raw
  <2>4. ~(t = s /\ r.arg = k) BY <2>1
  <2> QED BY <1>3, <1>5, <2>2, <2>3, <2>4
<1>8. CallerOnce'
  <2>1. \A c \in Calls : <<c, 0>> \in Sessions /\ <<c, 0>> # s
    <3>1. s[2] \in 1..MaxAttempts BY Places
    <3>2. s[2] # 0 BY <3>1
    <3> QED BY <3>2, Places, Numbers
  <2>2. \A c \in Calls : applied'[<<c, 0>>] = applied[<<c, 0>>] BY <1>1, <2>1
  <2> QED BY <2>2 DEF EventInv, Once, CallerOnce, HubsRest
<1>9. EventsOnce'
  <2> SUFFICES ASSUME NEW t \in Sessions, NEW n \in 1..MaxInputs PROVE applied'[t][n] <= 1
    BY DEF EventsOnce
  <2>1. CASE t = s /\ n = k BY <1>1, <2>1
  <2>2. CASE ~(t = s /\ n = k) BY <1>1, <2>2 DEF EventInv, Once, EventsOnce
  <2> QED BY <2>1, <2>2
<1> QED BY <1>4, <1>6, <1>7, <1>8, <1>9 DEF Once

\* An event of the caller is applied that is newer than all that were.
LEMMA CallerEventOnce ==
  ASSUME IInv, EventInv, Ebb, UNCHANGED <<leg, handoff, sent>>,
         NEW c \in Calls, NEW k \in 1..MaxInputs, applied' = [applied EXCEPT ![<<c, 0>>][k] = @ + 1],
         k > hub[c].seen, hub[c].sess = 0, hub'[c].sess = 0, hub'[c].seen = k,
         \A d \in Calls : d # c => hub'[d] = hub[d]
  PROVE  Once'
<1>0. ActorTypes /\ Links /\ EventTypes BY DEF IInv, Types
<1>1. <<c, 0>> \in Sessions /\ \A s \in Callees : s \in Sessions /\ s # <<c, 0>>
  <2>1. \A s \in Callees : s[2] \in 1..MaxAttempts BY Places
  <2>2. \A s \in Callees : s[2] # 0 BY <2>1
  <2> QED BY <2>2, Places, Numbers
<1>2. /\ applied'[<<c, 0>>][k] = applied[<<c, 0>>][k] + 1
      /\ \A n \in 1..MaxInputs : n # k => applied'[<<c, 0>>][n] = applied[<<c, 0>>][n]
      /\ \A t \in Sessions : t # <<c, 0>> => applied'[t] = applied[t]
      /\ \A t \in Sessions : \A n \in 1..MaxInputs : applied[t][n] \in Nat
  <2> DEFINE s == <<c, 0>>
             a == [applied[s] EXCEPT ![k] = @ + 1]
  <2>1. applied \in [Sessions -> [1..MaxInputs -> Nat]] /\ s \in Sessions BY <1>0, <1>1 DEF EventTypes
  <2>2. applied' = [applied EXCEPT ![s] = a] OBVIOUS
  <2> HIDE DEF s
  <2>3. applied[s] \in [1..MaxInputs -> Nat] BY <2>1
  <2>4. a[k] = applied[s][k] + 1 /\ \A n \in 1..MaxInputs : n # k => a[n] = applied[s][n] BY <2>3
  <2> HIDE DEF a
  <2>5. applied'[s] = a /\ \A t \in Sessions : t # s => applied'[t] = applied[t] BY <2>1, <2>2
  <2>6. \A t \in Sessions : \A n \in 1..MaxInputs : applied[t][n] \in Nat BY <2>1
  <2> QED BY <2>4, <2>5, <2>6 DEF s
<1>3. \A n \in 1..MaxInputs : applied[<<c, 0>>][n] # 0 => n <= hub[c].seen BY DEF EventInv, Once, CallerOnce
<1>4. hub[c].seen \in Nat BY <1>0 DEF ActorTypes, HubRecord
<1>5. applied[<<c, 0>>][k] = 0 BY <1>3, <1>4
<1>6. \A s \in Callees : applied'[s] = applied[s] BY <1>1, <1>2
<1>7. HandoffsRest /\ Calm BY Resting, EbbIsCalm
<1>8. ASSUME NEW t \in Callees
      PROVE  /\ \A m \in Msgs : Raw(m) /\ On(t, m)' => On(t, m)
             /\ \A m \in Msgs : Out(t, m)' => Out(t, m)
             /\ \A m \in Msgs : Arriving(t, m)' => Arriving(t, m)
             /\ \A m \in Msgs : Passed(t, m)' => Passed(t, m)
             /\ \A x, y \in Msgs : Raw(x) /\ Raw(y) /\ Ahead(t, x, y)' => Ahead(t, x, y)
             /\ \A x, y \in Msgs : FromLeg(t, x) /\ FromLeg(t, y) /\ Ahead(<<t[1], Hub>>, x, y)'
                  => Ahead(<<t[1], Hub>>, x, y)
  BY <1>7, EventFlow
<1>9. FreshPastHandoff'
  <2> SUFFICES ASSUME NEW t \in Callees, NEW r \in Msgs, Raw(r), On(t, r)', PastHandoff(t, r)'
               PROVE  r.arg > leg'[t].seen /\ \A x \in Msgs : Raw(x) /\ Ahead(t, x, r)' => x.arg < r.arg
    BY DEF FreshPastHandoff, Raw
  <2>1. PastHandoff(t, r) BY <1>0, <1>7, PastKept
  <2> QED BY <1>8, <2>1 DEF EventInv, Once, FreshPastHandoff
<1>10. PassedOnce'
  <2> SUFFICES ASSUME NEW t \in Callees
               PROVE  /\ leg'[t].seen <= sent'[t]
                      /\ \A x \in Msgs : Out(t, x)' => FromLeg(t, x)
                      /\ \A x \in Msgs : Passed(t, x)' =>
                           applied'[t][x.arg] = 0 /\ x.arg <= sent'[t] /\ (Reads(t)' => x.arg <= leg'[t].seen)
                      /\ \A x, y \in Msgs : FromLeg(t, x) /\ FromLeg(t, y) /\ Ahead(<<t[1], Hub>>, x, y)' => x.arg < y.arg
                      /\ \A x, y \in Msgs : Arriving(t, x)' /\ Out(t, y)' => x.arg < y.arg
                      /\ \A n \in 1..MaxInputs : applied'[t][n] # 0 =>
                           n <= sent'[t] /\ (Reads(t)' => n <= leg'[t].seen)
    BY DEF PassedOnce, FromLeg, Peer
  <2>1. Reads(t)' <=> Reads(t) BY DEF Reads
  <2> QED BY <1>6, <1>8, <2>1 DEF EventInv, Once, PassedOnce
<1>11. TakenOverOnce'
  <2> SUFFICES ASSUME NEW t \in Callees, NEW r \in Msgs, leg'[t].at = "merged", Raw(r), On(t, r)'
               PROVE  applied'[t][r.arg] = 0 /\ \A x \in Msgs : Passed(t, x)' => x.arg # r.arg
    BY DEF TakenOverOnce, Raw
  <2> QED BY <1>6, <1>8 DEF EventInv, Once, TakenOverOnce
<1>12. CallerOnce'
  <2> SUFFICES ASSUME NEW d \in Calls, hub'[d].sess = 0, NEW n \in 1..MaxInputs, applied'[<<d, 0>>][n] # 0
               PROVE  n <= hub'[d].seen
    BY DEF CallerOnce
  <2>1. CASE d = c
    <3>1. n = k \/ n <= hub[c].seen BY <1>2, <1>3, <2>1
    <3> QED BY <1>4, <2>1, <3>1
  <2>2. CASE d # c
    <3>1. <<d, 0>> \in Sessions /\ <<d, 0>> # <<c, 0>> BY <2>2, Places, Numbers
    <3> QED BY <1>2, <2>2, <3>1 DEF EventInv, Once, CallerOnce
  <2> QED BY <2>1, <2>2
<1>13. EventsOnce'
  <2> SUFFICES ASSUME NEW t \in Sessions, NEW n \in 1..MaxInputs PROVE applied'[t][n] <= 1
    BY DEF EventsOnce
  <2>1. CASE t = <<c, 0>> /\ n = k BY <1>2, <1>5, <2>1
  <2>2. CASE ~(t = <<c, 0>> /\ n = k) BY <1>2, <2>2 DEF EventInv, Once, EventsOnce
  <2> QED BY <2>1, <2>2
<1> QED BY <1>9, <1>10, <1>11, <1>12, <1>13 DEF Once

\* The event that the coordinator applies was not applied before.
LEMMA HubCountsOnce ==
  ASSUME IInv, EventInv, Ebb, NEW c \in Calls, NEW b \in Boxes, NEW m \in Msgs, Event(m),
         b = <<c, hub[c].sess>> \/ b = <<c, Hub>>,
         (m.from = 0 /\ Fresh(hub[c].seen, m)) \/ m.from = hub[c].callee,
         On(b, m), \A y \in Msgs : OnIn(mbox', queue', b, y) => Ahead(b, m, y),
         Count(c, m), UNCHANGED <<leg, handoff, sent>>, \A d \in Calls : d # c => hub'[d] = hub[d],
         hub'[c].sess = hub[c].sess, hub'[c].seen = IF m.from = 0 THEN m.arg ELSE hub[c].seen
  PROVE  Once'
<1>0. ActorTypes /\ Links /\ EventTypes BY DEF IInv, Types
<1> DEFINE k == m.arg
           n == m.from
           s == <<c, n>>
<1>1. k \in 1..MaxInputs /\ n \in 0..MaxAttempts BY MessageArgs DEF Event, Raw, Peer
<1>2. hub[c].sess \in 0..MaxAttempts /\ hub[c].sess # Hub /\ hub[c].callee \in 1..MaxAttempts
      /\ hub[c].callee # 0
  BY <1>0, Numbers DEF ActorTypes, HubRecord
<1>3. /\ Raw(m) => b \in Sessions /\ n = b[2] /\ k <= sent[b]
      /\ Peer(m) => b[2] = Hub /\ n # 0
  BY DEF EventInv, Shape, Addressed
<1>4. applied' = [applied EXCEPT ![s][k] = @ + 1] BY DEF Count
<1>5. /\ Raw(m) => b = s /\ n = hub[c].sess /\ k <= sent[s]
      /\ Peer(m) => b = <<c, Hub>> /\ n # 0
  <2>1. <<c, Hub>> \notin Sessions BY Numbers DEF Sessions
  <2> QED BY <1>2, <1>3, <2>1
<1>6. CASE n = 0
  <2>1. Raw(m) /\ hub[c].sess = 0 BY <1>5, <1>6 DEF Event
  <2>2. k > hub[c].seen BY <1>2, <1>6 DEF Fresh
  <2>3. applied' = [applied EXCEPT ![<<c, 0>>][k] = @ + 1] /\ hub'[c].sess = 0 /\ hub'[c].seen = k
    BY <1>4, <1>6, <2>1
  <2> HIDE DEF k
  <2> QED BY <1>1, <2>1, <2>2, <2>3, CallerEventOnce
<1>7. CASE n # 0
  <2>1. n \in 1..MaxAttempts /\ s \in Callees /\ s[1] = c /\ s[2] = n
    <3>1. n \in 1..MaxAttempts BY <1>1, <1>7, Numbers
    <3> QED BY <3>1, Places
  <2>2. HubsRest BY <1>7 DEF HubsRest
  <2>3. /\ \A x \in Msgs : Raw(x) /\ On(s, x)' => On(s, x)
        /\ \A x \in Msgs : Out(s, x)' => Out(s, x)
        /\ \A x \in Msgs : Passed(s, x)' => Passed(s, x)
    BY <2>1, EbbIsCalm, EventFlow
  <2>4. \A y \in Msgs : On(b, y)' => Ahead(b, m, y) BY DEF On
  <2> HIDE DEF k, n
  <2>5. CASE Raw(m)
    <3>1. b = s /\ n = hub[c].sess /\ k <= sent[s] BY <1>5, <2>5
    <3>2. leg[s].at = "merged" BY <1>7, <3>1 DEF EventInv, Shape, LegsOK
    <3>3. applied[s][k] = 0 /\ \A x \in Msgs : Passed(s, x) => x.arg # k
      BY <2>1, <2>5, <3>1, <3>2 DEF EventInv, Once, TakenOverOnce, k
    <3>4. ASSUME NEW r \in Msgs, Raw(r), On(s, r)' PROVE r.arg # k
      <4>1. Ahead(s, m, r) /\ On(s, r) BY <2>3, <2>4, <3>1, <3>4
      <4>2. PastHandoff(s, r) BY <3>2 DEF PastHandoff
      <4>3. m.arg < r.arg BY <2>1, <2>5, <3>4, <4>1, <4>2 DEF EventInv, Once, FreshPastHandoff
      <4>4. r.arg \in 1..MaxInputs BY <3>4, MessageArgs DEF Raw
      <4> QED BY <1>1, <4>3, <4>4 DEF k
    <3>5. ~Reads(s) BY <3>2 DEF Reads
    <3> HIDE DEF s
    <3> QED BY <1>1, <1>4, <2>1, <2>2, <2>3, <3>1, <3>3, <3>4, <3>5, CalleeEventOnce
  <2>6. CASE Peer(m)
    <3>1. b = <<s[1], Hub>> /\ FromLeg(s, m) BY <1>5, <2>1, <2>6 DEF FromLeg, n
    <3>2. Arriving(s, m) /\ Passed(s, m) BY <3>1 DEF Arriving, Passed
    <3>3. applied[s][k] = 0 /\ k <= sent[s] /\ (Reads(s) => k <= leg[s].seen)
      BY <2>1, <3>2 DEF EventInv, Once, PassedOnce, k
    <3>4. ASSUME NEW x \in Msgs, Passed(s, x)' PROVE x.arg # k
      <4>1. CASE Arriving(s, x)'
        <5>1. FromLeg(s, x) /\ On(<<s[1], Hub>>, x)' BY <4>1 DEF Arriving, FromLeg, Peer
        <5>2. Ahead(<<s[1], Hub>>, m, x) BY <2>4, <3>1, <5>1
        <5>3. m.arg < x.arg BY <2>1, <3>1, <5>1, <5>2 DEF EventInv, Once, PassedOnce
        <5>4. x.arg \in 1..MaxInputs BY <5>1, MessageArgs DEF FromLeg, Peer
        <5> QED BY <1>1, <5>3, <5>4 DEF k
      <4>2. CASE Out(s, x)'
        <5>1. Out(s, x) BY <2>3, <4>2
        <5>2. m.arg < x.arg /\ FromLeg(s, x) BY <2>1, <3>2, <5>1 DEF EventInv, Once, PassedOnce
        <5>3. x.arg \in 1..MaxInputs BY <5>2, MessageArgs DEF FromLeg, Peer
        <5> QED BY <1>1, <5>2, <5>3 DEF k
      <4> QED BY <3>4, <4>1, <4>2 DEF Passed
    <3>5. ASSUME leg[s].at = "merged", NEW r \in Msgs, Raw(r), On(s, r)' PROVE r.arg # k
      BY <2>1, <2>3, <3>2, <3>5 DEF EventInv, Once, TakenOverOnce, k
    <3> HIDE DEF s
    <3> QED BY <1>1, <1>4, <2>1, <2>2, <3>3, <3>4, <3>5, CalleeEventOnce
  <2> QED BY <2>5, <2>6 DEF Event
<1> QED BY <1>6, <1>7

\* A hand-over's source answers.
LEMMA SourceAnswers ==
  ASSUME IInv, NEW i \in Handoffs, NEW a, handoff' = [handoff EXCEPT ![i].src = a]
  PROVE  HandoffsRest
<1>1. handoff \in [Handoffs -> HandoffRecord] BY DEF IInv, Types, ActorTypes
<1>2. ASSUME NEW h \in Handoffs
      PROVE  handoff'[h].state = handoff[h].state /\ SameHandoff(handoff'[h], handoff[h])
             /\ handoff'[h].tgt = handoff[h].tgt
  <2>1. handoff[h] \in HandoffRecord BY <1>1
  <2>2. CASE h = i
    <3>1. handoff'[h] = [handoff[h] EXCEPT !.src = a] BY <1>1, <2>2
    <3> QED BY <2>1, <3>1 DEF HandoffRecord, SameHandoff
  <2>3. CASE h # i
    <3>1. handoff'[h] = handoff[h] BY <1>1, <2>3
    <3> QED BY <3>1 DEF SameHandoff
  <2> QED BY <2>2, <2>3
<1> QED BY <1>2 DEF HandoffsRest, HandoffsStay, Outstanding

\* The coordinator's actor takes a message.
LEMMA HubTakesOnce == ASSUME IInv, EventInv, NEW c \in Calls, HubTakes(c) PROVE EventInv'
<1>0. LoopTypes /\ ActorTypes /\ MailTypes /\ EventTypes /\ Links BY DEF IInv, Types
<1>1. UNCHANGED <<invite, manager, leg, queue, reg, sent>> BY DEF HubTakes
<1>2. UNCHANGED <<invite, sessions, pending, leg, queue, reg, sent>> BY <1>1 DEF manager
<1>3. hub \in [Calls -> HubRecord] /\ hub[c] \in HubRecord BY <1>0 DEF ActorTypes
<1> DEFINE own == <<c, hub[c].sess>>
           b == IF mbox[own] # << >> THEN own ELSE <<c, Hub>>
           m == Head(mbox[b])
<1>4. b \in Boxes
  <2>1. hub[c].sess \in 0..MaxAttempts BY <1>3 DEF HubRecord
  <2> QED BY <2>1, Places
<1>5. /\ mbox[b] # << >>
      /\ CASE m.kind = "prepare" -> HubPrepares(c, m.arg)
           [] m.kind # "prepare" /\ hub[c].phase = "finalizing" ->
                /\ hub' = [hub EXCEPT ![c].at = IF m.kind \in {"force", "final"} THEN "leaving" ELSE @]
                /\ UNCHANGED <<fin, applied, handoff>>
           [] OTHER -> HubHandles(c, m)
      /\ \/ mbox' = [mbox EXCEPT ![b] = Tail(@)]
         \/ /\ m.kind = "reg" /\ Len(mbox[<<c, m.arg>>]) < MailboxCapacity
            /\ mbox' = [[mbox EXCEPT ![b] = Tail(@)] EXCEPT ![<<c, m.arg>>] = Append(@, Shutdown)]
  BY Zenon DEF HubTakes
<1>6. b = own \/ b = <<c, Hub>> OBVIOUS
<1> HIDE DEF b
<1>7. m \in Msgs
  <2>1. mbox[b] \in Seq(Msgs) BY <1>0, <1>4 DEF MailTypes
  <2> QED BY <1>5, <2>1, TailOf
<1>8. /\ Ebb
      /\ m.kind \in Tracked => On(b, m) /\ \A y \in Msgs : OnIn(mbox', queue', b, y) => Ahead(b, m, y)
  <2>1. m.kind = "reg" => m.arg \in 2..MaxAttempts BY <1>7, MessageArgs
  <2>2. \/ mbox' = [mbox EXCEPT ![b] = Tail(@)]
        \/ /\ m.arg \in 2..MaxAttempts
           /\ mbox' = [[mbox EXCEPT ![b] = Tail(@)] EXCEPT ![<<c, m.arg>>] = Append(@, Shutdown)]
    BY <1>5, <2>1
  <2> DEFINE n == m.arg
  <2>3. \/ mbox' = [mbox EXCEPT ![b] = Tail(@)]
        \/ /\ n \in 2..MaxAttempts
           /\ mbox' = [[mbox EXCEPT ![b] = Tail(@)] EXCEPT ![<<c, n>>] = Append(@, Shutdown)]
    BY <2>2
  <2> HIDE DEF n
  <2> QED BY <1>2, <1>4, <1>5, <2>3, HubTakesFlow
<1> HIDE DEF m
<1>9. ASSUME UNCHANGED applied, HubsRest, HandoffsRest PROVE EventInv'
  BY <1>2, <1>8, <1>9, Resting, RestStep
<1>10. ASSUME NEW h \in HubRecord, hub' = [hub EXCEPT ![c] = h], h.sess = hub[c].sess, h.seen = hub[c].seen,
              UNCHANGED <<applied, handoff>>
       PROVE  EventInv'
  <2>1. HubsRest BY <1>3, <1>10 DEF HubsRest
  <2> QED BY <1>9, <1>10, <2>1, Resting
<1>11. CASE m.kind = "prepare"
  <2>1. m.arg \in Handoffs BY <1>7, <1>11, MessageArgs
  <2>2. HubPrepares(c, m.arg) BY <1>5, <1>11
  <2>3. UNCHANGED applied BY <2>2 DEF HubPrepares
  <2>4. HandoffsRest
    <3>1. PICK a \in Answers : handoff' = [handoff EXCEPT ![m.arg].src = a] BY <2>2 DEF HubPrepares, Answers
    <3> QED BY <2>1, <3>1, SourceAnswers
  <2>5. HubsRest
    <3>1. PICK a : hub' = [hub EXCEPT ![c].at = a] BY <2>2 DEF HubPrepares
    <3>2. hub'[c] = [hub[c] EXCEPT !.at = a] /\ \A d \in Calls : d # c => hub'[d] = hub[d] BY <1>3, <3>1
    <3>3. hub'[c].sess = hub[c].sess /\ hub'[c].seen = hub[c].seen BY <1>3, <3>2 DEF HubRecord
    <3> QED BY <3>2, <3>3 DEF HubsRest
  <2> QED BY <1>9, <2>3, <2>4, <2>5
<1>12. CASE m.kind # "prepare" /\ hub[c].phase = "finalizing"
  <2>1. /\ hub' = [hub EXCEPT ![c].at = IF m.kind \in {"force", "final"} THEN "leaving" ELSE @]
        /\ UNCHANGED <<applied, handoff>>
    BY <1>5, <1>12
  <2>2. HubsRest
    <3>1. PICK a : hub' = [hub EXCEPT ![c].at = a] BY <2>1
    <3>2. hub'[c] = [hub[c] EXCEPT !.at = a] /\ \A d \in Calls : d # c => hub'[d] = hub[d] BY <1>3, <3>1
    <3>3. hub'[c].sess = hub[c].sess /\ hub'[c].seen = hub[c].seen BY <1>3, <3>2 DEF HubRecord
    <3> QED BY <3>2, <3>3 DEF HubsRest
  <2> QED BY <1>9, <2>1, <2>2, Resting
<1>13. CASE m.kind # "prepare" /\ hub[c].phase # "finalizing"
  <2> DEFINE h == hub[c]
  <2>1. HubHandles(c, m) BY <1>5, <1>13
  <2>2. CASE m.kind = "force"
    <3>1. hub' = [hub EXCEPT ![c] = [[h EXCEPT !.at = "leaving"] EXCEPT !.phase = "finalizing"]]
          /\ UNCHANGED <<applied, handoff>>
      BY <2>1, <2>2 DEF HubHandles, BeginFinish
    <3> DEFINE g == [[h EXCEPT !.at = "leaving"] EXCEPT !.phase = "finalizing"]
    <3>2. g \in HubRecord /\ g.sess = h.sess /\ g.seen = h.seen BY <1>3 DEF HubRecord
    <3> HIDE DEF g
    <3> QED BY <1>10, <3>1, <3>2 DEF g
  <2>3. CASE /\ m.kind \in {"event", "end", "peer", "peerEnd"}
             /\ (m.from = 0 /\ Fresh(h.seen, m)) \/ m.from = h.callee
    <3> DEFINE read == IF m.from = 0 THEN [h EXCEPT !.seen = m.arg] ELSE h
               new == IF m.kind \in {"end", "peerEnd"} THEN End(read) ELSE read
    <3>1. hub' = [hub EXCEPT ![c] = new] /\ Count(c, m) /\ UNCHANGED <<fin, handoff>>
      BY <2>1, <2>3, SMTT(30) DEF HubHandles
    <3>2. m.arg \in 1..MaxInputs /\ m.arg \in Nat BY <1>7, <2>3, MessageArgs, Numbers
    <3>3. read \in HubRecord /\ read.sess = h.sess /\ read.seen = IF m.from = 0 THEN m.arg ELSE h.seen
      BY <1>3, <3>2 DEF HubRecord
    <3> HIDE DEF read
    <3>4. new.sess = read.sess /\ new.seen = read.seen BY <3>3 DEF End, HubRecord
    <3> HIDE DEF new
    <3>5. hub'[c] = new /\ \A d \in Calls : d # c => hub'[d] = hub[d] BY <1>3, <3>1
    <3>6. hub'[c].sess = hub[c].sess /\ hub'[c].seen = IF m.from = 0 THEN m.arg ELSE hub[c].seen
      BY <3>3, <3>4, <3>5
    <3>7. Event(m) /\ m.kind \in Tracked BY <2>3 DEF Event, Raw, Peer, Tracked
    <3>8. Once' BY <1>2, <1>4, <1>6, <1>7, <1>8, <2>3, <3>1, <3>5, <3>6, <3>7, HubCountsOnce
    <3>9. Shape'
      <4>1. \A d \in Calls : hub'[d].sess = hub[d].sess BY <3>5, <3>6
      <4> QED BY <1>2, <1>8, <3>1, <4>1, Resting, ShapeKept DEF EventInv
    <3> QED BY <3>8, <3>9 DEF EventInv
  <2>4. CASE m.kind \in {"shutdown", "refused"}
    <3>1. hub' = [hub EXCEPT ![c] = End(h)] /\ UNCHANGED <<applied, handoff>> BY <2>1, <2>4 DEF HubHandles
    <3>2. End(h) \in HubRecord /\ End(h).sess = h.sess /\ End(h).seen = h.seen BY <1>3 DEF End, HubRecord
    <3> QED BY <1>10, <3>1, <3>2
  <2>5. CASE m.kind = "reg" /\ h.phase = "talking"
    <3>1. hub' = [hub EXCEPT ![c].callee = m.arg] /\ UNCHANGED <<applied, handoff>> BY <2>1, <2>5 DEF HubHandles
    <3>2. m.arg \in 1..MaxAttempts BY <1>7, <2>5, MessageArgs, Numbers
    <3> DEFINE g == [h EXCEPT !.callee = m.arg]
    <3>3. g \in HubRecord /\ g.sess = h.sess /\ g.seen = h.seen BY <1>3, <3>2 DEF HubRecord
    <3>4. hub' = [hub EXCEPT ![c] = g] BY <3>1
    <3> HIDE DEF g
    <3> QED BY <1>10, <3>1, <3>3, <3>4
  <2>6. CASE /\ m.kind \notin {"force", "shutdown", "refused"} /\ ~(m.kind = "reg" /\ h.phase = "talking")
             /\ ~(/\ m.kind \in {"event", "end", "peer", "peerEnd"}
                  /\ (m.from = 0 /\ Fresh(h.seen, m)) \/ m.from = h.callee)
    <3>1. UNCHANGED <<hub, fin, applied, handoff>> BY <2>1, <2>6 DEF HubHandles
    <3> QED BY <1>9, <3>1, Resting
  <2> QED BY <2>2, <2>3, <2>4, <2>5, <2>6
<1> QED BY <1>11, <1>12, <1>13

----------------------------------------------------------------------------
(* A hand-over is asked for, and comes to its end *)

\* A hand-over that is asked for is refused, or its request goes behind all
\* that is on its way to the leg.
LEMMA RequestHandoffOnce ==
  ASSUME IInv, EventInv, NEW h \in Handoffs, NEW c \in Calls, NEW target \in 1..MaxAttempts,
         RequestHandoff(h, c, target)
  PROVE  EventInv'
<1>0. LoopTypes /\ ActorTypes /\ EventTypes /\ Links BY DEF IInv, Types
<1>1. UNCHANGED <<invite, sessions, hub, leg, mbox, reg, sent, applied>> /\ handoff[h] = NoHandoff
  BY DEF RequestHandoff
<1>2. handoff[h].state = "none" /\ ~Outstanding(h) BY <1>1 DEF NoHandoff, Outstanding
<1>3. handoff \in [Handoffs -> HandoffRecord] /\ pending \in [Calls -> 0..MaxHandoffs]
  BY <1>0 DEF ActorTypes, LoopTypes
<1>4. CASE handoff' = [handoff EXCEPT ![h].state = "replied"] /\ UNCHANGED <<pending, queue>>
  <2>1. handoff'[h].state = "replied" /\ \A g \in Handoffs : g # h => handoff'[g] = handoff[g]
    BY <1>3, <1>4 DEF HandoffRecord
  <2>2. HandoffsRest BY <1>2, <2>1 DEF HandoffsRest, HandoffsStay, Outstanding, SameHandoff
  <2> QED BY <1>1, <1>4, <2>2, Resting, RestStep
<1>5. CASE /\ CanPrepare(c, target) /\ pending' = [pending EXCEPT ![c] = h]
           /\ handoff' = [handoff EXCEPT ![h] =
                [state |-> "asked", call |-> c, source |-> owner[c].sess, target |-> target,
                 gen |-> owner[c].gen, src |-> "wait", tgt |-> "wait"]]
           /\ queue' = queue \o <<Dispatch(<<c, Hub>>, Msg("prepare", 0, h)),
                                  Dispatch(<<c, target>>, Msg("target", 0, h))>>
  <2> DEFINE new == [state |-> "asked", call |-> c, source |-> owner[c].sess, target |-> target,
                     gen |-> owner[c].gen, src |-> "wait", tgt |-> "wait"]
             t == <<c, target>>
             k == ReadyRequest(h)
  <2>1. handoff'[h] = new /\ (\A g \in Handoffs : g # h => handoff'[g] = handoff[g]) BY <1>3, <1>5
  <2>2. new.state = "asked" /\ new.call = c /\ new.target = target /\ new.tgt = "wait" OBVIOUS
  <2> HIDE DEF new
  <2>3. t \in sessions /\ pending[c] = 0 /\ pending'[c] = h /\ (\A d \in Calls : d # c => pending'[d] = pending[d])
    BY <1>3, <1>5 DEF CanPrepare
  <2>4. t \in Callees /\ t \in Boxes /\ t[1] = c /\ t[2] = target /\ <<c, Hub>> \in Boxes BY Places, HubBox
  <2>5. k \in Msgs /\ k.kind = "target" /\ k.arg = h /\ ~Raw(k) /\ ~Peer(k) BY Messages DEF ReadyRequest, Msg, Raw, Peer
  <2>6. \A b \in Boxes : ~On(b, k)
    <3>1. \A b \in Boxes : On(b, k) => handoff[k.arg].state # "none" BY <2>5 DEF EventInv, Shape, Addressed
    <3> QED BY <1>2, <2>5, <3>1
  <2>7. /\ \A b \in Boxes, m \in Msgs : OnIn(mbox', queue', b, m) => On(b, m) \/ (b = t /\ m = k)
        /\ \A b \in Boxes, x \in Msgs, y \in Msgs : AheadIn(mbox', queue', b, x, y) =>
             Ahead(b, x, y) \/ (b = t /\ y = k)
    <3> DEFINE e == Dispatch(<<c, Hub>>, Msg("prepare", 0, h))
               d == Dispatch(t, k)
               q == Append(queue, e)
    <3>1. e \in Letters /\ e.msg.kind \notin Tracked
      <4>1. Msg("prepare", 0, h) \in Msgs /\ Msg("prepare", 0, h).kind \notin Tracked BY Messages, Others
      <4> QED BY <2>4, <4>1, DispatchType DEF Dispatch
    <3>2. d \in Letters BY <2>4, <2>5, DispatchType
    <3>3. \A b, m : d = Dispatch(b, m) => b = t /\ m = k BY DEF Dispatch
    <3>4. queue' = queue \o <<e, d>> BY <1>5 DEF ReadyRequest
    <3> HIDE DEF e, d, k, t
    <3>5. queue \in Seq(Letters) BY MailParts
    <3>6. queue \o <<e, d>> = Append(q, d) /\ q \in Seq(Letters) BY <3>1, <3>2, <3>5
    <3>7. EbbIn(mbox, queue, mbox, q) BY <3>1, <3>5, FlowSendOther
    <3> HIDE DEF q
    <3>8. /\ \A b \in Boxes, m \in Msgs : OnIn(mbox, Append(q, d), b, m) => OnIn(mbox, q, b, m) \/ d = Dispatch(b, m)
          /\ \A b \in Boxes, x \in Msgs, y \in Msgs : AheadIn(mbox, Append(q, d), b, x, y) =>
               AheadIn(mbox, q, b, x, y) \/ (d = Dispatch(b, y) /\ OnIn(mbox, q, b, x))
      BY <3>2, <3>6, FlowSend
    <3>9. mbox' = mbox /\ queue' = Append(q, d) BY <1>1, <3>4, <3>6
    <3> QED BY <3>3, <3>7, <3>8, <3>9 DEF On, Ahead, EbbIn
  <2> HIDE DEF k
  <2>8. Outstanding(h)' /\ Onto(h)' = t
    BY <2>1, <2>2 DEF Outstanding, Onto
  <2>9. \A g \in Handoffs : g # h => (Outstanding(g)' <=> Outstanding(g)) /\ Onto(g)' = Onto(g)
    BY <2>1 DEF Outstanding, Onto
  <2> HIDE DEF t
  <2>10. Addressed'
    <3> SUFFICES ASSUME NEW b \in Boxes, NEW m \in Msgs, On(b, m)'
                 PROVE  /\ Raw(m) => b \in Sessions /\ m.from = b[2] /\ m.arg <= sent'[b]
                        /\ Peer(m) => b[2] = Hub /\ m.from # 0
                        /\ m.kind = "target" => handoff'[m.arg].state # "none" /\ b = Onto(m.arg)'
      BY DEF Addressed, Raw, Peer
    <3>1. On(b, m) \/ (b = t /\ m = k) BY <2>7 DEF On
    <3>2. CASE On(b, m)
      <4>1. /\ Raw(m) => b \in Sessions /\ m.from = b[2] /\ m.arg <= sent[b]
            /\ Peer(m) => b[2] = Hub /\ m.from # 0
            /\ m.kind = "target" => handoff[m.arg].state # "none" /\ b = Onto(m.arg)
        BY <3>2 DEF EventInv, Shape, Addressed
      <4>2. ASSUME m.kind = "target" PROVE handoff'[m.arg].state # "none" /\ b = Onto(m.arg)'
        <5>1. m.arg \in Handoffs /\ m.arg # h BY <1>2, <4>1, <4>2, MessageArgs
        <5>2. handoff'[m.arg] = handoff[m.arg] /\ Onto(m.arg)' = Onto(m.arg) BY <2>1, <2>9, <5>1
        <5> QED BY <4>1, <4>2, <5>2
      <4> QED BY <1>1, <4>1, <4>2
    <3>3. CASE b = t /\ m = k
      <4>1. handoff'[m.arg].state # "none" /\ b = Onto(m.arg)' BY <2>1, <2>2, <2>5, <2>8, <3>3
      <4> QED BY <2>5, <3>3, <4>1
    <3> QED BY <3>1, <3>2, <3>3
  <2>11. LegsOK' BY <1>1 DEF EventInv, Shape, LegsOK
  <2>12. \A g \in Handoffs : Outstanding(g) /\ handoff[g].call = c => Onto(g) # t
    <3>1. ASSUME NEW g \in Handoffs, Outstanding(g), handoff[g].call = c PROVE Onto(g) # t
      <4>1. pending[handoff[g].call] # g BY <2>3, <3>1 DEF Handoffs
      <4>2. Onto(g) \notin sessions BY <3>1, <4>1 DEF EventInv, Shape, TargetsOK
      <4> QED BY <2>3, <4>2
    <3> QED BY <3>1
  <2>13. TargetsOK'
    <3>1. ASSUME NEW g \in Handoffs, g # h, Outstanding(g)' PROVE Onto(g)' # t
      <4>1. Outstanding(g) /\ Onto(g)' = Onto(g) BY <2>9, <3>1
      <4>2. handoff[g].call = c \/ Onto(g) # t BY <2>4 DEF Onto, t
      <4> QED BY <2>12, <4>1, <4>2
    <3>2. ASSUME NEW f \in Handoffs, NEW g \in Handoffs, Outstanding(f)', Outstanding(g)', Onto(f)' = Onto(g)'
          PROVE  f = g
      <4>1. CASE f = h \/ g = h BY <2>8, <3>1, <3>2, <4>1
      <4>2. CASE f # h /\ g # h BY <2>9, <3>2, <4>2 DEF EventInv, Shape, TargetsOK
      <4> QED BY <4>1, <4>2
    <3>3. ASSUME NEW g \in Handoffs, Outstanding(g)'
          PROVE  /\ leg'[Onto(g)'].at # "none"
                 /\ pending'[handoff'[g].call] # g => Onto(g)' \notin sessions'
                 /\ handoff'[g].tgt = "ok" => leg'[Onto(g)'].at = "handed"
                 /\ handoff'[g].tgt = "failed" => ~On(Onto(g), ReadyRequest(g))'
      <4>1. CASE g = h
        <5>1. leg[t].at # "none" BY <2>3, <2>4 DEF EventInv, Shape, LegsOK
        <5> QED BY <1>1, <2>1, <2>2, <2>3, <2>8, <4>1, <5>1
      <4>2. CASE g # h
        <5>1. Outstanding(g) /\ Onto(g)' = Onto(g) /\ handoff'[g] = handoff[g] BY <2>1, <2>9, <3>3, <4>2
        <5>2. /\ leg[Onto(g)].at # "none"
              /\ pending[handoff[g].call] # g => Onto(g) \notin sessions
              /\ handoff[g].tgt = "ok" => leg[Onto(g)].at = "handed"
              /\ handoff[g].tgt = "failed" => ~On(Onto(g), ReadyRequest(g))
          BY <5>1 DEF EventInv, Shape, TargetsOK
        <5>3. handoff[g].call \in Calls /\ Onto(g) \in Boxes BY <1>0, <5>1, OntoCallee, HubBox
        <5>4. pending'[handoff[g].call] # g => pending[handoff[g].call] # g BY <2>3, <5>3 DEF Handoffs
        <5>5. ASSUME handoff[g].tgt = "failed" PROVE ~On(Onto(g), ReadyRequest(g))'
          <6>1. ReadyRequest(g) \in Msgs /\ ReadyRequest(g) # k
            <7>1. ReadyRequest(g) \in Msgs /\ ReadyRequest(g).arg = g BY Messages DEF ReadyRequest, Msg
            <7> QED BY <2>5, <4>2, <7>1
          <6>2. ~OnIn(mbox', queue', Onto(g), ReadyRequest(g)) BY <2>7, <5>2, <5>3, <5>5, <6>1
          <6> QED BY <5>1, <6>2 DEF On, ReadyRequest, Msg
        <5> QED BY <1>1, <5>1, <5>2, <5>4, <5>5
      <4> QED BY <4>1, <4>2
    <3> QED BY <3>2, <3>3 DEF TargetsOK
  <2>14. Once'
    <3>1. Calm BY <2>5, <2>7 DEF Calm, Event
    <3>2. \A s \in Callees : LegQuiet(s) BY <1>1 DEF LegQuiet, Reads
    <3>3. ASSUME NEW s \in Callees, NEW r \in Msgs, Raw(r), On(s, r)', PastHandoff(s, r)'
          PROVE  PastHandoff(s, r)
      <4>0. s \in Boxes /\ r # k BY <2>5, <3>3, HubBox
      <4>1. \/ leg'[s].at = "merged"
            \/ \E g \in Handoffs : /\ Outstanding(g)' /\ Onto(g)' = s
                                   /\ handoff'[g].tgt = "ok" \/ Ahead(s, ReadyRequest(g), r)'
        BY <3>3 DEF PastHandoff, ReadyRequest, Msg
      <4>2. CASE leg'[s].at = "merged" BY <1>1, <4>2 DEF PastHandoff
      <4>3. ASSUME NEW g \in Handoffs, Outstanding(g)', Onto(g)' = s,
                   handoff'[g].tgt = "ok" \/ Ahead(s, ReadyRequest(g), r)'
            PROVE  PastHandoff(s, r)
        <5>1. Ahead(s, ReadyRequest(g), r)' => Ahead(s, ReadyRequest(g), r)
          <6>1. ReadyRequest(g) \in Msgs BY Messages DEF ReadyRequest
          <6> QED BY <2>7, <4>0, <6>1 DEF Ahead, ReadyRequest, Msg
        <5>2. CASE g = h
          <6>1. Ahead(s, ReadyRequest(h), r) BY <2>1, <2>2, <4>3, <5>1, <5>2
          <6>2. On(s, k) BY <6>1, AheadIsOn DEF Ahead, On, k
          <6> QED BY <2>6, <4>0, <6>2
        <5>3. CASE g # h
          <6>1. Outstanding(g) /\ Onto(g) = s /\ handoff'[g] = handoff[g] BY <2>1, <2>9, <4>3, <5>3
          <6> QED BY <4>3, <5>1, <6>1 DEF PastHandoff
        <5> QED BY <5>2, <5>3
      <4> QED BY <4>1, <4>2, <4>3
    <3>4. HubsRest BY <1>1, Resting
    <3> QED BY <1>1, <3>1, <3>2, <3>3, <3>4, OnceKept DEF EventInv
  <2> QED BY <2>10, <2>11, <2>13, <2>14 DEF EventInv, Shape
<1> QED BY <1>4, <1>5 DEF RequestHandoff

\* A hand-over is over.
LEMMA HandoffReplied ==
  ASSUME IInv, NEW h \in Handoffs, handoff' = [handoff EXCEPT ![h].state = "replied"]
  PROVE  HandoffsRest /\ ~Outstanding(h)' /\ \A g \in Handoffs : g # h => handoff'[g] = handoff[g]
<1>1. handoff \in [Handoffs -> HandoffRecord] /\ handoff[h] \in HandoffRecord BY DEF IInv, Types, ActorTypes
<1>2. handoff'[h] = [handoff[h] EXCEPT !.state = "replied"] /\ \A g \in Handoffs : g # h => handoff'[g] = handoff[g]
  BY <1>1
<1>3. handoff'[h].state = "replied" /\ SameHandoff(handoff'[h], handoff[h]) BY <1>1, <1>2 DEF HandoffRecord, SameHandoff
<1> QED BY <1>2, <1>3 DEF HandoffsRest, HandoffsStay, Outstanding, SameHandoff

\* recover_actors: the leg reads on where it stopped.
LEMMA RecoverOnce ==
  ASSUME IInv, EventInv, NEW h \in Handoffs, Outstanding(h), Recover(h),
         handoff' = [handoff EXCEPT ![h].state = "replied"],
         UNCHANGED <<invite, sessions, mbox, queue, reg, sent, applied>>,
         \A d \in Calls : pending'[d] = pending[d] \/ pending[d] = h
  PROVE  EventInv'
<1>0. LoopTypes /\ ActorTypes /\ Links BY DEF IInv, Types
<1> DEFINE c == handoff[h].call
           t == <<c, handoff[h].target>>
<1>1. c \in Calls /\ t \in Callees /\ t = Onto(h) BY <1>0, OntoCallee DEF Onto
<1>2. /\ hub' = (IF handoff[h].src = "ok" THEN [hub EXCEPT ![c].at = "running", ![c].told = FALSE] ELSE hub)
      /\ leg' = (IF handoff[h].tgt = "ok" THEN [leg EXCEPT ![t].at = "running"] ELSE leg)
  BY DEF Recover
<1>3. handoff[h].tgt = "ok" => leg[t].at = "handed" BY <1>1 DEF EventInv, Shape, TargetsOK
<1>4. hub \in [Calls -> HubRecord] /\ leg \in [Callees -> LegRecord] BY <1>0 DEF ActorTypes
<1> HIDE DEF c, t
<1>5. /\ LegRests(t) \/ (LegStarts(t) /\ leg'[t].at = "running" /\ leg[t].at = "handed")
      /\ \A s \in Callees : s # t => leg'[s] = leg[s]
  <2>1. leg[t] \in LegRecord BY <1>1, <1>4
  <2>2. CASE handoff[h].tgt = "ok"
    <3>1. leg'[t] = [leg[t] EXCEPT !.at = "running"] /\ \A s \in Callees : s # t => leg'[s] = leg[s]
      BY <1>1, <1>2, <1>4, <2>2
    <3> QED BY <1>3, <2>1, <2>2, <3>1 DEF LegStarts, LegRecord
  <2>3. CASE handoff[h].tgt # "ok" BY <1>2, <2>3 DEF LegRests
  <2> QED BY <2>2, <2>3
<1>6. HubsRest
  <2>1. hub' = hub \/ hub' = [hub EXCEPT ![c].at = "running", ![c].told = FALSE] BY <1>2
  <2>2. hub[c] \in HubRecord BY <1>1, <1>4
  <2>3. \A d \in Calls : d # c => hub'[d] = hub[d] BY <1>4, <2>1
  <2>4. hub'[c] = hub[c] \/ hub'[c] = [hub[c] EXCEPT !.at = "running", !.told = FALSE] BY <1>1, <1>4, <2>1
  <2>5. hub'[c].sess = hub[c].sess /\ hub'[c].seen = hub[c].seen BY <2>2, <2>4 DEF HubRecord
  <2> QED BY <2>3, <2>5 DEF HubsRest
<1>7. HandoffsRest /\ ~Outstanding(h)' /\ \A g \in Handoffs : g # h => handoff'[g] = handoff[g] BY HandoffReplied
<1>8. Ebb BY Resting
<1>9. Once'
  <2>1. \A s \in Callees : LegRests(s) \/ LegStarts(s) BY <1>5 DEF LegRests
  <2> QED BY <1>6, <1>7, <1>8, <2>1, OnceRests DEF EventInv
<1>10. Addressed' BY <1>0, <1>7, <1>8, AddressedKept DEF EventInv, HandoffsRest
<1>11. \A s \in Callees : /\ leg'[s].at = "none" <=> leg[s].at = "none"
                          /\ leg[s].at = "merged" => leg'[s].at = leg[s].at
  BY <1>5 DEF LegRests
<1>12. LegsOK'
  <2>1. ASSUME NEW s \in Callees, s \in sessions' PROVE leg'[s].at # "none"
    BY <1>11, <2>1 DEF EventInv, Shape, LegsOK
  <2>2. ASSUME NEW d \in Calls, reg'[d].attempt # 0 PROVE leg'[<<d, reg'[d].attempt>>].at = "none"
    <3>1. reg[d] \in RegRecord /\ reg[d].attempt # 0 BY <1>0, <2>2 DEF ActorTypes
    <3>2. reg[d].attempt \in 1..MaxAttempts BY <3>1, Numbers DEF RegRecord
    <3> QED BY <1>11, <3>1, <3>2, Places DEF EventInv, Shape, LegsOK
  <2>3. ASSUME NEW d \in Calls, invite'[d] # "call" PROVE \A n \in 1..MaxAttempts : leg'[<<d, n>>].at = "none"
    BY <1>11, <2>3, Places DEF EventInv, Shape, LegsOK
  <2>4. ASSUME NEW d \in Calls, hub'[d].sess # 0 PROVE leg'[<<d, hub'[d].sess>>].at = "merged"
    <3>1. hub[d] \in HubRecord /\ hub[d].sess # 0 /\ hub'[d].sess = hub[d].sess BY <1>4, <1>6, <2>4 DEF HubsRest
    <3>2. hub[d].sess \in 1..MaxAttempts BY <3>1, Numbers DEF HubRecord
    <3>3. leg[<<d, hub[d].sess>>].at = "merged" BY <3>1 DEF EventInv, Shape, LegsOK
    <3> QED BY <1>11, <3>1, <3>2, <3>3, Places
  <2> QED BY <2>1, <2>2, <2>3, <2>4 DEF LegsOK
<1>13. TargetsOK'
  <2>1. ASSUME NEW g \in Handoffs, Outstanding(g), Outstanding(g)'
        PROVE  /\ leg'[Onto(g)].at # "none"
               /\ handoff[g].tgt = "ok" => leg'[Onto(g)].at = "handed"
               /\ pending'[handoff[g].call] # g => Onto(g) \notin sessions'
    <3>1. g # h BY <1>7, <2>1
    <3>2. Onto(g) # t BY <1>1, <2>1, <3>1 DEF EventInv, Shape, TargetsOK
    <3>3. Onto(g) \in Callees /\ handoff[g].call \in Calls BY <1>0, <2>1, OntoCallee
    <3>4. leg'[Onto(g)] = leg[Onto(g)] BY <1>5, <3>2, <3>3
    <3>5. pending'[handoff[g].call] # g => pending[handoff[g].call] # g BY <3>1, <3>3
    <3> QED BY <2>1, <3>4, <3>5 DEF EventInv, Shape, TargetsOK
  <2> QED BY <1>7, <1>8, <2>1, TargetsKept, Messages DEF EventInv, Ebb, EbbIn, On, ReadyRequest
<1> QED BY <1>9, <1>10, <1>12, <1>13 DEF EventInv, Shape

\* Both replies are in.
LEMMA AwaitReadinessOnce == ASSUME IInv, EventInv, NEW h \in Handoffs, AwaitReadiness(h) PROVE EventInv'
<1>1. UNCHANGED <<invite, manager, mbox, queue, reg, fin, finished, loop, shutdown, traffic>> BY DEF AwaitReadiness
<1>2. UNCHANGED <<invite, sessions, pending, mbox, queue, reg, sent, applied>> BY <1>1 DEF manager, traffic
<1>3. Outstanding(h) BY DEF AwaitReadiness, Outstanding
<1>4. CASE handoff' = [handoff EXCEPT ![h].state = "replied"] /\ Recover(h) BY <1>2, <1>3, <1>4, RecoverOnce
<1>5. CASE handoff' = [handoff EXCEPT ![h].state = "ready"] /\ UNCHANGED <<hub, leg>>
  <2>1. handoff \in [Handoffs -> HandoffRecord] /\ handoff[h] \in HandoffRecord BY DEF IInv, Types, ActorTypes
  <2>2. handoff'[h] = [handoff[h] EXCEPT !.state = "ready"] /\ \A g \in Handoffs : g # h => handoff'[g] = handoff[g]
    BY <1>5, <2>1
  <2>3. handoff'[h].state = "ready" /\ SameHandoff(handoff'[h], handoff[h]) /\ handoff'[h].tgt = handoff[h].tgt
    BY <2>1, <2>2 DEF HandoffRecord, SameHandoff
  <2>4. HandoffsRest BY <1>3, <2>2, <2>3 DEF HandoffsRest, HandoffsStay, Outstanding, SameHandoff
  <2> QED BY <1>2, <1>5, <2>4, Resting, RestStep
<1> QED BY <1>4, <1>5 DEF AwaitReadiness

\* A hand-over is committed: the coordinator reads on in the leg's mailbox,
\* where everything is newer than what the leg has seen; or it is aborted.
LEMMA CompleteHandoffOnce == ASSUME IInv, EventInv, NEW h \in Handoffs, CompleteHandoff(h) PROVE EventInv'
<1>0. LoopTypes /\ ActorTypes /\ MailTypes /\ EventTypes /\ Links BY DEF IInv, Types
<1>1. UNCHANGED <<invite, queue, reg, traffic>> BY DEF CompleteHandoff
<1>2. UNCHANGED <<invite, queue, reg, sent, applied>> BY <1>1 DEF traffic
<1> DEFINE c == handoff[h].call
           source == <<c, handoff[h].source>>
           t == <<c, handoff[h].target>>
<1>3. Outstanding(h) /\ handoff' = [handoff EXCEPT ![h].state = "replied"] BY DEF CompleteHandoff, Ready, Outstanding
<1>4. c \in Calls /\ handoff[h].target \in 1..MaxAttempts /\ t \in Callees /\ t = Onto(h)
  BY <1>0, <1>3, OntoCallee DEF Onto
<1>5. HandoffsRest /\ ~Outstanding(h)' /\ \A g \in Handoffs : g # h => handoff'[g] = handoff[g]
  BY <1>3, HandoffReplied
<1>6. /\ hub \in [Calls -> HubRecord] /\ leg \in [Callees -> LegRecord] /\ mbox \in [Boxes -> Seq(Msgs)]
      /\ pending \in [Calls -> 0..MaxHandoffs]
  BY <1>0 DEF LoopTypes, ActorTypes, MailTypes
<1>7. CASE /\ pending' = [pending EXCEPT ![c] = IF @ = h THEN 0 ELSE @] /\ Recover(h)
           /\ UNCHANGED <<owner, sessions, mbox>>
  <2>1. \A d \in Calls : pending'[d] = pending[d] \/ pending[d] = h BY <1>4, <1>6, <1>7
  <2> QED BY <1>2, <1>3, <1>7, <2>1, RecoverOnce
<1>8. CASE /\ handoff[h].tgt = "ok" /\ CanCommit(h)
           /\ sessions' = sessions \ {source} /\ pending' = [pending EXCEPT ![c] = 0]
           /\ hub' = [hub EXCEPT ![c] = Installed(h)] /\ leg' = [leg EXCEPT ![t] = [NoLeg EXCEPT !.at = "merged"]]
           /\ mbox' = [mbox EXCEPT ![source] = << >>]
  <2>1. leg[t].at = "handed" /\ leg[t].seen \in Nat /\ Reads(t)
    <3>1. leg[t].at = "handed" BY <1>3, <1>4, <1>8 DEF EventInv, Shape, TargetsOK
    <3>2. leg[t] \in LegRecord BY <1>4, <1>6
    <3> QED BY <3>1, <3>2 DEF LegRecord, Reads
  <2>2. hub'[c].sess = handoff[h].target /\ \A d \in Calls : d # c => hub'[d] = hub[d]
    <3>1. hub'[c] = Installed(h) /\ \A d \in Calls : d # c => hub'[d] = hub[d] BY <1>4, <1>6, <1>8
    <3>2. hub[c] \in HubRecord BY <1>4, <1>6
    <3> QED BY <3>1, <3>2 DEF Installed, HubRecord
  <2>3. pending[c] = h /\ \A d \in Calls : d # c => pending'[d] = pending[d] BY <1>4, <1>6, <1>8 DEF CanCommit
  <2>4. /\ leg'[t].at = "merged" /\ leg'[t].seen = 0 /\ leg'[t].out = << >>
        /\ \A s \in Callees : s # t => leg'[s] = leg[s]
    <3>1. leg'[t] = [NoLeg EXCEPT !.at = "merged"] BY <1>4, <1>6, <1>8
    <3> QED BY <1>4, <1>6, <1>8, <3>1 DEF NoLeg
  <2>5. sessions' \subseteq sessions BY <1>8
  <2>6. Ebb
    <3>1. \A b \in Boxes : mbox'[b] = mbox[b] \/ mbox'[b] = << >> BY <1>6, <1>8
    <3> QED BY <1>2, <3>1, FlowDrop DEF Ebb
  <2>7. handoff[h].target # 0 /\ h # 0 BY <1>4 DEF Handoffs
  <2> HIDE DEF c, source, t
  <2>9. Addressed' BY <1>0, <1>2, <1>5, <2>6, AddressedKept DEF EventInv, HandoffsRest
  <2>10. LegsOK'
    <3>1. ASSUME NEW s \in Callees, s \in sessions' PROVE leg'[s].at # "none"
      BY <2>4, <2>5, <3>1 DEF EventInv, Shape, LegsOK
    <3>2. ASSUME NEW d \in Calls, reg'[d].attempt # 0 PROVE leg'[<<d, reg'[d].attempt>>].at = "none"
      <4>1. reg[d] \in RegRecord /\ reg[d].attempt # 0 /\ reg' = reg BY <1>0, <1>2, <3>2 DEF ActorTypes
      <4>2. reg[d].attempt \in 1..MaxAttempts BY <4>1, Numbers DEF RegRecord
      <4>3. leg[<<d, reg[d].attempt>>].at = "none" BY <4>1 DEF EventInv, Shape, LegsOK
      <4>4. <<d, reg[d].attempt>> \in Callees /\ <<d, reg[d].attempt>> # t BY <2>1, <4>2, <4>3, Places
      <4> QED BY <2>4, <4>1, <4>3, <4>4
    <3>3. ASSUME NEW d \in Calls, invite'[d] # "call", NEW n \in 1..MaxAttempts PROVE leg'[<<d, n>>].at = "none"
      <4>1. leg[<<d, n>>].at = "none" /\ <<d, n>> \in Callees
        BY <1>2, <3>3, Places DEF EventInv, Shape, LegsOK
      <4>2. <<d, n>> # t BY <2>1, <4>1
      <4> QED BY <2>4, <4>1, <4>2
    <3>4. ASSUME NEW d \in Calls, hub'[d].sess # 0 PROVE leg'[<<d, hub'[d].sess>>].at = "merged"
      <4>1. CASE d = c BY <2>2, <2>4, <4>1 DEF t
      <4>2. CASE d # c
        <5>1. hub[d] \in HubRecord /\ hub[d].sess # 0 /\ hub'[d].sess = hub[d].sess BY <1>6, <2>2, <3>4, <4>2
        <5>2. hub[d].sess \in 1..MaxAttempts BY <5>1, Numbers DEF HubRecord
        <5>3. leg[<<d, hub[d].sess>>].at = "merged" BY <5>1 DEF EventInv, Shape, LegsOK
        <5>4. <<d, hub[d].sess>> \in Callees /\ <<d, hub[d].sess>> # t BY <2>1, <5>2, <5>3, Places
        <5> QED BY <2>4, <5>1, <5>3, <5>4
      <4> QED BY <4>1, <4>2
    <3> QED BY <3>1, <3>2, <3>3, <3>4 DEF LegsOK
  <2>11. TargetsOK'
    <3>1. ASSUME NEW g \in Handoffs, Outstanding(g), Outstanding(g)'
          PROVE  /\ leg'[Onto(g)].at # "none"
                 /\ handoff[g].tgt = "ok" => leg'[Onto(g)].at = "handed"
                 /\ pending'[handoff[g].call] # g => Onto(g) \notin sessions'
      <4>1. g # h BY <1>5, <3>1
      <4>2. Onto(g) # t BY <1>3, <1>4, <3>1, <4>1 DEF EventInv, Shape, TargetsOK
      <4>3. Onto(g) \in Callees /\ handoff[g].call \in Calls BY <1>0, <3>1, OntoCallee
      <4>4. leg'[Onto(g)] = leg[Onto(g)] BY <2>4, <4>2, <4>3
      <4>5. pending'[handoff[g].call] # g => pending[handoff[g].call] # g BY <2>3, <4>1, <4>3
      <4> QED BY <2>5, <3>1, <4>4, <4>5 DEF EventInv, Shape, TargetsOK
    <3> QED BY <1>5, <2>6, <3>1, TargetsKept, Messages DEF EventInv, Ebb, EbbIn, On, ReadyRequest
  <2>12. ASSUME NEW s \in Callees
         PROVE  /\ \A m \in Msgs : Raw(m) /\ On(s, m)' => On(s, m)
                /\ \A m \in Msgs : Out(s, m)' => Out(s, m)
                /\ \A m \in Msgs : Arriving(s, m)' => Arriving(s, m)
                /\ \A m \in Msgs : Passed(s, m)' => Passed(s, m)
                /\ \A x, y \in Msgs : Raw(x) /\ Raw(y) /\ Ahead(s, x, y)' => Ahead(s, x, y)
                /\ \A x, y \in Msgs : FromLeg(s, x) /\ FromLeg(s, y) /\ Ahead(<<s[1], Hub>>, x, y)'
                     => Ahead(<<s[1], Hub>>, x, y)
    <3>1. leg'[s].out = leg[s].out \/ leg'[s].out = << >> BY <2>4
    <3> QED BY <2>6, <3>1, EbbIsCalm, EventFlow
  <2>13. ASSUME NEW r \in Msgs, Raw(r), On(t, r)
         PROVE  /\ r.arg > leg[t].seen /\ r.arg \in 1..MaxInputs
                /\ \A x \in Msgs : Raw(x) /\ Ahead(t, x, r) => x.arg < r.arg
    <3>1. PastHandoff(t, r) BY <1>3, <1>4, <1>8 DEF PastHandoff
    <3>2. r.arg \in 1..MaxInputs BY <2>13, MessageArgs DEF Raw
    <3> QED BY <1>4, <2>13, <3>1, <3>2 DEF EventInv, Once, FreshPastHandoff
  <2>14. FreshPastHandoff'
    <3> SUFFICES ASSUME NEW s \in Callees, NEW r \in Msgs, Raw(r), On(s, r)', PastHandoff(s, r)'
                 PROVE  r.arg > leg'[s].seen /\ \A x \in Msgs : Raw(x) /\ Ahead(s, x, r)' => x.arg < r.arg
      BY DEF FreshPastHandoff, Raw
    <3>1. On(s, r) BY <2>12
    <3>2. CASE s = t
      <4>1. r.arg > 0 BY <2>13, <3>1, <3>2
      <4> QED BY <2>4, <2>12, <2>13, <3>1, <3>2, <4>1
    <3>3. CASE s # t
      <4>1. PastHandoff(s, r)
        <5>1. leg'[s].at = "merged" => leg[s].at = "merged" BY <2>4, <3>3
        <5> QED BY <1>0, <1>5, <2>6, <5>1, PastKept
      <4> QED BY <2>4, <2>12, <3>1, <3>3, <4>1 DEF EventInv, Once, FreshPastHandoff
    <3> QED BY <3>2, <3>3
  <2>15. PassedOnce'
    <3> SUFFICES ASSUME NEW s \in Callees
                 PROVE  /\ leg'[s].seen <= sent'[s]
                        /\ \A x \in Msgs : Out(s, x)' => FromLeg(s, x)
                        /\ \A x \in Msgs : Passed(s, x)' =>
                             applied'[s][x.arg] = 0 /\ x.arg <= sent'[s] /\ (Reads(s)' => x.arg <= leg'[s].seen)
                        /\ \A x, y \in Msgs : FromLeg(s, x) /\ FromLeg(s, y) /\ Ahead(<<s[1], Hub>>, x, y)' => x.arg < y.arg
                        /\ \A x, y \in Msgs : Arriving(s, x)' /\ Out(s, y)' => x.arg < y.arg
                        /\ \A n \in 1..MaxInputs : applied'[s][n] # 0 =>
                             n <= sent'[s] /\ (Reads(s)' => n <= leg'[s].seen)
      BY DEF PassedOnce, FromLeg, Peer
    <3>1. CASE s = t
      <4>1. ~Reads(s)' BY <2>4, <3>1 DEF Reads
      <4>2. leg'[s].seen <= sent'[s]
        <5>1. sent[s] \in 0..MaxInputs BY <1>0, HubBox DEF EventTypes
        <5> QED BY <1>2, <2>4, <3>1, <5>1, Numbers
      <4> QED BY <1>2, <2>12, <4>1, <4>2 DEF EventInv, Once, PassedOnce
    <3>2. CASE s # t
      <4>1. leg'[s] = leg[s] /\ (Reads(s)' <=> Reads(s)) BY <2>4, <3>2 DEF Reads
      <4> QED BY <1>2, <2>12, <4>1 DEF EventInv, Once, PassedOnce
    <3> QED BY <3>1, <3>2
  <2>16. TakenOverOnce'
    <3> SUFFICES ASSUME NEW s \in Callees, NEW r \in Msgs, leg'[s].at = "merged", Raw(r), On(s, r)'
                 PROVE  applied'[s][r.arg] = 0 /\ \A x \in Msgs : Passed(s, x)' => x.arg # r.arg
      BY DEF TakenOverOnce, Raw
    <3>1. On(s, r) BY <2>12
    <3>2. CASE s = t
      <4>1. r.arg > leg[s].seen /\ r.arg \in 1..MaxInputs /\ leg[s].seen \in Nat /\ Reads(s)
        BY <2>1, <2>13, <3>1, <3>2
      <4>2. applied[s][r.arg] # 0 => r.arg <= leg[s].seen BY <4>1 DEF EventInv, Once, PassedOnce
      <4>3. ASSUME NEW x \in Msgs, Passed(s, x)' PROVE x.arg # r.arg
        <5>1. x.arg <= leg[s].seen BY <2>12, <4>1, <4>3 DEF EventInv, Once, PassedOnce
        <5> QED BY <4>1, <5>1
      <4> QED BY <1>2, <4>1, <4>2, <4>3
    <3>3. CASE s # t BY <1>2, <2>4, <2>12, <3>1, <3>3 DEF EventInv, Once, TakenOverOnce
    <3> QED BY <3>2, <3>3
  <2>17. CallerOnce'
    <3> SUFFICES ASSUME NEW d \in Calls, hub'[d].sess = 0, NEW n \in 1..MaxInputs, applied'[<<d, 0>>][n] # 0
                 PROVE  n <= hub'[d].seen
      BY DEF CallerOnce
    <3>1. d # c BY <2>2, <2>7
    <3> QED BY <1>2, <2>2, <3>1 DEF EventInv, Once, CallerOnce
  <2>18. EventsOnce' BY <1>2 DEF EventInv, Once, EventsOnce
  <2> QED BY <2>9, <2>10, <2>11, <2>14, <2>15, <2>16, <2>17, <2>18 DEF EventInv, Shape, Once
<1> QED BY <1>7, <1>8 DEF CompleteHandoff

----------------------------------------------------------------------------
(* Events are applied once *)

\* Nothing is under way in the beginning.
LEMMA InitOnce == ASSUME Init PROVE EventInv
<1>0. IInv BY InitInv
<1>1. \A b \in Boxes, m \in Msgs : ~On(b, m)
  <2>1. \A i \in 1..Len(<< >>) : FALSE OBVIOUS
  <2>2. queue = << >> /\ \A b \in Boxes : mbox[b] = << >> BY DEF Init
  <2> QED BY <2>1, <2>2 DEF On, OnIn
<1>2. \A s \in Callees : leg[s] = NoLeg BY DEF Init
<1>3. \A h \in Handoffs : ~Outstanding(h) BY DEF Init, Outstanding, NoHandoff
<1>4. \A s \in Sessions, n \in 1..MaxInputs : applied[s][n] = 0 BY DEF Init
<1>5. Addressed BY <1>1 DEF Addressed
<1>6. LegsOK
  <2>1. sessions = {} /\ \A c \in Calls : reg[c].attempt = 0 /\ hub[c].sess = 0 BY DEF Init, NoReg, NoHub
  <2> QED BY <1>2, <2>1, Places DEF LegsOK, NoLeg
<1>7. TargetsOK BY <1>3 DEF TargetsOK
<1>8. FreshPastHandoff
  <2> SUFFICES ASSUME NEW s \in Callees, NEW r \in Msgs, On(s, r) PROVE FALSE
    BY DEF FreshPastHandoff
  <2> QED BY <1>1, HubBox
<1>9. PassedOnce
  <2> SUFFICES ASSUME NEW s \in Callees
               PROVE  /\ leg[s].seen <= sent[s]
                      /\ \A x \in Msgs : ~Out(s, x) /\ ~Passed(s, x) /\ ~Arriving(s, x)
                      /\ \A x, y \in Msgs : ~Ahead(<<s[1], Hub>>, x, y)
                      /\ \A n \in 1..MaxInputs : applied[s][n] = 0
    BY DEF PassedOnce
  <2>1. leg[s].seen <= sent[s]
    <3>1. sent[s] = 0 /\ leg[s].seen = 0 BY <1>2, HubBox DEF Init, NoLeg
    <3> QED BY <3>1
  <2>2. \A x \in Msgs : ~Out(s, x)
    <3>1. \A i \in 1..Len(<< >>) : FALSE OBVIOUS
    <3>2. leg[s].out = << >> BY <1>2 DEF NoLeg
    <3> QED BY <3>1, <3>2 DEF Out
  <2>3. \A x \in Msgs : ~Arriving(s, x) BY <1>1, HubBox DEF Arriving
  <2>4. \A x, y \in Msgs : ~Ahead(<<s[1], Hub>>, x, y) BY <1>1, HubBox, AheadIsOn DEF Ahead, On
  <2> QED BY <1>4, <2>1, <2>2, <2>3, <2>4, HubBox DEF Passed
<1>10. TakenOverOnce BY <1>2 DEF TakenOverOnce, NoLeg
<1>11. CallerOnce
  <2>1. \A c \in Calls : <<c, 0>> \in Sessions BY Places, Numbers
  <2> QED BY <1>4, <2>1 DEF CallerOnce
<1>12. EventsOnce BY <1>4 DEF EventsOnce
<1> QED BY <1>5, <1>6, <1>7, <1>8, <1>9, <1>10, <1>11, <1>12 DEF EventInv, Shape, Once

\* Every step keeps the invariant, if no event is sent again to a leg that is
\* being, or was, handed over.
LEMMA NextOnce ==
  ASSUME "ResentAfterHandoff" \notin Races, IInv, EventInv, [Next]_vars
  PROVE  EventInv'
<1>1. CASE UNCHANGED vars
  <2>1. UNCHANGED <<invite, sessions, pending, hub, leg, mbox, queue, reg, handoff, sent, applied>>
    BY <1>1 DEF vars, manager, actors, traffic
  <2> QED BY <2>1, Resting, RestStep
<1>2. CASE LoopInput
  BY <1>2, TellOnce, AdmitOnce, DestroyCallOnce, RegisterAttemptOnce, CompleteHandoffOnce DEF LoopInput
<1>3. CASE LoopEnd \/ LeaveLoop \/ RequestShutdown BY <1>3, PhaseOnce, CloseOnce DEF LoopEnd
<1>4. ASSUME NEW c \in Calls, Offer(c) \/ CreateCall(c) \/ HubStep(c) \/ StartAttempt(c) \/ Finalizer(c)
      PROVE  EventInv'
  BY <1>4, InviteOnce, HubTakesOnce, HubEndsOnce, LeaveHubOnce, StartAttemptOnce, FinalizerOnce DEF HubStep
<1>5. ASSUME NEW c \in Calls, NEW h \in Handoffs, NEW n \in 1..MaxAttempts, RequestHandoff(h, c, n)
      PROVE  EventInv'
  BY <1>5, RequestHandoffOnce
<1>6. CASE Deliver BY <1>6, DeliverOnce
<1>7. CASE \E s \in Sessions : LegEvent(s) BY <1>7, LegEventOnce
<1>8. CASE \E s \in Callees : LegActor(s) BY <1>8, LegTakesOnce, LegForwardsOnce, LegLosesMailboxOnce DEF LegActor
<1>9. CASE \E h \in Handoffs : HandoffTask(h) BY <1>9, LoseReplyOnce, AwaitReadinessOnce DEF HandoffTask
<1> QED BY <1>1, <1>2, <1>3, <1>4, <1>5, <1>6, <1>7, <1>8, <1>9 DEF Next

\* LegEventDeduper::accept in the callee's actor, the order of the dispatcher
\* and install_on together: for any calls, attempts, hand-overs, events and
\* queue sizes, through any interleaving of events, hand-overs, aborts, losses
\* and shutdowns, an event changes the call at most once, by the actor of its
\* leg or by the coordinator that took the leg's mailbox over.  Left out are
\* the adapter that sends an event again to a leg that is being, or was, handed
\* over, which nobody checks for duplicates any more, and the hunt after a
\* hand-over.
THEOREM EventsAreAppliedOnce ==
  ASSUME Races \cap {"ResentAfterHandoff", "AttemptAfterHandoff"} = {}
  PROVE  Spec => []EventsOnce
<1>1. "ResentAfterHandoff" \notin Races /\ "AttemptAfterHandoff" \notin Races OBVIOUS
<1>2. Init => IInv /\ EventInv BY InitInv, InitOnce
<1>3. IInv /\ EventInv /\ [Next]_vars => IInv' /\ EventInv' BY <1>1, NextInv, NextOnce
<1>4. EventInv => EventsOnce BY DEF EventInv, Once
<1> QED BY <1>2, <1>3, <1>4, PTL DEF Spec

===============================================================================
