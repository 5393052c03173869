------------------------ MODULE DtmfCollectionProofs ------------------------
(***************************************************************************)
(* Proofs about DtmfCollection.  For any operations, presses, capacities   *)
(* and bounds, and any order of commands, packets, faults and timeouts: an *)
(* outcome is final; leases, the mode and the reports fit together as long *)
(* as the media worker's queue takes the releases; a press counts once.    *)
(***************************************************************************)
EXTENDS DtmfCollection, FiniteSetTheorems, SequenceTheorems, WellFoundedInduction, TLAPS

----------------------------------------------------------------------------
(* The inductive invariant *)

Statuses == Terminal \cup {"none", "forgotten", "pending", "acquiring", "ready", "cancelling"}
Phases == {"none", "acquiring", "active", "releasing"}
Codes == {"none", "Completed", "Timeout", "Cancelled", "Failed"}
Good == {"Completed", "Timeout"}
Messages == [kind : {"start", "cancel"}, op : Ops, mode : Modes]
Jobs == [kind : {"acquire", "release"}, op : Ops, mode : Modes, gen : Nat]
        \cup [kind : {"prepare"}, op : {0}, mode : Modes, gen : Nat]
Outcomes == [kind : {"acquired", "released"}, op : Ops, ok : BOOLEAN]
Digits == [tr : {"rfc", "info"}, gen : Nat, press : Presses]
States == [phase : Phases, mode : Modes, digits : Seq(Presses), cancel : BOOLEAN, code : Codes]
Leases == [state : {"none", "active", "inactive"}, mode : Modes]
Configs == [gen : Nat, mode : {"transparent", "observe", "collect"}]
Workers == [step : {"idle", "gone"}, op : {0}, gen : {0}]
           \cup [step : {"acquiring", "draining", "releasing"}, op : Ops, gen : Nat]

ServiceOK ==
  /\ status \in [Ops -> Statuses] /\ order \in Seq(Ops) /\ Len(order) <= HistoryCapacity
  /\ attached \in BOOLEAN /\ opq \in Seq(Messages) /\ Len(opq) <= OpCapacity
RepliesOK ==
  /\ task \in [Ops -> {"none", "ready", "result", "done"}] /\ ready \in [Ops -> {"wait", "ok", "err"}]
  /\ result \in [Ops -> Codes \cup {"wait"}] /\ reply \in [Ops -> {"none", "wait", "err"}]
ActorOK ==
  /\ evq \in Seq(Messages) /\ Len(evq) <= EventCapacity
  /\ call \in {"talking", "ending", "gone"} /\ mgen \in Nat /\ stopped \in BOOLEAN
  /\ results \in Seq(Outcomes) /\ heard \in Seq(Digits)
\* The collectors: an active one waits for a digit; a call that ends has none.
ColOK ==
  /\ col \in [Ops -> States] /\ Cardinality(Collectors) <= CollectorCapacity
  /\ \A o \in Ops : Len(col[o].digits) <= MaxDigits[o]
  /\ \A o \in Ops : col[o].phase \in {"acquiring", "active"} => Len(col[o].digits) < MaxDigits[o]
  /\ call # "talking" => \A o \in Ops : col[o] = NoCollector
MediaOK ==
  /\ mq \in Seq(Jobs) /\ Len(mq) <= MediaCapacity
  /\ worker \in Workers /\ lease \in [Ops -> Leases] /\ config \in Configs
  /\ worker.step = "gone" => call = "gone"
RelayOK ==
  /\ parser \in Configs /\ parsed \in [Presses -> {"no", "active", "recent"}] /\ press \in [Presses -> 0..3]
  /\ lock \in [tr : {"unset", "rfc", "info"}, gen : Nat]

Shape == ServiceOK /\ RepliesOK /\ ActorOK /\ ColOK /\ MediaOK /\ RelayOK

\* The queue q has a message or a job of this kind for the operation o.
Has(q, kind, o) == \E i \in 1..Len(q) : q[i].kind = kind /\ q[i].op = o
\* It has one at most for each operation.
OneEach(q, kind) ==
  \A i, j \in 1..Len(q) : q[i].kind = kind /\ q[j].kind = kind /\ q[i].op = q[j].op => i = j
\* It has something for o.
Names(q, o) == \E i \in 1..Len(q) : q[i].op = o

\* The coordinator has taken the start of o.
Begun(o) == status[o] # "none" /\ ~Has(opq, "start", o) /\ ~Has(evq, "start", o)
\* There is a trace of o behind the coordinator.
Touched(o) ==
  \/ col[o].phase # "none" \/ lease[o].state # "none" \/ worker.op = o \/ result[o] \in Good
  \/ Names(mq, o) \/ Names(results, o)

\* An operation is started once.
StartsOnce ==
  /\ OneEach(opq, "start") /\ OneEach(evq, "start")
  /\ \A o \in Ops : status[o] = "none" => ~Has(opq, "start", o) /\ ~Has(evq, "start", o) /\ task[o] = "none"
  /\ \A o \in Ops : Has(opq, "start", o) => ~Has(evq, "start", o)
  /\ \A o \in Ops : Touched(o) => Begun(o)

\* The worker acquires for o.
AcquiresFor(o) == worker.step = "acquiring" /\ worker.op = o
\* No acquisition of o is ahead.
NoneAhead(o) == ~Has(mq, "acquire", o) /\ ~AcquiresFor(o)

\* A lease is acquired once, and before it is released.
AcquiresOnce ==
  /\ OneEach(mq, "acquire")
  /\ \A o \in Ops : Has(mq, "acquire", o) =>
       lease[o].state # "active" /\ ~AcquiresFor(o) /\ ~Has(results, "acquired", o)
  /\ \A o \in Ops : AcquiresFor(o) => ~Has(results, "acquired", o)
  /\ \A i, j \in 1..Len(mq) : i < j /\ mq[i].kind = "release" /\ mq[j].kind = "acquire" => mq[i].op # mq[j].op

\* o has no lease and gets none.
Closed(o) == lease[o].state # "active" /\ ~Has(mq, "acquire", o)

\* What a release leaves closed, up to the outcome.
ReleasesClose ==
  /\ \A o \in Ops : worker.step \in {"draining", "releasing"} /\ worker.op = o => Closed(o)
  /\ \A o \in Ops : Has(results, "released", o) => Closed(o)
  /\ \A o \in Ops : result[o] \in Good => Closed(o)
  /\ \A i \in 1..Len(results) : results[i].kind = "acquired" /\ ~results[i].ok => lease[results[i].op].state # "active"

\* What the service reports comes from the outcome.
ReportsOutcome == \A o \in Ops : status[o] = "completed" => result[o] \in Good

\* The task's end is the operation's.
Settled == \A o \in Ops : task[o] = "done" => status[o] \in Terminal \cup {"forgotten"}
Found == \A o \in Ops : status[o] # "notFound"

\* The mode, during the drain too.
ModeOK == ModeFollowsLeases /\ (worker.step = "draining" => config.mode = "collect")

\* The release of a lease behind its acquisition.
Owned(o) == col[o].phase \in {"acquiring", "active"} \/ Has(mq, "release", o)
AcquireOwned ==
  worker.step # "gone" => \A i \in 1..Len(mq) : mq[i].kind = "acquire" =>
    \/ col[mq[i].op].phase = "acquiring"
    \/ \E j \in 1..Len(mq) : i < j /\ mq[j].kind = "release" /\ mq[j].op = mq[i].op
LeaseOwned == \A o \in Ops : lease[o].state = "active" /\ worker.step # "gone" => Owned(o)

\* The media worker's queue takes a release of every collector.
Room == Len(mq) + Cardinality(Collectors) <= MediaCapacity

Core == Shape /\ StartsOnce /\ AcquiresOnce /\ ReleasesClose /\ ReportsOutcome /\ Settled /\ ModeOK

----------------------------------------------------------------------------
(* The inductive invariant of DigitOnce *)

\* A collector that wants its lease has it, as soon as it was granted.
Leased(o) == lease[o] = [state |-> "active", mode |-> col[o].mode]
Wanted(o) == col[o].phase \in {"acquiring", "active"}
LeasedOK ==
  /\ \A o \in Ops : Wanted(o) => ~Has(mq, "release", o)
  /\ \A o \in Ops : col[o].phase = "active" => NoneAhead(o) /\ Leased(o)
  /\ \A o \in Ops : col[o].phase = "acquiring" /\ AcquiresFor(o) => Leased(o)
  /\ \A i \in 1..Len(mq) : mq[i].kind = "acquire" /\ col[mq[i].op].phase = "acquiring" =>
       mq[i].mode = col[mq[i].op].mode
  /\ \A i \in 1..Len(results) :
       results[i].kind = "acquired" /\ results[i].ok /\ col[results[i].op].phase = "acquiring" =>
         Leased(results[i].op)

\* A collector of mode collect is active.
Collecting == \E o \in Ops : col[o].phase = "active" /\ col[o].mode = "collect"

InHeard(tr, p) == \E i \in 1..Len(heard) : heard[i].tr = tr /\ heard[i].press = p
Taken(p) == \E o \in Ops : \E i \in 1..Len(col[o].digits) : col[o].digits[i] = p

\* The parser has emitted the press.
Sounded(p) == InHeard("rfc", p) \/ (lock.tr = "rfc" /\ Taken(p)) \/ <<"rfc", p>> \in consumed
\* It does not emit it again.
NoMore(p) ==
  /\ parsed[p] # "active" /\ press[p] \in {2, 3}
  /\ press[p] = 2 /\ ~stopped =>
       (parser = config /\ parsed[p] = "recent") \/ config.mode = "transparent"

HeardOK ==
  /\ \A i, j \in 1..Len(heard) :
       heard[i].tr = "rfc" /\ heard[j].tr = "rfc" /\ heard[i].press = heard[j].press => i = j
  /\ \A i \in 1..Len(heard) : heard[i].tr = "info" => heard[i].gen = 1
  /\ \A p \in Presses : Sounded(p) => NoMore(p)

\* What came by a transport, and what arbitration remembers of it.
ByRfc ==
  /\ lock.tr # "rfc" => \A p \in Presses : <<"rfc", p>> \notin consumed
  /\ lock.tr = "rfc" => \A p \in Presses : Taken(p) => ~InHeard("rfc", p)
ByInfo ==
  /\ lock.tr # "info" => \A p \in Presses : <<"info", p>> \notin consumed \cup relayed
  /\ lock.tr = "info" => /\ lock.gen = 1
                         /\ \A p \in Presses : Taken(p) \/ <<"info", p>> \in consumed \cup relayed =>
                              <<"info", 1, p>> \in recent
  /\ lock.tr = "unset" => \A p \in Presses : ~Taken(p)

\* A press that was consumed is not relayed, and will not be.
ConsumedOK ==
  \A p \in Presses : <<"rfc", p>> \in consumed =>
    /\ <<"rfc", p>> \notin relayed
    /\ press[p] = 3 \/ (press[p] = 2 /\ (stopped \/ config.mode = "collect"))
\* A press that was relayed is not consumed.
RelayedOK ==
  /\ \A p \in Presses : InHeard("rfc", p) /\ <<"rfc", p>> \in relayed => ~Collecting
  /\ \A p \in Presses : parsed[p] = "active" => parser.mode # "transparent" /\ <<"rfc", p>> \notin relayed
  /\ \A p \in Presses : <<"rfc", p>> \in relayed => press[p] \in {2, 3}
  /\ \A p \in Presses : <<"rfc", p>> \in relayed /\ press[p] = 2 /\ ~stopped => config.mode # "collect"
\* Every pair is of a transport and a press, and an INFO is in one of the sets.
PairsOK ==
  /\ consumed \cup relayed \subseteq {"rfc", "info"} \X Presses
  /\ \A p \in Presses : ~(<<"info", p>> \in consumed /\ <<"info", p>> \in relayed)

DigitInv == LeasedOK /\ HeardOK /\ ByRfc /\ ByInfo /\ ConsumedOK /\ RelayedOK /\ PairsOK /\ PressOnce

----------------------------------------------------------------------------
(* Queues *)

\* r is what is left of q when some of its front is taken.
Drops(q, r) == \E k \in 0..Len(q) : Len(r) = Len(q) - k /\ \A i \in 1..Len(r) : r[i] = q[i + k]

\* The front of a queue is taken.
LEMMA TailDrops ==
  ASSUME NEW T, NEW q \in Seq(T), q # << >>
  PROVE  /\ Tail(q) \in Seq(T) /\ Len(Tail(q)) = Len(q) - 1 /\ Len(q) >= 1
         /\ Head(q) = q[1] /\ q[1] \in T
         /\ \A i \in 1..Len(Tail(q)) : i + 1 \in 1..Len(q) /\ Tail(q)[i] = q[i + 1]
         /\ Drops(q, Tail(q))
<1>1. /\ Tail(q) \in Seq(T) /\ Len(Tail(q)) = Len(q) - 1 /\ Len(q) >= 1 /\ Len(q) \in Nat
      /\ Head(q) = q[1] /\ q[1] \in T
  OBVIOUS
<1>2. \A i \in 1..Len(Tail(q)) : i + 1 \in 1..Len(q) /\ Tail(q)[i] = q[i + 1] BY <1>1
<1>3. Drops(q, Tail(q))
  <2>1. 1 \in 0..Len(q) BY <1>1
  <2> QED BY <1>1, <1>2, <2>1 DEF Drops
<1> QED BY <1>1, <1>2, <1>3

\* Nothing, or all of it, is taken.
LEMMA SameDrops == ASSUME NEW T, NEW q \in Seq(T) PROVE Drops(q, q) /\ Drops(q, << >>)
<1>1. Len(q) \in Nat /\ 0 \in 0..Len(q) /\ Len(q) \in 0..Len(q) /\ Len(<< >>) = 0 OBVIOUS
<1>2. Drops(q, q)
  <2>1. Len(q) = Len(q) - 0 /\ \A i \in 1..Len(q) : q[i] = q[i + 0] BY <1>1
  <2> QED BY <1>1, <2>1 DEF Drops
<1>3. Drops(q, << >>)
  <2>1. Len(<< >>) = Len(q) - Len(q) /\ \A i \in 1..Len(<< >>) : << >>[i] = q[i + Len(q)] BY <1>1
  <2> QED BY <1>1, <2>1 DEF Drops
<1> QED BY <1>2, <1>3

\* What is left was there, once if it was there once, in the same order.
LEMMA DropsHas ==
  ASSUME NEW T, NEW q \in Seq(T), NEW r \in Seq(T), Drops(q, r)
  PROVE  /\ \A kind, o : Has(r, kind, o) => Has(q, kind, o)
         /\ \A o : Names(r, o) => Names(q, o)
         /\ \A kind : OneEach(q, kind) => OneEach(r, kind)
         /\ \A i, j \in 1..Len(r) : i < j =>
              \E a, b \in 1..Len(q) : a < b /\ r[i] = q[a] /\ r[j] = q[b]
         /\ \A i \in 1..Len(r) : \E a \in 1..Len(q) : r[i] = q[a]
<1>1. PICK k \in 0..Len(q) : Len(r) = Len(q) - k /\ \A i \in 1..Len(r) : r[i] = q[i + k] BY DEF Drops
<1>2. k \in Nat /\ Len(q) \in Nat /\ Len(r) \in Nat OBVIOUS
<1>3. \A i \in 1..Len(r) : i + k \in 1..Len(q) /\ r[i] = q[i + k] BY <1>1, <1>2
<1>4. \A i \in 1..Len(r) : \E a \in 1..Len(q) : r[i] = q[a] BY <1>3
<1>5. ASSUME NEW i \in 1..Len(r), NEW j \in 1..Len(r), i < j
      PROVE  \E a, b \in 1..Len(q) : a < b /\ r[i] = q[a] /\ r[j] = q[b]
  <2>1. i + k < j + k BY <1>2, <1>5
  <2> QED BY <1>3, <2>1
<1>6. \A kind, o : Has(r, kind, o) => Has(q, kind, o) BY <1>3 DEF Has
<1>7. \A o : Names(r, o) => Names(q, o) BY <1>3 DEF Names
<1>8. ASSUME NEW kind, OneEach(q, kind) PROVE OneEach(r, kind)
  <2> SUFFICES ASSUME NEW i \in 1..Len(r), NEW j \in 1..Len(r), r[i].kind = kind, r[j].kind = kind, r[i].op = r[j].op
               PROVE  i = j
    BY DEF OneEach
  <2>1. i + k = j + k BY <1>3, <1>8 DEF OneEach
  <2> QED BY <1>2, <2>1
<1> QED BY <1>4, <1>5, <1>6, <1>7, <1>8

\* A message is put behind the others.
LEMMA AppendHas ==
  ASSUME NEW T, NEW q \in Seq(T), NEW m \in T
  PROVE  /\ Append(q, m) \in Seq(T) /\ Len(Append(q, m)) = Len(q) + 1 /\ Len(q) \in Nat
         /\ Append(q, m)[Len(q) + 1] = m
         /\ \A i \in 1..Len(q) : Append(q, m)[i] = q[i]
         /\ \A i \in 1..(Len(q) + 1) : (i \in 1..Len(q) /\ Append(q, m)[i] = q[i]) \/ (i = Len(q) + 1 /\ Append(q, m)[i] = m)
         /\ \A kind, o : Has(Append(q, m), kind, o) <=> (Has(q, kind, o) \/ (m.kind = kind /\ m.op = o))
         /\ \A o : Names(Append(q, m), o) <=> (Names(q, o) \/ m.op = o)
<1>1. /\ Append(q, m) \in Seq(T) /\ Len(Append(q, m)) = Len(q) + 1 /\ Len(q) \in Nat
      /\ Append(q, m)[Len(q) + 1] = m
      /\ \A i \in 1..Len(q) : Append(q, m)[i] = q[i]
  OBVIOUS
<1> DEFINE r == Append(q, m)
<1>2. /\ \A i \in 1..(Len(q) + 1) : (i \in 1..Len(q) /\ r[i] = q[i]) \/ (i = Len(q) + 1 /\ r[i] = m)
      /\ Len(r) = Len(q) + 1 /\ r[Len(q) + 1] = m /\ \A i \in 1..Len(q) : i \in 1..Len(r) /\ r[i] = q[i]
      /\ Len(q) + 1 \in 1..Len(r)
  BY <1>1
<1> HIDE DEF r
<1>3. \A kind, o : Has(r, kind, o) <=> (Has(q, kind, o) \/ (m.kind = kind /\ m.op = o)) BY <1>2 DEF Has
<1>4. \A o : Names(r, o) <=> (Names(q, o) \/ m.op = o) BY <1>2 DEF Names
<1> QED BY <1>1, <1>2, <1>3, <1>4 DEF r

\* A message of another operation keeps the starts single.
LEMMA AppendOneEach ==
  ASSUME NEW T, NEW q \in Seq(T), NEW m \in T, NEW kind, OneEach(q, kind),
         m.kind = kind => ~Has(q, kind, m.op)
  PROVE  OneEach(Append(q, m), kind)
<1> DEFINE r == Append(q, m)
<1>1. /\ Len(r) = Len(q) + 1
      /\ \A i \in 1..(Len(q) + 1) : (i \in 1..Len(q) /\ r[i] = q[i]) \/ (i = Len(q) + 1 /\ r[i] = m)
  BY AppendHas
<1> HIDE DEF r
<1>2. OneEach(r, kind) BY <1>1 DEF OneEach, Has
<1> QED BY <1>2 DEF r

----------------------------------------------------------------------------
(* Releases in the order of the collectors *)

\* Operations are numbers.
LEMMA OpsAreNumbers == Ops \subseteq Nat /\ 0 \notin Ops /\ IsFiniteSet(Ops)
<1>1. Cardinality(Ops) \in Nat BY DtmfAssumption, FS_CardinalityType
<1> QED BY <1>1, DtmfAssumption

\* The place of an operation among some is its own, and less than their number.
LEMMA Places ==
  ASSUME NEW S \in SUBSET Ops
  PROVE  /\ IsFiniteSet(S) /\ Cardinality(S) \in Nat
         /\ \A o \in S : Cardinality(Before(S, o)) \in 0..(Cardinality(S) - 1)
         /\ \A o, p \in S : Cardinality(Before(S, o)) = Cardinality(Before(S, p)) => o = p
<1>1. IsFiniteSet(S) /\ Cardinality(S) \in Nat BY OpsAreNumbers, FS_Subset, FS_CardinalityType
<1>2. \A o \in S : Before(S, o) \in SUBSET S /\ o \notin Before(S, o)
  BY OpsAreNumbers DEF Before
<1>3. \A o \in S : IsFiniteSet(Before(S, o)) /\ Cardinality(Before(S, o)) \in Nat
  BY <1>1, <1>2, FS_Subset, FS_CardinalityType
<1>4. ASSUME NEW o \in S PROVE Cardinality(Before(S, o)) \in 0..(Cardinality(S) - 1)
  <2>1. Cardinality(Before(S, o)) <= Cardinality(S) BY <1>1, <1>2, FS_Subset
  <2>2. Cardinality(Before(S, o)) # Cardinality(S) BY <1>1, <1>2, FS_Subset
  <2> QED BY <1>1, <1>3, <2>1, <2>2
<1>5. ASSUME NEW o \in S, NEW p \in S, o < p PROVE Cardinality(Before(S, o)) # Cardinality(Before(S, p))
  <2>1. Before(S, o) \in SUBSET Before(S, p)
    <3>1. \A q \in S : q < o => q < p BY <1>5, OpsAreNumbers
    <3> QED BY <3>1 DEF Before
  <2>2. o \in Before(S, p) /\ o \notin Before(S, o) BY <1>5, OpsAreNumbers DEF Before
  <2> QED BY <1>3, <2>1, <2>2, FS_Subset
<1>6. \A o, p \in S : o < p \/ p < o \/ o = p BY OpsAreNumbers
<1>7. \A o, p \in S : Cardinality(Before(S, o)) = Cardinality(Before(S, p)) => o = p
  BY <1>5, <1>6
<1> QED BY <1>1, <1>4, <1>7

\* Each operation of S has one release, and nothing else is in the sequence.
LEMMA ReleasesOf ==
  ASSUME NEW S \in SUBSET Ops, col \in [Ops -> States], mgen \in Nat
  PROVE  /\ Releases(S) \in Seq(Jobs) /\ Len(Releases(S)) = Cardinality(S)
         /\ \A i \in 1..Len(Releases(S)) : Releases(S)[i].kind = "release" /\ Releases(S)[i].op \in S
         /\ \A o \in S : \E i \in 1..Len(Releases(S)) : Releases(S)[i].kind = "release" /\ Releases(S)[i].op = o
<1> DEFINE n == Cardinality(S)
           At(i) == CHOOSE o \in S : Cardinality(Before(S, o)) = i - 1
<1>1. n \in Nat /\ \A o \in S : Cardinality(Before(S, o)) \in 0..(n - 1) BY Places
<1>2. \A o, p \in S : Cardinality(Before(S, o)) = Cardinality(Before(S, p)) => o = p BY Places
<1>3. \A i \in 1..n : At(i) \in S
  <2> DEFINE f == [o \in S |-> Cardinality(Before(S, o)) + 1]
  <2>1. f \in [S -> 1..n]
    BY <1>1
  <2>2. IsInjective(f) BY <1>1, <1>2 DEF IsInjective
  <2>3. f \in Injection(S, 1..n) BY <2>1, <2>2 DEF Injection
  <2>4. IsFiniteSet(1..n) /\ Cardinality(1..n) = n BY <1>1, FS_Interval
  <2>6. f \in Surjection(S, 1..n)
    <3> HIDE DEF f
    <3> QED BY <2>3, <2>4, FS_Injection
  <2> TAKE i \in 1..n
  <2>7. PICK o \in S : f[o] = i BY <2>6 DEF Surjection
  <2>8. Cardinality(Before(S, o)) = i - 1 BY <1>1, <2>7
  <2> QED BY <2>8
<1>4. \A o \in S : Cardinality(Before(S, o)) + 1 \in 1..n /\ At(Cardinality(Before(S, o)) + 1) = o
  <2> TAKE o \in S
  <2> DEFINE i == Cardinality(Before(S, o)) + 1
  <2>1. i \in 1..n /\ i - 1 = Cardinality(Before(S, o)) BY <1>1
  <2>2. At(i) \in S /\ Cardinality(Before(S, At(i))) = i - 1
    BY <2>1
  <2> QED BY <1>2, <2>1, <2>2
<1> HIDE DEF At
<1>5. \A o \in S : Action("release", o) \in Jobs /\ Action("release", o).kind = "release" /\ Action("release", o).op = o
  BY DEF Action, Jobs, States
<1>6. Releases(S) = [i \in 1..n |-> Action("release", At(i))] BY DEF Releases, At
<1> DEFINE r == Releases(S)
<1>7. r \in Seq(Jobs) /\ Len(r) = n /\ \A i \in 1..n : r[i] = Action("release", At(i))
  BY <1>1, <1>3, <1>5, <1>6
<1> HIDE DEF r
<1>8. \A i \in 1..Len(r) : r[i].kind = "release" /\ r[i].op \in S BY <1>3, <1>5, <1>7
<1>9. \A o \in S : \E i \in 1..Len(r) : r[i].kind = "release" /\ r[i].op = o BY <1>4, <1>5, <1>7
<1> QED BY <1>7, <1>8, <1>9 DEF r

\* The releases that fit do.
LEMMA FittingFits ==
  ASSUME NEW S \in SUBSET Ops, mq \in Seq(Jobs), Len(mq) <= MediaCapacity
  PROVE  Fitting(S) \in SUBSET S /\ Len(mq) + Cardinality(Fitting(S)) <= MediaCapacity
<1> DEFINE F == Fitting(S)
           k == MediaCapacity - Len(mq)
           f == [o \in F |-> Cardinality(Before(S, o)) + 1]
<1>1. F \in SUBSET S BY DEF Fitting
<1>2. MediaCapacity \in Nat /\ Len(mq) \in Nat /\ k \in Nat BY DtmfAssumption
<1>3. \A o \in F : Cardinality(Before(S, o)) \in Nat /\ Cardinality(Before(S, o)) + 1 \in 1..k
  <2> TAKE o \in F
  <2>1. Cardinality(S) \in Nat /\ Cardinality(Before(S, o)) \in 0..(Cardinality(S) - 1) BY <1>1, Places
  <2>2. Cardinality(Before(S, o)) \in Nat BY <2>1
  <2>3. Len(mq) + Cardinality(Before(S, o)) < MediaCapacity BY DEF Fitting
  <2> QED BY <1>2, <2>2, <2>3
<1>4. \A o, p \in F : Cardinality(Before(S, o)) = Cardinality(Before(S, p)) => o = p BY <1>1, Places
<1>5. f \in Injection(F, 1..k)
  <2>1. f \in [F -> 1..k] BY <1>3
  <2>2. IsInjective(f) BY <1>3, <1>4 DEF IsInjective
  <2> QED BY <2>1, <2>2 DEF Injection
<1>6. IsFiniteSet(1..k) /\ Cardinality(1..k) = k
  <2>1. k \in Nat /\ k \in Int /\ 1 \in Int BY <1>2
  <2> HIDE DEF k, F, f
  <2>2. IsFiniteSet(1..k) /\ Cardinality(1..k) = IF 1 > k THEN 0 ELSE k - 1 + 1 BY <2>1, FS_Interval
  <2> QED BY <2>1, <2>2
<1>7. Cardinality(F) <= k
  <2> HIDE DEF f, k, F
  <2> QED BY <1>5, <1>6, FS_Injection
<1>8. Cardinality(F) \in Nat BY <1>1, Places
<1> QED BY <1>1, <1>2, <1>7, <1>8

\* With room for every collector, all releases fit.
LEMMA RoomFits ==
  ASSUME NEW S \in SUBSET Collectors, Room, mq \in Seq(Jobs)
  PROVE  Fitting(S) = S
<1>1. Collectors \in SUBSET Ops /\ S \in SUBSET Ops BY DEF Collectors
<1>2. IsFiniteSet(Collectors) /\ Cardinality(Collectors) \in Nat BY <1>1, Places
<1>3. Cardinality(S) <= Cardinality(Collectors) BY <1>2, FS_Subset
<1>4. ASSUME NEW o \in S PROVE Len(mq) + Cardinality(Before(S, o)) < MediaCapacity
  <2>1. Cardinality(S) \in Nat /\ Cardinality(Before(S, o)) \in 0..(Cardinality(S) - 1) BY <1>1, Places
  <2>2. Len(mq) \in Nat /\ MediaCapacity \in Nat /\ Len(mq) + Cardinality(Collectors) <= MediaCapacity
    BY DtmfAssumption DEF Room
  <2> QED BY <1>2, <1>3, <2>1, <2>2
<1> QED BY <1>4 DEF Fitting

\* r is q with releases of operations of S, or preparations, behind it.
Adds(q, r, S) ==
  /\ Len(q) <= Len(r) /\ \A i \in 1..Len(q) : r[i] = q[i]
  /\ \A i \in 1..Len(r) : i > Len(q) => r[i].kind = "prepare" \/ (r[i].kind = "release" /\ r[i].op \in S)
\* It has a release of each of S there.
AddsAll(q, r, S) == \A o \in S : \E i \in 1..Len(r) : i > Len(q) /\ r[i].kind = "release" /\ r[i].op = o

\* One queue behind another.
LEMMA ConcatAt ==
  ASSUME NEW T, NEW p \in Seq(T), NEW r \in Seq(T)
  PROVE  /\ p \o r \in Seq(T) /\ Len(p \o r) = Len(p) + Len(r) /\ Len(p) \in Nat /\ Len(r) \in Nat
         /\ \A i \in 1..Len(p) : (p \o r)[i] = p[i]
         /\ \A i \in 1..Len(p \o r) : i > Len(p) => i - Len(p) \in 1..Len(r) /\ (p \o r)[i] = r[i - Len(p)]
<1>1. Len(p) \in Nat /\ Len(r) \in Nat OBVIOUS
<1>2. p \o r \in Seq(T) /\ Len(p \o r) = Len(p) + Len(r) BY ConcatProperties
<1>3. \A i \in 1..(Len(p) + Len(r)) : (p \o r)[i] = IF i <= Len(p) THEN p[i] ELSE r[i - Len(p)]
  BY <1>1, <1>2, ConcatProperties
<1>4. \A i \in 1..Len(p) : (p \o r)[i] = p[i] BY <1>1, <1>3
<1>5. \A i \in 1..(Len(p) + Len(r)) : i > Len(p) => i - Len(p) \in 1..Len(r) /\ (p \o r)[i] = r[i - Len(p)]
  BY <1>1, <1>3
<1> QED BY <1>1, <1>2, <1>4, <1>5

\* Releases behind the queue.
LEMMA ReleasesAdd ==
  ASSUME NEW S \in SUBSET Ops, col \in [Ops -> States], mgen \in Nat, mq \in Seq(Jobs)
  PROVE  /\ mq \o Releases(S) \in Seq(Jobs) /\ Len(mq \o Releases(S)) = Len(mq) + Cardinality(S)
         /\ Adds(mq, mq \o Releases(S), S) /\ AddsAll(mq, mq \o Releases(S), S)
<1> DEFINE r == Releases(S)
<1>1. /\ r \in Seq(Jobs) /\ Len(r) = Cardinality(S)
      /\ \A i \in 1..Len(r) : r[i].kind = "release" /\ r[i].op \in S
      /\ \A o \in S : \E i \in 1..Len(r) : r[i].kind = "release" /\ r[i].op = o
  BY ReleasesOf
<1> HIDE DEF r
<1> DEFINE q == mq \o r
<1>2. /\ q \in Seq(Jobs) /\ Len(q) = Len(mq) + Len(r) /\ Len(mq) \in Nat /\ Len(r) \in Nat
      /\ \A i \in 1..Len(mq) : q[i] = mq[i]
      /\ \A i \in 1..Len(q) : i > Len(mq) => i - Len(mq) \in 1..Len(r) /\ q[i] = r[i - Len(mq)]
  BY <1>1, ConcatAt
<1>3. \A i \in 1..Len(r) : i + Len(mq) \in 1..Len(q) /\ i + Len(mq) > Len(mq) /\ q[i + Len(mq)] = r[i]
  <2> TAKE i \in 1..Len(r)
  <2>1. i + Len(mq) \in 1..Len(q) /\ i + Len(mq) > Len(mq) /\ (i + Len(mq)) - Len(mq) = i BY <1>2
  <2> HIDE DEF q
  <2> QED BY <1>2, <2>1
<1> HIDE DEF q
<1>4. Adds(mq, q, S) BY <1>1, <1>2 DEF Adds
<1>5. AddsAll(mq, q, S) BY <1>1, <1>3 DEF AddsAll
<1> QED BY <1>1, <1>2, <1>4, <1>5 DEF q, r

\* The collectors that are finished.
DueIn(c, codes) == {o \in DOMAIN codes : c[o].phase = "active"}

\* What finish_digit_collection makes of the collectors c.
Finished(c, codes, s) ==
  /\ s.col \in [Ops -> States] /\ s.mq \in Seq(Jobs) /\ Len(s.mq) <= MediaCapacity
  /\ s.result \in [Ops -> Codes \cup {"wait"}]
  /\ Adds(mq, s.mq, DueIn(c, codes)) /\ DueIn(c, codes) \in SUBSET Ops
  /\ \A o \in Ops : o \notin DueIn(c, codes) => s.col[o] = c[o] /\ s.result[o] = result[o]
  /\ \A o \in DueIn(c, codes) : \/ s.col[o] = NoCollector
                                \/ /\ s.col[o].phase = "releasing" /\ s.col[o].mode = c[o].mode
                                   /\ s.col[o].digits = c[o].digits
  /\ \A o \in Ops : s.result[o] = result[o] \/ (result[o] = "wait" /\ s.result[o] = "Failed")
  /\ Fitting(DueIn(c, codes)) = DueIn(c, codes) =>
       /\ AddsAll(mq, s.mq, DueIn(c, codes))
       /\ \A o \in DueIn(c, codes) : s.col[o].phase = "releasing"

\* What finish_digit_collection leaves.
LEMMA FinishFacts ==
  ASSUME NEW c \in [Ops -> States], NEW codes, DOMAIN codes \in SUBSET Ops, \A o \in DOMAIN codes : codes[o] \in Codes,
         col \in [Ops -> States], mgen \in Nat, mq \in Seq(Jobs), Len(mq) <= MediaCapacity,
         result \in [Ops -> Codes \cup {"wait"}]
  PROVE  Finished(c, codes, Finish(c, codes))
<1> DEFINE due == DueIn(c, codes)
           s == Finish(c, codes)
<1> DEFINE fit == Fitting(due)
           Col(o) == CASE o \in fit -> [c[o] EXCEPT !.phase = "releasing", !.code = codes[o]]
                       [] o \in due \ fit -> NoCollector
                       [] OTHER -> c[o]
           Res(o) == IF o \in due \ fit THEN Answer(result, o, "Failed")[o] ELSE result[o]
<1>1. due \in SUBSET Ops /\ fit \in SUBSET due /\ fit \in SUBSET Ops BY DEF Fitting, DueIn
<1>2. /\ s.col = [o \in Ops |-> Col(o)] /\ s.mq = mq \o Releases(fit)
      /\ s.result = [o \in Ops |-> Res(o)]
  BY DEF Finish, DueIn
<1> HIDE DEF s
<1>3. s.mq \in Seq(Jobs) /\ Len(s.mq) = Len(mq) + Cardinality(fit) /\ Adds(mq, s.mq, fit) /\ AddsAll(mq, s.mq, fit)
  BY <1>1, <1>2, ReleasesAdd
<1>4. Len(s.mq) <= MediaCapacity BY <1>1, <1>3, FittingFits
<1>5. Adds(mq, s.mq, due) BY <1>1, <1>3 DEF Adds
<1>6. NoCollector \in States BY DEF NoCollector, States, Phases, Modes, Codes
<1>7. ASSUME NEW o \in Ops
      PROVE  /\ s.col[o] \in States /\ (o \notin due => s.col[o] = c[o])
             /\ o \in due => \/ s.col[o] = NoCollector
                             \/ /\ s.col[o].phase = "releasing" /\ s.col[o].mode = c[o].mode
                                /\ s.col[o].digits = c[o].digits
             /\ o \in fit => s.col[o].phase = "releasing"
  <2>0. s.col[o] = Col(o) BY <1>2
  <2>1. CASE o \in fit
    <3> DEFINE e == [c[o] EXCEPT !.phase = "releasing", !.code = codes[o]]
    <3>1. Col(o) = e BY <2>1
    <3>2. c[o] \in States /\ codes[o] \in Codes BY <1>1, <2>1 DEF DueIn
    <3>3. e \in States BY <3>2 DEF States, Phases
    <3>4. e.phase = "releasing" /\ e.mode = c[o].mode /\ e.digits = c[o].digits BY <3>2 DEF States
    <3> HIDE DEF e
    <3> QED BY <1>1, <2>0, <2>1, <3>1, <3>3, <3>4
  <2>2. CASE o \in due \ fit
    <3>1. Col(o) = NoCollector BY <2>2
    <3> QED BY <1>6, <2>0, <2>2, <3>1
  <2>3. CASE o \notin due
    <3>1. Col(o) = c[o] BY <1>1, <2>3
    <3> QED BY <1>1, <2>0, <2>3, <3>1
  <2> QED BY <2>1, <2>2, <2>3
<1>8. s.col \in [Ops -> States]
  <2>1. s.col = [o \in Ops |-> s.col[o]] BY <1>2
  <2> QED BY <1>7, <2>1
<1>9. ASSUME NEW o \in Ops
      PROVE  s.result[o] \in Codes \cup {"wait"} /\ (s.result[o] = result[o] \/ (result[o] = "wait" /\ s.result[o] = "Failed"))
             /\ (o \notin due => s.result[o] = result[o])
  <2>1. s.result[o] = Res(o) BY <1>2
  <2>2. \/ Answer(result, o, "Failed")[o] = result[o]
        \/ result[o] = "wait" /\ Answer(result, o, "Failed")[o] = "Failed"
    BY DEF Answer
  <2> QED BY <2>1, <2>2 DEF Codes
<1>10. s.result \in [Ops -> Codes \cup {"wait"}]
  <2>1. s.result = [o \in Ops |-> s.result[o]] BY <1>2
  <2> QED BY <1>9, <2>1
<1>11. Fitting(due) = due => AddsAll(mq, s.mq, due) /\ \A o \in due : s.col[o].phase = "releasing"
  BY <1>1, <1>3, <1>7
<1> HIDE DEF Col, Res, fit, due
<1>12. Finished(c, codes, s) BY <1>1, <1>3, <1>4, <1>5, <1>7, <1>8, <1>9, <1>10, <1>11 DEF Finished, due
<1> QED BY <1>12 DEF s

----------------------------------------------------------------------------
(* What the coordinator does to its collectors *)

Granted(o) ==
  /\ col[o].phase = "acquiring" /\ results # << >> /\ Head(results) = [kind |-> "acquired", op |-> o, ok |-> TRUE]
  /\ (\E i \in DOMAIN heard : heard[i].tr = "rfc") => "LateObservation" \in Races
Denied(o) == results # << >> /\ Head(results) = [kind |-> "acquired", op |-> o, ok |-> FALSE]

\* A step that registers no collector; the operations of S are to be released.
MovesOf(S, o) ==
  /\ col'[o].phase # "none" => col[o].phase # "none" /\ col'[o].mode = col[o].mode
  /\ col'[o].phase = "acquiring" => col[o].phase = "acquiring"
  /\ col'[o].phase = "active" => col[o].phase = "active" \/ Granted(o)
  /\ o \in S => col'[o].phase \notin {"acquiring", "active"}
  /\ Len(col'[o].digits) <= MaxDigits[o]
  /\ col'[o].phase \in {"acquiring", "active"} => Len(col'[o].digits) < MaxDigits[o]
  /\ result'[o] \in Good => result[o] \in Good \/ Has(results, "released", o)
  /\ result[o] # "wait" => result'[o] = result[o]
Moves(S) ==
  /\ col' \in [Ops -> States] /\ mq' \in Seq(Jobs) /\ Len(mq') <= MediaCapacity
  /\ result' \in [Ops -> Codes \cup {"wait"}]
  /\ S \in SUBSET Collectors /\ Adds(mq, mq', S)
  /\ \A o \in Ops : MovesOf(S, o)

\* A collector that gives up its lease has a release queued, or was denied it.
Keeps ==
  \A o \in Ops : Wanted(o) =>
    \/ col'[o].phase \in {"acquiring", "active"} /\ (col[o].phase = "acquiring" => col'[o].phase = "acquiring" \/ Granted(o))
    \/ \E i \in 1..Len(mq') : i > Len(mq) /\ mq'[i].kind = "release" /\ mq'[i].op = o
    \/ Denied(o)

\* No digit is added.
SameDigits == \A o \in Ops : col'[o].digits \in {col[o].digits, << >>}

\* The absent collector.
LEMMA NoCollectorType ==
  /\ NoCollector \in States /\ NoCollector.phase = "none" /\ NoCollector.digits = << >> /\ Len(NoCollector.digits) = 0
  /\ \A o \in Ops : MaxDigits[o] \in Nat /\ MaxDigits[o] >= 1
<1>1. NoCollector \in States BY DEF NoCollector, States, Phases, Modes, Codes
<1>2. NoCollector.phase = "none" /\ NoCollector.digits = << >> /\ Len(NoCollector.digits) = 0 BY DEF NoCollector
<1>3. \A o \in Ops : MaxDigits[o] \in Nat \ {0} BY DtmfAssumption
<1>4. \A o \in Ops : MaxDigits[o] \in Nat /\ MaxDigits[o] >= 1 BY <1>3
<1> QED BY <1>1, <1>2, <1>4

\* finish_digit_collection is such a step.
LEMMA FinishMoves ==
  ASSUME Shape, NEW c \in [Ops -> States], NEW codes, DOMAIN codes \in SUBSET Ops,
         \A o \in DOMAIN codes : codes[o] \in Codes,
         NEW due, due = DueIn(c, codes),
         \A o \in Ops :
           /\ c[o].phase # "none" => col[o].phase # "none" /\ c[o].mode = col[o].mode
           /\ c[o].phase = "acquiring" => col[o].phase = "acquiring"
           /\ c[o].phase = "active" => col[o].phase = "active" \/ Granted(o)
           /\ Wanted(o) => c[o].phase \in {"acquiring", "active"}
           /\ Len(c[o].digits) <= MaxDigits[o]
           /\ o \notin due /\ c[o].phase \in {"acquiring", "active"} => Len(c[o].digits) < MaxDigits[o],
         Becomes(Finish(c, codes))
  PROVE  /\ Moves(due) /\ (Room => Keeps)
         /\ \A o \in Ops : col'[o].digits \in {c[o].digits, << >>} /\ (o \notin due => col'[o] = c[o])
<1> DEFINE s == Finish(c, codes)
<1>1. /\ col \in [Ops -> States] /\ mgen \in Nat /\ mq \in Seq(Jobs) /\ Len(mq) <= MediaCapacity
      /\ result \in [Ops -> Codes \cup {"wait"}]
  BY DEF Shape, ColOK, ActorOK, MediaOK, RepliesOK
<1>0. Finished(c, codes, s)
  <2>2. DOMAIN codes \in SUBSET Ops /\ (\A o \in DOMAIN codes : codes[o] \in Codes) /\ c \in [Ops -> States]
    OBVIOUS
  <2> QED BY ONLY <1>1, <2>2, FinishFacts
<1>3. col' = s.col /\ mq' = s.mq /\ result' = s.result BY DEF Becomes
<1> HIDE DEF s
<1>2. /\ s.col \in [Ops -> States] /\ s.mq \in Seq(Jobs) /\ Len(s.mq) <= MediaCapacity
      /\ s.result \in [Ops -> Codes \cup {"wait"}] /\ Adds(mq, s.mq, due) /\ due \in SUBSET Ops
      /\ \A o \in Ops : o \notin due => s.col[o] = c[o] /\ s.result[o] = result[o]
      /\ \A o \in due : \/ s.col[o] = NoCollector
                        \/ /\ s.col[o].phase = "releasing" /\ s.col[o].mode = c[o].mode
                           /\ s.col[o].digits = c[o].digits
      /\ \A o \in Ops : s.result[o] = result[o] \/ (result[o] = "wait" /\ s.result[o] = "Failed")
      /\ Fitting(due) = due => AddsAll(mq, s.mq, due) /\ \A o \in due : s.col[o].phase = "releasing"
  BY ONLY <1>0, due = DueIn(c, codes) DEF Finished
<1>4. due \in SUBSET Collectors
  <2>1. \A o \in due : o \in Ops /\ c[o].phase = "active" BY <1>2 DEF DueIn
  <2> QED BY <2>1 DEF Collectors
<1>5. ASSUME NEW o \in Ops
      PROVE  MovesOf(due, o) /\ col'[o].digits \in {c[o].digits, << >>} /\ (o \notin due => col'[o] = c[o])
  <2>1. (result'[o] \in Good => result[o] \in Good) /\ (result[o] # "wait" => result'[o] = result[o])
    BY <1>2, <1>3 DEF Good
  <2>2. CASE o \notin due
    <3>1. col'[o] = c[o] BY <1>2, <1>3, <2>2
    <3> QED BY <2>1, <2>2, <3>1 DEF MovesOf
  <2>3. CASE o \in due /\ s.col[o] = NoCollector
    <3>1. col'[o] = NoCollector BY <1>3, <2>3
    <3> QED BY <2>1, <2>3, <3>1, NoCollectorType DEF MovesOf
  <2>4. CASE o \in due /\ s.col[o].phase = "releasing" /\ s.col[o].mode = c[o].mode /\ s.col[o].digits = c[o].digits
    <3>1. col'[o] = s.col[o] /\ c[o].phase = "active" BY <1>3, <2>4 DEF DueIn
    <3> QED BY <2>1, <2>4, <3>1 DEF MovesOf
  <2> QED BY <1>2, <2>2, <2>3, <2>4
<1>9. /\ col' \in [Ops -> States] /\ mq' \in Seq(Jobs) /\ Len(mq') <= MediaCapacity
      /\ result' \in [Ops -> Codes \cup {"wait"}] /\ Adds(mq, mq', due)
  BY ONLY <1>2, <1>3
<1>6. Moves(due) BY ONLY <1>4, <1>5, <1>9 DEF Moves
<1>7. ASSUME Room, NEW o \in Ops, Wanted(o)
      PROVE  \/ col'[o].phase \in {"acquiring", "active"} /\ (col[o].phase = "acquiring" => col'[o].phase = "acquiring" \/ Granted(o))
             \/ \E i \in 1..Len(mq') : i > Len(mq) /\ mq'[i].kind = "release" /\ mq'[i].op = o
  <2>1. CASE o \in due
    <3>1. Fitting(due) = due BY <1>1, <1>4, <1>7, RoomFits
    <3> QED BY <1>2, <1>3, <2>1, <3>1 DEF AddsAll
  <2>2. CASE o \notin due
    <3>1. col'[o] = c[o] /\ c[o].phase \in {"acquiring", "active"} BY <1>2, <1>3, <1>7, <2>2
    <3> QED BY <3>1 DEF Wanted
  <2> QED BY <2>1, <2>2
<1>8. Room => Keeps BY <1>7 DEF Keeps
<1> QED BY ONLY <1>5, <1>6, <1>8

\* So it is of the collectors as they are.
LEMMA FinishesMoves ==
  ASSUME Shape, NEW codes, DOMAIN codes \in SUBSET Ops, \A o \in DOMAIN codes : codes[o] \in Codes, Finishes(codes)
  PROVE  Moves(DueIn(col, codes)) /\ (Room => Keeps) /\ SameDigits
<1> DEFINE due == DueIn(col, codes)
<1>1. /\ col \in [Ops -> States]
      /\ \A o \in Ops : Len(col[o].digits) <= MaxDigits[o]
      /\ \A o \in Ops : col[o].phase \in {"acquiring", "active"} => Len(col[o].digits) < MaxDigits[o]
  BY DEF Shape, ColOK
<1>2. Becomes(Finish(col, codes)) BY DEF Finishes
<1>3. due = DueIn(col, codes) OBVIOUS
<1> HIDE DEF due
<1>4. \A o \in Ops :
        /\ col[o].phase # "none" => col[o].phase # "none" /\ col[o].mode = col[o].mode
        /\ col[o].phase = "acquiring" => col[o].phase = "acquiring"
        /\ col[o].phase = "active" => col[o].phase = "active" \/ Granted(o)
        /\ Wanted(o) => col[o].phase \in {"acquiring", "active"}
        /\ Len(col[o].digits) <= MaxDigits[o]
        /\ o \notin due /\ col[o].phase \in {"acquiring", "active"} => Len(col[o].digits) < MaxDigits[o]
  BY <1>1 DEF Wanted
<1>5. /\ Moves(due) /\ (Room => Keeps)
      /\ \A o \in Ops : col'[o].digits \in {col[o].digits, << >>} /\ (o \notin due => col'[o] = col[o])
  BY <1>1, <1>2, <1>3, <1>4, FinishMoves
<1> QED BY <1>3, <1>5 DEF SameDigits

\* Nothing happens to them, but for a queue that grows by a preparation.
LEMMA StillMoves ==
  ASSUME Shape, col' = col, mq' \in Seq(Jobs), Len(mq') <= MediaCapacity, Adds(mq, mq', {}),
         result' \in [Ops -> Codes \cup {"wait"}], \A o \in Ops : (result'[o] \in Good => result[o] \in Good) /\ (result[o] # "wait" => result'[o] = result[o])
  PROVE  Moves({}) /\ Keeps /\ SameDigits
<1>1. /\ col \in [Ops -> States]
      /\ \A o \in Ops : Len(col[o].digits) <= MaxDigits[o]
      /\ \A o \in Ops : col[o].phase \in {"acquiring", "active"} => Len(col[o].digits) < MaxDigits[o]
  BY DEF Shape, ColOK
<1>2. Moves({}) BY <1>1 DEF Moves, MovesOf
<1> QED BY <1>2 DEF Keeps, SameDigits, Wanted

\* A queue that stays as it is.
LEMMA AddsNothing == ASSUME NEW q, q \in Seq(Jobs) PROVE Adds(q, q, {})
BY DEF Adds

----------------------------------------------------------------------------
(* The coordinator's steps *)

\* A step of the coordinator but for the registration of a collector.
CoordStep ==
  /\ UNCHANGED <<service, task, worker, lease, config, parser, parsed, press>>
  /\ ready' \in [Ops -> {"wait", "ok", "err"}] /\ reply' \in [Ops -> {"none", "wait", "err"}]
  /\ Drops(evq, evq') /\ evq' \in Seq(Messages) /\ Drops(results, results') /\ results' \in Seq(Outcomes)
  /\ heard' \in Seq(Digits) /\ mgen' \in Nat /\ stopped' \in BOOLEAN /\ (stopped => stopped')
  /\ call' \in {"talking", "ending", "gone"} /\ (call = "gone" => call' = "gone")
  /\ lock' \in [tr : {"unset", "rfc", "info"}, gen : Nat]
  /\ (call' # "talking" => \A o \in Ops : col'[o] = NoCollector)
  /\ \E S \in SUBSET Collectors : Moves(S)
  /\ (Room => Keeps)

\* Only TakeDigit touches these.
NoDigit ==
  SameDigits /\ UNCHANGED <<lock, recent, consumed, relayed>> /\ Drops(heard, heard')

\* A reply is answered once.
LEMMA AnswerType ==
  ASSUME NEW D, NEW T, NEW f \in [D -> T], NEW o \in D, NEW v \in T
  PROVE  /\ Answer(f, o, v) \in [D -> T]
         /\ \A p \in D : Answer(f, o, v)[p] = IF p = o /\ f[p] = "wait" THEN v ELSE f[p]
BY DEF Answer

\* The parts of the invariant that the coordinator's steps need.
LEMMA ShapeFacts ==
  ASSUME Shape
  PROVE  /\ evq \in Seq(Messages) /\ results \in Seq(Outcomes) /\ heard \in Seq(Digits) /\ mq \in Seq(Jobs)
         /\ Len(mq) <= MediaCapacity /\ mgen \in Nat /\ call \in {"talking", "ending", "gone"} /\ stopped \in BOOLEAN
         /\ col \in [Ops -> States] /\ ready \in [Ops -> {"wait", "ok", "err"}]
         /\ reply \in [Ops -> {"none", "wait", "err"}] /\ result \in [Ops -> Codes \cup {"wait"}]
         /\ lock \in [tr : {"unset", "rfc", "info"}, gen : Nat]
         /\ \A o \in Ops : /\ Len(col[o].digits) <= MaxDigits[o]
                           /\ col[o].phase \in {"acquiring", "active"} => Len(col[o].digits) < MaxDigits[o]
                           /\ col[o].digits \in Seq(Presses) /\ col[o] \in States
         /\ (call # "talking" => \A o \in Ops : col[o] = NoCollector)
<1>1. \A o \in Ops : col[o] \in States BY DEF Shape, ColOK
<1>2. \A o \in Ops : col[o].digits \in Seq(Presses) BY <1>1 DEF States
<1> QED BY <1>1, <1>2 DEF Shape, ColOK, ActorOK, RepliesOK, MediaOK, RelayOK

\* Nothing is taken from a queue.
LEMMA QueuesStay ==
  ASSUME Shape
  PROVE  Drops(evq, evq) /\ Drops(results, results) /\ Drops(heard, heard) /\ Adds(mq, mq, {})
BY ShapeFacts, SameDrops, AddsNothing

\* handle_digit_collector_timeout
LEMMA TimeoutCoord == ASSUME Shape, NEW o \in Ops, Timeout(o) PROVE CoordStep /\ NoDigit
<1> DEFINE codes == [p \in {o} |-> "Timeout"]
<1>1. DOMAIN codes \in SUBSET Ops /\ \A p \in DOMAIN codes : codes[p] \in Codes BY DEF Codes
<1>2. Finishes(codes) BY DEF Timeout
<1> HIDE DEF codes
<1>3. Moves(DueIn(col, codes)) /\ (Room => Keeps) /\ SameDigits BY <1>1, <1>2, FinishesMoves
<1>4. DueIn(col, codes) \in SUBSET Collectors BY <1>3 DEF Moves
<1>5. /\ UNCHANGED <<service, task, worker, lease, config, parser, parsed, press>>
      /\ UNCHANGED <<ready, reply, evq, results, heard, mgen, stopped, call, lock, recent, consumed, relayed>>
      /\ call = "talking"
  BY DEF Timeout, Due, relay, source
<1> QED BY <1>3, <1>4, <1>5, ShapeFacts, QueuesStay DEF CoordStep, NoDigit

\* StopMedia and Negotiate leave the collectors alone.
LEMMA StopMediaCoord == ASSUME Shape, StopMedia PROVE CoordStep /\ NoDigit
<1>1. UNCHANGED <<service, task, worker, lease, config, parser, parsed, press, ready, reply, evq, results, heard, mgen,
                  call, lock, recent, consumed, relayed, col, mq, result>> /\ stopped' = TRUE
  BY DEF StopMedia, replies, media, relay, source
<1>2. Moves({}) /\ Keeps /\ SameDigits
  <2>1. col' = col /\ mq' = mq /\ result' = result BY <1>1
  <2>2. mq' \in Seq(Jobs) /\ Len(mq') <= MediaCapacity /\ Adds(mq, mq', {}) BY <2>1, ShapeFacts, QueuesStay
  <2>3. result' \in [Ops -> Codes \cup {"wait"}] /\ \A o \in Ops : (result'[o] \in Good => result[o] \in Good) /\ (result[o] # "wait" => result'[o] = result[o])
    BY <2>1, ShapeFacts
  <2> QED BY <2>1, <2>2, <2>3, StillMoves
<1>3. {} \in SUBSET Collectors OBVIOUS
<1> QED BY <1>1, <1>2, <1>3, ShapeFacts, QueuesStay DEF CoordStep, NoDigit

\* prepare_sdp
LEMMA NegotiateCoord == ASSUME Shape, Negotiate PROVE CoordStep /\ NoDigit
<1> DEFINE j == [kind |-> "prepare", op |-> 0, mode |-> "observe", gen |-> mgen + 1]
<1>1. /\ UNCHANGED <<service, task, worker, lease, config, parser, parsed, press, ready, reply, evq, results, heard,
                     call, lock, recent, consumed, relayed, col, result, stopped>>
      /\ mgen' = mgen + 1 /\ mq' = Append(mq, j) /\ Len(mq) < MediaCapacity
  BY DEF Negotiate, replies, relay, source
<1>2. Moves({}) /\ Keeps /\ SameDigits
  <2>1. col' = col /\ result' = result BY <1>1
  <2>2. j \in Jobs /\ j.kind = "prepare" BY ShapeFacts DEF Jobs, Modes
  <2> HIDE DEF j
  <2>3. /\ mq' \in Seq(Jobs) /\ Len(mq') = Len(mq) + 1 /\ Len(mq) \in Nat
        /\ \A i \in 1..Len(mq) : mq'[i] = mq[i]
        /\ mq'[Len(mq) + 1] = j
    BY <1>1, <2>2, ShapeFacts, AppendHas
  <2>4. Adds(mq, mq', {}) BY <2>2, <2>3 DEF Adds
  <2>5. MediaCapacity \in Nat /\ Len(mq') <= MediaCapacity BY <1>1, <2>3, DtmfAssumption
  <2>6. result' \in [Ops -> Codes \cup {"wait"}] /\ \A o \in Ops : (result'[o] \in Good => result[o] \in Good) /\ (result[o] # "wait" => result'[o] = result[o])
    BY <2>1, ShapeFacts
  <2> QED BY <2>1, <2>3, <2>4, <2>5, <2>6, StillMoves
<1>3. {} \in SUBSET Collectors OBVIOUS
<1> QED BY <1>1, <1>2, <1>3, ShapeFacts, QueuesStay DEF CoordStep, NoDigit

\* The actor ends with its mailboxes.
LEMMA EndActorCoord == ASSUME Shape, EndActor PROVE CoordStep /\ NoDigit
<1> DEFINE ls(o) == \E i \in DOMAIN evq : evq[i].kind = "start" /\ evq[i].op = o
           lc(o) == \E i \in DOMAIN evq : evq[i].kind = "cancel" /\ evq[i].op = o
<1>1. /\ UNCHANGED <<service, task, worker, lease, config, parser, parsed, press, mgen, lock, recent, consumed, relayed,
                     col, mq, stopped>>
      /\ call = "ending" /\ call' = "gone" /\ evq' = << >> /\ results' = << >> /\ heard' = << >>
      /\ ready' = [o \in Ops |-> IF ls(o) THEN Answer(ready, o, "err")[o] ELSE ready[o]]
      /\ result' = [o \in Ops |-> IF ls(o) THEN Answer(result, o, "Failed")[o] ELSE result[o]]
      /\ reply' = [o \in Ops |-> IF lc(o) THEN "err" ELSE reply[o]]
  BY DEF EndActor, media, relay, source
<1> HIDE DEF ls, lc
<1>2. ready' \in [Ops -> {"wait", "ok", "err"}]
  <2>1. \A o \in Ops : Answer(ready, o, "err")[o] \in {"wait", "ok", "err"} /\ ready[o] \in {"wait", "ok", "err"}
    BY ShapeFacts DEF Answer
  <2> QED BY <1>1, <2>1
<1>3. reply' \in [Ops -> {"none", "wait", "err"}] BY <1>1, ShapeFacts
<1>4. result' \in [Ops -> Codes \cup {"wait"}] /\ \A o \in Ops : (result'[o] \in Good => result[o] \in Good) /\ (result[o] # "wait" => result'[o] = result[o])
  <2>1. \A o \in Ops : /\ (Answer(result, o, "Failed")[o] = result[o] \/ (result[o] = "wait" /\ Answer(result, o, "Failed")[o] = "Failed"))
                       /\ result[o] \in Codes \cup {"wait"}
    BY ShapeFacts DEF Answer
  <2>2. \A o \in Ops : result'[o] = result[o] \/ (result[o] = "wait" /\ result'[o] = "Failed") BY <1>1, <2>1
  <2>3. result' = [o \in Ops |-> result'[o]] BY <1>1
  <2>4. result' \in [Ops -> Codes \cup {"wait"}] BY <2>1, <2>2, <2>3 DEF Codes
  <2> QED BY <2>2, <2>4 DEF Good
<1>5. Moves({}) /\ Keeps /\ SameDigits
  <2>1. col' = col /\ mq' = mq BY <1>1
  <2>2. mq' \in Seq(Jobs) /\ Len(mq') <= MediaCapacity /\ Adds(mq, mq', {}) BY <2>1, ShapeFacts, QueuesStay
  <2> QED BY <1>4, <2>1, <2>2, StillMoves
<1>6. {} \in SUBSET Collectors OBVIOUS
<1>7. Drops(evq, << >>) /\ Drops(results, << >>) /\ Drops(heard, << >>) BY ShapeFacts, SameDrops
<1>8. << >> \in Seq(Messages) /\ << >> \in Seq(Outcomes) /\ << >> \in Seq(Digits) OBVIOUS
<1>9. \A o \in Ops : col'[o] = NoCollector BY <1>1, ShapeFacts
<1> QED BY <1>1, <1>2, <1>3, <1>5, <1>6, <1>7, <1>8, <1>9, ShapeFacts DEF CoordStep, NoDigit

\* begin_finish_call: every collector is aborted.
LEMMA BeginFinishCoord == ASSUME Shape, BeginFinish PROVE CoordStep /\ NoDigit
<1>1. /\ UNCHANGED <<service, task, worker, lease, config, parser, parsed, press, evq, results, heard, reply,
                     lock, recent, consumed, relayed, stopped>>
      /\ call = "talking" /\ call' = "ending" /\ mgen' = mgen + 1
      /\ mq' = mq \o Releases(Fitting(Collectors))
      /\ col' = [o \in Ops |-> NoCollector]
      /\ ready' = [o \in Ops |-> IF o \in Collectors THEN Answer(ready, o, "err")[o] ELSE ready[o]]
      /\ result' = [o \in Ops |-> IF o \in Collectors THEN Answer(result, o, "Failed")[o] ELSE result[o]]
  BY DEF BeginFinish, Aborted, relay, source
<1>2. ready' \in [Ops -> {"wait", "ok", "err"}]
  <2>1. \A o \in Ops : Answer(ready, o, "err")[o] \in {"wait", "ok", "err"} /\ ready[o] \in {"wait", "ok", "err"}
    BY ShapeFacts DEF Answer
  <2> QED BY <1>1, <2>1
<1>3. result' \in [Ops -> Codes \cup {"wait"}] /\ \A o \in Ops : (result'[o] \in Good => result[o] \in Good) /\ (result[o] # "wait" => result'[o] = result[o])
  <2>1. \A o \in Ops : /\ (Answer(result, o, "Failed")[o] = result[o] \/ (result[o] = "wait" /\ Answer(result, o, "Failed")[o] = "Failed"))
                       /\ result[o] \in Codes \cup {"wait"}
    BY ShapeFacts DEF Answer
  <2>2. \A o \in Ops : result'[o] = result[o] \/ (result[o] = "wait" /\ result'[o] = "Failed") BY <1>1, <2>1
  <2>3. result' = [o \in Ops |-> result'[o]] BY <1>1
  <2>4. result' \in [Ops -> Codes \cup {"wait"}] BY <2>1, <2>2, <2>3 DEF Codes
  <2> QED BY <2>2, <2>4 DEF Good
<1> DEFINE S == Fitting(Collectors)
<1>4. S \in SUBSET Collectors /\ S \in SUBSET Ops /\ Collectors \in SUBSET Ops BY DEF Fitting, Collectors
<1>5. Len(mq) + Cardinality(S) <= MediaCapacity BY <1>4, ShapeFacts, FittingFits
<1>6. Room => S = Collectors BY ShapeFacts, RoomFits
<1> HIDE DEF S
<1>7. /\ mq' \in Seq(Jobs) /\ Len(mq') = Len(mq) + Cardinality(S)
      /\ Adds(mq, mq', S) /\ AddsAll(mq, mq', S)
  BY <1>1, <1>4, ShapeFacts, ReleasesAdd DEF S
<1>8. /\ col' \in [Ops -> States]
      /\ \A o \in Ops : col'[o] = NoCollector
  BY <1>1, NoCollectorType
<1>9. \A o \in Ops : /\ col'[o].phase = "none" /\ col'[o].digits = << >>
                     /\ Len(col'[o].digits) = 0 /\ 0 <= MaxDigits[o]
  BY <1>8, NoCollectorType
<1>10. Moves(S) BY <1>3, <1>4, <1>5, <1>7, <1>8, <1>9 DEF Moves, MovesOf
<1>11. Room => Keeps
  <2> SUFFICES ASSUME Room, NEW o \in Ops, Wanted(o)
               PROVE  \E i \in 1..Len(mq') : i > Len(mq) /\ mq'[i].kind = "release" /\ mq'[i].op = o
    BY DEF Keeps
  <2>1. o \in S BY <1>6 DEF Wanted, Collectors
  <2> QED BY <1>7, <2>1 DEF AddsAll
<1>12. SameDigits BY <1>9 DEF SameDigits
<1>13. mgen' \in Nat BY <1>1, ShapeFacts
<1> QED BY <1>1, <1>2, <1>4, <1>8, <1>10, <1>11, <1>12, <1>13, ShapeFacts, QueuesStay DEF CoordStep, NoDigit

\* The event that is taken registers a collector.
Registering ==
  LET m == Head(evq) IN m.kind = "start" /\ Registers(m.op, m.mode) /\ Len(mq) < MediaCapacity

\* cancel_digit_collection, and a start that is refused
LEMMA TakeEventCoord == ASSUME Shape, TakeEvent, ~Registering PROVE CoordStep /\ NoDigit
<1> DEFINE m == Head(evq)
           o == m.op
<1>1. /\ UNCHANGED <<service, task, worker, lease, config, parser, parsed, press, results, heard, mgen, call,
                     lock, recent, consumed, relayed, stopped>>
      /\ call # "gone" /\ evq # << >> /\ evq' = Tail(evq)
  BY DEF TakeEvent, relay, source
<1>2. m \in Messages /\ Drops(evq, evq') /\ evq' \in Seq(Messages) BY <1>1, ShapeFacts, TailDrops
<1>3. o \in Ops /\ m.kind \in {"start", "cancel"} BY <1>2 DEF Messages
<1>4. {} \in SUBSET Collectors OBVIOUS
<1>5. CASE m.kind = "start"
  <2>1. /\ col' = col /\ mq' = mq /\ ready' = Answer(ready, o, "err") /\ result' = Answer(result, o, "Failed")
        /\ reply' = reply
    BY <1>5 DEF TakeEvent, Registering
  <2>2. ready' \in [Ops -> {"wait", "ok", "err"}]
    BY <1>3, <2>1, ShapeFacts, AnswerType
  <2>3. /\ result' \in [Ops -> Codes \cup {"wait"}]
        /\ \A p \in Ops : result'[p] = IF p = o /\ result[p] = "wait" THEN "Failed" ELSE result[p]
    <3>1. "Failed" \in Codes \cup {"wait"} BY DEF Codes
    <3>2. result \in [Ops -> Codes \cup {"wait"}] BY ShapeFacts
    <3> HIDE DEF o, m
    <3> QED BY <1>3, <2>1, <3>1, <3>2 DEF Answer
  <2>4. \A p \in Ops : (result'[p] \in Good => result[p] \in Good) /\ (result[p] # "wait" => result'[p] = result[p]) BY <2>3 DEF Good
  <2>5. mq' \in Seq(Jobs) /\ Len(mq') <= MediaCapacity /\ Adds(mq, mq', {}) BY <2>1, ShapeFacts, QueuesStay
  <2>6. Moves({}) /\ Keeps /\ SameDigits BY <2>1, <2>3, <2>4, <2>5, StillMoves
  <2>7. call' # "talking" => \A p \in Ops : col'[p] = NoCollector BY <1>1, <2>1, ShapeFacts
  <2> QED BY <1>1, <1>2, <1>4, <2>1, <2>2, <2>6, <2>7, ShapeFacts, QueuesStay DEF CoordStep, NoDigit
<1>6. CASE m.kind = "cancel" /\ col[o].phase = "none"
  <2>1. col' = col /\ mq' = mq /\ ready' = ready /\ result' = result /\ reply' = [reply EXCEPT ![o] = "err"]
    BY <1>6 DEF TakeEvent
  <2>2. reply' \in [Ops -> {"none", "wait", "err"}] BY <1>3, <2>1, ShapeFacts
  <2>3. result' \in [Ops -> Codes \cup {"wait"}] /\ \A p \in Ops : (result'[p] \in Good => result[p] \in Good) /\ (result[p] # "wait" => result'[p] = result[p])
    BY <2>1, ShapeFacts
  <2>5. mq' \in Seq(Jobs) /\ Len(mq') <= MediaCapacity /\ Adds(mq, mq', {}) BY <2>1, ShapeFacts, QueuesStay
  <2>6. Moves({}) /\ Keeps /\ SameDigits BY <2>1, <2>3, <2>5, StillMoves
  <2>7. call' # "talking" => \A p \in Ops : col'[p] = NoCollector BY <1>1, <2>1, ShapeFacts
  <2> QED BY <1>1, <1>2, <1>4, <2>1, <2>2, <2>6, <2>7, ShapeFacts, QueuesStay DEF CoordStep, NoDigit
<1>7. CASE m.kind = "cancel" /\ col[o].phase = "acquiring"
  <2>1. /\ col' = [col EXCEPT ![o].cancel = TRUE] /\ mq' = mq /\ ready' = Answer(ready, o, "err")
        /\ result' = result /\ reply' = [reply EXCEPT ![o] = "none"]
    BY <1>7 DEF TakeEvent
  <2>2. reply' \in [Ops -> {"none", "wait", "err"}] BY <1>3, <2>1, ShapeFacts
  <2>3. ready' \in [Ops -> {"wait", "ok", "err"}]
    BY <1>3, <2>1, ShapeFacts, AnswerType
  <2> DEFINE e == [col[o] EXCEPT !.cancel = TRUE]
  <2>4. col' = [col EXCEPT ![o] = e] BY <2>1
  <2>5. e \in States BY <1>3, ShapeFacts DEF States
  <2>6. e.phase = col[o].phase /\ e.mode = col[o].mode /\ e.digits = col[o].digits BY <1>3, ShapeFacts DEF States
  <2> HIDE DEF e
  <2>7. /\ col' \in [Ops -> States]
        /\ \A p \in Ops : /\ col'[p].phase = col[p].phase /\ col'[p].mode = col[p].mode
                          /\ col'[p].digits = col[p].digits
    BY <1>3, <2>4, <2>5, <2>6, ShapeFacts
  <2>8. mq' \in Seq(Jobs) /\ Len(mq') <= MediaCapacity /\ Adds(mq, mq', {}) BY <2>1, ShapeFacts, QueuesStay
  <2>9. Moves({}) BY <1>4, <2>1, <2>7, <2>8, ShapeFacts DEF Moves, MovesOf
  <2>10. Keeps /\ SameDigits BY <2>7 DEF Keeps, SameDigits, Wanted
  <2>11. call = "talking" BY <1>3, <1>7, ShapeFacts, NoCollectorType
  <2> QED BY <1>1, <1>2, <1>4, <2>2, <2>3, <2>9, <2>10, <2>11, ShapeFacts, QueuesStay DEF CoordStep, NoDigit
<1>8. CASE m.kind = "cancel" /\ col[o].phase \in {"active", "releasing"}
  <2> DEFINE codes == [p \in {o} |-> "Cancelled"]
  <2>1. Finishes(codes) /\ ready' = ready /\ reply' = [reply EXCEPT ![o] = "none"] BY <1>8 DEF TakeEvent
  <2>2. DOMAIN codes \in SUBSET Ops /\ \A p \in DOMAIN codes : codes[p] \in Codes BY <1>3 DEF Codes
  <2> HIDE DEF codes
  <2>3. Moves(DueIn(col, codes)) /\ (Room => Keeps) /\ SameDigits BY <2>1, <2>2, FinishesMoves
  <2>4. DueIn(col, codes) \in SUBSET Collectors BY <2>3 DEF Moves
  <2>5. reply' \in [Ops -> {"none", "wait", "err"}] BY <1>3, <2>1, ShapeFacts
  <2>6. call = "talking" BY <1>3, <1>8, ShapeFacts, NoCollectorType
  <2> QED BY <1>1, <1>2, <2>1, <2>3, <2>4, <2>5, <2>6, ShapeFacts, QueuesStay DEF CoordStep, NoDigit
<1>9. col[o].phase \in Phases BY <1>3, ShapeFacts DEF States
<1> QED BY <1>3, <1>5, <1>6, <1>7, <1>8, <1>9 DEF Phases

\* handle_dtmf_capability_acquired of a lease that was denied
LEMMA RefusedMoves ==
  ASSUME Shape, NEW o \in Ops, col[o].phase = "acquiring", Denied(o), Refused(o)
  PROVE  Moves({}) /\ Keeps /\ SameDigits
<1> DEFINE v == IF col[o].cancel THEN "Cancelled" ELSE "Failed"
<1>1. col' = [col EXCEPT ![o] = NoCollector] /\ result' = Answer(result, o, v) /\ mq' = mq BY DEF Refused
<1>2. v \in Codes \cup {"wait"} /\ v \notin Good BY DEF Codes, Good
<1> HIDE DEF v
<1>3. result \in [Ops -> Codes \cup {"wait"}] BY ShapeFacts
<1>4. /\ result' \in [Ops -> Codes \cup {"wait"}]
      /\ \A p \in Ops : result'[p] = IF p = o /\ result[p] = "wait" THEN v ELSE result[p]
  BY <1>1, <1>2, <1>3 DEF Answer
<1>5. \A p \in Ops : (result'[p] \in Good => result[p] \in Good) /\ (result[p] # "wait" => result'[p] = result[p]) BY <1>2, <1>4
<1>6. /\ col' \in [Ops -> States] /\ col'[o] = NoCollector
      /\ \A p \in Ops : p # o => col'[p] = col[p]
  BY <1>1, ShapeFacts, NoCollectorType
<1>7. mq' \in Seq(Jobs) /\ Len(mq') <= MediaCapacity /\ Adds(mq, mq', {}) BY <1>1, ShapeFacts, QueuesStay
<1>8. ASSUME NEW p \in Ops
      PROVE  /\ col'[p].phase # "none" => col[p].phase # "none" /\ col'[p].mode = col[p].mode
             /\ col'[p].phase = "acquiring" => col[p].phase = "acquiring"
             /\ col'[p].phase = "active" => col[p].phase = "active"
             /\ Len(col'[p].digits) <= MaxDigits[p]
             /\ col'[p].phase \in {"acquiring", "active"} => Len(col'[p].digits) < MaxDigits[p]
             /\ col'[p].digits \in {col[p].digits, << >>}
  <2>1. CASE p = o BY <1>6, <2>1, NoCollectorType
  <2>2. CASE p # o BY <1>6, <2>2, ShapeFacts
  <2> QED BY <2>1, <2>2
<1>9. Moves({}) BY <1>4, <1>5, <1>6, <1>7, <1>8 DEF Moves, MovesOf
<1>10. Keeps BY <1>6 DEF Keeps, Wanted
<1> QED BY <1>8, <1>9, <1>10 DEF SameDigits

\* ... and of one that was granted: the collection is active, or finished if it was cancelled
LEMMA ActivateMoves ==
  ASSUME Shape, NEW o \in Ops, col[o].phase = "acquiring", Granted(o), Becomes(Activate(o))
  PROVE  (\E S \in SUBSET Collectors : Moves(S)) /\ (Room => Keeps) /\ SameDigits
<1> DEFINE e == [col[o] EXCEPT !.phase = "active"]
           c == [col EXCEPT ![o].phase = "active"]
<1>1. e \in States BY ShapeFacts DEF States, Phases
<1>2. e.phase = "active" /\ e.mode = col[o].mode /\ e.digits = col[o].digits BY ShapeFacts DEF States
<1>3. c = [col EXCEPT ![o] = e] OBVIOUS
<1>4. col \in [Ops -> States] BY ShapeFacts
<1> HIDE DEF e
<1>5. c \in [Ops -> States] /\ c[o] = e /\ \A p \in Ops : p # o => c[p] = col[p]
  BY <1>1, <1>3, <1>4
<1>6. CASE col[o].cancel
  <2> DEFINE codes == [p \in {o} |-> "Cancelled"]
  <2>1. Becomes(Finish(c, codes)) BY <1>6 DEF Activate
  <2>2. DOMAIN codes = {o} /\ DOMAIN codes \in SUBSET Ops /\ \A p \in DOMAIN codes : codes[p] \in Codes BY DEF Codes
  <2> HIDE DEF codes, c
  <2>3. \A p \in Ops :
          /\ c[p].phase # "none" => col[p].phase # "none" /\ c[p].mode = col[p].mode
          /\ c[p].phase = "acquiring" => col[p].phase = "acquiring"
          /\ c[p].phase = "active" => col[p].phase = "active" \/ Granted(p)
          /\ Wanted(p) => c[p].phase \in {"acquiring", "active"}
          /\ Len(c[p].digits) <= MaxDigits[p]
          /\ p \notin DueIn(c, codes) /\ c[p].phase \in {"acquiring", "active"} => Len(c[p].digits) < MaxDigits[p]
    <3> TAKE p \in Ops
    <3>1. CASE p = o BY <1>2, <1>5, <3>1, ShapeFacts DEF Wanted
    <3>2. CASE p # o BY <1>5, <3>2, ShapeFacts DEF Wanted
    <3> QED BY <3>1, <3>2
  <2>4. /\ Moves(DueIn(c, codes)) /\ (Room => Keeps)
        /\ \A p \in Ops : col'[p].digits \in {c[p].digits, << >>}
    BY <1>5, <2>1, <2>2, <2>3, FinishMoves
  <2>5. \A p \in Ops : c[p].digits = col[p].digits BY <1>2, <1>5
  <2>6. DueIn(c, codes) \in SUBSET Collectors BY <2>4 DEF Moves
  <2> QED BY <2>4, <2>5, <2>6 DEF SameDigits
<1>7. CASE ~col[o].cancel
  <2>1. col' = c /\ mq' = mq /\ result' = result BY <1>7 DEF Activate, Becomes
  <2> HIDE DEF c
  <2>2. mq' \in Seq(Jobs) /\ Len(mq') <= MediaCapacity /\ Adds(mq, mq', {}) BY <2>1, ShapeFacts, QueuesStay
  <2>3. ASSUME NEW p \in Ops
        PROVE  /\ col'[p].phase # "none" => col[p].phase # "none" /\ col'[p].mode = col[p].mode
               /\ col'[p].phase = "acquiring" => col[p].phase = "acquiring"
               /\ col'[p].phase = "active" => col[p].phase = "active" \/ Granted(p)
               /\ Len(col'[p].digits) <= MaxDigits[p]
               /\ col'[p].phase \in {"acquiring", "active"} => Len(col'[p].digits) < MaxDigits[p]
               /\ col'[p].digits \in {col[p].digits, << >>}
               /\ Wanted(p) => /\ col'[p].phase \in {"acquiring", "active"}
                               /\ col[p].phase = "acquiring" => col'[p].phase = "acquiring" \/ Granted(p)
    <3>1. CASE p = o BY <1>2, <1>5, <2>1, <3>1, ShapeFacts DEF Wanted
    <3>2. CASE p # o BY <1>5, <2>1, <3>2, ShapeFacts DEF Wanted
    <3> QED BY <3>1, <3>2
  <2>4. Moves({}) BY <1>5, <2>1, <2>2, <2>3, ShapeFacts DEF Moves, MovesOf
  <2>5. Keeps BY <2>3 DEF Keeps
  <2>6. SameDigits BY <2>3 DEF SameDigits
  <2>7. {} \in SUBSET Collectors OBVIOUS
  <2> QED BY <2>4, <2>5, <2>6, <2>7
<1> QED BY <1>6, <1>7

\* handle_dtmf_capability_released
LEMMA ReleasedMoves ==
  ASSUME Shape, NEW o \in Ops, NEW m \in Outcomes, m.op = o, Has(results, "released", o), Released(m)
  PROVE  Moves({}) /\ Keeps /\ SameDigits
<1>1. CASE col[o].phase # "releasing"
  <2>1. col' = col /\ mq' = mq /\ result' = result BY <1>1 DEF Released
  <2>2. mq' \in Seq(Jobs) /\ Len(mq') <= MediaCapacity /\ Adds(mq, mq', {}) BY <2>1, ShapeFacts, QueuesStay
  <2>3. result' \in [Ops -> Codes \cup {"wait"}] /\ \A p \in Ops : (result'[p] \in Good => result[p] \in Good) /\ (result[p] # "wait" => result'[p] = result[p])
    BY <2>1, ShapeFacts
  <2> QED BY <2>1, <2>2, <2>3, StillMoves
<1>2. CASE col[o].phase = "releasing"
  <2> DEFINE v == IF m.ok THEN col[o].code ELSE "Failed"
  <2>1. col' = [col EXCEPT ![o] = NoCollector] /\ result' = Answer(result, o, v) /\ mq' = mq BY <1>2 DEF Released
  <2>2. v \in Codes \cup {"wait"} BY ShapeFacts DEF States, Codes
  <2> HIDE DEF v
  <2>3. result \in [Ops -> Codes \cup {"wait"}] BY ShapeFacts
  <2>4. /\ result' \in [Ops -> Codes \cup {"wait"}]
        /\ \A p \in Ops : result'[p] = IF p = o /\ result[p] = "wait" THEN v ELSE result[p]
    BY <2>1, <2>2, <2>3 DEF Answer
  <2>5. \A p \in Ops : result'[p] \in Good => result[p] \in Good \/ Has(results, "released", p) BY <2>4
  <2>11. \A p \in Ops : result[p] # "wait" => result'[p] = result[p] BY <2>4
  <2>6. /\ col' \in [Ops -> States] /\ col'[o] = NoCollector
        /\ \A p \in Ops : p # o => col'[p] = col[p]
    BY <2>1, ShapeFacts, NoCollectorType
  <2>7. mq' \in Seq(Jobs) /\ Len(mq') <= MediaCapacity /\ Adds(mq, mq', {}) BY <2>1, ShapeFacts, QueuesStay
  <2>8. ASSUME NEW p \in Ops
        PROVE  /\ col'[p].phase # "none" => col[p].phase # "none" /\ col'[p].mode = col[p].mode
               /\ col'[p].phase = "acquiring" => col[p].phase = "acquiring"
               /\ col'[p].phase = "active" => col[p].phase = "active"
               /\ Len(col'[p].digits) <= MaxDigits[p]
               /\ col'[p].phase \in {"acquiring", "active"} => Len(col'[p].digits) < MaxDigits[p]
               /\ col'[p].digits \in {col[p].digits, << >>}
    <3>1. CASE p = o BY <2>6, <3>1, NoCollectorType
    <3>2. CASE p # o BY <2>6, <3>2, ShapeFacts
    <3> QED BY <3>1, <3>2
  <2>9. Moves({}) BY <2>4, <2>5, <2>6, <2>7, <2>8, <2>11 DEF Moves, MovesOf
  <2>10. Keeps BY <1>2, <2>6 DEF Keeps, Wanted
  <2> QED BY <2>8, <2>9, <2>10 DEF SameDigits
<1> QED BY <1>1, <1>2

\* The coordinator takes a media result.
LEMMA TakeResultCoord ==
  ASSUME Shape, TakeResult
  PROVE  CoordStep /\ NoDigit /\ results' = Tail(results) /\ results # << >> /\ heard' = heard
<1> DEFINE m == Head(results)
           o == m.op
<1>1. /\ UNCHANGED <<service, task, worker, lease, config, parser, parsed, press, evq, heard, mgen, call,
                     lock, recent, consumed, relayed, stopped, reply>>
      /\ results # << >> /\ results' = Tail(results)
  BY DEF TakeResult, relay, source
<1>2. /\ m \in Outcomes /\ Drops(results, results') /\ results' \in Seq(Outcomes)
      /\ m = results[1] /\ 1 \in 1..Len(results)
  <2>1. Len(results) \in Nat BY ShapeFacts
  <2> QED BY <1>1, <2>1, ShapeFacts, TailDrops
<1>3. o \in Ops /\ m.kind \in {"acquired", "released"} /\ m.ok \in BOOLEAN BY <1>2 DEF Outcomes
<1>4. {} \in SUBSET Collectors OBVIOUS
<1>5. \/ call = "talking" /\ m.kind = "acquired" /\ Acquired(m)
      \/ call = "talking" /\ m.kind = "released" /\ Released(m)
      \/ UNCHANGED <<col, mq, ready, result>>
  BY DEF TakeResult
<1>6. CASE call = "talking" /\ m.kind = "acquired" /\ Acquired(m)
  <2>1. ready' \in [Ops -> {"wait", "ok", "err"}]
    <3> DEFINE v == IF m.ok THEN "ok" ELSE "err"
    <3>1. ready' = Answer(ready, o, v) BY <1>6 DEF Acquired
    <3>2. v \in {"wait", "ok", "err"} OBVIOUS
    <3> HIDE DEF v
    <3> QED BY <1>3, <3>1, <3>2, ShapeFacts, AnswerType
  <2>2. (\E S \in SUBSET Collectors : Moves(S)) /\ (Room => Keeps) /\ SameDigits
    <3>1. col[o].phase = "acquiring" /\ ((~m.ok /\ Refused(o)) \/ (m.ok /\ Becomes(Activate(o)))) BY <1>6 DEF Acquired
    <3>2. CASE ~m.ok /\ Refused(o)
      <4>1. m = [kind |-> "acquired", op |-> o, ok |-> FALSE] BY <1>2, <1>3, <1>6, <3>2 DEF Outcomes
      <4>2. Denied(o) BY <1>1, <4>1 DEF Denied
      <4> HIDE DEF o, m
      <4> QED BY <1>3, <1>4, <3>1, <3>2, <4>2, RefusedMoves
    <3>3. CASE m.ok /\ Becomes(Activate(o))
      <4>1. m = [kind |-> "acquired", op |-> o, ok |-> TRUE] BY <1>2, <1>3, <1>6, <3>3 DEF Outcomes
      <4>2. (\E i \in DOMAIN heard : heard[i].tr = "rfc") => "LateObservation" \in Races BY <1>6 DEF TakeResult
      <4>3. Granted(o) BY <1>1, <3>1, <4>1, <4>2 DEF Granted
      <4> HIDE DEF o, m
      <4> QED BY <1>3, <3>1, <3>3, <4>3, ActivateMoves
    <3> QED BY <3>1, <3>2, <3>3
  <2> HIDE DEF m, o
  <2> QED BY <1>1, <1>2, <1>6, <2>1, <2>2, ShapeFacts, QueuesStay DEF CoordStep, NoDigit
<1>7. CASE call = "talking" /\ m.kind = "released" /\ Released(m)
  <2>1. ready' = ready BY <1>7 DEF Released
  <2>2. Has(results, "released", o) BY <1>2, <1>7 DEF Has
  <2>3. Moves({}) /\ Keeps /\ SameDigits
    <3>1. m.op = o OBVIOUS
    <3> HIDE DEF m, o
    <3> QED BY <1>2, <1>3, <1>7, <2>2, <3>1, ReleasedMoves
  <2> HIDE DEF m, o
  <2> QED BY <1>1, <1>2, <1>4, <1>7, <2>1, <2>3, ShapeFacts, QueuesStay DEF CoordStep, NoDigit
<1>8. CASE UNCHANGED <<col, mq, ready, result>>
  <2>1. mq' \in Seq(Jobs) /\ Len(mq') <= MediaCapacity /\ Adds(mq, mq', {}) BY <1>8, ShapeFacts, QueuesStay
  <2>2. result' \in [Ops -> Codes \cup {"wait"}] /\ \A p \in Ops : (result'[p] \in Good => result[p] \in Good) /\ (result[p] # "wait" => result'[p] = result[p])
    BY <1>8, ShapeFacts
  <2>3. Moves({}) /\ Keeps /\ SameDigits BY <1>8, <2>1, <2>2, StillMoves
  <2>4. call' # "talking" => \A p \in Ops : col'[p] = NoCollector BY <1>1, <1>8, ShapeFacts
  <2> HIDE DEF m, o
  <2> QED BY <1>1, <1>2, <1>4, <1>8, <2>3, <2>4, ShapeFacts, QueuesStay DEF CoordStep, NoDigit
<1> QED BY <1>1, <1>5, <1>6, <1>7, <1>8

\* The digit p is added where it is taken.
AddsDigit(p) == \A o \in Ops : col'[o].digits \in {col[o].digits, << >>, Append(col[o].digits, p)}

\* apply_digit_to_collectors
LEMMA RouteMoves ==
  ASSUME Shape, NEW m \in Digits, RouteDigit(m)
  PROVE  (\E S \in SUBSET Collectors : Moves(S)) /\ (Room => Keeps) /\ AddsDigit(m.press)
<1> DEFINE p == m.press
           c == [o \in Ops |-> IF Takes(o, p) THEN [col[o] EXCEPT !.digits = Append(@, p)] ELSE col[o]]
           codes == Completions(p)
<1>1. Becomes(Finish(c, codes)) BY DEF RouteDigit
<1>2. p \in Presses BY DEF Digits
<1>3. /\ DOMAIN codes = {q \in Ops : /\ col[q].phase = "active"
                                     /\ p \in Terminators[q] \/ Len(col[q].digits) + 1 >= MaxDigits[q]}
      /\ \A o \in DOMAIN codes : codes[o] \in Codes
  BY DEF Completions, Codes
<1> HIDE DEF p, codes
<1>4. ASSUME NEW o \in Ops
      PROVE  /\ c[o] \in States /\ c[o].phase = col[o].phase /\ c[o].mode = col[o].mode
             /\ c[o].digits \in {col[o].digits, Append(col[o].digits, p)}
             /\ Takes(o, p) => c[o].digits = Append(col[o].digits, p)
             /\ ~Takes(o, p) => c[o] = col[o]
  <2>1. CASE Takes(o, p)
    <3> DEFINE e == [col[o] EXCEPT !.digits = Append(@, p)]
    <3>1. c[o] = e BY <2>1
    <3>2. col[o] \in States /\ col[o].digits \in Seq(Presses) BY ShapeFacts
    <3>3. Append(col[o].digits, p) \in Seq(Presses) BY <1>2, <3>2
    <3>4. e \in States BY <3>2, <3>3 DEF States
    <3>5. e.phase = col[o].phase /\ e.mode = col[o].mode /\ e.digits = Append(col[o].digits, p)
      BY <3>2 DEF States
    <3> HIDE DEF e, c
    <3> QED BY <2>1, <3>1, <3>4, <3>5
  <2>2. CASE ~Takes(o, p)
    <3>1. c[o] = col[o] BY <2>2
    <3> HIDE DEF c
    <3> QED BY <2>2, <3>1, ShapeFacts
  <2> QED BY <2>1, <2>2
<1>5. c \in [Ops -> States]
  <2>1. c = [o \in Ops |-> c[o]] OBVIOUS
  <2> HIDE DEF c
  <2> QED BY <1>4, <2>1
<1> HIDE DEF c
<1>6. ASSUME NEW o \in Ops
      PROVE  /\ c[o].phase # "none" => col[o].phase # "none" /\ c[o].mode = col[o].mode
             /\ c[o].phase = "acquiring" => col[o].phase = "acquiring"
             /\ c[o].phase = "active" => col[o].phase = "active" \/ Granted(o)
             /\ Wanted(o) => c[o].phase \in {"acquiring", "active"}
             /\ Len(c[o].digits) <= MaxDigits[o]
             /\ o \notin DueIn(c, codes) /\ c[o].phase \in {"acquiring", "active"} => Len(c[o].digits) < MaxDigits[o]
  <2>1. /\ c[o].phase # "none" => col[o].phase # "none" /\ c[o].mode = col[o].mode
        /\ c[o].phase = "acquiring" => col[o].phase = "acquiring"
        /\ c[o].phase = "active" => col[o].phase = "active" \/ Granted(o)
        /\ Wanted(o) => c[o].phase \in {"acquiring", "active"}
    BY <1>4 DEF Wanted
  <2>2. MaxDigits[o] \in Nat /\ col[o].digits \in Seq(Presses) /\ Len(col[o].digits) \in Nat
    BY ShapeFacts, NoCollectorType
  <2>3. CASE Takes(o, p)
    <3>1. Len(c[o].digits) = Len(col[o].digits) + 1 BY <1>2, <1>4, <2>2, <2>3
    <3>2. col[o].phase = "active" /\ p \notin Terminators[o] /\ Len(col[o].digits) < MaxDigits[o] BY <2>3, ShapeFacts DEF Takes
    <3>3. Len(c[o].digits) <= MaxDigits[o] BY <2>2, <3>1, <3>2
    <3>4. o \notin DueIn(c, codes) => ~(Len(col[o].digits) + 1 >= MaxDigits[o])
      BY <1>3, <1>4, <3>2 DEF DueIn
    <3> QED BY <2>1, <2>2, <3>1, <3>3, <3>4
  <2>4. CASE ~Takes(o, p)
    <3>1. c[o] = col[o] BY <1>4, <2>4
    <3> QED BY <2>1, <3>1, ShapeFacts
  <2> QED BY <2>3, <2>4
<1>7. DOMAIN codes \in SUBSET Ops BY <1>3
<1>8. /\ Moves(DueIn(c, codes)) /\ (Room => Keeps)
      /\ \A o \in Ops : col'[o].digits \in {c[o].digits, << >>}
  BY <1>1, <1>3, <1>5, <1>6, <1>7, FinishMoves
<1>9. DueIn(c, codes) \in SUBSET Collectors BY <1>8 DEF Moves
<1>10. AddsDigit(p) BY <1>4, <1>8 DEF AddsDigit
<1> QED BY <1>8, <1>9, <1>10 DEF p

\* The coordinator takes a digit.
LEMMA TakeDigitCoord == ASSUME Shape, TakeDigit PROVE CoordStep /\ AddsDigit(Head(heard).press)
<1> DEFINE m == Head(heard)
<1>1. /\ UNCHANGED <<service, task, worker, lease, config, parser, parsed, press, evq, results, mgen, call,
                     stopped, reply, ready>>
      /\ heard # << >> /\ heard' = Tail(heard)
  BY DEF TakeDigit
<1>2. m \in Digits /\ heard' \in Seq(Digits) BY <1>1, ShapeFacts, TailDrops
<1>3. CASE call = "talking" /\ Locked(m) /\ RouteDigit(m)
  <2>1. lock' \in [tr : {"unset", "rfc", "info"}, gen : Nat] BY <1>2, <1>3 DEF Locked, Digits
  <2> HIDE DEF m
  <2>2. (\E S \in SUBSET Collectors : Moves(S)) /\ (Room => Keeps) /\ AddsDigit(m.press) BY <1>2, <1>3, RouteMoves
  <2>3. CoordStep BY <1>1, <1>2, <1>3, <2>1, <2>2, ShapeFacts, QueuesStay DEF CoordStep
  <2> QED BY <2>2, <2>3 DEF m
<1>4. CASE UNCHANGED <<lock, recent, consumed, relayed, col, mq, result>>
  <2>1. mq' \in Seq(Jobs) /\ Len(mq') <= MediaCapacity /\ Adds(mq, mq', {}) BY <1>4, ShapeFacts, QueuesStay
  <2>2. result' \in [Ops -> Codes \cup {"wait"}] /\ \A p \in Ops : (result'[p] \in Good => result[p] \in Good) /\ (result[p] # "wait" => result'[p] = result[p])
    BY <1>4, ShapeFacts
  <2>3. Moves({}) /\ Keeps /\ SameDigits BY <1>4, <2>1, <2>2, StillMoves
  <2>4. call' # "talking" => \A p \in Ops : col'[p] = NoCollector BY <1>1, <1>4, ShapeFacts
  <2>5. {} \in SUBSET Collectors OBVIOUS
  <2> HIDE DEF m
  <2>6. CoordStep BY <1>1, <1>2, <1>4, <2>3, <2>4, <2>5, ShapeFacts, QueuesStay DEF CoordStep
  <2>7. AddsDigit(Head(heard).press) BY <2>3 DEF AddsDigit, SameDigits
  <2> QED BY <2>6, <2>7
<1> QED BY <1>3, <1>4 DEF TakeDigit, SourceDigit

----------------------------------------------------------------------------
(* The coordinator's steps keep the invariant *)

\* What a queue with more releases has.
LEMMA AddsHas ==
  ASSUME NEW q \in Seq(Jobs), NEW r \in Seq(Jobs), NEW S, Adds(q, r, S)
  PROVE  /\ \A o : Has(r, "acquire", o) => Has(q, "acquire", o)
         /\ \A kind, o : Has(q, kind, o) => Has(r, kind, o)
         /\ \A o \in Ops : Has(r, "release", o) => Has(q, "release", o) \/ o \in S
         /\ \A o \in Ops : Names(r, o) => Names(q, o) \/ o \in S
         /\ OneEach(q, "acquire") => OneEach(r, "acquire")
         /\ \A i \in 1..Len(r) : r[i].kind = "acquire" => i \in 1..Len(q) /\ r[i] = q[i]
         /\ \A i \in 1..Len(q) : i \in 1..Len(r) /\ r[i] = q[i]
         /\ \A i, j \in 1..Len(r) : i < j /\ r[j].kind = "acquire" => i \in 1..Len(q) /\ r[i] = q[i]
<1>1. /\ Len(q) \in Nat /\ Len(r) \in Nat /\ Len(q) <= Len(r)
      /\ \A i \in 1..Len(q) : r[i] = q[i]
      /\ \A i \in 1..Len(r) : i > Len(q) => r[i].kind = "prepare" \/ (r[i].kind = "release" /\ r[i].op \in S)
  BY DEF Adds
<1>2. \A i \in 1..Len(q) : i \in 1..Len(r) /\ r[i] = q[i] BY <1>1
<1>3. \A i \in 1..Len(r) : i \in 1..Len(q) \/ i > Len(q) BY <1>1
<1>4. \A i \in 1..Len(r) : r[i].kind = "acquire" => i \in 1..Len(q) /\ r[i] = q[i] BY <1>1, <1>3
<1>5. \A i, j \in 1..Len(r) : i < j /\ r[j].kind = "acquire" => i \in 1..Len(q) /\ r[i] = q[i]
  <2> TAKE i, j \in 1..Len(r)
  <2> HAVE i < j /\ r[j].kind = "acquire"
  <2>1. j \in 1..Len(q) BY <1>4
  <2>2. i \in 1..Len(q) BY <1>1, <2>1
  <2> QED BY <1>2, <2>2
<1>6. \A i \in 1..Len(r) : r[i].kind = "prepare" => r[i].op \notin Ops
  <2>1. \A i \in 1..Len(r) : r[i] \in Jobs OBVIOUS
  <2> QED BY <2>1, OpsAreNumbers DEF Jobs
<1>7. \A o : Has(r, "acquire", o) => Has(q, "acquire", o) BY <1>4 DEF Has
<1>8. \A kind, o : Has(q, kind, o) => Has(r, kind, o) BY <1>2 DEF Has
<1>9. \A o \in Ops : Has(r, "release", o) => Has(q, "release", o) \/ o \in S BY <1>1, <1>3 DEF Has
<1>10. \A o \in Ops : Names(r, o) => Names(q, o) \/ o \in S BY <1>1, <1>3, <1>6 DEF Names
<1>11. OneEach(q, "acquire") => OneEach(r, "acquire") BY <1>4 DEF OneEach
<1> QED BY <1>2, <1>4, <1>5, <1>7, <1>8, <1>9, <1>10, <1>11

\* A queue that is shorter at the front is shorter.
LEMMA DropsShorter ==
  ASSUME NEW T, NEW q \in Seq(T), NEW r \in Seq(T), Drops(q, r)
  PROVE  Len(r) <= Len(q) /\ Len(r) \in Nat /\ Len(q) \in Nat
<1>1. PICK k \in 0..Len(q) : Len(r) = Len(q) - k BY DEF Drops
<1> QED BY <1>1

\* Fewer collectors keep to the capacity.
LEMMA FewerCollectors ==
  ASSUME Shape, Collectors' \in SUBSET Collectors
  PROVE  Cardinality(Collectors') <= CollectorCapacity
<1>1. Collectors \in SUBSET Ops BY DEF Collectors
<1>2. IsFiniteSet(Collectors) /\ Cardinality(Collectors) \in Nat BY <1>1, Places
<1>3. Cardinality(Collectors') <= Cardinality(Collectors) BY <1>2, FS_Subset
<1>4. Cardinality(Collectors') \in Nat
  <2>1. IsFiniteSet(Collectors') BY <1>2, FS_Subset
  <2> QED BY <2>1, FS_CardinalityType
<1>5. Cardinality(Collectors) <= CollectorCapacity /\ CollectorCapacity \in Nat BY DtmfAssumption DEF Shape, ColOK
<1> QED BY <1>2, <1>3, <1>4, <1>5

\* The shape.
LEMMA CoordShape == ASSUME Shape, CoordStep PROVE Shape'
<1>1. PICK S \in SUBSET Collectors : Moves(S) BY DEF CoordStep
<1>2. ServiceOK' BY DEF CoordStep, Shape, ServiceOK, service
<1>3. RepliesOK' BY <1>1 DEF CoordStep, Shape, RepliesOK, Moves, MovesOf
<1>4. ActorOK'
  <2>1. Len(evq') <= Len(evq) /\ Len(evq') \in Nat /\ Len(evq) \in Nat BY ShapeFacts, DropsShorter DEF CoordStep
  <2>2. Len(evq) <= EventCapacity /\ EventCapacity \in Nat BY DtmfAssumption DEF Shape, ActorOK
  <2>3. Len(evq') <= EventCapacity BY <2>1, <2>2
  <2> QED BY <2>3 DEF CoordStep, ActorOK
<1>5. ColOK'
  <2>1. Collectors' \in SUBSET Collectors BY <1>1 DEF Moves, MovesOf, Collectors
  <2>2. Cardinality(Collectors') <= CollectorCapacity BY <2>1, FewerCollectors
  <2>3. col' \in [Ops -> States] BY <1>1 DEF Moves, MovesOf
  <2>4. \A o \in Ops : /\ Len(col'[o].digits) <= MaxDigits[o]
                       /\ col'[o].phase \in {"acquiring", "active"} => Len(col'[o].digits) < MaxDigits[o]
    BY <1>1 DEF Moves, MovesOf
  <2>5. call' # "talking" => \A o \in Ops : col'[o] = NoCollector BY DEF CoordStep
  <2> QED BY <2>2, <2>3, <2>4, <2>5 DEF ColOK
<1>6. MediaOK'
  <2>1. mq' \in Seq(Jobs) /\ Len(mq') <= MediaCapacity BY <1>1 DEF Moves, MovesOf
  <2>2. /\ worker' \in Workers /\ lease' \in [Ops -> Leases] /\ config' \in Configs
        /\ worker'.step = "gone" => call' = "gone"
    BY DEF CoordStep, Shape, MediaOK
  <2> QED BY <2>1, <2>2 DEF MediaOK
<1>7. RelayOK' BY DEF CoordStep, Shape, RelayOK
<1> QED BY <1>2, <1>3, <1>4, <1>5, <1>6, <1>7 DEF Shape

\* What a step of the coordinator leaves of the queues.
LEMMA CoordQueues ==
  ASSUME Shape, CoordStep
  PROVE  /\ \A kind, o : Has(evq', kind, o) => Has(evq, kind, o)
         /\ \A kind : OneEach(evq, kind) => OneEach(evq', kind)
         /\ \A kind, o : Has(results', kind, o) => Has(results, kind, o)
         /\ \A i \in 1..Len(results') : \E a \in 1..Len(results) : results'[i] = results[a]
         /\ \A o \in Ops : Has(mq', "acquire", o) => Has(mq, "acquire", o)
         /\ OneEach(mq, "acquire") => OneEach(mq', "acquire")
         /\ \A o \in Ops : Names(mq', o) => Names(mq, o) \/ col[o].phase # "none"
         /\ \A o \in Ops : Names(results', o) => Names(results, o)
         /\ \A i \in 1..Len(mq') : mq'[i].kind = "acquire" => i \in 1..Len(mq) /\ mq'[i] = mq[i]
         /\ \A i, j \in 1..Len(mq') : i < j /\ mq'[j].kind = "acquire" => i \in 1..Len(mq) /\ mq'[i] = mq[i]
         /\ \A kind, o : Has(mq, kind, o) => Has(mq', kind, o)
<1>1. PICK S \in SUBSET Collectors : Moves(S) BY DEF CoordStep
<1>2. /\ \A kind, o : Has(evq', kind, o) => Has(evq, kind, o)
      /\ \A kind : OneEach(evq, kind) => OneEach(evq', kind)
  BY ShapeFacts, DropsHas DEF CoordStep
<1>3. /\ \A kind, o : Has(results', kind, o) => Has(results, kind, o)
      /\ \A i \in 1..Len(results') : \E a \in 1..Len(results) : results'[i] = results[a]
      /\ \A o \in Ops : Names(results', o) => Names(results, o)
  BY ShapeFacts, DropsHas DEF CoordStep
<1>4. mq' \in Seq(Jobs) /\ Adds(mq, mq', S) BY <1>1 DEF Moves, MovesOf
<1>5. \A o \in S : col[o].phase # "none" BY DEF Collectors
<1>6. mq \in Seq(Jobs) BY ShapeFacts
<1>7. /\ \A o \in Ops : Has(mq', "acquire", o) => Has(mq, "acquire", o)
      /\ OneEach(mq, "acquire") => OneEach(mq', "acquire")
      /\ \A o \in Ops : Names(mq', o) => Names(mq, o) \/ o \in S
      /\ \A i \in 1..Len(mq') : mq'[i].kind = "acquire" => i \in 1..Len(mq) /\ mq'[i] = mq[i]
      /\ \A i, j \in 1..Len(mq') : i < j /\ mq'[j].kind = "acquire" => i \in 1..Len(mq) /\ mq'[i] = mq[i]
      /\ \A kind, o : Has(mq, kind, o) => Has(mq', kind, o)
  BY <1>4, <1>6, AddsHas
<1> QED BY <1>2, <1>3, <1>5, <1>7

\* Starts, acquisitions and releases.
LEMMA CoordLife ==
  ASSUME Shape, StartsOnce, AcquiresOnce, ReleasesClose, CoordStep
  PROVE  StartsOnce' /\ AcquiresOnce' /\ ReleasesClose'
<1>1. PICK S \in SUBSET Collectors : Moves(S) BY DEF CoordStep
<1>2. /\ status' = status /\ opq' = opq /\ task' = task /\ worker' = worker /\ lease' = lease
  BY DEF CoordStep, service
<1>3. \A o \in Ops : /\ col'[o].phase # "none" => col[o].phase # "none"
                     /\ result'[o] \in Good => result[o] \in Good \/ Has(results, "released", o)
  BY <1>1 DEF Moves, MovesOf
<1>4. \A o \in Ops : Begun(o) => Begun(o)' BY <1>2, CoordQueues DEF Begun
<1>5. \A o \in Ops : Touched(o)' => Touched(o)
  <2>1. \A o \in Ops : Has(results, "released", o) => Names(results, o) BY DEF Has, Names
  <2>2. \A o \in Ops : /\ Names(mq', o) => Names(mq, o) \/ col[o].phase # "none"
                       /\ Names(results', o) => Names(results, o)
    BY CoordQueues
  <2> QED BY <1>2, <1>3, <2>1, <2>2 DEF Touched
<1>6. StartsOnce'
  <2>1. OneEach(opq', "start") /\ OneEach(evq', "start") BY <1>2, CoordQueues DEF StartsOnce
  <2>2. \A o \in Ops : status'[o] = "none" =>
          ~Has(opq', "start", o) /\ ~Has(evq', "start", o) /\ task'[o] = "none"
    BY <1>2, CoordQueues DEF StartsOnce
  <2>3. \A o \in Ops : Has(opq', "start", o) => ~Has(evq', "start", o) BY <1>2, CoordQueues DEF StartsOnce
  <2>4. \A o \in Ops : Touched(o)' => Begun(o)' BY <1>4, <1>5 DEF StartsOnce
  <2> QED BY <2>1, <2>2, <2>3, <2>4 DEF StartsOnce
<1>7. AcquiresOnce'
  <2>1. OneEach(mq', "acquire") BY CoordQueues DEF AcquiresOnce
  <2>2. \A o \in Ops : Has(mq', "acquire", o) =>
          lease'[o].state # "active" /\ ~AcquiresFor(o)' /\ ~Has(results', "acquired", o)
    BY <1>2, CoordQueues DEF AcquiresOnce, AcquiresFor
  <2>3. \A o \in Ops : AcquiresFor(o)' => ~Has(results', "acquired", o)
    BY <1>2, CoordQueues DEF AcquiresOnce, AcquiresFor
  <2>4. ASSUME NEW i \in 1..Len(mq'), NEW j \in 1..Len(mq'), i < j, mq'[i].kind = "release", mq'[j].kind = "acquire"
        PROVE  mq'[i].op # mq'[j].op
    <3>1. i \in 1..Len(mq) /\ mq'[i] = mq[i] /\ j \in 1..Len(mq) /\ mq'[j] = mq[j] BY <2>4, CoordQueues
    <3> QED BY <2>4, <3>1 DEF AcquiresOnce
  <2> QED BY <2>1, <2>2, <2>3, <2>4 DEF AcquiresOnce
<1>8. ReleasesClose'
  <2>1. \A o \in Ops : Closed(o) => Closed(o)' BY <1>2, CoordQueues DEF Closed
  <2>2. \A o \in Ops : worker'.step \in {"draining", "releasing"} /\ worker'.op = o => Closed(o)'
    BY <1>2, <2>1 DEF ReleasesClose
  <2>3. \A o \in Ops : Has(results', "released", o) => Closed(o)' BY <2>1, CoordQueues DEF ReleasesClose
  <2>4. \A o \in Ops : result'[o] \in Good => Closed(o)' BY <1>3, <2>1 DEF ReleasesClose
  <2>5. ASSUME NEW i \in 1..Len(results'), results'[i].kind = "acquired", ~results'[i].ok
        PROVE  lease'[results'[i].op].state # "active"
    <3>1. PICK a \in 1..Len(results) : results'[i] = results[a] BY CoordQueues
    <3> QED BY <1>2, <2>5, <3>1 DEF ReleasesClose
  <2> QED BY <2>2, <2>3, <2>4, <2>5 DEF ReleasesClose
<1> QED BY <1>6, <1>7, <1>8

\* The coordinator's steps leave the reports and the mode alone.
LEMMA CoordCore == ASSUME Core, CoordStep PROVE Core'
<1>1. Shape /\ StartsOnce /\ AcquiresOnce /\ ReleasesClose BY DEF Core
<1>2. Shape' BY <1>1, CoordShape
<1>3. StartsOnce' /\ AcquiresOnce' /\ ReleasesClose' BY <1>1, CoordLife
<1>4. PICK S \in SUBSET Collectors : Moves(S) BY DEF CoordStep
<1>5. status' = status /\ task' = task /\ worker' = worker /\ lease' = lease /\ config' = config
  BY DEF CoordStep, service
<1>6. ReportsOutcome'
  <2>1. \A o \in Ops : result[o] # "wait" => result'[o] = result[o] BY <1>4 DEF Moves, MovesOf
  <2>2. \A o \in Ops : status[o] = "completed" => result[o] \in Good BY DEF Core, ReportsOutcome
  <2>3. "wait" \notin Good BY DEF Good
  <2> QED BY <1>5, <2>1, <2>2, <2>3 DEF ReportsOutcome
<1>7. Settled' BY <1>5 DEF Core, Settled
<1>8. ModeOK' BY <1>5 DEF Core, ModeOK, ModeFollowsLeases, Desired, Held
<1> QED BY <1>2, <1>3, <1>6, <1>7, <1>8 DEF Core

\* What a registration does.
Registered(m) ==
  LET o == m.op IN
  /\ UNCHANGED <<service, task, ready, result, reply, worker, lease, config, results, heard, mgen, call, stopped>>
  /\ UNCHANGED <<parser, parsed, press, lock, recent, consumed, relayed>>
  /\ evq # << >> /\ m = Head(evq) /\ evq' = Tail(evq) /\ m.kind = "start" /\ call = "talking"
  /\ col[o].phase = "none" /\ Cardinality(Collectors) < CollectorCapacity /\ Len(mq) < MediaCapacity
  /\ col' = [col EXCEPT ![o] = [NoCollector EXCEPT !.phase = "acquiring", !.mode = m.mode]]
  /\ mq' = Append(mq, [kind |-> "acquire", op |-> o, mode |-> m.mode, gen |-> mgen])

\* start_digit_collection
LEMMA TakeEventRegisters == ASSUME TakeEvent, Registering PROVE Registered(Head(evq))
<1> DEFINE m == Head(evq)
<1>1. /\ m.kind = "start" /\ Registers(m.op, m.mode) /\ Len(mq) < MediaCapacity BY DEF Registering
<1>2. /\ col' = [col EXCEPT ![m.op] = [NoCollector EXCEPT !.phase = "acquiring", !.mode = m.mode]]
      /\ mq' = Append(mq, [kind |-> "acquire", op |-> m.op, mode |-> m.mode, gen |-> mgen])
      /\ ready' = ready /\ result' = result /\ reply' = reply
  BY <1>1 DEF TakeEvent
<1>3. /\ UNCHANGED <<service, task, worker, lease, config, results, heard, mgen, call, stopped>>
      /\ UNCHANGED <<parser, parsed, press, lock, recent, consumed, relayed>>
      /\ evq # << >> /\ evq' = Tail(evq)
  BY DEF TakeEvent, relay, source
<1>4. call = "talking" /\ col[m.op].phase = "none" /\ Cardinality(Collectors) < CollectorCapacity
  BY <1>1 DEF Registers
<1> QED BY <1>1, <1>2, <1>3, <1>4 DEF Registered

\* The collector and the job it adds.
LEMMA RegisteredFacts ==
  ASSUME Shape, NEW m, Registered(m)
  PROVE  /\ m \in Messages /\ m.op \in Ops /\ m = evq[1] /\ 1 \in 1..Len(evq) /\ Len(evq') = Len(evq) - 1
         /\ evq' \in Seq(Messages) /\ Drops(evq, evq')
         /\ \A i \in 1..Len(evq') : i + 1 \in 1..Len(evq) /\ evq'[i] = evq[i + 1]
         /\ col' \in [Ops -> States] /\ \A o \in Ops : o # m.op => col'[o] = col[o]
         /\ col'[m.op].phase = "acquiring" /\ col'[m.op].mode = m.mode /\ col'[m.op].digits = << >>
         /\ mq' \in Seq(Jobs) /\ Len(mq') = Len(mq) + 1 /\ Len(mq) \in Nat
         /\ mq'[Len(mq) + 1].kind = "acquire" /\ mq'[Len(mq) + 1].op = m.op /\ mq'[Len(mq) + 1].mode = m.mode
         /\ \A i \in 1..Len(mq) : mq'[i] = mq[i]
         /\ \A i \in 1..Len(mq') : (i \in 1..Len(mq) /\ mq'[i] = mq[i]) \/ i = Len(mq) + 1
         /\ \A kind, o : Has(mq', kind, o) <=> (Has(mq, kind, o) \/ ("acquire" = kind /\ m.op = o))
         /\ \A o : Names(mq', o) <=> (Names(mq, o) \/ m.op = o)
<1> DEFINE e == [NoCollector EXCEPT !.phase = "acquiring", !.mode = m.mode]
           j == [kind |-> "acquire", op |-> m.op, mode |-> m.mode, gen |-> mgen]
<1>1. /\ evq # << >> /\ m = Head(evq) /\ evq' = Tail(evq) /\ col' = [col EXCEPT ![m.op] = e] /\ mq' = Append(mq, j)
  BY DEF Registered
<1>2. evq \in Seq(Messages) /\ mq \in Seq(Jobs) /\ mgen \in Nat /\ col \in [Ops -> States] BY ShapeFacts
<1>3. /\ m \in Messages /\ m = evq[1] /\ Len(evq) >= 1 /\ Len(evq') = Len(evq) - 1
      /\ evq' \in Seq(Messages) /\ Drops(evq, evq')
      /\ \A i \in 1..Len(evq') : i + 1 \in 1..Len(evq) /\ evq'[i] = evq[i + 1]
  BY <1>1, <1>2, TailDrops
<1>4. 1 \in 1..Len(evq) BY <1>2, <1>3
<1>5. m.op \in Ops /\ m.mode \in Modes BY <1>3 DEF Messages
<1>6. e \in States BY <1>5, NoCollectorType DEF States, Phases
<1>7. e.phase = "acquiring" /\ e.mode = m.mode /\ e.digits = << >> BY DEF NoCollector
<1>8. j \in Jobs /\ j.kind = "acquire" /\ j.op = m.op /\ j.mode = m.mode BY <1>2, <1>5 DEF Jobs
<1> HIDE DEF e, j
<1>9. /\ mq' \in Seq(Jobs) /\ Len(mq') = Len(mq) + 1 /\ Len(mq) \in Nat
      /\ mq'[Len(mq) + 1] = j
      /\ \A i \in 1..Len(mq) : mq'[i] = mq[i]
      /\ \A i \in 1..(Len(mq) + 1) : (i \in 1..Len(mq) /\ mq'[i] = mq[i]) \/ (i = Len(mq) + 1 /\ mq'[i] = j)
      /\ \A kind, o : Has(mq', kind, o) <=> (Has(mq, kind, o) \/ (j.kind = kind /\ j.op = o))
      /\ \A o : Names(mq', o) <=> (Names(mq, o) \/ j.op = o)
  BY <1>1, <1>2, <1>8, AppendHas
<1>10. /\ col' \in [Ops -> States] /\ \A o \in Ops : o # m.op => col'[o] = col[o]
       /\ col'[m.op] = e
  BY <1>1, <1>2, <1>5, <1>6
<1> QED BY <1>3, <1>4, <1>5, <1>7, <1>8, <1>9, <1>10

\* A registration keeps the invariant.
LEMMA RegisteredCore == ASSUME Core, NEW m, Registered(m) PROVE Core'
<1> DEFINE x == m.op
<1>0. Shape /\ StartsOnce /\ AcquiresOnce /\ ReleasesClose BY DEF Core
<1>1. /\ m \in Messages /\ x \in Ops /\ m = evq[1] /\ 1 \in 1..Len(evq) /\ Len(evq') = Len(evq) - 1
      /\ evq' \in Seq(Messages) /\ Drops(evq, evq')
      /\ \A i \in 1..Len(evq') : i + 1 \in 1..Len(evq) /\ evq'[i] = evq[i + 1]
  BY <1>0, RegisteredFacts
<1>2. /\ col' \in [Ops -> States] /\ \A o \in Ops : o # x => col'[o] = col[o]
      /\ col'[x].phase = "acquiring" /\ col'[x].mode = m.mode /\ col'[x].digits = << >>
  BY <1>0, RegisteredFacts
<1>3. /\ mq' \in Seq(Jobs) /\ Len(mq') = Len(mq) + 1 /\ Len(mq) \in Nat
      /\ mq'[Len(mq) + 1].kind = "acquire" /\ mq'[Len(mq) + 1].op = x
      /\ \A i \in 1..Len(mq) : mq'[i] = mq[i]
      /\ \A i \in 1..Len(mq') : (i \in 1..Len(mq) /\ mq'[i] = mq[i]) \/ i = Len(mq) + 1
  BY <1>0, RegisteredFacts
<1>4. /\ \A kind, o : Has(mq', kind, o) <=> (Has(mq, kind, o) \/ ("acquire" = kind /\ x = o))
      /\ \A o : Names(mq', o) <=> (Names(mq, o) \/ x = o)
  BY <1>0, RegisteredFacts
<1>5. /\ UNCHANGED <<status, order, attached, opq, task, ready, result, reply, worker, lease, config, results, heard,
                     mgen, call, stopped, parser, parsed, press, lock>>
      /\ m.kind = "start" /\ call = "talking" /\ Cardinality(Collectors) < CollectorCapacity /\ Len(mq) < MediaCapacity
      /\ col[x].phase = "none"
  BY DEF Registered, service
<1> HIDE DEF x
<1>6. Has(evq, "start", x) BY <1>1, <1>5 DEF Has, x
<1>7. ~Touched(x) /\ status[x] # "none" /\ ~Has(opq, "start", x) BY <1>0, <1>1, <1>6 DEF StartsOnce, Begun
<1>8. ~Has(evq', "start", x)
  <2> SUFFICES ASSUME NEW i \in 1..Len(evq'), evq'[i].kind = "start", evq'[i].op = x PROVE FALSE BY DEF Has
  <2>1. i + 1 \in 1..Len(evq) /\ evq[i + 1].kind = "start" /\ evq[i + 1].op = x /\ evq[1].kind = "start" /\ evq[1].op = x
    BY <1>1, <1>5 DEF x
  <2>2. i + 1 = 1 BY <1>0, <1>1, <2>1 DEF StartsOnce, OneEach
  <2> QED BY <2>2
<1>9. evq \in Seq(Messages) BY <1>0, ShapeFacts
<1>10. /\ \A kind, o : Has(evq', kind, o) => Has(evq, kind, o)
       /\ \A kind : OneEach(evq, kind) => OneEach(evq', kind)
  BY <1>1, <1>9, DropsHas
<1>11. /\ lease[x].state = "none" /\ worker.op # x /\ result[x] \notin Good /\ ~Names(mq, x) /\ ~Names(results, x)
  BY <1>7 DEF Touched
<1>12. \A kind : ~Has(mq, kind, x) /\ ~Has(results, kind, x) BY <1>11 DEF Has, Names
<1>13. Shape'
  <2>1. ServiceOK' BY <1>0, <1>5 DEF Shape, ServiceOK
  <2>2. RepliesOK' BY <1>0, <1>5 DEF Shape, RepliesOK
  <2>3. ActorOK'
    <3>1. Len(evq) \in Nat /\ Len(evq) <= EventCapacity /\ EventCapacity \in Nat
      BY <1>0, <1>9, DtmfAssumption DEF Shape, ActorOK
    <3>2. Len(evq') <= EventCapacity BY <1>1, <3>1
    <3> QED BY <1>0, <1>1, <1>5, <3>2 DEF Shape, ActorOK
  <2>4. ColOK'
    <3>1. Collectors' = Collectors \cup {x} BY <1>1, <1>2 DEF Collectors
    <3>2. Collectors \in SUBSET Ops BY DEF Collectors
    <3>3. IsFiniteSet(Collectors) /\ Cardinality(Collectors) \in Nat BY <3>2, Places
    <3>4. x \notin Collectors BY <1>5 DEF Collectors
    <3>5. Cardinality(Collectors') = Cardinality(Collectors) + 1 BY <3>1, <3>3, <3>4, FS_AddElement
    <3>6. CollectorCapacity \in Nat BY DtmfAssumption
    <3>7. Cardinality(Collectors') <= CollectorCapacity BY <1>5, <3>3, <3>5, <3>6
    <3>8. ASSUME NEW o \in Ops
          PROVE  /\ Len(col'[o].digits) <= MaxDigits[o]
                 /\ col'[o].phase \in {"acquiring", "active"} => Len(col'[o].digits) < MaxDigits[o]
      <4>1. CASE o = x
        <5>1. Len(col'[o].digits) = 0 BY <1>2, <4>1
        <5> QED BY <5>1, NoCollectorType
      <4>2. CASE o # x BY <1>0, <1>2, <4>2, ShapeFacts
      <4> QED BY <4>1, <4>2
    <3> QED BY <1>2, <1>5, <3>7, <3>8 DEF ColOK
  <2>5. MediaOK'
    <3>1. MediaCapacity \in Nat BY DtmfAssumption
    <3>2. Len(mq') <= MediaCapacity BY <1>3, <1>5, <3>1
    <3> QED BY <1>0, <1>3, <1>5, <3>2 DEF Shape, MediaOK
  <2>6. RelayOK' BY <1>0, <1>5 DEF Shape, RelayOK
  <2> QED BY <2>1, <2>2, <2>3, <2>4, <2>5, <2>6 DEF Shape
<1>14. StartsOnce'
  <2>1. OneEach(opq', "start") /\ OneEach(evq', "start") BY <1>0, <1>5, <1>10 DEF StartsOnce
  <2>2. \A o \in Ops : status'[o] = "none" =>
          ~Has(opq', "start", o) /\ ~Has(evq', "start", o) /\ task'[o] = "none"
    BY <1>0, <1>5, <1>10 DEF StartsOnce
  <2>3. \A o \in Ops : Has(opq', "start", o) => ~Has(evq', "start", o) BY <1>0, <1>5, <1>10 DEF StartsOnce
  <2>4. ASSUME NEW o \in Ops, Touched(o)' PROVE Begun(o)'
    <3>1. CASE o = x BY <1>5, <1>7, <1>8, <3>1 DEF Begun
    <3>2. CASE o # x
      <4>1. Touched(o) BY <1>2, <1>4, <1>5, <2>4, <3>2 DEF Touched
      <4>2. Begun(o) BY <1>0, <4>1 DEF StartsOnce
      <4> QED BY <1>5, <1>10, <4>2 DEF Begun
    <3> QED BY <3>1, <3>2
  <2> QED BY <2>1, <2>2, <2>3, <2>4 DEF StartsOnce
<1>15. AcquiresOnce'
  <2>1. OneEach(mq', "acquire")
    <3> SUFFICES ASSUME NEW i \in 1..Len(mq'), NEW j \in 1..Len(mq'),
                        mq'[i].kind = "acquire", mq'[j].kind = "acquire", mq'[i].op = mq'[j].op
                 PROVE  i = j
      BY DEF OneEach
    <3>1. \A k \in 1..Len(mq) : mq'[k].op # x BY <1>3, <1>11 DEF Names
    <3>2. \A a, b \in 1..Len(mq) : mq[a].kind = "acquire" /\ mq[b].kind = "acquire" /\ mq[a].op = mq[b].op => a = b
      BY <1>0 DEF AcquiresOnce, OneEach
    <3>3. CASE i \in 1..Len(mq) /\ j \in 1..Len(mq) BY <1>3, <3>2, <3>3
    <3>4. CASE i = Len(mq) + 1 /\ j \in 1..Len(mq) BY <1>3, <3>1, <3>4
    <3>5. CASE i \in 1..Len(mq) /\ j = Len(mq) + 1 BY <1>3, <3>1, <3>5
    <3> QED BY <1>3, <3>3, <3>4, <3>5
  <2>2. ASSUME NEW o \in Ops, Has(mq', "acquire", o)
        PROVE  lease'[o].state # "active" /\ ~AcquiresFor(o)' /\ ~Has(results', "acquired", o)
    <3>1. CASE o = x BY <1>5, <1>11, <1>12, <3>1 DEF AcquiresFor
    <3>2. CASE o # x
      <4>1. Has(mq, "acquire", o) BY <1>4, <2>2, <3>2
      <4> QED BY <1>0, <1>5, <4>1 DEF AcquiresOnce, AcquiresFor
    <3> QED BY <3>1, <3>2
  <2>3. \A o \in Ops : AcquiresFor(o)' => ~Has(results', "acquired", o)
    BY <1>0, <1>5 DEF AcquiresOnce, AcquiresFor
  <2>4. ASSUME NEW i \in 1..Len(mq'), NEW j \in 1..Len(mq'), i < j, mq'[i].kind = "release", mq'[j].kind = "acquire"
        PROVE  mq'[i].op # mq'[j].op
    <3>1. i \in 1..Len(mq) /\ mq'[i] = mq[i] BY <1>3, <2>4
    <3>2. CASE j \in 1..Len(mq) BY <1>0, <1>3, <2>4, <3>1, <3>2 DEF AcquiresOnce
    <3>3. CASE j = Len(mq) + 1 BY <1>3, <1>11, <3>1, <3>3 DEF Names
    <3> QED BY <1>3, <3>2, <3>3
  <2> QED BY <2>1, <2>2, <2>3, <2>4 DEF AcquiresOnce
<1>16. ReleasesClose'
  <2>1. \A o \in Ops : o # x /\ Closed(o) => Closed(o)' BY <1>4, <1>5 DEF Closed
  <2>2. \A o \in Ops : worker'.step \in {"draining", "releasing"} /\ worker'.op = o => Closed(o)'
    BY <1>0, <1>5, <1>11, <2>1 DEF ReleasesClose
  <2>3. \A o \in Ops : Has(results', "released", o) => Closed(o)' BY <1>0, <1>5, <1>12, <2>1 DEF ReleasesClose
  <2>4. \A o \in Ops : result'[o] \in Good => Closed(o)' BY <1>0, <1>5, <1>11, <2>1 DEF ReleasesClose
  <2>5. \A i \in 1..Len(results') :
          results'[i].kind = "acquired" /\ ~results'[i].ok => lease'[results'[i].op].state # "active"
    BY <1>0, <1>5 DEF ReleasesClose
  <2> QED BY <2>2, <2>3, <2>4, <2>5 DEF ReleasesClose
<1>17. ReportsOutcome' /\ Settled' BY <1>5 DEF Core, ReportsOutcome, Settled
<1>18. ModeOK' BY <1>5 DEF Core, ModeOK, ModeFollowsLeases, Desired, Held
<1> QED BY <1>13, <1>14, <1>15, <1>16, <1>17, <1>18 DEF Core

----------------------------------------------------------------------------
(* The operation service *)

Over == Terminal \cup {"forgotten"}

\* update
LEMMA UpdatedFacts ==
  ASSUME NEW f \in [Ops -> Statuses], NEW o \in Ops, NEW new \in Statuses
  PROVE  /\ Updated(f, o, new) \in [Ops -> Statuses]
         /\ \A p \in Ops : p # o => Updated(f, o, new)[p] = f[p]
         /\ Updated(f, o, new)[o] \in {f[o], new}
         /\ f[o] \in Over \cup {"none"} => Updated(f, o, new)[o] = f[o]
         /\ f[o] \notin Over \cup {"none"} => Updated(f, o, new)[o] = new
BY DEF Updated, Over

\* Steps of the service leave the call and the media alone.
ServiceFrame ==
  UNCHANGED <<ready, result, call, mgen, col, mq, worker, lease, config, results, heard, stopped,
              parser, parsed, press, lock>>

\* Such a step keeps the invariant if it keeps what is said of the service.
LEMMA ServiceCore ==
  ASSUME Core, ServiceFrame, ServiceOK',
         task' \in [Ops -> {"none", "ready", "result", "done"}], reply' \in [Ops -> {"none", "wait", "err"}],
         evq' \in Seq(Messages), Len(evq') <= EventCapacity,
         OneEach(opq', "start"), OneEach(evq', "start"),
         \A o \in Ops : status'[o] = "none" => ~Has(opq', "start", o) /\ ~Has(evq', "start", o) /\ task'[o] = "none",
         \A o \in Ops : Has(opq', "start", o) => ~Has(evq', "start", o),
         \A o \in Ops : Begun(o) => Begun(o)',
         ReportsOutcome', Settled'
  PROVE  Core'
<1>1. Shape'
  <2>1. RepliesOK' BY DEF Core, Shape, RepliesOK, ServiceFrame
  <2>2. ActorOK' BY DEF Core, Shape, ActorOK, ServiceFrame
  <2>3. ColOK' BY DEF Core, Shape, ColOK, ServiceFrame, Collectors
  <2>4. MediaOK' BY DEF Core, Shape, MediaOK, ServiceFrame
  <2>5. RelayOK' BY DEF Core, Shape, RelayOK, ServiceFrame
  <2> QED BY <2>1, <2>2, <2>3, <2>4, <2>5 DEF Shape
<1>2. StartsOnce'
  <2>1. \A o \in Ops : Touched(o)' => Touched(o) BY DEF Touched, ServiceFrame
  <2>2. \A o \in Ops : Touched(o)' => Begun(o)' BY <2>1 DEF Core, StartsOnce
  <2> QED BY <2>2 DEF StartsOnce
<1>3. AcquiresOnce' BY DEF Core, AcquiresOnce, AcquiresFor, ServiceFrame
<1>4. ReleasesClose' BY DEF Core, ReleasesClose, Closed, ServiceFrame
<1>5. ModeOK' BY DEF Core, ModeOK, ModeFollowsLeases, Desired, Held, ServiceFrame
<1> QED BY <1>1, <1>2, <1>3, <1>4, <1>5 DEF Core

\* What the service knows.
LEMMA ServiceFacts ==
  ASSUME Core
  PROVE  /\ status \in [Ops -> Statuses] /\ order \in Seq(Ops) /\ Len(order) <= HistoryCapacity
         /\ opq \in Seq(Messages) /\ Len(opq) <= OpCapacity /\ attached \in BOOLEAN
         /\ evq \in Seq(Messages) /\ Len(evq) <= EventCapacity
         /\ task \in [Ops -> {"none", "ready", "result", "done"}] /\ reply \in [Ops -> {"none", "wait", "err"}]
         /\ OneEach(opq, "start") /\ OneEach(evq, "start")
         /\ \A o \in Ops : status[o] = "none" => ~Has(opq, "start", o) /\ ~Has(evq, "start", o) /\ task[o] = "none"
         /\ \A o \in Ops : Has(opq, "start", o) => ~Has(evq, "start", o)
         /\ \A o \in Ops : status[o] = "completed" => result[o] \in Good
         /\ \A o \in Ops : task[o] = "done" => status[o] \in Over
BY DEF Core, Shape, ServiceOK, ActorOK, RepliesOK, StartsOnce, ReportsOutcome, Settled, Over

\* A step that only updates one status keeps the invariant.
LEMMA UpdateCore ==
  ASSUME Core, ServiceFrame, UNCHANGED <<order, attached, opq, evq>>,
         task' \in [Ops -> {"none", "ready", "result", "done"}], reply' \in [Ops -> {"none", "wait", "err"}],
         NEW o \in Ops, NEW new \in Statuses, status' = Updated(status, o, new), new # "none",
         new = "completed" => result[o] \in Good,
         \A p \in Ops : task'[p] = "none" <=> task[p] = "none",
         \A p \in Ops : p # o => task'[p] = task[p],
         task'[o] = "done" => task[o] = "done" \/ (task[o] # "none" /\ new \in Terminal)
  PROVE  Core'
<1>1. /\ status' \in [Ops -> Statuses]
      /\ \A p \in Ops : p # o => status'[p] = status[p]
      /\ status'[o] \in {status[o], new}
      /\ status[o] \in Over \cup {"none"} => status'[o] = status[o]
      /\ status[o] \notin Over \cup {"none"} => status'[o] = new
  <2>1. status \in [Ops -> Statuses] BY ServiceFacts
  <2> DEFINE f == Updated(status, o, new)
  <2>2. /\ f \in [Ops -> Statuses]
        /\ \A p \in Ops : p # o => f[p] = status[p]
        /\ f[o] \in {status[o], new}
        /\ status[o] \in Over \cup {"none"} => f[o] = status[o]
        /\ status[o] \notin Over \cup {"none"} => f[o] = new
    BY ONLY <2>1, o \in Ops, new \in Statuses, UpdatedFacts
  <2> QED BY ONLY <2>2, status' = f
<1>2. \A p \in Ops : status'[p] = "none" <=> status[p] = "none"
  <2> TAKE p \in Ops
  <2>1. CASE p = o BY <1>1, <2>1
  <2>2. CASE p # o BY <1>1, <2>2
  <2> QED BY <2>1, <2>2
<1>3. ServiceOK' BY <1>1, ServiceFacts DEF ServiceOK
<1>4. OneEach(opq', "start") /\ OneEach(evq', "start") /\ evq' \in Seq(Messages) /\ Len(evq') <= EventCapacity
  BY ServiceFacts
<1>5. \A p \in Ops : status'[p] = "none" => ~Has(opq', "start", p) /\ ~Has(evq', "start", p) /\ task'[p] = "none"
  BY <1>2, ServiceFacts
<1>6. \A p \in Ops : Has(opq', "start", p) => ~Has(evq', "start", p) BY ServiceFacts
<1>7. \A p \in Ops : Begun(p) => Begun(p)' BY <1>2 DEF Begun
<1>8. ReportsOutcome'
  <2> SUFFICES ASSUME NEW p \in Ops, status'[p] = "completed" PROVE result[p] \in Good
    BY DEF ReportsOutcome, ServiceFrame
  <2>1. CASE p = o BY <1>1, <2>1, ServiceFacts
  <2>2. CASE p # o BY <1>1, <2>2, ServiceFacts
  <2> QED BY <2>1, <2>2
<1>9. Settled'
  <2> SUFFICES ASSUME NEW p \in Ops, task'[p] = "done" PROVE status'[p] \in Over BY DEF Settled, Over
  <2>1. CASE p # o BY <1>1, <2>1, ServiceFacts
  <2>2. CASE p = o /\ task[o] = "done" BY <1>1, <2>2, ServiceFacts
  <2>3. CASE p = o /\ task[o] # "none" /\ new \in Terminal
    <3>1. status[o] # "none" BY <2>3, ServiceFacts
    <3> QED BY <1>1, <2>3, <3>1 DEF Over
  <2> QED BY <2>1, <2>2, <2>3
<1> QED BY <1>3, <1>4, <1>5, <1>6, <1>7, <1>8, <1>9, ServiceCore

\* The tasks of an operation.
LEMMA TaskReadyCore == ASSUME Core, NEW o \in Ops, TaskReady(o) PROVE Core'
<1>1. /\ ServiceFrame /\ UNCHANGED <<order, attached, opq, evq, reply>>
      /\ task[o] = "ready" /\ task' = [task EXCEPT ![o] = "result"]
      /\ status' = Updated(status, o, "ready") \/ status' = status
  BY DEF TaskReady, ServiceFrame, media, relay, source, Update
<1>2. /\ task' \in [Ops -> {"none", "ready", "result", "done"}]
      /\ \A p \in Ops : p # o => task'[p] = task[p]
      /\ task'[o] = "result"
  BY <1>1, ServiceFacts
<1>3. \A p \in Ops : task'[p] = "none" <=> task[p] = "none" BY <1>1, <1>2
<1>4. "ready" \in Statuses /\ status[o] \in Statuses BY ServiceFacts DEF Statuses
<1>5. CASE status' = Updated(status, o, "ready")
  BY <1>1, <1>2, <1>3, <1>4, <1>5, ServiceFacts, UpdateCore
<1>6. CASE status' = status
  <2>1. status' = Updated(status, o, status[o]) BY <1>6, ServiceFacts DEF Updated
  <2>2. status[o] # "none" BY <1>1, ServiceFacts
  <2>3. status[o] = "completed" => result[o] \in Good BY ServiceFacts
  <2> QED BY <1>1, <1>2, <1>3, <1>4, <2>1, <2>2, <2>3, ServiceFacts, UpdateCore
<1> QED BY <1>1, <1>5, <1>6

\* The result is reported.
LEMMA TaskResultCore == ASSUME Core, NEW o \in Ops, TaskResult(o) PROVE Core'
<1> DEFINE new == CASE result[o] \in {"Completed", "Timeout"} -> "completed"
                    [] result[o] = "Cancelled" -> "cancelled"
                    [] OTHER -> "failed"
<1>1. /\ ServiceFrame /\ UNCHANGED <<order, attached, opq, evq, reply>>
      /\ task[o] = "result" /\ task' = [task EXCEPT ![o] = "done"]
      /\ status' = Updated(status, o, new)
  BY DEF TaskResult, ServiceFrame, media, relay, source, Update
<1>2. /\ task' \in [Ops -> {"none", "ready", "result", "done"}]
      /\ \A p \in Ops : p # o => task'[p] = task[p]
      /\ task'[o] = "done"
  BY <1>1, ServiceFacts
<1>3. \A p \in Ops : task'[p] = "none" <=> task[p] = "none" BY <1>1, <1>2
<1>4. new \in {"completed", "cancelled", "failed"} /\ (new = "completed" => result[o] \in Good)
  <2>1. CASE result[o] \in {"Completed", "Timeout"} BY <2>1 DEF Good
  <2>2. CASE result[o] = "Cancelled" BY <2>2
  <2>3. CASE result[o] \notin {"Completed", "Timeout", "Cancelled"} BY <2>3
  <2> QED BY <2>1, <2>2, <2>3
<1> HIDE DEF new
<1>5. new \in Statuses /\ new # "none" /\ new \in Terminal BY <1>4 DEF Statuses, Terminal
<1> QED BY <1>1, <1>2, <1>3, <1>4, <1>5, ServiceFacts, UpdateCore

\* The cancellation was refused.
LEMMA CancelRefusedCore == ASSUME Core, NEW o \in Ops, CancelRefused(o) PROVE Core'
<1>1. /\ ServiceFrame /\ UNCHANGED <<order, attached, opq, evq, task>>
      /\ reply' = [reply EXCEPT ![o] = "none"] /\ status' = Updated(status, o, "notFound")
  BY DEF CancelRefused, ServiceFrame, media, relay, source, Update
<1>2. reply' \in [Ops -> {"none", "wait", "err"}] BY <1>1, ServiceFacts
<1>3. "notFound" \in Statuses BY DEF Statuses, Terminal
<1> QED BY <1>1, <1>2, <1>3, ServiceFacts, UpdateCore

\* What start does to the service.
LEMMA StartFacts ==
  ASSUME Core, NEW o \in Ops, NEW mode \in Modes, Start(o, mode)
  PROVE  /\ status' \in [Ops -> Statuses] /\ order' \in Seq(Ops) /\ Len(order') <= HistoryCapacity
         /\ \A p \in Ops : p # o => status'[p] \in {status[p], "forgotten"}
         /\ status'[o] \in {"pending", "forgotten"} /\ status[o] = "none"
<1> DEFINE kept == Append(order, o)
           added == [status EXCEPT ![o] = "pending"]
<1>1. /\ status[o] = "none"
      /\ order' = IF Forgets(kept) THEN Tail(kept) ELSE kept
      /\ status' = IF Forgets(kept) THEN [added EXCEPT ![Head(kept)] = "forgotten"] ELSE added
  BY DEF Start
<1>2. order \in Seq(Ops) /\ Len(order) <= HistoryCapacity /\ status \in [Ops -> Statuses] BY ServiceFacts
<1>3. HistoryCapacity \in Nat BY DtmfAssumption
<1>4. kept \in Seq(Ops) /\ Len(kept) = Len(order) + 1 /\ Len(order) \in Nat /\ kept # << >> BY <1>2
<1>5. /\ added \in [Ops -> Statuses] /\ added[o] = "pending" /\ \A p \in Ops : p # o => added[p] = status[p]
  BY <1>2 DEF Statuses
<1> HIDE DEF kept, added
<1>6. CASE Forgets(kept)
  <2>1. Head(kept) \in Ops /\ Tail(kept) \in Seq(Ops) /\ Len(Tail(kept)) = Len(kept) - 1 BY <1>4
  <2>2. order' = Tail(kept) /\ status' = [added EXCEPT ![Head(kept)] = "forgotten"] BY <1>1, <1>6
  <2>3. Len(order') <= HistoryCapacity BY <1>2, <1>3, <1>4, <2>1, <2>2
  <2>4. status' \in [Ops -> Statuses] /\ \A p \in Ops : status'[p] \in {added[p], "forgotten"}
    BY <1>5, <2>1, <2>2 DEF Statuses
  <2> QED BY <1>1, <1>5, <2>1, <2>2, <2>3, <2>4
<1>7. CASE ~Forgets(kept)
  <2>1. Len(kept) <= HistoryCapacity BY <1>3, <1>4, <1>7 DEF Forgets
  <2> QED BY <1>1, <1>4, <1>5, <1>7, <2>1
<1> QED BY <1>6, <1>7

\* start
LEMMA StartCore == ASSUME Core, NEW o \in Ops, NEW mode \in Modes, Start(o, mode) PROVE Core'
<1> DEFINE m == [kind |-> "start", op |-> o, mode |-> mode]
<1>1. /\ ServiceFrame /\ UNCHANGED <<attached, evq, task, reply>>
      /\ opq' = Append(opq, m) /\ Len(opq) < OpCapacity
  BY DEF Start, HasRoom, ServiceFrame, replies, media, relay, source
<1>2. /\ status' \in [Ops -> Statuses] /\ order' \in Seq(Ops) /\ Len(order') <= HistoryCapacity
      /\ \A p \in Ops : p # o => status'[p] \in {status[p], "forgotten"}
      /\ status'[o] \in {"pending", "forgotten"} /\ status[o] = "none"
  BY StartFacts
<1>3. m \in Messages /\ m.kind = "start" /\ m.op = o BY DEF Messages
<1> HIDE DEF m
<1>4. opq \in Seq(Messages) /\ ~Has(opq, "start", o) /\ ~Has(evq, "start", o) /\ task[o] = "none" /\ OneEach(opq, "start")
  BY <1>2, ServiceFacts
<1>5. /\ opq' \in Seq(Messages) /\ Len(opq') = Len(opq) + 1 /\ Len(opq) \in Nat
      /\ \A kind, p : Has(opq', kind, p) <=> (Has(opq, kind, p) \/ (m.kind = kind /\ m.op = p))
  BY <1>1, <1>3, <1>4, AppendHas
<1>6. OneEach(opq', "start") BY <1>1, <1>3, <1>4, AppendOneEach
<1>7. OpCapacity \in Nat BY DtmfAssumption
<1>8. ServiceOK'
  <2>1. Len(opq') <= OpCapacity BY <1>1, <1>5, <1>7
  <2> QED BY <1>1, <1>2, <1>5, <2>1, ServiceFacts DEF ServiceOK
<1>9. /\ task' \in [Ops -> {"none", "ready", "result", "done"}] /\ reply' \in [Ops -> {"none", "wait", "err"}]
      /\ evq' \in Seq(Messages) /\ Len(evq') <= EventCapacity /\ OneEach(evq', "start")
  BY <1>1, ServiceFacts
<1>10. \A p \in Ops : status'[p] = "none" => ~Has(opq', "start", p) /\ ~Has(evq', "start", p) /\ task'[p] = "none"
  <2> TAKE p \in Ops
  <2>1. CASE p = o BY <1>2, <2>1
  <2>2. CASE p # o
    <3>1. status'[p] = "none" => status[p] = "none" BY <1>2, <2>2
    <3> QED BY <1>1, <1>3, <1>5, <2>2, <3>1, ServiceFacts
  <2> QED BY <2>1, <2>2
<1>11. \A p \in Ops : Has(opq', "start", p) => ~Has(evq', "start", p)
  BY <1>1, <1>3, <1>4, <1>5, ServiceFacts
<1>12. ASSUME NEW p \in Ops, Begun(p) PROVE Begun(p)'
  <2>1. p # o BY <1>2, <1>12 DEF Begun
  <2>2. status'[p] # "none" BY <1>2, <1>12, <2>1 DEF Begun
  <2> QED BY <1>1, <1>3, <1>5, <1>12, <2>1, <2>2 DEF Begun
<1>13. ReportsOutcome'
  <2>1. \A p \in Ops : status'[p] = "completed" => status[p] = "completed"
    <3> TAKE p \in Ops
    <3>1. CASE p = o BY <1>2, <3>1
    <3>2. CASE p # o BY <1>2, <3>2
    <3> QED BY <3>1, <3>2
  <2> QED BY <1>1, <2>1, ServiceFacts DEF ReportsOutcome, ServiceFrame
<1>14. Settled'
  <2> SUFFICES ASSUME NEW p \in Ops, task[p] = "done" PROVE status'[p] \in Over BY <1>1 DEF Settled, Over
  <2>1. p # o /\ status[p] \in Over BY <1>4, ServiceFacts
  <2> QED BY <1>2, <2>1 DEF Over
<1> QED BY ONLY Core, <1>1, <1>6, <1>8, <1>9, <1>10, <1>11, <1>12, <1>13, <1>14, ServiceCore

\* cancel
LEMMA CancelCore == ASSUME Core, NEW o \in Ops, Cancel(o) PROVE Core'
<1> DEFINE m == [kind |-> "cancel", op |-> o, mode |-> "observe"]
<1>1. /\ ServiceFrame /\ UNCHANGED <<order, attached, evq, task, reply>>
      /\ opq' = Append(opq, m) /\ Len(opq) < OpCapacity
      /\ status' = [status EXCEPT ![o] = "cancelling"] /\ status[o] \notin Over \cup {"none"}
  BY DEF Cancel, HasRoom, ServiceFrame, replies, media, relay, source, Over
<1>2. /\ status' \in [Ops -> Statuses] /\ \A p \in Ops : p # o => status'[p] = status[p]
      /\ status'[o] = "cancelling"
  BY <1>1, ServiceFacts DEF Statuses
<1>3. m \in Messages /\ m.kind = "cancel" /\ m.op = o BY DEF Messages, Modes
<1> HIDE DEF m
<1>4. opq \in Seq(Messages) /\ OneEach(opq, "start") BY ServiceFacts
<1>5. /\ opq' \in Seq(Messages) /\ Len(opq') = Len(opq) + 1 /\ Len(opq) \in Nat
      /\ \A kind, p : Has(opq', kind, p) <=> (Has(opq, kind, p) \/ (m.kind = kind /\ m.op = p))
  BY <1>1, <1>3, <1>4, AppendHas
<1>6. OneEach(opq', "start") BY <1>1, <1>3, <1>4, AppendOneEach
<1>15. \A p : Has(opq', "start", p) <=> Has(opq, "start", p) BY <1>3, <1>5
<1>7. OpCapacity \in Nat BY DtmfAssumption
<1>8. ServiceOK'
  <2>1. Len(opq') <= OpCapacity BY <1>1, <1>5, <1>7
  <2> QED BY <1>1, <1>2, <1>5, <2>1, ServiceFacts DEF ServiceOK
<1>9. /\ task' \in [Ops -> {"none", "ready", "result", "done"}] /\ reply' \in [Ops -> {"none", "wait", "err"}]
      /\ evq' \in Seq(Messages) /\ Len(evq') <= EventCapacity /\ OneEach(evq', "start")
  BY <1>1, ServiceFacts
<1>16. \A p \in Ops : status'[p] = "none" <=> status[p] = "none"
  <2> TAKE p \in Ops
  <2>1. CASE p = o BY <1>1, <1>2, <2>1
  <2>2. CASE p # o BY <1>2, <2>2
  <2> QED BY <2>1, <2>2
<1>10. \A p \in Ops : status'[p] = "none" => ~Has(opq', "start", p) /\ ~Has(evq', "start", p) /\ task'[p] = "none"
  BY <1>1, <1>15, <1>16, ServiceFacts
<1>11. \A p \in Ops : Has(opq', "start", p) => ~Has(evq', "start", p) BY <1>1, <1>15, ServiceFacts
<1>12. \A p \in Ops : Begun(p) => Begun(p)' BY <1>1, <1>15, <1>16 DEF Begun
<1>13. ReportsOutcome'
  <2>1. \A p \in Ops : status'[p] = "completed" => status[p] = "completed" BY <1>2
  <2> QED BY <1>1, <2>1, ServiceFacts DEF ReportsOutcome, ServiceFrame
<1>14. Settled'
  <2> SUFFICES ASSUME NEW p \in Ops, task[p] = "done" PROVE status'[p] \in Over BY <1>1 DEF Settled, Over
  <2>1. p # o /\ status[p] \in Over BY <1>1, ServiceFacts
  <2> QED BY <1>2, <2>1 DEF Over
<1> QED BY ONLY Core, <1>1, <1>6, <1>8, <1>9, <1>10, <1>11, <1>12, <1>13, <1>14, ServiceCore

\* detach_runtime
LEMMA DetachCore == ASSUME Core, Detach PROVE Core'
<1>1. /\ ServiceFrame /\ UNCHANGED <<order, evq, task, reply>>
      /\ attached' = FALSE /\ opq' = << >> /\ status' = Detached
  BY DEF Detach, ServiceFrame, replies, media, relay, source
<1>2. /\ status' \in [Ops -> Statuses]
      /\ \A p \in Ops : /\ status'[p] = "none" <=> status[p] = "none"
                        /\ status[p] \in Over => status'[p] = status[p]
                        /\ status'[p] = "completed" => status[p] = "completed"
  <2>1. "disconnected" \in Statuses /\ status \in [Ops -> Statuses] BY ServiceFacts DEF Statuses, Terminal
  <2>2. status' = [p \in Ops |-> Updated(status, p, "disconnected")[p]] BY <1>1 DEF Detached
  <2>3. ASSUME NEW p \in Ops
        PROVE  /\ status'[p] \in Statuses /\ (status'[p] = "none" <=> status[p] = "none")
               /\ (status[p] \in Over => status'[p] = status[p])
               /\ (status'[p] = "completed" => status[p] = "completed")
    <3>1. status'[p] = Updated(status, p, "disconnected")[p] BY <2>2
    <3>2. /\ Updated(status, p, "disconnected") \in [Ops -> Statuses]
          /\ Updated(status, p, "disconnected")[p] \in {status[p], "disconnected"}
          /\ status[p] \in Over \cup {"none"} => Updated(status, p, "disconnected")[p] = status[p]
          /\ status[p] \notin Over \cup {"none"} => Updated(status, p, "disconnected")[p] = "disconnected"
      BY ONLY <2>1, p \in Ops, UpdatedFacts
    <3> QED BY <3>1, <3>2
  <2>4. status' = [p \in Ops |-> status'[p]] BY <2>2
  <2> QED BY <2>3, <2>4
<1>3. \A kind, p : ~Has(opq', kind, p) BY <1>1 DEF Has
<1>4. OneEach(opq', "start") BY <1>1 DEF OneEach
<1>5. ServiceOK'
  <2>1. OpCapacity \in Nat BY DtmfAssumption
  <2>2. opq' \in Seq(Messages) /\ Len(opq') = 0 BY <1>1
  <2>3. attached' \in BOOLEAN BY <1>1
  <2>4. order' \in Seq(Ops) /\ Len(order') <= HistoryCapacity BY <1>1, ServiceFacts
  <2> QED BY <1>2, <2>1, <2>2, <2>3, <2>4 DEF ServiceOK
<1>6. /\ task' \in [Ops -> {"none", "ready", "result", "done"}] /\ reply' \in [Ops -> {"none", "wait", "err"}]
      /\ evq' \in Seq(Messages) /\ Len(evq') <= EventCapacity /\ OneEach(evq', "start")
  BY <1>1, ServiceFacts
<1>7. \A p \in Ops : status'[p] = "none" => ~Has(opq', "start", p) /\ ~Has(evq', "start", p) /\ task'[p] = "none"
  BY <1>1, <1>2, <1>3, ServiceFacts
<1>8. \A p \in Ops : Has(opq', "start", p) => ~Has(evq', "start", p) BY <1>3
<1>9. \A p \in Ops : Begun(p) => Begun(p)' BY <1>1, <1>2, <1>3 DEF Begun
<1>10. ReportsOutcome' BY <1>1, <1>2, ServiceFacts DEF ReportsOutcome, ServiceFrame
<1>11. Settled' BY <1>1, <1>2, ServiceFacts DEF Settled, Over
<1> QED BY ONLY Core, <1>1, <1>4, <1>5, <1>6, <1>7, <1>8, <1>9, <1>10, <1>11, ServiceCore

\* An update that reports no outcome.
LEMMA UpdatedKeeps ==
  ASSUME Core, NEW o \in Ops, NEW new \in Statuses, new \notin {"none", "completed"} \/ new = status[o],
         status' = Updated(status, o, new)
  PROVE  /\ status' \in [Ops -> Statuses]
         /\ \A p \in Ops : /\ status'[p] = "none" <=> status[p] = "none"
                           /\ status[p] \in Over => status'[p] = status[p]
                           /\ status'[p] = "completed" => status[p] = "completed"
<1>1. status \in [Ops -> Statuses] BY ServiceFacts
<1> DEFINE f == Updated(status, o, new)
<1>2. /\ f \in [Ops -> Statuses]
      /\ \A p \in Ops : p # o => f[p] = status[p]
      /\ f[o] \in {status[o], new}
      /\ status[o] \in Over \cup {"none"} => f[o] = status[o]
      /\ status[o] \notin Over \cup {"none"} => f[o] = new
  BY ONLY <1>1, o \in Ops, new \in Statuses, UpdatedFacts
<1>3. status' = f OBVIOUS
<1> HIDE DEF f
<1>4. ASSUME NEW p \in Ops
      PROVE  /\ status'[p] = "none" <=> status[p] = "none"
             /\ status[p] \in Over => status'[p] = status[p]
             /\ status'[p] = "completed" => status[p] = "completed"
  <2>1. CASE p = o BY <1>2, <1>3, <2>1
  <2>2. CASE p # o BY <1>2, <1>3, <2>2
  <2> QED BY <2>1, <2>2
<1> QED BY <1>2, <1>3, <1>4

\* handle_dtmf_runtime_operation, in general: what it takes of the queue of operations
LEMMA HandleFacts ==
  ASSUME Core, HandleOperation
  PROVE  LET m == Head(opq)
             r == call # "gone" /\ Len(evq) < EventCapacity
         IN /\ ServiceFrame /\ UNCHANGED <<order, attached>>
            /\ m \in Messages /\ m.op \in Ops /\ m.kind \in {"start", "cancel"} /\ Has(opq, m.kind, m.op)
            /\ opq' \in Seq(Messages) /\ Len(opq') <= OpCapacity /\ OneEach(opq', "start")
            /\ \A p : Has(opq', "start", p) => Has(opq, "start", p) /\ ~(m.kind = "start" /\ p = m.op)
            /\ evq' = IF r THEN Append(evq, m) ELSE evq
            /\ task' = IF r /\ m.kind = "start" THEN [task EXCEPT ![m.op] = "ready"] ELSE task
            /\ reply' = IF r /\ m.kind = "cancel" THEN [reply EXCEPT ![m.op] = "wait"] ELSE reply
            /\ status' \in [Ops -> Statuses]
            /\ \A p \in Ops : /\ status'[p] = "none" <=> status[p] = "none"
                              /\ status[p] \in Over => status'[p] = status[p]
                              /\ status'[p] = "completed" => status[p] = "completed"
<1> DEFINE m == Head(opq)
           r == call # "gone" /\ Len(evq) < EventCapacity
           new == CASE ~r -> "unreachable" [] r /\ m.kind = "start" -> "acquiring" [] OTHER -> status[m.op]
<1>1. /\ ServiceFrame /\ UNCHANGED <<order, attached>> /\ opq # << >> /\ opq' = Tail(opq)
      /\ evq' = IF r THEN Append(evq, m) ELSE evq
      /\ task' = IF r /\ m.kind = "start" THEN [task EXCEPT ![m.op] = "ready"] ELSE task
      /\ reply' = IF r /\ m.kind = "cancel" THEN [reply EXCEPT ![m.op] = "wait"] ELSE reply
      /\ status' = Updated(status, m.op, new)
  BY DEF HandleOperation, Update, ServiceFrame, media, relay, source
<1>2. opq \in Seq(Messages) /\ Len(opq) <= OpCapacity /\ OneEach(opq, "start") /\ status \in [Ops -> Statuses]
  BY ServiceFacts
<1>3. /\ opq' \in Seq(Messages) /\ Len(opq') = Len(opq) - 1 /\ Len(opq) >= 1 /\ m = opq[1] /\ m \in Messages
      /\ \A i \in 1..Len(opq') : i + 1 \in 1..Len(opq) /\ opq'[i] = opq[i + 1]
      /\ Drops(opq, opq')
  BY <1>1, <1>2, TailDrops
<1>4. m.op \in Ops /\ m.kind \in {"start", "cancel"} BY <1>3 DEF Messages
<1>5. new \in Statuses /\ (new \notin {"none", "completed"} \/ new = status[m.op])
  <2>1. CASE ~r
    <3>1. new = "unreachable" BY <2>1
    <3> HIDE DEF new
    <3> QED BY <3>1 DEF Statuses, Terminal
  <2>2. CASE r /\ m.kind = "start"
    <3>1. new = "acquiring" BY <2>2
    <3> HIDE DEF new
    <3> QED BY <3>1 DEF Statuses
  <2>3. CASE r /\ m.kind # "start"
    <3>1. new = status[m.op] BY <2>3
    <3> HIDE DEF new, m
    <3> QED BY <1>2, <1>4, <3>1
  <2> QED BY <2>1, <2>2, <2>3
<1> HIDE DEF new, m, r
<1>6. /\ status' \in [Ops -> Statuses]
      /\ \A p \in Ops : /\ status'[p] = "none" <=> status[p] = "none"
                        /\ status[p] \in Over => status'[p] = status[p]
                        /\ status'[p] = "completed" => status[p] = "completed"
  BY <1>1, <1>4, <1>5, UpdatedKeeps
<1>7. Len(opq) \in Nat /\ OpCapacity \in Nat /\ 1 \in 1..Len(opq) BY <1>2, <1>3, DtmfAssumption
<1>8. Len(opq') <= OpCapacity BY <1>2, <1>3, <1>7
<1>9. Has(opq, m.kind, m.op) BY <1>3, <1>7 DEF Has
<1>10. OneEach(opq', "start") /\ \A kind, p : Has(opq', kind, p) => Has(opq, kind, p)
  BY <1>2, <1>3, DropsHas
<1>11. ASSUME NEW p, Has(opq', "start", p) PROVE ~(m.kind = "start" /\ p = m.op)
  <2> SUFFICES ASSUME m.kind = "start", p = m.op PROVE FALSE OBVIOUS
  <2>1. PICK i \in 1..Len(opq') : opq'[i].kind = "start" /\ opq'[i].op = p BY <1>11 DEF Has
  <2>2. i + 1 \in 1..Len(opq) /\ opq[i + 1].kind = "start" /\ opq[i + 1].op = opq[1].op /\ opq[1].kind = "start"
    BY <1>3, <2>1
  <2>3. i + 1 = 1 BY <1>2, <1>7, <2>2 DEF OneEach
  <2> QED BY <2>3
<1> QED BY <1>1, <1>3, <1>4, <1>6, <1>8, <1>9, <1>10, <1>11 DEF m, r

\* handle_dtmf_runtime_operation
LEMMA HandleOperationCore == ASSUME Core, HandleOperation PROVE Core'
<1> DEFINE m == Head(opq)
           r == call # "gone" /\ Len(evq) < EventCapacity
<1>1. /\ ServiceFrame /\ UNCHANGED <<order, attached>>
      /\ m \in Messages /\ m.op \in Ops /\ m.kind \in {"start", "cancel"} /\ Has(opq, m.kind, m.op)
      /\ opq' \in Seq(Messages) /\ Len(opq') <= OpCapacity /\ OneEach(opq', "start")
      /\ \A p : Has(opq', "start", p) => Has(opq, "start", p) /\ ~(m.kind = "start" /\ p = m.op)
      /\ evq' = IF r THEN Append(evq, m) ELSE evq
      /\ task' = IF r /\ m.kind = "start" THEN [task EXCEPT ![m.op] = "ready"] ELSE task
      /\ reply' = IF r /\ m.kind = "cancel" THEN [reply EXCEPT ![m.op] = "wait"] ELSE reply
      /\ status' \in [Ops -> Statuses]
      /\ \A p \in Ops : /\ status'[p] = "none" <=> status[p] = "none"
                        /\ status[p] \in Over => status'[p] = status[p]
                        /\ status'[p] = "completed" => status[p] = "completed"
  BY HandleFacts
<1>2. r => Len(evq) < EventCapacity OBVIOUS
<1> HIDE DEF m, r
<1>3. evq \in Seq(Messages) /\ Len(evq) <= EventCapacity /\ OneEach(evq, "start") BY ServiceFacts
<1>4. m.kind = "start" => ~Has(evq, "start", m.op) /\ status[m.op] # "none" BY <1>1, ServiceFacts
<1>5. /\ evq' \in Seq(Messages) /\ Len(evq') <= EventCapacity /\ OneEach(evq', "start")
      /\ \A p : Has(evq', "start", p) => Has(evq, "start", p) \/ (m.kind = "start" /\ m.op = p)
  <2>1. CASE r
    <3>1. evq' = Append(evq, m) BY <1>1, <2>1
    <3>2. /\ Append(evq, m) \in Seq(Messages) /\ Len(Append(evq, m)) = Len(evq) + 1 /\ Len(evq) \in Nat
          /\ \A kind, o : Has(Append(evq, m), kind, o) <=> (Has(evq, kind, o) \/ (m.kind = kind /\ m.op = o))
      BY <1>1, <1>3, AppendHas
    <3>3. OneEach(Append(evq, m), "start") BY <1>1, <1>3, <1>4, AppendOneEach
    <3>4. EventCapacity \in Nat BY DtmfAssumption
    <3>5. Len(evq') <= EventCapacity BY <1>2, <2>1, <3>1, <3>2, <3>4
    <3> QED BY <3>1, <3>2, <3>3, <3>5
  <2>2. CASE ~r BY <1>1, <1>3, <2>2
  <2> QED BY <2>1, <2>2
<1>6. /\ task' \in [Ops -> {"none", "ready", "result", "done"}]
      /\ \A p \in Ops : \/ task'[p] = task[p]
                        \/ p = m.op /\ m.kind = "start" /\ task'[p] = "ready"
  <2>1. task \in [Ops -> {"none", "ready", "result", "done"}] BY ServiceFacts
  <2>2. CASE r /\ m.kind = "start"
    <3>1. task' = [task EXCEPT ![m.op] = "ready"] BY <1>1, <2>2
    <3> QED BY <1>1, <2>1, <2>2, <3>1
  <2>3. CASE ~(r /\ m.kind = "start") BY <1>1, <2>1, <2>3
  <2> QED BY <2>2, <2>3
<1>7. reply' \in [Ops -> {"none", "wait", "err"}]
  <2>1. reply \in [Ops -> {"none", "wait", "err"}] BY ServiceFacts
  <2> QED BY <1>1, <2>1
<1>8. ServiceOK' BY <1>1, ServiceFacts DEF ServiceOK
<1>9. \A p \in Ops : status'[p] = "none" => ~Has(opq', "start", p) /\ ~Has(evq', "start", p) /\ task'[p] = "none"
  <2> SUFFICES ASSUME NEW p \in Ops, status'[p] = "none"
               PROVE  ~Has(opq', "start", p) /\ ~Has(evq', "start", p) /\ task'[p] = "none"
    OBVIOUS
  <2>1. status[p] = "none" /\ ~Has(opq, "start", p) /\ ~Has(evq, "start", p) /\ task[p] = "none" BY <1>1, ServiceFacts
  <2>2. ~(m.kind = "start" /\ p = m.op) BY <1>4, <2>1
  <2> QED BY <1>1, <1>5, <1>6, <2>1, <2>2
<1>10. \A p \in Ops : Has(opq', "start", p) => ~Has(evq', "start", p) BY <1>1, <1>5, ServiceFacts
<1>11. ASSUME NEW p \in Ops, Begun(p) PROVE Begun(p)'
  <2>1. ~(m.kind = "start" /\ p = m.op) BY <1>1, <1>11 DEF Begun
  <2> QED BY <1>1, <1>5, <1>11, <2>1 DEF Begun
<1>12. ReportsOutcome' BY <1>1, ServiceFacts DEF ReportsOutcome, ServiceFrame
<1>13. Settled'
  <2> SUFFICES ASSUME NEW p \in Ops, task'[p] = "done" PROVE status'[p] \in Over BY DEF Settled, Over
  <2>1. task[p] = "done" BY <1>6
  <2>2. status[p] \in Over BY <2>1, ServiceFacts
  <2> QED BY <1>1, <2>2
<1>14. ServiceFrame /\ OneEach(opq', "start") BY <1>1
<1> QED BY ONLY Core, <1>5, <1>6, <1>7, <1>8, <1>9, <1>10, <1>11, <1>12, <1>13, <1>14, ServiceCore

----------------------------------------------------------------------------
(* The media worker *)

\* A step of the media worker: what it takes from its queue, and what it may make of it.
WorksOf(o) ==
  /\ lease'[o].state = "active" => lease[o].state = "active" \/ (Has(mq, "acquire", o) /\ ~Has(mq', "acquire", o))
  /\ lease'[o].state # "none" => lease[o].state # "none" \/ Names(mq, o)
  /\ worker'.op = o => worker.op = o \/ Names(mq, o)
  /\ Names(results', o) => Names(results, o) \/ worker.op = o \/ Names(mq, o)
  /\ AcquiresFor(o)' => Has(mq, "acquire", o) /\ ~Has(mq', "acquire", o) /\ results' = results
  /\ Has(results', "acquired", o) =>
       Has(results, "acquired", o) \/ AcquiresFor(o) \/ (Has(mq, "acquire", o) /\ ~Has(mq', "acquire", o))
  /\ worker'.step \in {"draining", "releasing"} /\ worker'.op = o => Closed(o)'
  /\ Has(results', "released", o) => Has(results, "released", o) \/ Closed(o)'
WorkerFrame ==
  UNCHANGED <<status, order, attached, opq, evq, task, ready, result, reply, call, mgen, col, heard, stopped,
              parser, parsed, press, lock, recent, consumed, relayed>>
WorkerType ==
  /\ mq' \in Seq(Jobs) /\ Drops(mq, mq') /\ worker' \in Workers /\ (worker'.step = "gone" => call = "gone")
  /\ lease' \in [Ops -> Leases] /\ config' \in Configs /\ results' \in Seq(Outcomes)
Works ==
  /\ WorkerFrame /\ WorkerType
  /\ \A o \in Ops : WorksOf(o)
  /\ \A i \in 1..Len(results') :
       \/ \E a \in 1..Len(results) : results'[i] = results[a]
       \/ results'[i].kind = "acquired" /\ ~results'[i].ok => lease'[results'[i].op].state # "active"

\* The shape and the starts.
LEMMA WorksShape == ASSUME Shape, StartsOnce, Works PROVE Shape' /\ StartsOnce'
<1>1. WorkerFrame /\ WorkerType /\ \A o \in Ops : WorksOf(o) BY DEF Works
<1>2. Len(mq') <= MediaCapacity
  <2>1. Len(mq') <= Len(mq) /\ Len(mq') \in Nat /\ Len(mq) \in Nat BY <1>1, ShapeFacts, DropsShorter DEF WorkerType
  <2>2. Len(mq) <= MediaCapacity /\ MediaCapacity \in Nat BY ShapeFacts, DtmfAssumption
  <2> QED BY <2>1, <2>2
<1>3. Shape'
  <2>1. ServiceOK' BY <1>1 DEF Shape, ServiceOK, WorkerFrame
  <2>2. RepliesOK' BY <1>1 DEF Shape, RepliesOK, WorkerFrame
  <2>3. ActorOK' BY <1>1 DEF Shape, ActorOK, WorkerFrame, WorkerType
  <2>4. ColOK' BY <1>1 DEF Shape, ColOK, WorkerFrame, Collectors
  <2>5. MediaOK' BY <1>1, <1>2 DEF MediaOK, WorkerFrame, WorkerType
  <2>6. RelayOK' BY <1>1 DEF Shape, RelayOK, WorkerFrame
  <2> QED BY <2>1, <2>2, <2>3, <2>4, <2>5, <2>6 DEF Shape
<1>4. \A o : Names(mq', o) => Names(mq, o) BY <1>1, ShapeFacts, DropsHas DEF WorkerType
<1>5. ASSUME NEW o \in Ops, Touched(o)' PROVE Touched(o)
  <2>1. WorksOf(o) BY <1>1
  <2>2. col' = col /\ result' = result BY <1>1 DEF WorkerFrame
  <2> QED BY <1>4, <1>5, <2>1, <2>2 DEF Touched, WorksOf
<1>6. \A o \in Ops : Begun(o)' <=> Begun(o) BY <1>1 DEF Begun, WorkerFrame
<1>7. StartsOnce'
  <2>1. \A o \in Ops : Touched(o)' => Begun(o)' BY <1>5, <1>6 DEF StartsOnce
  <2> QED BY <1>1, <2>1 DEF StartsOnce, WorkerFrame
<1> QED BY <1>3, <1>7

\* Acquisitions and releases.
LEMMA WorksLife ==
  ASSUME Shape, AcquiresOnce, ReleasesClose, Works
  PROVE  AcquiresOnce' /\ ReleasesClose' /\ \A o \in Ops : Closed(o) => Closed(o)'
<1>1. WorkerFrame /\ WorkerType /\ \A o \in Ops : WorksOf(o) BY DEF Works
<1>2. /\ \A kind, o : Has(mq', kind, o) => Has(mq, kind, o)
      /\ OneEach(mq, "acquire") => OneEach(mq', "acquire")
      /\ \A i, j \in 1..Len(mq') : i < j => \E a, b \in 1..Len(mq) : a < b /\ mq'[i] = mq[a] /\ mq'[j] = mq[b]
  BY <1>1, ShapeFacts, DropsHas DEF WorkerType
<1>3. AcquiresOnce'
  <2>1. OneEach(mq', "acquire") BY <1>2 DEF AcquiresOnce
  <2>2. ASSUME NEW o \in Ops, Has(mq', "acquire", o)
        PROVE  lease'[o].state # "active" /\ ~AcquiresFor(o)' /\ ~Has(results', "acquired", o)
    <3>1. lease[o].state # "active" /\ ~AcquiresFor(o) /\ ~Has(results, "acquired", o)
      BY <1>2, <2>2 DEF AcquiresOnce
    <3>2. WorksOf(o) BY <1>1
    <3> QED BY <2>2, <3>1, <3>2 DEF WorksOf
  <2>3. ASSUME NEW o \in Ops, AcquiresFor(o)' PROVE ~Has(results', "acquired", o)
    <3>1. WorksOf(o) BY <1>1
    <3>2. Has(mq, "acquire", o) /\ results' = results BY <2>3, <3>1 DEF WorksOf
    <3> QED BY <3>2 DEF AcquiresOnce
  <2>4. ASSUME NEW i \in 1..Len(mq'), NEW j \in 1..Len(mq'), i < j, mq'[i].kind = "release", mq'[j].kind = "acquire"
        PROVE  mq'[i].op # mq'[j].op
    <3>1. PICK a \in 1..Len(mq), b \in 1..Len(mq) : a < b /\ mq'[i] = mq[a] /\ mq'[j] = mq[b] BY <1>2, <2>4
    <3> QED BY <2>4, <3>1 DEF AcquiresOnce
  <2> QED BY <2>1, <2>2, <2>3, <2>4 DEF AcquiresOnce
<1>4. ASSUME NEW o \in Ops, Closed(o) PROVE Closed(o)'
  <2>1. WorksOf(o) BY <1>1
  <2> QED BY <1>2, <1>4, <2>1 DEF Closed, WorksOf
<1>5. ReleasesClose'
  <2>1. \A o \in Ops : worker'.step \in {"draining", "releasing"} /\ worker'.op = o => Closed(o)' BY <1>1 DEF WorksOf
  <2>2. ASSUME NEW o \in Ops, Has(results', "released", o) PROVE Closed(o)'
    <3>1. WorksOf(o) BY <1>1
    <3>2. Has(results, "released", o) \/ Closed(o)' BY <2>2, <3>1 DEF WorksOf
    <3> QED BY <1>4, <3>2 DEF ReleasesClose
  <2>3. \A o \in Ops : result'[o] \in Good => Closed(o)' BY <1>1, <1>4 DEF ReleasesClose, WorkerFrame
  <2>4. ASSUME NEW i \in 1..Len(results'), results'[i].kind = "acquired", ~results'[i].ok
        PROVE  lease'[results'[i].op].state # "active"
    <3>1. CASE \E a \in 1..Len(results) : results'[i] = results[a]
      <4>1. PICK a \in 1..Len(results) : results'[i] = results[a] BY <3>1
      <4> DEFINE o == results[a].op
      <4>2. results[a] \in Outcomes BY ShapeFacts
      <4>3. o \in Ops BY <4>2 DEF Outcomes
      <4>4. lease[o].state # "active" BY <2>4, <4>1 DEF ReleasesClose
      <4>5. Has(results, "acquired", o) BY <2>4, <4>1 DEF Has
      <4>6. ~Has(mq, "acquire", o) BY <4>3, <4>5 DEF AcquiresOnce
      <4>7. WorksOf(o) BY <1>1, <4>3
      <4>8. lease'[o].state # "active" BY <4>4, <4>6, <4>7 DEF WorksOf
      <4> QED BY <4>1, <4>8
    <3>2. CASE ~\E a \in 1..Len(results) : results'[i] = results[a] BY <2>4, <3>2 DEF Works
    <3> QED BY <3>1, <3>2
  <2> QED BY <2>1, <2>2, <2>3, <2>4 DEF ReleasesClose
<1> QED BY <1>3, <1>4, <1>5

\* So the worker keeps the invariant, if it keeps the mode.
LEMMA WorksCore == ASSUME Core, Works, ModeOK' PROVE Core'
<1>1. Shape /\ StartsOnce /\ AcquiresOnce /\ ReleasesClose /\ ReportsOutcome /\ Settled BY DEF Core
<1>2. Shape' /\ StartsOnce' BY <1>1, WorksShape
<1>3. AcquiresOnce' /\ ReleasesClose' BY <1>1, WorksLife
<1>4. ReportsOutcome' /\ Settled' BY <1>1 DEF ReportsOutcome, Settled, Works, WorkerFrame
<1> QED BY <1>2, <1>3, <1>4 DEF Core

\* The job at the head of the queue.
LEMMA HeadJob ==
  ASSUME Core, mq # << >>, mq' = Tail(mq)
  PROVE  /\ Head(mq) \in Jobs /\ mq' \in Seq(Jobs) /\ Drops(mq, mq')
         /\ Has(mq, Head(mq).kind, Head(mq).op) /\ Names(mq, Head(mq).op)
         /\ Head(mq).kind \in {"acquire", "release"} =>
              Head(mq).op \in Ops /\ ~Has(mq', "acquire", Head(mq).op)
<1> DEFINE m == Head(mq)
<1>1. mq \in Seq(Jobs) /\ AcquiresOnce BY ShapeFacts DEF Core
<1>2. /\ mq' \in Seq(Jobs) /\ Len(mq') = Len(mq) - 1 /\ Len(mq) >= 1 /\ m = mq[1] /\ m \in Jobs
      /\ \A i \in 1..Len(mq') : i + 1 \in 1..Len(mq) /\ mq'[i] = mq[i + 1]
      /\ Drops(mq, mq')
  BY <1>1, TailDrops
<1> HIDE DEF m
<1>3. 1 \in 1..Len(mq) BY <1>1, <1>2
<1>4. Has(mq, m.kind, m.op) /\ Names(mq, m.op) BY <1>2, <1>3 DEF Has, Names
<1>5. m.kind \in {"acquire", "release"} => m.op \in Ops BY <1>2 DEF Jobs
<1>6. ASSUME m.kind \in {"acquire", "release"}, Has(mq', "acquire", m.op) PROVE FALSE
  <2>1. PICK i \in 1..Len(mq') : mq'[i].kind = "acquire" /\ mq'[i].op = m.op BY <1>6 DEF Has
  <2>2. i + 1 \in 1..Len(mq) /\ mq[i + 1].kind = "acquire" /\ mq[i + 1].op = mq[1].op /\ 1 < i + 1
    BY <1>2, <2>1
  <2>3. CASE m.kind = "acquire"
    <3>1. i + 1 = 1 BY <1>1, <1>2, <1>3, <2>2, <2>3 DEF AcquiresOnce, OneEach
    <3> QED BY <3>1
  <2>4. CASE m.kind = "release" BY <1>1, <1>2, <1>3, <2>2, <2>4 DEF AcquiresOnce
  <2> QED BY <1>6, <2>3, <2>4
<1> QED BY <1>2, <1>4, <1>5, <1>6 DEF m

\* A result is sent.
LEMMA PostFacts ==
  ASSUME Core, NEW o \in Ops, NEW kind \in {"acquired", "released"}, NEW ok \in BOOLEAN, Post(kind, o, ok)
  PROVE  /\ worker' \in Workers /\ (worker'.step = "gone" => call = "gone")
         /\ worker'.op = 0 /\ worker'.step \in {"idle", "gone"} /\ results' \in Seq(Outcomes)
         /\ \A k, p : Has(results', k, p) => Has(results, k, p) \/ (k = kind /\ p = o)
         /\ \A p : Names(results', p) => Names(results, p) \/ p = o
         /\ \A i \in 1..Len(results') :
              (\E a \in 1..Len(results) : results'[i] = results[a]) \/ results'[i] = [kind |-> kind, op |-> o, ok |-> ok]
<1> DEFINE e == [kind |-> kind, op |-> o, ok |-> ok]
<1>1. /\ results' = IF call = "gone" THEN results ELSE Append(results, e)
      /\ worker' = IF call = "gone" THEN [Idle EXCEPT !.step = "gone"] ELSE Idle
  BY DEF Post
<1>2. e \in Outcomes /\ e.kind = kind /\ e.op = o BY DEF Outcomes
<1>3. results \in Seq(Outcomes) BY ShapeFacts DEF Core
<1>4. /\ worker' \in Workers /\ (worker'.step = "gone" => call = "gone")
      /\ worker'.op = 0 /\ worker'.step \in {"idle", "gone"}
  <2>1. CASE call = "gone"
    <3>1. worker' = [step |-> "gone", op |-> 0, gen |-> 0] BY <1>1, <2>1 DEF Idle
    <3> QED BY <2>1, <3>1 DEF Workers
  <2>2. CASE call # "gone"
    <3>1. worker' = [step |-> "idle", op |-> 0, gen |-> 0] BY <1>1, <2>2 DEF Idle
    <3> QED BY <3>1 DEF Workers
  <2> QED BY <2>1, <2>2
<1>5. /\ results' \in Seq(Outcomes)
      /\ \A k, p : Has(results', k, p) => Has(results, k, p) \/ (k = kind /\ p = o)
      /\ \A p : Names(results', p) => Names(results, p) \/ p = o
      /\ \A i \in 1..Len(results') :
           (\E a \in 1..Len(results) : results'[i] = results[a]) \/ results'[i] = e
  <2>1. CASE call = "gone"
    <3>1. results' = results BY <1>1, <2>1
    <3> QED BY <1>3, <3>1
  <2>2. CASE call # "gone"
    <3>1. results' = Append(results, e) BY <1>1, <2>2
    <3> HIDE DEF e
    <3>2. /\ Append(results, e) \in Seq(Outcomes) /\ Len(Append(results, e)) = Len(results) + 1
          /\ \A i \in 1..(Len(results) + 1) :
               \/ i \in 1..Len(results) /\ Append(results, e)[i] = results[i]
               \/ i = Len(results) + 1 /\ Append(results, e)[i] = e
          /\ \A k, p : Has(Append(results, e), k, p) <=> (Has(results, k, p) \/ (e.kind = k /\ e.op = p))
          /\ \A p : Names(Append(results, e), p) <=> (Names(results, p) \/ e.op = p)
      BY <1>2, <1>3, AppendHas
    <3> QED BY <1>2, <3>1, <3>2
  <2> QED BY <2>1, <2>2
<1> QED BY <1>4, <1>5

\* The mode stays with the leases.
LEMMA ModeStays ==
  ASSUME Core, worker.step \notin {"draining", "gone"}, lease' = lease, config'.mode = config.mode,
         worker'.step # "draining"
  PROVE  ModeOK'
BY DEF Core, ModeOK, ModeFollowsLeases, Desired, Held

\* The mode is set to what the leases want.
LEMMA ModeSet ==
  ASSUME Core, config' = WithMode(Desired(lease')), worker'.step # "draining"
  PROVE  ModeOK' /\ config' \in Configs
<1>1. Desired(lease') \in {"transparent", "observe", "collect"} BY DEF Desired
<1>2. config \in Configs BY DEF Core, Shape, MediaOK
<1>3. config' \in Configs /\ config'.mode = Desired(lease') BY <1>1, <1>2 DEF WithMode, Configs
<1> QED BY <1>3 DEF ModeOK, ModeFollowsLeases

\* What the worker knows.
LEMMA MediaFacts ==
  ASSUME Core
  PROVE  /\ mq \in Seq(Jobs) /\ worker \in Workers /\ lease \in [Ops -> Leases] /\ config \in Configs
         /\ results \in Seq(Outcomes) /\ Drops(mq, mq)
         /\ AcquiresOnce /\ ReleasesClose /\ (worker.step = "gone" => call = "gone")
         /\ worker.step \in {"acquiring", "draining", "releasing"} => worker.op \in Ops
         /\ worker.step \in {"idle", "gone"} => worker.op = 0
         /\ 0 \notin Ops
<1>1. worker \in Workers BY DEF Core, Shape, MediaOK
<1>2. /\ worker.step \in {"acquiring", "draining", "releasing"} => worker.op \in Ops
      /\ worker.step \in {"idle", "gone"} => worker.op = 0
  BY <1>1 DEF Workers
<1>3. mq \in Seq(Jobs) BY ShapeFacts DEF Core
<1> QED BY <1>1, <1>2, <1>3, SameDrops, OpsAreNumbers DEF Core, Shape, MediaOK, ActorOK

\* acquire_dtmf_capability is refused.
LEMMA AcquireRefusedCore == ASSUME Core, AcquireRefused PROVE Core' /\ Works
<1> DEFINE o == Head(mq).op
<1>1. /\ WorkerFrame /\ worker.step = "idle" /\ mq # << >> /\ Head(mq).kind = "acquire" /\ mq' = Tail(mq)
      /\ Post("acquired", o, FALSE) /\ lease' = lease /\ config' = config
  BY DEF AcquireRefused, WorkerHas, WorkerFrame, service, replies, relay, source
<1>2. /\ mq' \in Seq(Jobs) /\ Drops(mq, mq') /\ Has(mq, "acquire", o) /\ Names(mq, o) /\ o \in Ops
      /\ ~Has(mq', "acquire", o)
  BY <1>1, HeadJob
<1> HIDE DEF o
<1>3. /\ worker' \in Workers /\ (worker'.step = "gone" => call = "gone")
      /\ worker'.op = 0 /\ worker'.step \in {"idle", "gone"} /\ results' \in Seq(Outcomes)
      /\ \A k, p : Has(results', k, p) => Has(results, k, p) \/ (k = "acquired" /\ p = o)
      /\ \A p : Names(results', p) => Names(results, p) \/ p = o
      /\ \A i \in 1..Len(results') :
           (\E a \in 1..Len(results) : results'[i] = results[a]) \/ results'[i] = [kind |-> "acquired", op |-> o, ok |-> FALSE]
  BY <1>1, <1>2, PostFacts
<1>4. lease[o].state # "active" BY <1>2, MediaFacts DEF AcquiresOnce
<1>5. WorkerType BY <1>1, <1>2, <1>3, MediaFacts DEF WorkerType
<1>6. ASSUME NEW p \in Ops PROVE WorksOf(p)
  BY <1>1, <1>2, <1>3, MediaFacts DEF WorksOf, AcquiresFor
<1>7. Works BY <1>1, <1>3, <1>4, <1>5, <1>6 DEF Works
<1>8. ModeOK' BY <1>1, <1>3, ModeStays
<1> QED BY <1>7, <1>8, WorksCore

\* acquire_dtmf_capability up to the wait.
LEMMA AcquireCore == ASSUME Core, Acquire PROVE Core' /\ Works
<1> DEFINE m == Head(mq)
           o == m.op
           l == [state |-> "active", mode |-> m.mode]
<1>1. /\ WorkerFrame /\ worker.step = "idle" /\ mq # << >> /\ m.kind = "acquire" /\ mq' = Tail(mq)
      /\ lease' = [lease EXCEPT ![o] = l] /\ config' = WithMode(Desired(lease'))
      /\ worker' = [step |-> "acquiring", op |-> o, gen |-> config'.gen] /\ results' = results
  BY DEF Acquire, WorkerHas, WorkerFrame, service, replies, relay, source
<1>2. /\ m \in Jobs /\ mq' \in Seq(Jobs) /\ Drops(mq, mq') /\ Has(mq, "acquire", o) /\ Names(mq, o) /\ o \in Ops
      /\ ~Has(mq', "acquire", o)
  BY <1>1, HeadJob
<1>3. l \in Leases BY <1>2 DEF Leases, Jobs
<1> HIDE DEF l, o, m
<1>4. worker'.step = "acquiring" /\ worker'.op = o BY <1>1
<1>5. ModeOK' /\ config' \in Configs BY <1>1, <1>4, ModeSet
<1>6. worker' \in Workers
  <2>1. config'.gen \in Nat BY <1>5 DEF Configs
  <2> QED BY <1>1, <1>2, <2>1 DEF Workers
<1>7. lease' \in [Ops -> Leases] /\ \A p \in Ops : p # o => lease'[p] = lease[p] BY <1>1, <1>2, <1>3, MediaFacts
<1>8. WorkerType BY <1>1, <1>2, <1>4, <1>5, <1>6, <1>7, MediaFacts DEF WorkerType
<1>9. ASSUME NEW p \in Ops PROVE WorksOf(p)
  <2>1. CASE p = o BY <1>1, <1>2, <1>4, <2>1 DEF WorksOf
  <2>2. CASE p # o BY <1>1, <1>4, <1>7, <2>2 DEF WorksOf, AcquiresFor
  <2> QED BY <2>1, <2>2
<1>10. Works BY <1>1, <1>8, <1>9 DEF Works
<1> QED BY <1>5, <1>10, WorksCore

\* The wait is over, or times out without an effect on the leases.
LEMMA PostedCore ==
  ASSUME Core, WorkerFrame, UNCHANGED <<mq, lease, config>>, worker.step \in {"acquiring", "releasing"},
         NEW kind \in {"acquired", "released"}, NEW ok \in BOOLEAN, Post(kind, worker.op, ok),
         kind = "acquired" => worker.step = "acquiring" /\ ok,
         kind = "released" => worker.step = "releasing"
  PROVE  Core' /\ Works
<1> DEFINE o == worker.op
<1>1. o \in Ops BY MediaFacts
<1>2. /\ worker' \in Workers /\ (worker'.step = "gone" => call = "gone")
      /\ worker'.op = 0 /\ worker'.step \in {"idle", "gone"} /\ results' \in Seq(Outcomes)
      /\ \A k, p : Has(results', k, p) => Has(results, k, p) \/ (k = kind /\ p = o)
      /\ \A p : Names(results', p) => Names(results, p) \/ p = o
      /\ \A i \in 1..Len(results') :
           (\E a \in 1..Len(results) : results'[i] = results[a]) \/ results'[i] = [kind |-> kind, op |-> o, ok |-> ok]
  BY <1>1, PostFacts
<1>3. WorkerType BY <1>2, MediaFacts DEF WorkerType
<1>4. kind = "released" => Closed(o)
  BY <1>1, MediaFacts DEF ReleasesClose
<1>5. \A p \in Ops : Closed(p) <=> Closed(p)' BY DEF Closed
<1>6. ASSUME NEW p \in Ops PROVE WorksOf(p)
  <2>1. Has(results', "acquired", p) => Has(results, "acquired", p) \/ AcquiresFor(p) BY <1>2 DEF AcquiresFor
  <2>2. Has(results', "released", p) => Has(results, "released", p) \/ Closed(p)' BY <1>2, <1>4, <1>5
  <2> QED BY <1>2, <2>1, <2>2, MediaFacts DEF WorksOf, AcquiresFor
<1>7. \A i \in 1..Len(results') :
        \/ \E a \in 1..Len(results) : results'[i] = results[a]
        \/ results'[i].kind = "acquired" /\ ~results'[i].ok => lease'[results'[i].op].state # "active"
  BY <1>2
<1>8. Works BY <1>3, <1>6, <1>7 DEF Works
<1>9. ModeOK' BY <1>2, ModeStays
<1> QED BY <1>8, <1>9, WorksCore

\* wait_dtmf_policy_applied returns.
LEMMA AppliedCore == ASSUME Core, Applied PROVE Core' /\ Works
<1> DEFINE kind == IF worker.step = "acquiring" THEN "acquired" ELSE "released"
<1>1. /\ WorkerFrame /\ UNCHANGED <<mq, lease, config>> /\ worker.step \in {"acquiring", "releasing"}
      /\ Post(kind, worker.op, TRUE)
  BY DEF Applied, WorkerFrame, service, replies, relay, source
<1>2. /\ kind \in {"acquired", "released"} /\ (kind = "acquired" => worker.step = "acquiring")
      /\ (kind = "released" => worker.step = "releasing")
  BY <1>1
<1> HIDE DEF kind
<1> QED BY <1>1, <1>2, PostedCore

\* The wait of a release times out.
LEMMA ReleaseTimesOutCore == ASSUME Core, ReleaseTimesOut PROVE Core' /\ Works
<1>1. /\ WorkerFrame /\ UNCHANGED <<mq, lease, config>> /\ worker.step = "releasing"
      /\ Post("released", worker.op, FALSE)
  BY DEF ReleaseTimesOut, WorkerFrame, service, replies, relay, source
<1> QED BY <1>1, PostedCore

\* The wait of an acquisition times out.
LEMMA AcquireTimesOutCore == ASSUME Core, AcquireTimesOut PROVE Core' /\ Works
<1> DEFINE o == worker.op
<1>1. /\ WorkerFrame /\ mq' = mq /\ worker.step = "acquiring" /\ Post("acquired", o, FALSE)
      /\ lease' = [lease EXCEPT ![o] = NoLease] /\ config' = WithMode(Desired(lease'))
  BY DEF AcquireTimesOut, WorkerFrame, service, replies, relay, source
<1>2. o \in Ops /\ AcquiresFor(o) BY <1>1, MediaFacts DEF AcquiresFor
<1>3. /\ worker' \in Workers /\ (worker'.step = "gone" => call = "gone")
      /\ worker'.op = 0 /\ worker'.step \in {"idle", "gone"} /\ results' \in Seq(Outcomes)
      /\ \A k, p : Has(results', k, p) => Has(results, k, p) \/ (k = "acquired" /\ p = o)
      /\ \A p : Names(results', p) => Names(results, p) \/ p = o
      /\ \A i \in 1..Len(results') :
           (\E a \in 1..Len(results) : results'[i] = results[a]) \/ results'[i] = [kind |-> "acquired", op |-> o, ok |-> FALSE]
  BY <1>1, <1>2, PostFacts
<1>4. NoLease \in Leases /\ NoLease.state = "none" BY DEF NoLease, Leases, Modes
<1>5. /\ lease' \in [Ops -> Leases] /\ \A p \in Ops : p # o => lease'[p] = lease[p]
      /\ lease'[o].state = "none"
  BY <1>1, <1>2, <1>4, MediaFacts
<1>6. ModeOK' /\ config' \in Configs BY <1>1, <1>3, ModeSet
<1>7. WorkerType BY <1>1, <1>3, <1>5, <1>6, MediaFacts DEF WorkerType
<1>8. ASSUME NEW p \in Ops PROVE WorksOf(p)
  <2>1. CASE p = o BY <1>1, <1>2, <1>3, <1>5, <2>1, MediaFacts DEF WorksOf, AcquiresFor
  <2>2. CASE p # o BY <1>1, <1>3, <1>5, <2>2, MediaFacts DEF WorksOf, AcquiresFor
  <2> QED BY <2>1, <2>2
<1>9. Works BY <1>1, <1>3, <1>5, <1>7, <1>8 DEF Works
<1> QED BY <1>6, <1>9, WorksCore

\* release_dtmf_capability of a lease that is not active.
LEMMA ReleaseAgainCore == ASSUME Core, ReleaseAgain PROVE Core' /\ Works
<1> DEFINE o == Head(mq).op
           ok == lease[o].state = "inactive"
<1>1. /\ WorkerFrame /\ worker.step = "idle" /\ mq # << >> /\ Head(mq).kind = "release" /\ mq' = Tail(mq)
      /\ Post("released", o, ok) /\ lease' = lease /\ config' = config /\ lease[o].state # "active"
  BY DEF ReleaseAgain, WorkerHas, WorkerFrame, service, replies, relay, source
<1>2. /\ mq' \in Seq(Jobs) /\ Drops(mq, mq') /\ Names(mq, o) /\ o \in Ops /\ ~Has(mq', "acquire", o)
  BY <1>1, HeadJob
<1>9. ok \in BOOLEAN OBVIOUS
<1> HIDE DEF o, ok
<1>3. /\ worker' \in Workers /\ (worker'.step = "gone" => call = "gone")
      /\ worker'.op = 0 /\ worker'.step \in {"idle", "gone"} /\ results' \in Seq(Outcomes)
      /\ \A k, p : Has(results', k, p) => Has(results, k, p) \/ (k = "released" /\ p = o)
      /\ \A p : Names(results', p) => Names(results, p) \/ p = o
      /\ \A i \in 1..Len(results') :
           (\E a \in 1..Len(results) : results'[i] = results[a]) \/ results'[i] = [kind |-> "released", op |-> o, ok |-> ok]
  BY <1>1, <1>2, <1>9, PostFacts
<1>4. \A p \in Ops : p = o => Closed(p)' BY <1>1, <1>2 DEF Closed
<1>5. WorkerType BY <1>1, <1>2, <1>3, MediaFacts DEF WorkerType
<1>6. ASSUME NEW p \in Ops PROVE WorksOf(p)
  BY <1>1, <1>2, <1>3, <1>4, MediaFacts DEF WorksOf, AcquiresFor
<1>10. \A i \in 1..Len(results') :
        \/ \E a \in 1..Len(results) : results'[i] = results[a]
        \/ results'[i].kind = "acquired" /\ ~results'[i].ok => lease'[results'[i].op].state # "active"
  BY <1>3
<1>7. Works BY <1>1, <1>5, <1>6, <1>10 DEF Works
<1>8. ModeOK' BY <1>1, <1>3, ModeStays
<1> QED BY <1>7, <1>8, WorksCore

\* release_dtmf_capability up to the drain or the new mode.
LEMMA ReleaseCore == ASSUME Core, Release PROVE Core' /\ Works
<1> DEFINE o == Head(mq).op
<1>1. /\ WorkerFrame /\ worker.step = "idle" /\ mq # << >> /\ Head(mq).kind = "release" /\ mq' = Tail(mq)
      /\ results' = results /\ lease[o].state = "active" /\ lease' = [lease EXCEPT ![o].state = "inactive"]
  BY DEF Release, WorkerHas, WorkerFrame, service, replies, relay, source
<1>2. \/ /\ config.mode = "collect" /\ worker' = [step |-> "draining", op |-> o, gen |-> 0] /\ config' = config
      \/ /\ config' = WithMode(Desired(lease')) /\ worker' = [step |-> "releasing", op |-> o, gen |-> config'.gen]
  BY DEF Release, Drains
<1>3. /\ mq' \in Seq(Jobs) /\ Drops(mq, mq') /\ Names(mq, o) /\ o \in Ops /\ ~Has(mq', "acquire", o)
  BY <1>1, HeadJob
<1> HIDE DEF o
<1>4. /\ lease' \in [Ops -> Leases] /\ \A p \in Ops : p # o => lease'[p] = lease[p]
      /\ lease'[o].state = "inactive"
  <2>1. lease \in [Ops -> Leases] /\ lease[o] \in Leases BY <1>3, MediaFacts
  <2> DEFINE e == [lease[o] EXCEPT !.state = "inactive"]
  <2>2. e \in Leases /\ e.state = "inactive" BY <2>1 DEF Leases
  <2>3. lease' = [lease EXCEPT ![o] = e] BY <1>1
  <2> HIDE DEF e
  <2> QED BY <1>3, <2>1, <2>2, <2>3
<1>5. \A p \in Ops : p = o => Closed(p)' BY <1>3, <1>4 DEF Closed
<1>6. /\ ModeOK' /\ config' \in Configs /\ worker' \in Workers /\ worker'.step \in {"draining", "releasing"}
      /\ worker'.op = o
  <2>1. CASE config.mode = "collect" /\ worker' = [step |-> "draining", op |-> o, gen |-> 0] /\ config' = config
    <3>1. worker' \in Workers /\ worker'.step = "draining" /\ worker'.op = o BY <1>3, <2>1 DEF Workers
    <3>2. ModeOK' BY <2>1, <3>1 DEF ModeOK, ModeFollowsLeases
    <3> QED BY <2>1, <3>1, <3>2, MediaFacts
  <2>2. CASE config' = WithMode(Desired(lease')) /\ worker' = [step |-> "releasing", op |-> o, gen |-> config'.gen]
    <3>1. worker'.step = "releasing" /\ worker'.op = o BY <2>2
    <3>2. ModeOK' /\ config' \in Configs BY <2>2, <3>1, ModeSet
    <3>3. config'.gen \in Nat BY <3>2 DEF Configs
    <3>4. worker' \in Workers BY <1>3, <2>2, <3>3 DEF Workers
    <3> QED BY <3>1, <3>2, <3>4
  <2> QED BY <1>2, <2>1, <2>2
<1>7. WorkerType BY <1>1, <1>3, <1>4, <1>6, MediaFacts DEF WorkerType
<1>8. ASSUME NEW p \in Ops PROVE WorksOf(p)
  <2>1. CASE p = o BY <1>1, <1>3, <1>4, <1>5, <1>6, <2>1 DEF WorksOf, AcquiresFor
  <2>2. CASE p # o BY <1>1, <1>3, <1>4, <1>6, <2>2 DEF WorksOf, AcquiresFor
  <2> QED BY <2>1, <2>2
<1>9. Works BY <1>1, <1>7, <1>8 DEF Works
<1> QED BY <1>6, <1>9, WorksCore

\* The drain is over.
LEMMA DrainedCore == ASSUME Core, Drained PROVE Core' /\ Works
<1>1. /\ WorkerFrame /\ worker.step = "draining" /\ mq' = mq /\ lease' = lease /\ results' = results
      /\ config' = WithMode(Desired(lease')) /\ worker' = [worker EXCEPT !.step = "releasing", !.gen = config'.gen]
  BY DEF Drained, WorkerFrame, service, replies, relay, source
<1>2. worker.op \in Ops /\ worker \in Workers BY <1>1, MediaFacts
<1>3. worker' = [step |-> "releasing", op |-> worker.op, gen |-> config'.gen] BY <1>1, <1>2 DEF Workers
<1>4. worker'.step = "releasing" /\ worker'.op = worker.op BY <1>3
<1>5. ModeOK' /\ config' \in Configs BY <1>1, <1>4, ModeSet
<1>6. worker' \in Workers
  <2>1. config'.gen \in Nat BY <1>5 DEF Configs
  <2> QED BY <1>2, <1>3, <2>1 DEF Workers
<1>7. WorkerType BY <1>1, <1>4, <1>5, <1>6, MediaFacts DEF WorkerType
<1>8. \A p \in Ops : Closed(p) <=> Closed(p)' BY <1>1 DEF Closed
<1>9. \A p \in Ops : worker.op = p => Closed(p) BY <1>1, MediaFacts DEF ReleasesClose
<1>10. ASSUME NEW p \in Ops PROVE WorksOf(p) BY <1>1, <1>4, <1>8, <1>9 DEF WorksOf, AcquiresFor
<1>11. Works BY <1>1, <1>7, <1>10 DEF Works
<1> QED BY <1>5, <1>11, WorksCore

\* update_dtmf_negotiation
LEMMA PrepareCore == ASSUME Core, Prepare PROVE Core' /\ Works /\ config'.mode = config.mode
<1>1. /\ WorkerFrame /\ worker.step = "idle" /\ mq # << >> /\ Head(mq).kind = "prepare" /\ mq' = Tail(mq)
      /\ lease' = lease /\ results' = results
      /\ config' = [config EXCEPT !.gen = Head(mq).gen] \/ config' = config
      /\ worker' = IF call = "gone" THEN [Idle EXCEPT !.step = "gone"] ELSE Idle
  BY DEF Prepare, Negotiated, WorkerHas, WorkerFrame, service, replies, relay, source
<1>2. mq' \in Seq(Jobs) /\ Drops(mq, mq') /\ Head(mq) \in Jobs BY <1>1, HeadJob
<1>3. config' \in Configs /\ config'.mode = config.mode
  <2>1. config \in Configs /\ Head(mq).gen \in Nat BY <1>2, MediaFacts DEF Jobs
  <2> QED BY <1>1, <2>1 DEF Configs
<1>4. /\ worker' \in Workers /\ (worker'.step = "gone" => call = "gone")
      /\ worker'.op = 0 /\ worker'.step \in {"idle", "gone"}
  <2>1. CASE call = "gone"
    <3>1. worker' = [step |-> "gone", op |-> 0, gen |-> 0] BY <1>1, <2>1 DEF Idle
    <3> QED BY <2>1, <3>1 DEF Workers
  <2>2. CASE call # "gone"
    <3>1. worker' = [step |-> "idle", op |-> 0, gen |-> 0] BY <1>1, <2>2 DEF Idle
    <3> QED BY <3>1 DEF Workers
  <2> QED BY <2>1, <2>2
<1>5. WorkerType BY <1>1, <1>2, <1>3, <1>4, MediaFacts DEF WorkerType
<1>6. ASSUME NEW p \in Ops PROVE WorksOf(p) BY <1>1, <1>4, MediaFacts DEF WorksOf, AcquiresFor
<1>7. Works BY <1>1, <1>5, <1>6 DEF Works
<1>8. ModeOK' BY <1>1, <1>3, <1>4, ModeStays
<1> QED BY <1>3, <1>7, <1>8, WorksCore

\* The media worker keeps the invariant.
LEMMA WorkerCore == ASSUME Core, WorkerStep PROVE Core' /\ Works
BY AcquireRefusedCore, AcquireCore, AppliedCore, AcquireTimesOutCore, ReleaseTimesOutCore, ReleaseAgainCore,
   ReleaseCore, DrainedCore, PrepareCore DEF WorkerStep

----------------------------------------------------------------------------
(* The relay *)

\* The relay and the phone leave the rest alone.
RelayFrame ==
  UNCHANGED <<status, order, attached, opq, evq, task, ready, result, reply, call, mgen, col, mq, worker, lease, config,
              results, stopped, lock, recent, consumed>>

\* A step of theirs keeps the invariant.
LEMMA RelayCore ==
  ASSUME Core, RelayFrame, RelayOK', heard' \in Seq(Digits)
  PROVE  Core'
<1>1. Shape'
  <2>1. ServiceOK' BY DEF Core, Shape, ServiceOK, RelayFrame
  <2>2. RepliesOK' BY DEF Core, Shape, RepliesOK, RelayFrame
  <2>3. ActorOK' BY DEF Core, Shape, ActorOK, RelayFrame
  <2>4. ColOK' BY DEF Core, Shape, ColOK, RelayFrame, Collectors
  <2>5. MediaOK' BY DEF Core, Shape, MediaOK, RelayFrame
  <2> QED BY <2>1, <2>2, <2>3, <2>4, <2>5 DEF Shape
<1>2. StartsOnce' BY DEF Core, StartsOnce, Touched, Begun, RelayFrame
<1>3. AcquiresOnce' BY DEF Core, AcquiresOnce, AcquiresFor, RelayFrame
<1>4. ReleasesClose' BY DEF Core, ReleasesClose, Closed, RelayFrame
<1>5. ReportsOutcome' /\ Settled' BY DEF Core, ReportsOutcome, Settled, RelayFrame
<1>6. ModeOK' BY DEF Core, ModeOK, ModeFollowsLeases, Desired, Held, RelayFrame
<1> QED BY <1>1, <1>2, <1>3, <1>4, <1>5, <1>6 DEF Core

\* What the relay knows.
LEMMA RelayFacts ==
  ASSUME Core
  PROVE  /\ parser \in Configs /\ parsed \in [Presses -> {"no", "active", "recent"}] /\ press \in [Presses -> 0..3]
         /\ lock \in [tr : {"unset", "rfc", "info"}, gen : Nat] /\ heard \in Seq(Digits) /\ config \in Configs
BY DEF Core, Shape, RelayOK, ActorOK, MediaOK

\* A digit is put behind the others.
LEMMA EmitType ==
  ASSUME Core, NEW tr \in {"rfc", "info"}, NEW gen \in Nat, NEW p \in Presses
  PROVE  Emit(Digit(tr, gen, p)) \in Seq(Digits)
<1>1. Digit(tr, gen, p) \in Digits BY DEF Digit, Digits
<1> QED BY <1>1, RelayFacts DEF Emit

\* Each of its steps.
LEMMA RelayStepCore == ASSUME Core, RelayStep PROVE Core' /\ RelayFrame
<1>0. parser.gen \in Nat BY RelayFacts DEF Configs
<1>1. CASE ApplyConfig
  <2>1. RelayFrame /\ heard' = heard /\ parser' = config /\ parsed' = Reset /\ press' = press
    BY <1>1 DEF ApplyConfig, RelayFrame, service, replies, media, source
  <2>2. RelayOK' BY <2>1, RelayFacts DEF RelayOK, Reset, RelayFrame
  <2> QED BY <2>1, <2>2, RelayCore, RelayFacts
<1>2. ASSUME NEW p \in Presses, PressBegins(p) PROVE Core' /\ RelayFrame
  <2>1. RelayFrame /\ heard' = heard /\ parser' = parser /\ press' = [press EXCEPT ![p] = 1]
        /\ (parsed' = [parsed EXCEPT ![p] = "active"] \/ parsed' = parsed)
    BY <1>2 DEF PressBegins, RelayFrame, service, replies, media, source
  <2>2. RelayOK' BY <2>1, RelayFacts DEF RelayOK, RelayFrame
  <2> QED BY <2>1, <2>2, RelayCore, RelayFacts
<1>3. ASSUME NEW p \in Presses, PressEnds(p) PROVE Core' /\ RelayFrame
  <2>1. RelayFrame /\ parser' = parser /\ press[p] \in {1, 2} /\ press' = [press EXCEPT ![p] = @ + 1]
        /\ (parsed' = [parsed EXCEPT ![p] = "recent"] \/ parsed' = parsed)
        /\ (heard' = heard \/ heard' = Emit(Digit("rfc", parser.gen, p)))
    BY <1>3 DEF PressEnds, EndPacket, RelayFrame, service, replies, media, source
  <2>2. RelayOK' BY <2>1, RelayFacts DEF RelayOK, RelayFrame
  <2>3. Emit(Digit("rfc", parser.gen, p)) \in Seq(Digits) BY <1>0, EmitType
  <2>4. heard \in Seq(Digits) BY RelayFacts
  <2>5. heard' \in Seq(Digits) BY <2>1, <2>3, <2>4
  <2> QED BY <2>1, <2>2, <2>5, RelayCore
<1>4. ASSUME NEW p \in Presses, Expire(p) PROVE Core' /\ RelayFrame
  <2>1. RelayFrame /\ parser' = parser /\ press' = [press EXCEPT ![p] = 3]
        /\ parsed' = [parsed EXCEPT ![p] = "recent"] /\ heard' = Emit(Digit("rfc", parser.gen, p))
    BY <1>4 DEF Expire, RelayFrame, service, replies, media, source
  <2>2. RelayOK' BY <2>1, RelayFacts DEF RelayOK, RelayFrame
  <2>3. heard' \in Seq(Digits) BY <1>0, <2>1, EmitType
  <2> QED BY <2>1, <2>2, <2>3, RelayCore
<1>5. ASSUME NEW p \in Presses, PressInfo(p) PROVE Core' /\ RelayFrame
  <2>1. RelayFrame /\ parser' = parser /\ press' = press /\ parsed' = parsed /\ heard' = Emit(Digit("info", 1, p))
    BY <1>5 DEF PressInfo, RelayFrame, service, replies, media, relay, source
  <2>2. RelayOK' BY <2>1, RelayFacts DEF RelayOK, RelayFrame
  <2>3. heard' \in Seq(Digits) BY <2>1, EmitType
  <2> QED BY <2>1, <2>2, <2>3, RelayCore
<1> QED BY <1>1, <1>2, <1>3, <1>4, <1>5 DEF RelayStep

----------------------------------------------------------------------------
(* The invariant that holds however the steps interleave *)

\* It holds at the start.
LEMMA InitCore == ASSUME Init PROVE Core
<1>1. ServiceOK
  <2>1. status \in [Ops -> Statuses] BY DEF Init, Statuses
  <2>2. order \in Seq(Ops) /\ Len(order) = 0 /\ opq \in Seq(Messages) /\ Len(opq) = 0 BY DEF Init
  <2>3. attached \in BOOLEAN BY DEF Init
  <2>4. OpCapacity \in Nat /\ HistoryCapacity \in Nat BY DtmfAssumption
  <2> QED BY <2>1, <2>2, <2>3, <2>4 DEF ServiceOK
<1>2. RepliesOK BY DEF Init, RepliesOK
<1>3. ActorOK
  <2>1. evq \in Seq(Messages) /\ Len(evq) = 0 /\ results \in Seq(Outcomes) /\ heard \in Seq(Digits) BY DEF Init
  <2>2. stopped \in BOOLEAN BY DEF Init
  <2>3. EventCapacity \in Nat BY DtmfAssumption
  <2>4. mgen \in Nat /\ call \in {"talking", "ending", "gone"} BY DEF Init
  <2> QED BY <2>1, <2>2, <2>3, <2>4 DEF ActorOK
<1>4. ColOK
  <2>1. \A o \in Ops : col[o] = NoCollector BY DEF Init
  <2>2. col \in [Ops -> States] BY NoCollectorType DEF Init
  <2>3. Collectors = {} BY <2>1, NoCollectorType DEF Collectors
  <2>4. Cardinality(Collectors) = 0 BY <2>3, FS_EmptySet
  <2>5. CollectorCapacity \in Nat BY DtmfAssumption
  <2>6. call = "talking" BY DEF Init
  <2>7. \A o \in Ops : /\ Len(col[o].digits) <= MaxDigits[o]
                       /\ col[o].phase \in {"acquiring", "active"} => Len(col[o].digits) < MaxDigits[o]
    BY <2>1, NoCollectorType
  <2>8. Cardinality(Collectors) <= CollectorCapacity BY <2>4, <2>5
  <2> QED BY <2>2, <2>6, <2>7, <2>8 DEF ColOK
<1>5. MediaOK
  <2>1. mq \in Seq(Jobs) /\ Len(mq) = 0 BY DEF Init
  <2>2. worker \in Workers /\ worker.step = "idle" BY DEF Init, Idle, Workers
  <2>3. lease \in [Ops -> Leases] BY DEF Init, NoLease, Leases, Modes
  <2>4. config \in Configs BY DEF Init, Configs
  <2>5. MediaCapacity \in Nat BY DtmfAssumption
  <2> QED BY <2>1, <2>2, <2>3, <2>4, <2>5 DEF MediaOK
<1>6. RelayOK BY DEF Init, RelayOK, Configs, Reset
<1>7. Shape BY <1>1, <1>2, <1>3, <1>4, <1>5, <1>6 DEF Shape
<1>8. opq = << >> /\ evq = << >> /\ mq = << >> /\ results = << >> BY DEF Init
<1>9. /\ \A kind, o : ~Has(opq, kind, o) /\ ~Has(evq, kind, o) /\ ~Has(mq, kind, o) /\ ~Has(results, kind, o)
      /\ \A o : ~Names(mq, o) /\ ~Names(results, o)
      /\ \A kind : OneEach(opq, kind) /\ OneEach(evq, kind) /\ OneEach(mq, kind)
  BY <1>8 DEF Has, Names, OneEach
<1>10. \A o \in Ops : /\ status[o] = "none" /\ task[o] = "none" /\ result[o] = "wait" /\ lease[o] = NoLease
                      /\ col[o] = NoCollector
  BY DEF Init
<1>11. NoLease.state = "none" /\ worker.op = 0 /\ worker.step = "idle" /\ 0 \notin Ops
  BY OpsAreNumbers DEF Init, NoLease, Idle
<1>12. StartsOnce
  <2>1. \A o \in Ops : ~Touched(o) BY <1>9, <1>10, <1>11, NoCollectorType DEF Touched, Good
  <2> QED BY <1>9, <1>10, <2>1 DEF StartsOnce
<1>13. AcquiresOnce BY <1>8, <1>9, <1>11 DEF AcquiresOnce, AcquiresFor
<1>14. ReleasesClose BY <1>8, <1>9, <1>10, <1>11 DEF ReleasesClose, Good
<1>15. ReportsOutcome /\ Settled BY <1>10 DEF ReportsOutcome, Settled
<1>16. ModeOK
  <2>1. ~Held(lease, "collect") /\ ~Held(lease, "observe") BY <1>10, <1>11 DEF Held
  <2>2. config.mode = "transparent" BY DEF Init
  <2> QED BY <1>11, <2>1, <2>2 DEF ModeOK, ModeFollowsLeases, Desired
<1> QED BY <1>7, <1>12, <1>13, <1>14, <1>15, <1>16 DEF Core

\* The service keeps it.
LEMMA ServiceStepCore == ASSUME Core, ServiceStep PROVE Core'
BY StartCore, CancelCore, CancelRefusedCore, TaskReadyCore, TaskResultCore, DetachCore, HandleOperationCore
   DEF ServiceStep

\* A step of the coordinator is a step of its collectors, or a registration.
LEMMA ActorStepIs ==
  ASSUME Shape, ActorStep
  PROVE  \/ CoordStep /\ NoDigit
         \/ CoordStep /\ TakeDigit
         \/ Registered(Head(evq))
BY StopMediaCoord, NegotiateCoord, EndActorCoord, BeginFinishCoord, TakeEventCoord, TakeEventRegisters,
   TakeResultCoord, TakeDigitCoord, TimeoutCoord DEF ActorStep

\* The coordinator keeps it.
LEMMA ActorStepCore == ASSUME Core, ActorStep PROVE Core'
<1>1. Shape BY DEF Core
<1> QED BY <1>1, ActorStepIs, CoordCore, RegisteredCore

\* A step that changes nothing.
LEMMA StutterCore == ASSUME Core, UNCHANGED vars PROVE Core'
<1>1. RelayFrame /\ UNCHANGED <<parser, parsed, press, heard>>
  BY DEF vars, RelayFrame, service, replies, media, relay, source
<1>2. RelayOK' BY <1>1, RelayFacts DEF RelayOK, RelayFrame
<1> QED BY <1>1, <1>2, RelayCore, RelayFacts

\* Every step keeps it.
LEMMA NextCore == ASSUME Core, [Next]_vars PROVE Core'
BY ServiceStepCore, ActorStepCore, WorkerCore, RelayStepCore, StutterCore DEF Next

\* In every behaviour, with every capacity and every race, operations are started once and leases are acquired
\* once, a release leaves its lease closed up to the outcome that is reported, and the parser's mode follows
\* the leases (DtmfOperationService, dtmf_collectors, MediaActionExecutor, set_dtmf_mode).
THEOREM CollectionCore == Spec => []Core
<1>1. Init => Core BY InitCore
<1>2. Core /\ [Next]_vars => Core' BY NextCore
<1> QED BY <1>1, <1>2, PTL DEF Spec

----------------------------------------------------------------------------
(* OutcomeFinal *)

Final == \A o \in Ops : status[o] \in Terminal => status'[o] \in {status[o], "forgotten"}

\* update does not touch what was reported.
LEMMA UpdatedFinal ==
  ASSUME Core, NEW o \in Ops, NEW new, status' = Updated(status, o, new)
  PROVE  Final
<1>1. status \in [Ops -> Statuses] BY ServiceFacts
<1> QED BY <1>1 DEF Updated, Final

\* Nothing but the service touches a status.
LEMMA ServiceFinal == ASSUME Core, ServiceStep PROVE Final
<1>1. ASSUME NEW o \in Ops, NEW mode \in Modes, Start(o, mode) PROVE Final
  <2>1. /\ \A p \in Ops : p # o => status'[p] \in {status[p], "forgotten"}
        /\ status[o] = "none"
    BY <1>1, StartFacts
  <2>2. "none" \notin Terminal BY DEF Terminal
  <2> QED BY <2>1, <2>2 DEF Final
<1>2. ASSUME NEW o \in Ops, Cancel(o) PROVE Final
  <2>1. status' = [status EXCEPT ![o] = "cancelling"] /\ status[o] \notin Terminal BY <1>2 DEF Cancel
  <2>2. status \in [Ops -> Statuses] BY ServiceFacts
  <2> QED BY <2>1, <2>2 DEF Final
<1>3. ASSUME NEW o \in Ops, CancelRefused(o) PROVE Final
  <2>1. status' = Updated(status, o, "notFound") BY <1>3 DEF CancelRefused, Update
  <2> QED BY <2>1, UpdatedFinal
<1>4. ASSUME NEW o \in Ops, TaskReady(o) PROVE Final
  <2>1. status' = Updated(status, o, "ready") \/ status' = status BY <1>4 DEF TaskReady, Update
  <2>2. status' = status => Final BY DEF Final
  <2> QED BY <2>1, <2>2, UpdatedFinal
<1>5. ASSUME NEW o \in Ops, TaskResult(o) PROVE Final
  <2> DEFINE new == CASE result[o] \in {"Completed", "Timeout"} -> "completed"
                      [] result[o] = "Cancelled" -> "cancelled"
                      [] OTHER -> "failed"
  <2>1. status' = Updated(status, o, new) BY <1>5 DEF TaskResult, Update
  <2> HIDE DEF new
  <2> QED BY <2>1, UpdatedFinal
<1>6. ASSUME Detach PROVE Final
  <2>1. status' = [p \in Ops |-> Updated(status, p, "disconnected")[p]] BY <1>6 DEF Detach, Detached
  <2>2. \A p \in Ops : status[p] \in Terminal => Updated(status, p, "disconnected") = status BY DEF Updated
  <2> QED BY <2>1, <2>2 DEF Final
<1>7. ASSUME HandleOperation PROVE Final
  <2>1. \A p \in Ops : status[p] \in Over => status'[p] = status[p] BY <1>7, HandleFacts
  <2> QED BY <2>1 DEF Final, Over
<1> QED BY <1>1, <1>2, <1>3, <1>4, <1>5, <1>6, <1>7 DEF ServiceStep

\* So no step changes what was reported.
LEMMA NextFinal == ASSUME Core, Next PROVE Final
<1>1. ASSUME status' = status PROVE Final BY <1>1 DEF Final
<1>2. ASSUME ActorStep PROVE status' = status
  <2>1. Shape BY DEF Core
  <2> QED BY <1>2, <2>1, ActorStepIs DEF CoordStep, Registered, service
<1>3. ASSUME WorkerStep PROVE status' = status BY <1>3, WorkerCore DEF Works, WorkerFrame
<1>4. ASSUME RelayStep PROVE status' = status BY <1>4, RelayStepCore DEF RelayFrame
<1> QED BY <1>1, <1>2, <1>3, <1>4, ServiceFinal DEF Next

\* What was reported of an operation as its outcome does not change, until it is forgotten: a task, a refused
\* cancellation, the detachment of the connection or an operation that is handled late does not overwrite it
\* (DtmfOperationService::update).
THEOREM OutcomeIsFinal == Spec => OutcomeFinal
<1>1. Core /\ [Next]_vars => [Final]_vars BY NextFinal
<1>2. [][Final]_vars => OutcomeFinal BY PTL DEF OutcomeFinal, Final
<1> QED BY <1>1, <1>2, CollectionCore, PTL DEF Spec

----------------------------------------------------------------------------
(* CollectionConsistent *)

\* A cancellation that is refused after the result was taken reports nothing.
LEMMA NextFound ==
  ASSUME Core, Found, Next, "CancelAfterResult" \notin Races
  PROVE  Found'
<1>0. status \in [Ops -> Statuses] BY ServiceFacts
<1>1. ASSUME status' = status PROVE Found' BY <1>1 DEF Found
<1>2. ASSUME NEW o \in Ops, NEW new, new # "notFound", status' = Updated(status, o, new) PROVE Found'
  BY <1>0, <1>2 DEF Found, Updated
<1>3. ASSUME NEW o \in Ops, NEW mode \in Modes, Start(o, mode) PROVE Found'
  <2>1. /\ \A p \in Ops : p # o => status'[p] \in {status[p], "forgotten"}
        /\ status'[o] \in {"pending", "forgotten"}
    BY <1>3, StartFacts
  <2> QED BY <2>1 DEF Found
<1>4. ASSUME NEW o \in Ops, Cancel(o) PROVE Found'
  <2>1. status' = [status EXCEPT ![o] = "cancelling"] BY <1>4 DEF Cancel
  <2> QED BY <1>0, <2>1 DEF Found
<1>5. ASSUME NEW o \in Ops, CancelRefused(o) PROVE Found'
  <2>1. status' = Updated(status, o, "notFound") /\ task[o] = "done" BY <1>5 DEF CancelRefused, Update
  <2>2. status[o] \in Over BY <2>1, ServiceFacts
  <2>3. status' = status BY <2>1, <2>2 DEF Updated, Over
  <2> QED BY <1>1, <2>3
<1>6. ASSUME NEW o \in Ops, TaskReady(o) PROVE Found'
  <2>1. status' = Updated(status, o, "ready") \/ status' = status BY <1>6 DEF TaskReady, Update
  <2> QED BY <1>1, <1>2, <2>1
<1>7. ASSUME NEW o \in Ops, TaskResult(o) PROVE Found'
  <2> DEFINE new == CASE result[o] \in {"Completed", "Timeout"} -> "completed"
                      [] result[o] = "Cancelled" -> "cancelled"
                      [] OTHER -> "failed"
  <2>1. status' = Updated(status, o, new) BY <1>7 DEF TaskResult, Update
  <2>2. new # "notFound"
    <3>1. CASE result[o] \in {"Completed", "Timeout"} BY <3>1
    <3>2. CASE result[o] = "Cancelled" BY <3>2
    <3>3. CASE result[o] \notin {"Completed", "Timeout", "Cancelled"} BY <3>3
    <3> QED BY <3>1, <3>2, <3>3
  <2> HIDE DEF new
  <2> QED BY <1>2, <2>1, <2>2
<1>8. ASSUME Detach PROVE Found'
  <2>1. status' = [p \in Ops |-> Updated(status, p, "disconnected")[p]] BY <1>8 DEF Detach, Detached
  <2>2. \A p \in Ops : Updated(status, p, "disconnected")[p] \in {status[p], "disconnected"} BY <1>0 DEF Updated
  <2> QED BY <2>1, <2>2 DEF Found
<1>9. ASSUME HandleOperation PROVE Found'
  <2> DEFINE m == Head(opq)
             r == call # "gone" /\ Len(evq) < EventCapacity
             new == CASE ~r -> "unreachable" [] r /\ m.kind = "start" -> "acquiring" [] OTHER -> status[m.op]
  <2>1. status' = Updated(status, m.op, new) BY <1>9 DEF HandleOperation, Update
  <2>2. m.op \in Ops BY <1>9, HandleFacts
  <2>3. new # "notFound"
    <3>1. CASE ~r BY <3>1
    <3>2. CASE r /\ m.kind = "start" BY <3>2
    <3>3. CASE r /\ m.kind # "start"
      <4>1. new = status[m.op] BY <3>3
      <4> QED BY <2>2, <4>1 DEF Found
    <3> QED BY <3>1, <3>2, <3>3
  <2> HIDE DEF new, m
  <2> QED BY <1>2, <2>1, <2>2, <2>3
<1>10. ASSUME ActorStep PROVE status' = status
  <2>1. Shape BY DEF Core
  <2> QED BY <1>10, <2>1, ActorStepIs DEF CoordStep, Registered, service
<1>11. ASSUME WorkerStep PROVE status' = status BY <1>11, WorkerCore DEF Works, WorkerFrame
<1>12. ASSUME RelayStep PROVE status' = status BY <1>12, RelayStepCore DEF RelayFrame
<1> QED BY <1>1, <1>3, <1>4, <1>5, <1>6, <1>7, <1>8, <1>9, <1>10, <1>11, <1>12 DEF Next, ServiceStep

\* The front of the queue is one job.
LEMMA TailHas ==
  ASSUME NEW q \in Seq(Jobs), q # << >>
  PROVE  \A kind, o : Has(q, kind, o) => Has(Tail(q), kind, o) \/ (Head(q).kind = kind /\ Head(q).op = o)
<1> TAKE kind, o
<1> HAVE Has(q, kind, o)
<1> DEFINE r == Tail(q)
<1>1. /\ r \in Seq(Jobs) /\ Len(r) = Len(q) - 1 /\ Len(q) >= 1 /\ Len(q) \in Nat /\ Head(q) = q[1]
      /\ \A i \in 1..Len(r) : i + 1 \in 1..Len(q) /\ r[i] = q[i + 1]
  BY TailDrops
<1> HIDE DEF r
<1>2. PICK i \in 1..Len(q) : q[i].kind = kind /\ q[i].op = o BY DEF Has
<1>3. CASE i = 1 BY <1>1, <1>2, <1>3
<1>4. CASE i # 1
  <2>1. i - 1 \in 1..Len(r) /\ (i - 1) + 1 = i BY <1>1, <1>4
  <2>2. r[i - 1] = q[i] BY <1>1, <2>1
  <2>3. Has(r, kind, o) BY <1>2, <2>1, <2>2 DEF Has
  <2> QED BY <2>3 DEF r
<1> QED BY <1>3, <1>4

\* The worker takes the release of a lease when it gives the lease up.
LEMMA WorkerHolds ==
  ASSUME Core, WorkerStep
  PROVE  /\ worker.step # "gone"
         /\ \A o \in Ops : Has(mq, "release", o) /\ lease'[o].state = "active" => Has(mq', "release", o)
<1>1. worker.step # "gone"
  BY DEF WorkerStep, AcquireRefused, Acquire, Applied, AcquireTimesOut, ReleaseTimesOut, ReleaseAgain, Release,
         Drained, Prepare, WorkerHas
<1>2. CASE mq' = mq BY <1>1, <1>2
<1>3. CASE mq # << >> /\ mq' = Tail(mq) /\ Head(mq).kind # "release"
  BY <1>1, <1>3, TailHas, MediaFacts
<1>4. CASE mq # << >> /\ mq' = Tail(mq) /\ Head(mq).kind = "release" /\ lease'[Head(mq).op].state # "active"
  BY <1>1, <1>4, TailHas, MediaFacts
<1>5. Applied \/ AcquireTimesOut \/ ReleaseTimesOut \/ Drained => mq' = mq
  BY DEF Applied, AcquireTimesOut, ReleaseTimesOut, Drained
<1>6. AcquireRefused \/ Acquire \/ Prepare => mq # << >> /\ mq' = Tail(mq) /\ Head(mq).kind # "release"
  BY DEF AcquireRefused, Acquire, Prepare, WorkerHas
<1>7. ReleaseAgain => mq # << >> /\ mq' = Tail(mq) /\ Head(mq).kind = "release" /\ lease'[Head(mq).op].state # "active"
  BY DEF ReleaseAgain, WorkerHas
<1>8. Release => mq # << >> /\ mq' = Tail(mq) /\ Head(mq).kind = "release" /\ lease'[Head(mq).op].state # "active"
  <2> SUFFICES ASSUME Release
               PROVE  mq # << >> /\ mq' = Tail(mq) /\ Head(mq).kind = "release" /\ lease'[Head(mq).op].state # "active"
    OBVIOUS
  <2> DEFINE o == Head(mq).op
  <2>1. mq # << >> /\ mq' = Tail(mq) /\ Head(mq).kind = "release" /\ lease' = [lease EXCEPT ![o].state = "inactive"]
    BY DEF Release, WorkerHas
  <2>2. o \in Ops BY <2>1, HeadJob
  <2> HIDE DEF o
  <2>3. lease \in [Ops -> Leases] /\ lease[o] \in Leases BY <2>2, MediaFacts
  <2>4. lease'[o].state = "inactive" BY <2>1, <2>2, <2>3 DEF Leases
  <2> QED BY <2>1, <2>4 DEF o
<1> QED BY <1>2, <1>3, <1>4, <1>5, <1>6, <1>7, <1>8 DEF WorkerStep

\* What is behind a job stays behind it.
LEMMA DropsBehind ==
  ASSUME NEW q \in Seq(Jobs), NEW r \in Seq(Jobs), Drops(q, r)
  PROVE  \A i \in 1..Len(r) : \E a \in 1..Len(q) :
           r[i] = q[a] /\ \A b \in 1..Len(q) : a < b => \E j \in 1..Len(r) : i < j /\ r[j] = q[b]
<1>1. PICK k \in 0..Len(q) : Len(r) = Len(q) - k /\ \A i \in 1..Len(r) : r[i] = q[i + k] BY DEF Drops
<1>2. k \in Nat /\ Len(q) \in Nat /\ Len(r) \in Nat OBVIOUS
<1> TAKE i \in 1..Len(r)
<1>3. i + k \in 1..Len(q) /\ r[i] = q[i + k] BY <1>1, <1>2
<1>4. ASSUME NEW b \in 1..Len(q), i + k < b PROVE \E j \in 1..Len(r) : i < j /\ r[j] = q[b]
  <2>1. b - k \in 1..Len(r) /\ i < b - k /\ (b - k) + k = b BY <1>1, <1>2, <1>4
  <2>2. r[b - k] = q[b] BY <1>1, <2>1
  <2> QED BY <2>1, <2>2
<1> QED BY <1>3, <1>4

\* What is ahead of the worker and what it holds, as long as its queue has room.
Kept == AcquireOwned /\ LeaseOwned

\* A result on its way about the acquisition.
LEMMA OutcomeAhead ==
  ASSUME Core, NEW o \in Ops, Granted(o) \/ Denied(o)
  PROVE  Has(results, "acquired", o) /\ (Denied(o) => lease[o].state # "active")
<1>1. results \in Seq(Outcomes) /\ ReleasesClose BY MediaFacts
<1>2. results # << >> /\ Head(results).kind = "acquired" /\ Head(results).op = o /\ (Denied(o) => ~Head(results).ok)
  BY DEF Granted, Denied
<1>3. Head(results) = results[1] /\ 1 \in 1..Len(results) BY <1>1, <1>2
<1> QED BY <1>1, <1>2, <1>3 DEF Has, ReleasesClose

\* The coordinator's steps keep the owners, with room for the releases.
LEMMA CoordOwned == ASSUME Core, Room, Kept, CoordStep PROVE Kept'
<1>1. Shape /\ AcquiresOnce /\ Keeps BY DEF Core, CoordStep
<1>2. worker' = worker /\ lease' = lease BY DEF CoordStep
<1>3. PICK S \in SUBSET Collectors : Moves(S) BY DEF CoordStep
<1>4. mq' \in Seq(Jobs) /\ Adds(mq, mq', S) /\ mq \in Seq(Jobs) BY <1>1, <1>3, ShapeFacts DEF Moves
<1>5. /\ Len(mq) \in Nat /\ Len(mq') \in Nat
      /\ \A i \in 1..Len(mq') : mq'[i].kind = "acquire" => i \in 1..Len(mq) /\ mq'[i] = mq[i]
      /\ \A i \in 1..Len(mq) : i \in 1..Len(mq') /\ mq'[i] = mq[i]
      /\ \A kind, o : Has(mq, kind, o) => Has(mq', kind, o)
  BY <1>4, AddsHas
<1>6. ASSUME worker'.step # "gone", NEW i \in 1..Len(mq'), mq'[i].kind = "acquire"
      PROVE  \/ col'[mq'[i].op].phase = "acquiring"
             \/ \E j \in 1..Len(mq') : i < j /\ mq'[j].kind = "release" /\ mq'[j].op = mq'[i].op
  <2> DEFINE o == mq[i].op
  <2>1. i \in 1..Len(mq) /\ mq'[i] = mq[i] /\ mq[i].kind = "acquire" BY <1>5, <1>6
  <2>2. mq[i] \in Jobs BY <1>4, <2>1
  <2>3. o \in Ops BY <2>1, <2>2 DEF Jobs
  <2>4. Has(mq, "acquire", o) BY <2>1 DEF Has
  <2>5. ~Granted(o) /\ ~Denied(o) BY <1>1, <2>3, <2>4, OutcomeAhead DEF AcquiresOnce
  <2> HIDE DEF o
  <2>6. \/ col[o].phase = "acquiring"
        \/ \E j \in 1..Len(mq) : i < j /\ mq[j].kind = "release" /\ mq[j].op = o
    BY <1>2, <1>6, <2>1 DEF Kept, AcquireOwned, o
  <2>7. CASE col[o].phase = "acquiring"
    <3>1. \/ col'[o].phase = "acquiring"
          \/ \E j \in 1..Len(mq') : j > Len(mq) /\ mq'[j].kind = "release" /\ mq'[j].op = o
      BY <1>1, <2>3, <2>5, <2>7 DEF Keeps, Wanted
    <3>2. \A j \in 1..Len(mq') : j > Len(mq) => i < j BY <1>5, <2>1
    <3> QED BY <2>1, <3>1, <3>2 DEF o
  <2>8. CASE \E j \in 1..Len(mq) : i < j /\ mq[j].kind = "release" /\ mq[j].op = o
    BY <1>5, <2>1, <2>8 DEF o
  <2> QED BY <2>6, <2>7, <2>8
<1>7. AcquireOwned' BY <1>6 DEF AcquireOwned
<1>8. ASSUME NEW o \in Ops, lease'[o].state = "active", worker'.step # "gone" PROVE Owned(o)'
  <2>1. lease[o].state = "active" /\ Owned(o) BY <1>2, <1>8 DEF Kept, LeaseOwned
  <2>2. ~Denied(o) BY <2>1, OutcomeAhead
  <2>3. CASE Has(mq, "release", o) BY <1>5, <2>3 DEF Owned
  <2>4. CASE col[o].phase \in {"acquiring", "active"}
    <3>1. \/ col'[o].phase \in {"acquiring", "active"}
          \/ \E j \in 1..Len(mq') : j > Len(mq) /\ mq'[j].kind = "release" /\ mq'[j].op = o
      BY <1>1, <2>2, <2>4 DEF Keeps, Wanted
    <3> QED BY <3>1 DEF Owned, Has
  <2> QED BY <2>1, <2>3, <2>4 DEF Owned
<1>9. LeaseOwned' BY <1>8 DEF LeaseOwned
<1> QED BY <1>7, <1>9 DEF Kept

\* A registration owns what it acquires.
LEMMA RegisteredOwned == ASSUME Core, Kept, NEW m, Registered(m) PROVE Kept'
<1>1. Shape BY DEF Core
<1>2. /\ m.op \in Ops /\ \A o \in Ops : o # m.op => col'[o] = col[o]
      /\ col'[m.op].phase = "acquiring" /\ mq' \in Seq(Jobs) /\ Len(mq') = Len(mq) + 1 /\ Len(mq) \in Nat
      /\ mq'[Len(mq) + 1].kind = "acquire" /\ mq'[Len(mq) + 1].op = m.op
      /\ \A i \in 1..Len(mq) : mq'[i] = mq[i]
      /\ \A i \in 1..Len(mq') : (i \in 1..Len(mq) /\ mq'[i] = mq[i]) \/ i = Len(mq) + 1
      /\ \A kind, o : Has(mq', kind, o) <=> (Has(mq, kind, o) \/ ("acquire" = kind /\ m.op = o))
  BY <1>1, RegisteredFacts
<1>3. worker' = worker /\ lease' = lease BY DEF Registered
<1>4. ASSUME worker'.step # "gone", NEW i \in 1..Len(mq'), mq'[i].kind = "acquire"
      PROVE  \/ col'[mq'[i].op].phase = "acquiring"
             \/ \E j \in 1..Len(mq') : i < j /\ mq'[j].kind = "release" /\ mq'[j].op = mq'[i].op
  <2>1. CASE i = Len(mq) + 1 BY <1>2, <2>1
  <2>2. CASE i \in 1..Len(mq) /\ mq'[i] = mq[i]
    <3> DEFINE o == mq[i].op
    <3>1. mq[i] \in Jobs BY <1>1, <2>2, ShapeFacts
    <3>2. o \in Ops BY <1>4, <2>2, <3>1 DEF Jobs
    <3> HIDE DEF o
    <3>3. \/ col[o].phase = "acquiring"
          \/ \E j \in 1..Len(mq) : i < j /\ mq[j].kind = "release" /\ mq[j].op = o
      BY <1>3, <1>4, <2>2 DEF Kept, AcquireOwned, o
    <3>4. col[o].phase = "acquiring" => col'[o].phase = "acquiring" BY <1>2, <3>2
    <3>5. \A j \in 1..Len(mq) : j \in 1..Len(mq') /\ mq'[j] = mq[j] BY <1>2
    <3> QED BY <2>2, <3>3, <3>4, <3>5 DEF o
  <2> QED BY <1>2, <2>1, <2>2
<1>5. AcquireOwned' BY <1>4 DEF AcquireOwned
<1>6. ASSUME NEW o \in Ops, lease'[o].state = "active", worker'.step # "gone" PROVE Owned(o)'
  <2>1. Owned(o) BY <1>3, <1>6 DEF Kept, LeaseOwned
  <2>2. CASE o = m.op BY <1>2, <2>2 DEF Owned
  <2>3. CASE o # m.op BY <1>2, <2>1, <2>3 DEF Owned
  <2> QED BY <2>2, <2>3
<1>7. LeaseOwned' BY <1>6 DEF LeaseOwned
<1> QED BY <1>5, <1>7 DEF Kept

\* The worker keeps the owners.
LEMMA WorkerOwned == ASSUME Core, Kept, WorkerStep PROVE Kept'
<1>1. Works BY WorkerCore
<1>2. /\ worker.step # "gone"
      /\ \A o \in Ops : Has(mq, "release", o) /\ lease'[o].state = "active" => Has(mq', "release", o)
  BY WorkerHolds
<1>3. WorkerFrame /\ WorkerType /\ \A o \in Ops : WorksOf(o) BY <1>1 DEF Works
<1>4. col' = col BY <1>3 DEF WorkerFrame
<1>5. mq \in Seq(Jobs) /\ mq' \in Seq(Jobs) /\ Drops(mq, mq') BY <1>3, MediaFacts DEF WorkerType
<1>6. ASSUME NEW i \in 1..Len(mq'), mq'[i].kind = "acquire"
      PROVE  \/ col'[mq'[i].op].phase = "acquiring"
             \/ \E j \in 1..Len(mq') : i < j /\ mq'[j].kind = "release" /\ mq'[j].op = mq'[i].op
  <2>1. PICK a \in 1..Len(mq) :
          mq'[i] = mq[a] /\ \A b \in 1..Len(mq) : a < b => \E j \in 1..Len(mq') : i < j /\ mq'[j] = mq[b]
    BY <1>5, DropsBehind
  <2>2. \/ col[mq[a].op].phase = "acquiring"
        \/ \E b \in 1..Len(mq) : a < b /\ mq[b].kind = "release" /\ mq[b].op = mq[a].op
    BY <1>2, <1>6, <2>1 DEF Kept, AcquireOwned
  <2>3. CASE col[mq[a].op].phase = "acquiring" BY <1>4, <2>1, <2>3
  <2>4. CASE \E b \in 1..Len(mq) : a < b /\ mq[b].kind = "release" /\ mq[b].op = mq[a].op
    <3>1. PICK b \in 1..Len(mq) : a < b /\ mq[b].kind = "release" /\ mq[b].op = mq[a].op BY <2>4
    <3>2. PICK j \in 1..Len(mq') : i < j /\ mq'[j] = mq[b] BY <2>1, <3>1
    <3> QED BY <2>1, <3>1, <3>2
  <2> QED BY <2>2, <2>3, <2>4
<1>7. AcquireOwned' BY <1>6 DEF AcquireOwned
<1>8. ASSUME NEW o \in Ops, lease'[o].state = "active" PROVE Owned(o)'
  <2>1. lease[o].state = "active" \/ Has(mq, "acquire", o) BY <1>3, <1>8 DEF WorksOf
  <2>2. CASE lease[o].state = "active"
    <3>1. Owned(o) BY <1>2, <2>2 DEF Kept, LeaseOwned
    <3> QED BY <1>2, <1>4, <1>8, <3>1 DEF Owned
  <2>3. CASE Has(mq, "acquire", o)
    <3>1. PICK i \in 1..Len(mq) : mq[i].kind = "acquire" /\ mq[i].op = o BY <2>3 DEF Has
    <3>2. \/ col[o].phase = "acquiring"
          \/ \E j \in 1..Len(mq) : i < j /\ mq[j].kind = "release" /\ mq[j].op = o
      BY <1>2, <3>1 DEF Kept, AcquireOwned
    <3>3. col[o].phase = "acquiring" \/ Has(mq, "release", o) BY <3>2 DEF Has
    <3> QED BY <1>2, <1>4, <1>8, <3>3 DEF Owned
  <2> QED BY <2>1, <2>2, <2>3
<1>9. LeaseOwned' BY <1>8 DEF LeaseOwned
<1> QED BY <1>7, <1>9 DEF Kept

\* The service and the relay do not touch them.
LEMMA OthersOwned == ASSUME Kept, UNCHANGED <<worker, col, mq, lease>> PROVE Kept'
BY DEF Kept, AcquireOwned, LeaseOwned, Owned

\* Every step keeps the owners.
LEMMA NextOwned == ASSUME Core, Room, Kept, [Next]_vars PROVE Kept'
<1>1. CASE ServiceStep
  <2>1. UNCHANGED <<worker, col, mq, lease>>
    BY <1>1 DEF ServiceStep, Start, Cancel, CancelRefused, TaskReady, TaskResult, Detach, HandleOperation, media
  <2> QED BY <2>1, OthersOwned
<1>2. CASE ActorStep
  <2>1. Shape BY DEF Core
  <2>2. CoordStep \/ Registered(Head(evq)) BY <1>2, <2>1, ActorStepIs
  <2> QED BY <2>2, CoordOwned, RegisteredOwned
<1>3. CASE WorkerStep BY <1>3, WorkerOwned
<1>4. CASE RelayStep
  <2>1. UNCHANGED <<worker, col, mq, lease>> BY <1>4, RelayStepCore DEF RelayFrame
  <2> QED BY <2>1, OthersOwned
<1>5. CASE UNCHANGED vars
  <2>1. UNCHANGED <<worker, col, mq, lease>> BY <1>5 DEF vars, media
  <2> QED BY <2>1, OthersOwned
<1> QED BY <1>1, <1>2, <1>3, <1>4, <1>5 DEF Next

\* At the start nothing is held.
LEMMA InitOwned == ASSUME Init PROVE Kept /\ Found
<1>1. mq = << >> BY DEF Init
<1>2. AcquireOwned BY <1>1 DEF AcquireOwned
<1>3. LeaseOwned BY DEF Init, LeaseOwned, NoLease
<1>4. Found BY DEF Init, Found
<1> QED BY <1>2, <1>3, <1>4 DEF Kept

\* The invariants say that the collection is consistent.
LEMMA CoreConsistent == ASSUME Core, Kept, Found PROVE CollectionConsistent
<1>1. TypeOK
  <2>1. Shape BY DEF Core
  <2>2. \A o \in Ops : /\ col[o].phase \in {"none", "acquiring", "active", "releasing"}
                       /\ col[o].digits \in Seq(Presses) /\ Len(col[o].digits) <= MaxDigits[o]
    BY <2>1, ShapeFacts DEF States, Phases
  <2>3. \A o \in Ops : lease[o].state \in {"none", "active", "inactive"}
    <3>1. \A o \in Ops : lease[o] \in Leases BY MediaFacts
    <3> QED BY <3>1 DEF Leases
  <2>4. \A o \in Ops : /\ task[o] \in {"none", "ready", "result", "done"}
                       /\ ready[o] \in {"wait", "ok", "err"} /\ reply[o] \in {"none", "wait", "err"}
    BY <2>1 DEF Shape, RepliesOK
  <2>5. worker.step \in {"idle", "acquiring", "draining", "releasing", "gone"} BY MediaFacts DEF Workers
  <2>6. {config.mode, parser.mode} \subseteq {"transparent", "observe", "collect"} BY RelayFacts DEF Configs
  <2>7. /\ status \in [Ops -> Terminal \cup {"none", "forgotten", "pending", "acquiring", "ready", "cancelling"}]
        /\ order \in Seq(Ops) /\ Len(order) <= HistoryCapacity
        /\ attached \in BOOLEAN /\ Len(opq) <= OpCapacity
    BY <2>1 DEF Shape, ServiceOK, Statuses
  <2>8. /\ Len(evq) <= EventCapacity /\ Len(mq) <= MediaCapacity /\ Cardinality(Collectors) <= CollectorCapacity
        /\ call \in {"talking", "ending", "gone"} /\ mgen \in Nat /\ stopped \in BOOLEAN
    BY <2>1 DEF Shape, ActorOK, MediaOK, ColOK
  <2> QED BY <2>2, <2>3, <2>4, <2>5, <2>6, <2>7, <2>8 DEF TypeOK
<1>2. LeaseHasOwner
  <2>1. \A o \in Ops : Has(mq, "release", o) => Queued("release", o)
    <3>1. DOMAIN mq = 1..Len(mq) BY MediaFacts
    <3> QED BY <3>1 DEF Has, Queued
  <2> QED BY <2>1 DEF Kept, LeaseOwned, Owned, LeaseHasOwner
<1>3. ModeFollowsLeases BY DEF Core, ModeOK
<1>4. OutcomeKept BY DEF Found, OutcomeKept
<1>5. CompletedReleased BY DEF Core, ReportsOutcome, ReleasesClose, Closed, CompletedReleased
<1> QED BY <1>1, <1>2, <1>3, <1>4, <1>5 DEF CollectionConsistent

\* As long as the media worker's queue has room for a release of each collector, an active lease has an owner
\* that will release it, the parser's mode follows the leases, a completed collection has given its lease back,
\* and one that came to an end by itself is not reported as unknown, unless a cancellation that was refused
\* overtakes the result (abort_digit_collection, finish_digit_collection, set_dtmf_mode, cancel).
THEOREM CollectionIsConsistent ==
  ASSUME "CancelAfterResult" \notin Races
  PROVE  Spec /\ []Room => []CollectionConsistent
<1>1. Init => Kept /\ Found BY InitOwned
<1>2. Core /\ Room /\ Kept /\ Found /\ [Next]_vars => Kept' /\ Found'
  <2> SUFFICES ASSUME Core, Room, Kept, Found, [Next]_vars PROVE Kept' /\ Found' OBVIOUS
  <2>1. Kept' BY NextOwned
  <2>2. Found'
    <3>1. CASE Next BY <3>1, NextFound
    <3>2. CASE UNCHANGED vars BY <3>2 DEF vars, service, Found
    <3> QED BY <3>1, <3>2
  <2> QED BY <2>1, <2>2
<1>3. Core /\ Kept /\ Found => CollectionConsistent BY CoreConsistent
<1> QED BY <1>1, <1>2, <1>3, CollectionCore, PTL DEF Spec

----------------------------------------------------------------------------
(* DigitOnce *)

\* What the digits of the invariant depend on.
DigitVars ==
  <<col, mq, worker, lease, config, results, heard, stopped, parser, parsed, press, lock, recent, consumed, relayed>>

\* A step that leaves them alone.
LEMMA OthersDigit == ASSUME DigitInv, UNCHANGED DigitVars PROVE DigitInv'
<1>1. LeasedOK' BY DEF DigitInv, DigitVars, LeasedOK, Leased, Wanted, NoneAhead, AcquiresFor
<1>2. HeardOK' BY DEF DigitInv, DigitVars, HeardOK, Sounded, NoMore, InHeard, Taken
<1>3. ByRfc' /\ ByInfo' BY DEF DigitInv, DigitVars, ByRfc, ByInfo, InHeard, Taken
<1>4. ConsumedOK' BY DEF DigitInv, DigitVars, ConsumedOK
<1>5. RelayedOK' BY DEF DigitInv, DigitVars, RelayedOK, InHeard, Collecting
<1>6. PairsOK' /\ PressOnce' BY DEF DigitInv, DigitVars, PairsOK, PressOnce
<1> QED BY <1>1, <1>2, <1>3, <1>4, <1>5, <1>6 DEF DigitInv

\* A collector of mode collect keeps the parser in that mode.
LEMMA CollectingMode == ASSUME Core, LeasedOK, Collecting PROVE config.mode = "collect"
<1>1. PICK o \in Ops : col[o].phase = "active" /\ col[o].mode = "collect" BY DEF Collecting
<1>2. lease[o] = [state |-> "active", mode |-> "collect"] BY <1>1 DEF LeasedOK, Leased
<1>3. Desired(lease) = "collect" BY <1>2 DEF Desired, Held
<1>4. col[o] # NoCollector BY <1>1, NoCollectorType
<1>5. call = "talking" BY <1>4, ShapeFacts DEF Core
<1>6. worker.step # "gone" BY <1>5, MediaFacts
<1> QED BY <1>3, <1>6 DEF Core, ModeOK, ModeFollowsLeases

\* The coordinator's collectors and their leases.
LEMMA CoordLeased == ASSUME Core, LeasedOK, CoordStep PROVE LeasedOK'
<1>1. Shape /\ AcquiresOnce BY DEF Core
<1>2. worker' = worker /\ lease' = lease BY DEF CoordStep
<1>3. PICK S \in SUBSET Collectors : Moves(S) BY DEF CoordStep
<1>4. mq' \in Seq(Jobs) /\ Adds(mq, mq', S) /\ mq \in Seq(Jobs) BY <1>1, <1>3, ShapeFacts DEF Moves
<1>5. /\ \A o : Has(mq', "acquire", o) => Has(mq, "acquire", o)
      /\ \A o \in Ops : Has(mq', "release", o) => Has(mq, "release", o) \/ o \in S
      /\ \A i \in 1..Len(mq') : mq'[i].kind = "acquire" => i \in 1..Len(mq) /\ mq'[i] = mq[i]
  BY <1>4, AddsHas
<1>6. \A o \in Ops : MovesOf(S, o) BY <1>3 DEF Moves
<1>7. \A i \in 1..Len(results') : \E a \in 1..Len(results) : results'[i] = results[a] BY <1>1, CoordQueues
<1>8. results \in Seq(Outcomes) /\ results' \in Seq(Outcomes) BY MediaFacts DEF CoordStep
<1>9. ASSUME NEW o \in Ops, Granted(o) PROVE col[o].phase = "acquiring" /\ NoneAhead(o) /\ Leased(o)
  <2>1. /\ col[o].phase = "acquiring" /\ results # << >> /\ Head(results).kind = "acquired" /\ Head(results).op = o
        /\ Head(results).ok
    BY <1>9 DEF Granted
  <2>2. Head(results) = results[1] /\ 1 \in 1..Len(results) BY <1>8, <2>1
  <2>3. Has(results, "acquired", o) BY <2>1, <2>2 DEF Has
  <2>4. NoneAhead(o) BY <1>1, <2>3 DEF AcquiresOnce, NoneAhead
  <2>5. Leased(o) BY <2>1, <2>2 DEF LeasedOK
  <2> QED BY <2>1, <2>4, <2>5
<1>10. ASSUME NEW o \in Ops, Wanted(o)' PROVE ~Has(mq', "release", o)
  <2>1. Wanted(o) /\ o \notin S BY <1>6, <1>9, <1>10 DEF MovesOf, Wanted
  <2> QED BY <1>5, <2>1 DEF LeasedOK
<1>11. ASSUME NEW o \in Ops, col'[o].phase = "active" PROVE NoneAhead(o)' /\ Leased(o)'
  <2>1. NoneAhead(o) /\ Leased(o) /\ col'[o].mode = col[o].mode BY <1>6, <1>9, <1>11 DEF MovesOf, LeasedOK
  <2> QED BY <1>2, <1>5, <2>1 DEF NoneAhead, AcquiresFor, Leased
<1>12. \A o \in Ops : col'[o].phase = "acquiring" => col[o].phase = "acquiring" /\ col'[o].mode = col[o].mode
  BY <1>6 DEF MovesOf
<1>13. ASSUME NEW o \in Ops, col'[o].phase = "acquiring", AcquiresFor(o)' PROVE Leased(o)'
  <2>1. Leased(o) BY <1>2, <1>12, <1>13 DEF LeasedOK, AcquiresFor
  <2> QED BY <1>2, <1>12, <1>13, <2>1 DEF Leased
<1>14. ASSUME NEW i \in 1..Len(mq'), mq'[i].kind = "acquire", col'[mq'[i].op].phase = "acquiring"
       PROVE  mq'[i].mode = col'[mq'[i].op].mode
  <2>1. i \in 1..Len(mq) /\ mq'[i] = mq[i] BY <1>5, <1>14
  <2>2. mq[i] \in Jobs BY <1>4, <2>1
  <2>3. mq[i].op \in Ops BY <1>14, <2>1, <2>2 DEF Jobs
  <2>4. mq[i].mode = col[mq[i].op].mode BY <1>12, <1>14, <2>1, <2>3 DEF LeasedOK
  <2> QED BY <1>12, <1>14, <2>1, <2>3, <2>4
<1>15. ASSUME NEW i \in 1..Len(results'), results'[i].kind = "acquired", results'[i].ok,
              col'[results'[i].op].phase = "acquiring", NEW o, o = results'[i].op
       PROVE  Leased(o)'
  <2>1. PICK a \in 1..Len(results) : results'[i] = results[a] BY <1>7
  <2>2. results[a] \in Outcomes BY <1>8
  <2>3. o \in Ops BY <1>15, <2>1, <2>2 DEF Outcomes
  <2>4. Leased(o) BY <1>12, <1>15, <2>1, <2>3 DEF LeasedOK
  <2> QED BY <1>2, <1>12, <1>15, <2>3, <2>4 DEF Leased
<1>16. ASSUME NEW i \in 1..Len(results'), results'[i].kind = "acquired", results'[i].ok,
              col'[results'[i].op].phase = "acquiring"
       PROVE  lease'[results'[i].op] = [state |-> "active", mode |-> col'[results'[i].op].mode]
  BY <1>15, <1>16 DEF Leased
<1> QED BY <1>10, <1>11, <1>13, <1>14, <1>16 DEF LeasedOK, Leased

\* Digits that are dropped with their queue were there.
LEMMA DropsHeard ==
  ASSUME heard \in Seq(Digits), heard' \in Seq(Digits), Drops(heard, heard')
  PROVE  /\ \A tr, p : InHeard(tr, p)' => InHeard(tr, p)
         /\ \A i \in 1..Len(heard') : \E a \in 1..Len(heard) : heard'[i] = heard[a]
         /\ (\A i, j \in 1..Len(heard) :
               heard[i].tr = "rfc" /\ heard[j].tr = "rfc" /\ heard[i].press = heard[j].press => i = j) =>
             \A i, j \in 1..Len(heard') :
               heard'[i].tr = "rfc" /\ heard'[j].tr = "rfc" /\ heard'[i].press = heard'[j].press => i = j
<1>1. PICK k \in 0..Len(heard) : Len(heard') = Len(heard) - k /\ \A i \in 1..Len(heard') : heard'[i] = heard[i + k]
  BY DEF Drops
<1>2. k \in Nat /\ Len(heard) \in Nat /\ Len(heard') \in Nat OBVIOUS
<1>3. \A i \in 1..Len(heard') : i + k \in 1..Len(heard) /\ heard'[i] = heard[i + k] BY <1>1, <1>2
<1>4. \A i, j \in 1..Len(heard') : i + k = j + k => i = j BY <1>2
<1>5. ASSUME NEW tr, NEW p, \E i \in 1..Len(heard') : heard'[i].tr = tr /\ heard'[i].press = p PROVE InHeard(tr, p)
  BY <1>3, <1>5 DEF InHeard
<1>6. \A tr, p : InHeard(tr, p)' => InHeard(tr, p) BY <1>5 DEF InHeard
<1>7. \A i \in 1..Len(heard') : \E a \in 1..Len(heard) : heard'[i] = heard[a] BY <1>3
<1>8. ASSUME \A i, j \in 1..Len(heard) :
               heard[i].tr = "rfc" /\ heard[j].tr = "rfc" /\ heard[i].press = heard[j].press => i = j,
             NEW i \in 1..Len(heard'), NEW j \in 1..Len(heard'),
             heard'[i].tr = "rfc", heard'[j].tr = "rfc", heard'[i].press = heard'[j].press
      PROVE  i = j
  <2>1. i + k = j + k BY <1>3, <1>8
  <2> QED BY <1>4, <2>1
<1> QED BY <1>6, <1>7, <1>8

\* A step that takes no digit.
LEMMA CoordDigit ==
  ASSUME Core, DigitInv, CoordStep, NoDigit, "LateObservation" \notin Races
  PROVE  DigitInv'
<1>1. LeasedOK' BY CoordLeased DEF DigitInv
<1>2. UNCHANGED <<lock, recent, consumed, relayed, config, parser, parsed, press>> /\ (stopped => stopped')
  BY DEF CoordStep, NoDigit
<1>3. /\ \A tr, p : InHeard(tr, p)' => InHeard(tr, p)
      /\ \A i \in 1..Len(heard') : \E a \in 1..Len(heard) : heard'[i] = heard[a]
      /\ \A i, j \in 1..Len(heard') :
           heard'[i].tr = "rfc" /\ heard'[j].tr = "rfc" /\ heard'[i].press = heard'[j].press => i = j
  BY DropsHeard, RelayFacts DEF CoordStep, NoDigit, DigitInv, HeardOK
<1>4. \A p \in Presses : Taken(p)' => Taken(p)
  <2> SUFFICES ASSUME NEW p \in Presses, NEW o \in Ops, NEW i \in 1..Len(col'[o].digits), col'[o].digits[i] = p
               PROVE  Taken(p)
    BY DEF Taken
  <2>1. col'[o].digits \in {col[o].digits, << >>} BY DEF NoDigit, SameDigits
  <2>2. col'[o].digits = col[o].digits
    <3>1. col'[o].digits # << >> OBVIOUS
    <3> QED BY <2>1, <3>1
  <2> QED BY <2>2 DEF Taken
<1>5. \A p \in Presses : Sounded(p)' => Sounded(p) BY <1>2, <1>3, <1>4 DEF Sounded
<1>6. \A p \in Presses : NoMore(p) => NoMore(p)' BY <1>2 DEF NoMore
<1>7. HeardOK'
  <2>1. \A i \in 1..Len(heard') : heard'[i].tr = "info" => heard'[i].gen = 1 BY <1>3 DEF DigitInv, HeardOK
  <2>2. \A p \in Presses : Sounded(p)' => NoMore(p)' BY <1>5, <1>6 DEF DigitInv, HeardOK
  <2> QED BY <1>3, <2>1, <2>2 DEF HeardOK
<1>8. ByRfc' BY <1>2, <1>3, <1>4 DEF DigitInv, ByRfc
<1>9. ByInfo' BY <1>2, <1>4 DEF DigitInv, ByInfo
<1>10. ConsumedOK' BY <1>2 DEF DigitInv, ConsumedOK
<1>11. ASSUME NEW p \in Presses, InHeard("rfc", p)', <<"rfc", p>> \in relayed', Collecting' PROVE FALSE
  <2>1. InHeard("rfc", p) /\ ~Collecting BY <1>2, <1>3, <1>11 DEF DigitInv, RelayedOK
  <2>2. PICK o \in Ops : col'[o].phase = "active" /\ col'[o].mode = "collect" BY <1>11 DEF Collecting
  <2>3. PICK S \in SUBSET Collectors : Moves(S) BY DEF CoordStep
  <2>4. (col[o].phase = "active" \/ Granted(o)) /\ col'[o].mode = col[o].mode BY <2>2, <2>3 DEF Moves, MovesOf
  <2>5. ~Granted(o)
    <3>1. heard \in Seq(Digits) BY RelayFacts
    <3>2. \E i \in DOMAIN heard : heard[i].tr = "rfc" BY <2>1, <3>1 DEF InHeard
    <3> QED BY <3>2 DEF Granted
  <2> QED BY <2>1, <2>2, <2>4, <2>5 DEF Collecting
<1>12. RelayedOK'
  <2>1. \A p \in Presses : parsed'[p] = "active" => parser'.mode # "transparent" /\ <<"rfc", p>> \notin relayed'
    BY <1>2 DEF DigitInv, RelayedOK
  <2>2. \A p \in Presses : <<"rfc", p>> \in relayed' => press'[p] \in {2, 3} BY <1>2 DEF DigitInv, RelayedOK
  <2>3. \A p \in Presses : <<"rfc", p>> \in relayed' /\ press'[p] = 2 /\ ~stopped' => config'.mode # "collect"
    BY <1>2 DEF DigitInv, RelayedOK
  <2> QED BY <1>11, <2>1, <2>2, <2>3 DEF RelayedOK
<1>13. PairsOK' BY <1>2 DEF DigitInv, PairsOK
<1>14. PressOnce'
  <2> SUFFICES ASSUME NEW o \in Ops,
                      NEW i \in DOMAIN col'[o].digits, NEW j \in DOMAIN col'[o].digits, col'[o].digits[i] = col'[o].digits[j]
               PROVE  i = j
    BY DEF PressOnce
  <2>1. col'[o].digits \in {col[o].digits, << >>} BY DEF NoDigit, SameDigits
  <2>2. col'[o].digits = col[o].digits
    <3>1. col'[o].digits # << >> OBVIOUS
    <3> QED BY <2>1, <3>1
  <2> QED BY <2>2 DEF DigitInv, PressOnce
<1> QED BY <1>1, <1>7, <1>8, <1>9, <1>10, <1>12, <1>13, <1>14 DEF DigitInv

\* A registration collects nothing yet.
LEMMA RegisteredDigit == ASSUME Core, DigitInv, NEW m, Registered(m) PROVE DigitInv'
<1> DEFINE x == m.op
<1>0. Shape /\ StartsOnce BY DEF Core
<1>1. /\ m = evq[1] /\ 1 \in 1..Len(evq) /\ x \in Ops
      /\ col' \in [Ops -> States] /\ \A o \in Ops : o # x => col'[o] = col[o]
      /\ col'[x].phase = "acquiring" /\ col'[x].mode = m.mode /\ col'[x].digits = << >>
      /\ mq' \in Seq(Jobs) /\ Len(mq') = Len(mq) + 1 /\ Len(mq) \in Nat
      /\ mq'[Len(mq) + 1].kind = "acquire" /\ mq'[Len(mq) + 1].op = x /\ mq'[Len(mq) + 1].mode = m.mode
      /\ \A i \in 1..Len(mq') : (i \in 1..Len(mq) /\ mq'[i] = mq[i]) \/ i = Len(mq) + 1
      /\ \A kind, o : Has(mq', kind, o) <=> (Has(mq, kind, o) \/ ("acquire" = kind /\ x = o))
  BY <1>0, RegisteredFacts
<1>2. /\ UNCHANGED <<worker, lease, config, results, heard, stopped, parser, parsed, press, lock, recent, consumed, relayed>>
      /\ m.kind = "start" /\ col[x].phase = "none"
  BY DEF Registered
<1>3. Has(evq, "start", x) BY <1>1, <1>2 DEF Has
<1> HIDE DEF x
<1>4. ~Touched(x) BY <1>0, <1>1, <1>3 DEF StartsOnce, Begun
<1>5. worker.op # x /\ ~Names(mq, x) /\ ~Names(results, x) BY <1>4 DEF Touched
<1>6. \A kind : ~Has(mq, kind, x) BY <1>5 DEF Has, Names
<1>7. LeasedOK'
  <2>1. ASSUME NEW o \in Ops, Wanted(o)' PROVE ~Has(mq', "release", o)
    <3>1. CASE o = x BY <1>1, <1>6, <3>1
    <3>2. CASE o # x
      <4>1. Wanted(o) BY <1>1, <2>1, <3>2 DEF Wanted
      <4> QED BY <1>1, <4>1 DEF DigitInv, LeasedOK
    <3> QED BY <3>1, <3>2
  <2>2. ASSUME NEW o \in Ops, col'[o].phase = "active" PROVE NoneAhead(o)' /\ Leased(o)'
    <3>1. o # x /\ col'[o] = col[o] BY <1>1, <2>2
    <3>2. NoneAhead(o) /\ Leased(o) BY <2>2, <3>1 DEF DigitInv, LeasedOK
    <3> QED BY <1>1, <1>2, <3>1, <3>2 DEF NoneAhead, AcquiresFor, Leased
  <2>3. ASSUME NEW o \in Ops, col'[o].phase = "acquiring", AcquiresFor(o)' PROVE Leased(o)'
    <3>1. o # x BY <1>2, <1>5, <2>3 DEF AcquiresFor
    <3>2. col'[o] = col[o] BY <1>1, <3>1
    <3>3. Leased(o) BY <1>2, <2>3, <3>2 DEF DigitInv, LeasedOK, AcquiresFor
    <3> QED BY <1>2, <3>2, <3>3 DEF Leased
  <2>4. ASSUME NEW i \in 1..Len(mq'), mq'[i].kind = "acquire", col'[mq'[i].op].phase = "acquiring"
        PROVE  mq'[i].mode = col'[mq'[i].op].mode
    <3>1. CASE i = Len(mq) + 1 BY <1>1, <3>1
    <3>2. CASE i \in 1..Len(mq) /\ mq'[i] = mq[i]
      <4>1. mq[i] \in Jobs BY <3>2, MediaFacts
      <4>2. mq[i].op \in Ops BY <2>4, <3>2, <4>1 DEF Jobs
      <4>3. mq[i].op # x BY <1>5, <3>2 DEF Names
      <4>4. col'[mq[i].op] = col[mq[i].op] BY <1>1, <4>2, <4>3
      <4> QED BY <2>4, <3>2, <4>4 DEF DigitInv, LeasedOK
    <3> QED BY <1>1, <3>1, <3>2
  <2>5. ASSUME NEW i \in 1..Len(results'), results'[i].kind = "acquired", results'[i].ok,
               col'[results'[i].op].phase = "acquiring"
        PROVE  lease'[results'[i].op] = [state |-> "active", mode |-> col'[results'[i].op].mode]
    <3>1. i \in 1..Len(results) /\ results'[i] = results[i] BY <1>2
    <3>2. results[i] \in Outcomes BY <3>1, MediaFacts
    <3>3. results[i].op \in Ops BY <3>2 DEF Outcomes
    <3>4. results[i].op # x BY <1>5, <3>1 DEF Names
    <3>5. col'[results[i].op] = col[results[i].op] BY <1>1, <3>3, <3>4
    <3>6. Leased(results[i].op) BY <2>5, <3>1, <3>5 DEF DigitInv, LeasedOK
    <3> QED BY <1>2, <3>1, <3>5, <3>6 DEF Leased
  <2> QED BY <2>1, <2>2, <2>3, <2>4, <2>5 DEF LeasedOK, Leased
<1>8. \A p \in Presses : Taken(p)' => Taken(p)
  <2> SUFFICES ASSUME NEW p \in Presses, NEW o \in Ops, NEW i \in 1..Len(col'[o].digits), col'[o].digits[i] = p
               PROVE  Taken(p)
    BY DEF Taken
  <2>1. CASE o = x BY <1>1, <2>1
  <2>2. CASE o # x BY <1>1, <2>2 DEF Taken
  <2> QED BY <2>1, <2>2
<1>9. \A tr, p : InHeard(tr, p)' <=> InHeard(tr, p) BY <1>2 DEF InHeard
<1>10. HeardOK'
  <2>1. \A p \in Presses : Sounded(p)' => Sounded(p) BY <1>2, <1>8, <1>9 DEF Sounded
  <2>2. \A p \in Presses : NoMore(p) => NoMore(p)' BY <1>2 DEF NoMore
  <2> QED BY <1>2, <2>1, <2>2 DEF DigitInv, HeardOK
<1>11. ByRfc' BY <1>2, <1>8, <1>9 DEF DigitInv, ByRfc
<1>12. ByInfo' BY <1>2, <1>8 DEF DigitInv, ByInfo
<1>13. ConsumedOK' BY <1>2 DEF DigitInv, ConsumedOK
<1>14. RelayedOK'
  <2>1. Collecting' => Collecting
    <3> SUFFICES ASSUME NEW o \in Ops, col'[o].phase = "active", col'[o].mode = "collect" PROVE Collecting
      BY DEF Collecting
    <3>1. o # x BY <1>1
    <3> QED BY <1>1, <3>1 DEF Collecting
  <2> QED BY <1>2, <1>9, <2>1 DEF DigitInv, RelayedOK
<1>15. PairsOK' BY <1>2 DEF DigitInv, PairsOK
<1>16. PressOnce'
  <2> SUFFICES ASSUME NEW o \in Ops,
                      NEW i \in DOMAIN col'[o].digits, NEW j \in DOMAIN col'[o].digits, col'[o].digits[i] = col'[o].digits[j]
               PROVE  i = j
    BY DEF PressOnce
  <2>1. CASE o = x BY <1>1, <2>1
  <2>2. CASE o # x BY <1>1, <2>2 DEF DigitInv, PressOnce
  <2> QED BY <2>1, <2>2
<1> QED BY <1>7, <1>10, <1>11, <1>12, <1>13, <1>14, <1>15, <1>16 DEF DigitInv

\* A digit that is accepted.
Accepts(m) ==
  /\ heard # << >> /\ m = Head(heard) /\ heard' = Tail(heard)
  /\ UNCHANGED <<config, stopped, parser, parsed, press>>
  /\ lock.tr \in {"unset", m.tr} /\ (lock.tr = m.tr /\ m.gen = lock.gen => <<m.tr, m.gen, m.press>> \notin recent)
  /\ Locked(m)
  /\ consumed' = IF Collecting THEN consumed \cup {<<m.tr, m.press>>} ELSE consumed
  /\ relayed' = IF ~Collecting /\ m.tr = "info" THEN relayed \cup {<<m.tr, m.press>>} ELSE relayed

\* A digit is accepted, or changes nothing.
LEMMA TakeDigitIs ==
  ASSUME Core, TakeDigit
  PROVE  CoordStep /\ (NoDigit \/ (Accepts(Head(heard)) /\ AddsDigit(Head(heard).press)))
<1> DEFINE m == Head(heard)
<1>1. Shape BY DEF Core
<1>2. CoordStep /\ AddsDigit(m.press) BY <1>1, TakeDigitCoord
<1>3. /\ heard # << >> /\ heard' = Tail(heard) /\ UNCHANGED <<config, stopped, parser, parsed, press>>
      /\ SourceDigit(m) \/ UNCHANGED <<lock, recent, consumed, relayed, col>>
  BY DEF TakeDigit
<1>4. CASE UNCHANGED <<lock, recent, consumed, relayed, col>>
  <2>1. Drops(heard, heard') BY <1>3, TailDrops, RelayFacts
  <2> QED BY <1>2, <1>4, <2>1 DEF NoDigit, SameDigits
<1>5. CASE SourceDigit(m) /\ Arbitrate(m) # "accepted"
  <2>1. UNCHANGED <<lock, recent, consumed, relayed, col>> BY <1>5 DEF SourceDigit
  <2> QED BY <1>4, <2>1
<1>6. CASE SourceDigit(m) /\ Arbitrate(m) = "accepted"
  <2>1. Locked(m) /\ RouteDigit(m) BY <1>6 DEF SourceDigit
  <2>2. /\ consumed' = IF Collecting THEN consumed \cup {<<m.tr, m.press>>} ELSE consumed
        /\ relayed' = IF ~Collecting /\ m.tr = "info" THEN relayed \cup {<<m.tr, m.press>>} ELSE relayed
    BY <2>1 DEF RouteDigit, Collecting
  <2>3. lock.tr \in {"unset", m.tr}
    <3>1. lock.tr \notin {"unset", m.tr} => Arbitrate(m) = "conflict" BY DEF Arbitrate
    <3> QED BY <1>6, <3>1
  <2>4. ~(lock.tr = m.tr /\ m.gen = lock.gen /\ <<m.tr, m.gen, m.press>> \in recent)
    <3> SUFFICES ASSUME lock.tr = m.tr, m.gen = lock.gen, <<m.tr, m.gen, m.press>> \in recent PROVE FALSE OBVIOUS
    <3>1. Arbitrate(m) \in {"stale", "duplicate"}
      <4>1. ~(lock.tr \notin {"unset", m.tr}) BY <2>3
      <4>2. CASE m.gen < lock.gen BY <4>1, <4>2 DEF Arbitrate
      <4>3. CASE ~(m.gen < lock.gen) BY <4>1, <4>3 DEF Arbitrate
      <4> QED BY <4>2, <4>3
    <3> QED BY <1>6, <3>1
  <2>5. Accepts(m) BY <1>3, <2>1, <2>2, <2>3, <2>4 DEF Accepts
  <2> QED BY <1>2, <2>5
<1> QED BY <1>3, <1>4, <1>5, <1>6

\* The presses the collectors have taken after a digit.
LEMMA AddsTaken ==
  ASSUME Core, NEW p \in Presses, AddsDigit(p)
  PROVE  \A q \in Presses : Taken(q)' => Taken(q) \/ q = p
<1> SUFFICES ASSUME NEW q \in Presses, NEW o \in Ops, NEW i \in 1..Len(col'[o].digits), col'[o].digits[i] = q, q # p
             PROVE  Taken(q)
  BY DEF Taken
<1> DEFINE d == col[o].digits
           e == col'[o].digits
<1>1. d \in Seq(Presses) BY ShapeFacts DEF Core
<1>2. e \in {d, << >>, Append(d, p)} BY DEF AddsDigit
<1>3. e # << >> OBVIOUS
<1>4. CASE e = d BY <1>4 DEF Taken
<1>5. CASE e = Append(d, p)
  <2>1. Len(d) \in Nat /\ Len(e) = Len(d) + 1 /\ e[Len(d) + 1] = p /\ \A j \in 1..Len(d) : e[j] = d[j]
    BY <1>1, <1>5
  <2>2. i # Len(d) + 1 BY <2>1
  <2>3. i \in 1..Len(d) /\ d[i] = q BY <2>1, <2>2
  <2> QED BY <2>3 DEF Taken
<1> QED BY <1>2, <1>3, <1>4, <1>5

\* A press that was not taken is taken once.
LEMMA AddsOnce ==
  ASSUME Core, NEW p \in Presses, AddsDigit(p), PressOnce, ~Taken(p)
  PROVE  PressOnce'
<1> SUFFICES ASSUME NEW o \in Ops,
                    NEW i \in DOMAIN col'[o].digits, NEW j \in DOMAIN col'[o].digits, col'[o].digits[i] = col'[o].digits[j]
             PROVE  i = j
  BY DEF PressOnce
<1> DEFINE d == col[o].digits
           e == col'[o].digits
<1>1. d \in Seq(Presses) BY ShapeFacts DEF Core
<1>2. e \in {d, << >>, Append(d, p)} BY DEF AddsDigit
<1>3. e # << >> OBVIOUS
<1>4. CASE e = d BY <1>4 DEF PressOnce
<1>5. CASE e = Append(d, p)
  <2>1. Len(d) \in Nat /\ Len(e) = Len(d) + 1 /\ e[Len(d) + 1] = p /\ DOMAIN e = 1..(Len(d) + 1) /\ DOMAIN d = 1..Len(d)
        /\ \A k \in 1..Len(d) : e[k] = d[k]
    BY <1>1, <1>5
  <2>2. \A k \in 1..Len(d) : d[k] # p BY DEF Taken
  <2>3. \A k \in 1..(Len(d) + 1) : k \in 1..Len(d) \/ k = Len(d) + 1 BY <2>1
  <2>4. \A a, b \in 1..Len(d) : d[a] = d[b] => a = b BY <2>1 DEF PressOnce
  <2> QED BY <2>1, <2>2, <2>3, <2>4
<1> QED BY <1>2, <1>3, <1>4, <1>5

\* The digit at the head of the queue, and the others.
LEMMA HeadDigit ==
  ASSUME Core, HeardOK, NEW m, Accepts(m)
  PROVE  /\ m \in Digits /\ m.press \in Presses /\ m.tr \in {"rfc", "info"} /\ m.gen \in Nat
         /\ InHeard(m.tr, m.press) /\ (m.tr = "info" => m.gen = 1)
         /\ \A tr, p : InHeard(tr, p)' => InHeard(tr, p)
         /\ (m.tr = "rfc" => \A p : InHeard("rfc", p)' => p # m.press)
         /\ \A i, j \in 1..Len(heard') :
              heard'[i].tr = "rfc" /\ heard'[j].tr = "rfc" /\ heard'[i].press = heard'[j].press => i = j
         /\ \A i \in 1..Len(heard') : heard'[i].tr = "info" => heard'[i].gen = 1
<1>1. heard \in Seq(Digits) /\ heard # << >> /\ m = Head(heard) /\ heard' = Tail(heard) BY RelayFacts DEF Accepts
<1>2. /\ heard' \in Seq(Digits) /\ Len(heard') = Len(heard) - 1 /\ Len(heard) >= 1 /\ m = heard[1] /\ m \in Digits
      /\ \A i \in 1..Len(heard') : i + 1 \in 1..Len(heard) /\ heard'[i] = heard[i + 1]
      /\ Drops(heard, heard')
  BY <1>1, TailDrops
<1>3. m.press \in Presses /\ m.tr \in {"rfc", "info"} /\ m.gen \in Nat BY <1>2 DEF Digits
<1>4. 1 \in 1..Len(heard) BY <1>1, <1>2
<1>5. InHeard(m.tr, m.press) /\ (m.tr = "info" => m.gen = 1) BY <1>2, <1>4 DEF InHeard, HeardOK
<1>6. /\ \A tr, p : InHeard(tr, p)' => InHeard(tr, p)
      /\ \A i \in 1..Len(heard') : \E a \in 1..Len(heard) : heard'[i] = heard[a]
      /\ \A i, j \in 1..Len(heard') :
           heard'[i].tr = "rfc" /\ heard'[j].tr = "rfc" /\ heard'[i].press = heard'[j].press => i = j
  BY <1>1, <1>2, DropsHeard DEF HeardOK
<1>7. ASSUME m.tr = "rfc", NEW p, InHeard("rfc", p)', p = m.press PROVE FALSE
  <2>1. PICK i \in 1..Len(heard') : heard'[i].tr = "rfc" /\ heard'[i].press = p BY <1>7 DEF InHeard
  <2>2. i + 1 \in 1..Len(heard) /\ heard[i + 1].tr = "rfc" /\ heard[i + 1].press = heard[1].press /\ heard[1].tr = "rfc"
    BY <1>2, <1>7, <2>1
  <2>3. i + 1 = 1 BY <1>4, <2>2 DEF HeardOK
  <2> QED BY <2>3
<1>8. \A i \in 1..Len(heard') : heard'[i].tr = "info" => heard'[i].gen = 1 BY <1>6 DEF HeardOK
<1> QED BY <1>2, <1>3, <1>5, <1>6, <1>7, <1>8

\* A collector that is active afterwards was so while the digit was heard.
LEMMA StillCollecting ==
  ASSUME Core, CoordStep, NEW p, InHeard("rfc", p), "LateObservation" \notin Races, Collecting'
  PROVE  Collecting
<1>1. PICK o \in Ops : col'[o].phase = "active" /\ col'[o].mode = "collect" BY DEF Collecting
<1>2. PICK S \in SUBSET Collectors : Moves(S) BY DEF CoordStep
<1>3. (col[o].phase = "active" \/ Granted(o)) /\ col'[o].mode = col[o].mode BY <1>1, <1>2 DEF Moves, MovesOf
<1>4. ~Granted(o)
  <2>1. heard \in Seq(Digits) BY RelayFacts
  <2>2. \E i \in DOMAIN heard : heard[i].tr = "rfc" BY <2>1 DEF InHeard
  <2> QED BY <2>2 DEF Granted
<1> QED BY <1>1, <1>3, <1>4 DEF Collecting

\* A digit of RFC 4733 is accepted.
LEMMA AcceptsRfc ==
  ASSUME Core, DigitInv, CoordStep, NEW m, Accepts(m), AddsDigit(m.press), m.tr = "rfc", "LateObservation" \notin Races
  PROVE  DigitInv'
<1> DEFINE p == m.press
<1>1. LeasedOK' /\ HeardOK BY CoordLeased DEF DigitInv
<1>2. /\ p \in Presses /\ m.gen \in Nat /\ InHeard("rfc", p)
      /\ \A tr, q : InHeard(tr, q)' => InHeard(tr, q)
      /\ \A q : InHeard("rfc", q)' => q # p
      /\ \A i, j \in 1..Len(heard') :
           heard'[i].tr = "rfc" /\ heard'[j].tr = "rfc" /\ heard'[i].press = heard'[j].press => i = j
      /\ \A i \in 1..Len(heard') : heard'[i].tr = "info" => heard'[i].gen = 1
  BY <1>1, HeadDigit
<1>3. /\ UNCHANGED <<config, stopped, parser, parsed, press, relayed>> /\ lock.tr \in {"unset", "rfc"} /\ lock'.tr = "rfc"
      /\ consumed' = IF Collecting THEN consumed \cup {<<"rfc", p>>} ELSE consumed
  BY DEF Accepts, Locked
<1>4. \A q \in Presses : Taken(q)' => Taken(q) \/ q = p BY <1>2, AddsTaken
<1> HIDE DEF p
<1>5. \A q \in Presses : Taken(q) => lock.tr = "rfc" BY <1>3 DEF DigitInv, ByInfo
<1>6. ~Taken(p) BY <1>2, <1>5 DEF DigitInv, ByRfc
<1>7. \A q \in Presses : Sounded(q)' => Sounded(q) BY <1>2, <1>3, <1>4, <1>5 DEF Sounded
<1>8. HeardOK'
  <2>1. \A q \in Presses : NoMore(q) => NoMore(q)' BY <1>3 DEF NoMore
  <2>2. \A q \in Presses : Sounded(q)' => NoMore(q)' BY <1>1, <1>7, <2>1 DEF HeardOK
  <2> QED BY <1>2, <2>2 DEF HeardOK
<1>9. ByRfc'
  <2>1. \A q \in Presses : Taken(q)' => ~InHeard("rfc", q)' BY <1>2, <1>4, <1>5 DEF DigitInv, ByRfc
  <2> QED BY <1>3, <2>1 DEF ByRfc
<1>10. ByInfo'
  <2>1. lock.tr # "info" BY <1>3
  <2>2. \A q \in Presses : <<"info", q>> \notin consumed \cup relayed BY <2>1 DEF DigitInv, ByInfo
  <2>3. \A q \in Presses : <<"info", q>> \notin consumed' \cup relayed' BY <1>3, <2>2
  <2> QED BY <1>3, <2>3 DEF ByInfo
<1>11. ConsumedOK'
  <2> SUFFICES ASSUME NEW q \in Presses, <<"rfc", q>> \in consumed'
               PROVE  /\ <<"rfc", q>> \notin relayed
                      /\ press[q] = 3 \/ (press[q] = 2 /\ (stopped \/ config.mode = "collect"))
    BY <1>3 DEF ConsumedOK
  <2>1. CASE <<"rfc", q>> \in consumed BY <2>1 DEF DigitInv, ConsumedOK
  <2>2. CASE <<"rfc", q>> \notin consumed
    <3>1. Collecting /\ q = p BY <1>3, <2>2
    <3>2. <<"rfc", p>> \notin relayed BY <1>2, <3>1 DEF DigitInv, RelayedOK
    <3>3. config.mode = "collect" BY <3>1, CollectingMode DEF DigitInv
    <3>4. Sounded(p) BY <1>2 DEF Sounded
    <3>5. press[p] \in {2, 3} BY <1>1, <1>2, <3>4 DEF HeardOK, NoMore
    <3> QED BY <3>1, <3>2, <3>3, <3>5
  <2> QED BY <2>1, <2>2
<1>12. RelayedOK'
  <2>1. ASSUME NEW q \in Presses, InHeard("rfc", q)', <<"rfc", q>> \in relayed' PROVE ~Collecting'
    <3>1. InHeard("rfc", q) /\ <<"rfc", q>> \in relayed BY <1>2, <1>3, <2>1
    <3>2. ~Collecting BY <3>1 DEF DigitInv, RelayedOK
    <3> QED BY <3>1, <3>2, StillCollecting
  <2> QED BY <1>3, <2>1 DEF DigitInv, RelayedOK
<1>13. PairsOK' BY <1>2, <1>3 DEF DigitInv, PairsOK
<1>14. PressOnce' BY <1>2, <1>6, AddsOnce DEF DigitInv, p
<1> QED BY <1>1, <1>8, <1>9, <1>10, <1>11, <1>12, <1>13, <1>14 DEF DigitInv

\* A digit of SIP INFO is accepted.
LEMMA AcceptsInfo ==
  ASSUME Core, DigitInv, CoordStep, NEW m, Accepts(m), AddsDigit(m.press), m.tr = "info", "LateObservation" \notin Races
  PROVE  DigitInv'
<1> DEFINE p == m.press
<1>1. LeasedOK' /\ HeardOK BY CoordLeased DEF DigitInv
<1>2. /\ p \in Presses /\ m.gen = 1
      /\ \A tr, q : InHeard(tr, q)' => InHeard(tr, q)
      /\ \A i, j \in 1..Len(heard') :
           heard'[i].tr = "rfc" /\ heard'[j].tr = "rfc" /\ heard'[i].press = heard'[j].press => i = j
      /\ \A i \in 1..Len(heard') : heard'[i].tr = "info" => heard'[i].gen = 1
  BY <1>1, HeadDigit
<1>3. /\ UNCHANGED <<config, stopped, parser, parsed, press>> /\ lock.tr \in {"unset", "info"}
      /\ lock' = [tr |-> "info", gen |-> 1]
      /\ lock.tr = "info" /\ lock.gen = 1 => <<"info", 1, p>> \notin recent
      /\ recent' = (IF lock = [tr |-> "info", gen |-> 1] THEN recent ELSE {}) \cup {<<"info", 1, p>>}
      /\ consumed' = IF Collecting THEN consumed \cup {<<"info", p>>} ELSE consumed
      /\ relayed' = IF ~Collecting THEN relayed \cup {<<"info", p>>} ELSE relayed
  BY <1>2 DEF Accepts, Locked
<1>4. \A q \in Presses : Taken(q)' => Taken(q) \/ q = p BY <1>2, AddsTaken
<1> HIDE DEF p
<1>5. lock.tr = "info" => lock = [tr |-> "info", gen |-> 1]
  <2>1. lock \in [tr : {"unset", "rfc", "info"}, gen : Nat] BY RelayFacts
  <2> QED BY <2>1 DEF DigitInv, ByInfo
<1>6. \A q \in Presses : Taken(q) \/ <<"info", q>> \in consumed \cup relayed =>
        lock.tr = "info" /\ <<"info", 1, q>> \in recent /\ <<"info", 1, q>> \in recent' /\ q # p
  <2> SUFFICES ASSUME NEW q \in Presses, Taken(q) \/ <<"info", q>> \in consumed \cup relayed
               PROVE  lock.tr = "info" /\ <<"info", 1, q>> \in recent /\ <<"info", 1, q>> \in recent' /\ q # p
    OBVIOUS
  <2>1. lock.tr = "info" BY <1>3 DEF DigitInv, ByInfo
  <2>2. <<"info", 1, q>> \in recent BY <2>1 DEF DigitInv, ByInfo
  <2>3. lock = [tr |-> "info", gen |-> 1] /\ lock.gen = 1 BY <1>5, <2>1
  <2> QED BY <1>3, <2>1, <2>2, <2>3
<1>7. ~Taken(p) /\ <<"info", p>> \notin consumed \cup relayed BY <1>2, <1>6
<1>8. HeardOK'
  <2>1. \A q \in Presses : Sounded(q)' => Sounded(q) BY <1>2, <1>3 DEF Sounded
  <2>2. \A q \in Presses : NoMore(q) => NoMore(q)' BY <1>3 DEF NoMore
  <2>3. \A q \in Presses : Sounded(q)' => NoMore(q)' BY <1>1, <2>1, <2>2 DEF HeardOK
  <2> QED BY <1>2, <2>3 DEF HeardOK
<1>9. ByRfc'
  <2>1. \A q \in Presses : <<"rfc", q>> \notin consumed BY <1>3 DEF DigitInv, ByRfc
  <2>2. \A q \in Presses : <<"rfc", q>> \notin consumed' BY <1>3, <2>1
  <2> QED BY <1>3, <2>2 DEF ByRfc
<1>10. ByInfo'
  <2>1. lock'.tr = "info" /\ lock'.gen = 1 BY <1>3
  <2>2. ASSUME NEW q \in Presses, Taken(q)' \/ <<"info", q>> \in consumed' \cup relayed'
        PROVE  <<"info", 1, q>> \in recent'
    <3>1. CASE q = p BY <1>3, <3>1
    <3>2. CASE q # p
      <4>1. Taken(q) \/ <<"info", q>> \in consumed \cup relayed BY <1>3, <1>4, <2>2, <3>2
      <4> QED BY <1>6, <4>1
    <3> QED BY <3>1, <3>2
  <2> QED BY <2>1, <2>2 DEF ByInfo
<1>11. ConsumedOK' BY <1>3 DEF DigitInv, ConsumedOK
<1>12. RelayedOK'
  <2>1. \A q \in Presses : <<"rfc", q>> \in relayed' <=> <<"rfc", q>> \in relayed BY <1>3
  <2>2. ASSUME NEW q \in Presses, InHeard("rfc", q)', <<"rfc", q>> \in relayed' PROVE ~Collecting'
    <3>1. InHeard("rfc", q) /\ <<"rfc", q>> \in relayed BY <1>2, <2>1, <2>2
    <3>2. ~Collecting BY <3>1 DEF DigitInv, RelayedOK
    <3> QED BY <3>1, <3>2, StillCollecting
  <2> QED BY <1>3, <2>1, <2>2 DEF DigitInv, RelayedOK
<1>13. PairsOK' BY <1>2, <1>3, <1>7 DEF DigitInv, PairsOK
<1>14. PressOnce' BY <1>2, <1>7, AddsOnce DEF DigitInv, p
<1> QED BY <1>1, <1>8, <1>9, <1>10, <1>11, <1>12, <1>13, <1>14 DEF DigitInv

\* What the media worker does to a lease it was asked for, and what it says of it.
LeaseMoves ==
  /\ \A o \in Ops : lease'[o] # lease[o] => Has(mq, "acquire", o) \/ AcquiresFor(o) \/ Has(mq, "release", o)
  /\ \A o \in Ops : AcquiresFor(o)' =>
       \E i \in 1..Len(mq) : /\ mq[i].kind = "acquire" /\ mq[i].op = o
                             /\ lease'[o] = [state |-> "active", mode |-> mq[i].mode]
  /\ \A i \in 1..Len(results') :
       \/ \E a \in 1..Len(results) : results'[i] = results[a]
       \/ ~(results'[i].kind = "acquired" /\ results'[i].ok)
       \/ AcquiresFor(results'[i].op) /\ lease' = lease

\* A result is sent and the leases stay.
LEMMA PostMoves ==
  ASSUME Core, lease' = lease, NEW o \in Ops, NEW kind \in {"acquired", "released"}, NEW ok \in BOOLEAN,
         Post(kind, o, ok), kind = "acquired" /\ ok => AcquiresFor(o)
  PROVE  LeaseMoves
<1>1. /\ worker'.step \in {"idle", "gone"}
      /\ \A i \in 1..Len(results') :
           (\E a \in 1..Len(results) : results'[i] = results[a]) \/ results'[i] = [kind |-> kind, op |-> o, ok |-> ok]
  BY PostFacts
<1>2. \A p \in Ops : ~AcquiresFor(p)' BY <1>1 DEF AcquiresFor
<1>3. ASSUME NEW i \in 1..Len(results'), results'[i] = [kind |-> kind, op |-> o, ok |-> ok],
             results'[i].kind = "acquired", results'[i].ok
      PROVE  AcquiresFor(results'[i].op)
  <2>1. results'[i].kind = kind /\ results'[i].op = o /\ results'[i].ok = ok BY <1>3
  <2> QED BY <1>3, <2>1
<1> QED BY <1>1, <1>2, <1>3 DEF LeaseMoves

\* Every step of the worker.
LEMMA WorkerMoves == ASSUME Core, WorkerStep PROVE LeaseMoves
<1>0. worker.step \in {"acquiring", "draining", "releasing"} => worker.op \in Ops BY MediaFacts
<1>1. CASE AcquireRefused
  <2> DEFINE o == Head(mq).op
  <2>1. mq # << >> /\ mq' = Tail(mq) /\ Head(mq).kind = "acquire" /\ lease' = lease /\ Post("acquired", o, FALSE)
    BY <1>1 DEF AcquireRefused, WorkerHas
  <2>2. o \in Ops BY <2>1, HeadJob
  <2> HIDE DEF o
  <2> QED BY <2>1, <2>2, PostMoves
<1>2. CASE Acquire
  <2> DEFINE m == Head(mq)
             o == m.op
             l == [state |-> "active", mode |-> m.mode]
  <2>1. /\ mq # << >> /\ mq' = Tail(mq) /\ m.kind = "acquire" /\ results' = results
        /\ lease' = [lease EXCEPT ![o] = l] /\ worker'.step = "acquiring" /\ worker'.op = o
    BY <1>2 DEF Acquire, WorkerHas
  <2>2. o \in Ops /\ Has(mq, "acquire", o) BY <2>1, HeadJob
  <2>3. m = mq[1] /\ 1 \in 1..Len(mq) BY <2>1, MediaFacts
  <2> HIDE DEF m, o, l
  <2>4. lease'[o] = l /\ \A p \in Ops : p # o => lease'[p] = lease[p] BY <2>1, <2>2, MediaFacts
  <2>5. \A p \in Ops : lease'[p] # lease[p] => Has(mq, "acquire", p) BY <2>2, <2>4
  <2>6. ASSUME NEW p \in Ops, AcquiresFor(p)'
        PROVE  \E i \in 1..Len(mq) : /\ mq[i].kind = "acquire" /\ mq[i].op = p
                                     /\ lease'[p] = [state |-> "active", mode |-> mq[i].mode]
    <3>1. p = o BY <2>1, <2>6 DEF AcquiresFor
    <3>2. mq[1].kind = "acquire" /\ mq[1].op = p /\ lease'[p] = [state |-> "active", mode |-> mq[1].mode]
      BY <2>1, <2>3, <2>4, <3>1 DEF l, o
    <3> QED BY <2>3, <3>2
  <2> QED BY <2>1, <2>5, <2>6 DEF LeaseMoves
<1>3. CASE Applied
  <2> DEFINE kind == IF worker.step = "acquiring" THEN "acquired" ELSE "released"
             o == worker.op
  <2>1. lease' = lease /\ worker.step \in {"acquiring", "releasing"} /\ Post(kind, o, TRUE) BY <1>3 DEF Applied
  <2>2. /\ o \in Ops /\ kind \in {"acquired", "released"} /\ (kind = "acquired" => AcquiresFor(o))
    BY <1>0, <2>1 DEF AcquiresFor
  <2> HIDE DEF kind, o
  <2> QED BY <2>1, <2>2, PostMoves
<1>4. CASE AcquireTimesOut
  <2> DEFINE o == worker.op
  <2>1. worker.step = "acquiring" /\ Post("acquired", o, FALSE) /\ lease' = [lease EXCEPT ![o] = NoLease]
    BY <1>4 DEF AcquireTimesOut
  <2>2. o \in Ops /\ AcquiresFor(o) BY <1>0, <2>1 DEF AcquiresFor
  <2>3. \A p \in Ops : lease'[p] # lease[p] => AcquiresFor(p) BY <2>1, <2>2, MediaFacts
  <2>4. /\ worker'.step \in {"idle", "gone"}
        /\ \A i \in 1..Len(results') :
             \/ \E a \in 1..Len(results) : results'[i] = results[a]
             \/ results'[i] = [kind |-> "acquired", op |-> o, ok |-> FALSE]
    BY <2>1, <2>2, PostFacts
  <2>5. \A p \in Ops : ~AcquiresFor(p)' BY <2>4 DEF AcquiresFor
  <2>6. \A i \in 1..Len(results') :
          (\E a \in 1..Len(results) : results'[i] = results[a]) \/ ~(results'[i].kind = "acquired" /\ results'[i].ok)
    BY <2>4
  <2> QED BY <2>3, <2>5, <2>6 DEF LeaseMoves
<1>5. CASE ReleaseTimesOut
  <2> DEFINE o == worker.op
  <2>1. lease' = lease /\ worker.step = "releasing" /\ Post("released", o, FALSE) BY <1>5 DEF ReleaseTimesOut
  <2>2. o \in Ops BY <1>0, <2>1
  <2> HIDE DEF o
  <2> QED BY <2>1, <2>2, PostMoves
<1>6. CASE ReleaseAgain
  <2> DEFINE o == Head(mq).op
             ok == lease[o].state = "inactive"
  <2>1. mq # << >> /\ mq' = Tail(mq) /\ Head(mq).kind = "release" /\ lease' = lease /\ Post("released", o, ok)
    BY <1>6 DEF ReleaseAgain, WorkerHas
  <2>2. o \in Ops BY <2>1, HeadJob
  <2>3. ok \in BOOLEAN OBVIOUS
  <2> HIDE DEF o, ok
  <2> QED BY <2>1, <2>2, <2>3, PostMoves
<1>7. CASE Release
  <2> DEFINE o == Head(mq).op
  <2>1. /\ mq # << >> /\ mq' = Tail(mq) /\ Head(mq).kind = "release" /\ results' = results
        /\ lease' = [lease EXCEPT ![o].state = "inactive"] /\ worker'.step \in {"draining", "releasing"}
    BY <1>7 DEF Release, WorkerHas
  <2>2. o \in Ops /\ Has(mq, "release", o) BY <2>1, HeadJob
  <2> HIDE DEF o
  <2>3. \A p \in Ops : lease'[p] # lease[p] => p = o BY <2>1, <2>2, MediaFacts
  <2>4. \A p \in Ops : ~AcquiresFor(p)' BY <2>1 DEF AcquiresFor
  <2> QED BY <2>1, <2>2, <2>3, <2>4 DEF LeaseMoves
<1>8. CASE Drained
  <2>1. lease' = lease /\ results' = results /\ worker' = [worker EXCEPT !.step = "releasing", !.gen = config'.gen]
    BY <1>8 DEF Drained
  <2>2. worker \in Workers BY MediaFacts
  <2>3. worker'.step = "releasing" BY <2>1, <2>2 DEF Workers
  <2>4. \A p \in Ops : ~AcquiresFor(p)' BY <2>3 DEF AcquiresFor
  <2> QED BY <2>1, <2>4 DEF LeaseMoves
<1>9. CASE Prepare
  <2>1. lease' = lease /\ results' = results /\ worker'.step \in {"idle", "gone"} BY <1>9 DEF Prepare, Idle
  <2>2. \A p \in Ops : ~AcquiresFor(p)' BY <2>1 DEF AcquiresFor
  <2> QED BY <2>1, <2>2 DEF LeaseMoves
<1> QED BY <1>1, <1>2, <1>3, <1>4, <1>5, <1>6, <1>7, <1>8, <1>9 DEF WorkerStep

\* Between the end of a press and its repetition, the configuration of a parser stays, or the parser stops.
LEMMA WorkerMode ==
  ASSUME Core, WorkerStep, "RepeatAcrossModes" \notin Races, Repeating
  PROVE  config' = config \/ (config'.mode = "transparent" /\ config.mode # "collect")
<1>1. ~Acquire /\ ~AcquireTimesOut /\ ~Prepare /\ ~Drained
  BY DEF Acquire, AcquireTimesOut, Prepare, Drained, Undisturbed
<1>2. AcquireRefused \/ Applied \/ ReleaseTimesOut \/ ReleaseAgain => config' = config
  BY DEF AcquireRefused, Applied, ReleaseTimesOut, ReleaseAgain
<1>3. CASE Release
  <2> DEFINE o == Head(mq).op
             left == [lease EXCEPT ![o].state = "inactive"]
  <2>1. /\ worker.step = "idle" /\ mq # << >> /\ mq' = Tail(mq) /\ Head(mq).kind = "release"
        /\ config' = config \/ (~Drains(left) /\ config' = WithMode(Desired(left)))
    BY <1>3 DEF Release, WorkerHas
  <2>2. o \in Ops BY <2>1, HeadJob
  <2>3. lease \in [Ops -> Leases] /\ lease[o] \in Leases /\ config \in Configs BY <2>2, MediaFacts
  <2>4. \A p \in Ops : left[p].state = "active" => left[p] = lease[p]
    <3> DEFINE e == [lease[o] EXCEPT !.state = "inactive"]
    <3>1. e.state = "inactive" BY <2>3 DEF Leases
    <3>2. left = [lease EXCEPT ![o] = e] OBVIOUS
    <3> HIDE DEF e, o, left
    <3> QED BY <2>2, <2>3, <3>1, <3>2
  <2> HIDE DEF o, left
  <2>5. \A mode : Held(left, mode) => Held(lease, mode)
    <3> SUFFICES ASSUME NEW mode, NEW p \in Ops, left[p] = [state |-> "active", mode |-> mode] PROVE Held(lease, mode)
      BY DEF Held
    <3>1. left[p].state = "active" OBVIOUS
    <3>2. lease[p] = [state |-> "active", mode |-> mode] BY <2>4, <3>1
    <3> QED BY <3>2 DEF Held
  <2>6. config.mode = Desired(lease) BY <2>1 DEF Core, ModeOK, ModeFollowsLeases
  <2>7. CASE config' = WithMode(Desired(left)) /\ ~Drains(left)
    <3>1. CASE config.mode = Desired(left) BY <2>7, <3>1 DEF WithMode
    <3>2. CASE config.mode # Desired(left)
      <4>1. config.mode # "collect" BY <2>7, <3>2 DEF Drains
      <4>2. ~Held(lease, "collect") BY <2>6, <4>1 DEF Desired
      <4>3. ~Held(left, "collect") BY <2>5, <4>2
      <4>4. ~Held(left, "observe") BY <2>5, <2>6, <3>2, <4>2, <4>3 DEF Desired
      <4>5. Desired(left) = "transparent" BY <4>3, <4>4 DEF Desired
      <4>6. config'.mode = "transparent" BY <2>7, <3>2, <4>5 DEF WithMode
      <4> QED BY <4>1, <4>6
    <3> QED BY <3>1, <3>2
  <2> QED BY <2>1, <2>7
<1> QED BY <1>1, <1>2, <1>3 DEF WorkerStep

\* The media worker and the leases of the collectors.
LEMMA WorkerLeased == ASSUME Core, LeasedOK, WorkerStep PROVE LeasedOK'
<1>1. Works /\ LeaseMoves /\ AcquiresOnce BY WorkerCore, WorkerMoves DEF Core
<1>2. WorkerFrame /\ WorkerType /\ \A o \in Ops : WorksOf(o) BY <1>1 DEF Works
<1>3. col' = col BY <1>2 DEF WorkerFrame
<1>4. /\ \A kind, o : Has(mq', kind, o) => Has(mq, kind, o)
      /\ \A i \in 1..Len(mq') : \E a \in 1..Len(mq) : mq'[i] = mq[a]
  BY <1>2, MediaFacts, DropsHas DEF WorkerType
<1>5. \A o \in Ops : Wanted(o)' => ~Has(mq', "release", o) BY <1>3, <1>4 DEF LeasedOK, Wanted
<1>6. ASSUME NEW o \in Ops, Wanted(o), NoneAhead(o) PROVE lease'[o] = lease[o]
  BY <1>1, <1>6 DEF LeaseMoves, NoneAhead, LeasedOK
<1>7. ASSUME NEW o \in Ops, col'[o].phase = "active" PROVE NoneAhead(o)' /\ Leased(o)'
  <2>1. NoneAhead(o) /\ Leased(o) /\ Wanted(o) BY <1>3, <1>7 DEF LeasedOK, Wanted
  <2>2. Leased(o)' BY <1>3, <1>6, <2>1 DEF Leased
  <2>3. WorksOf(o) BY <1>2
  <2>4. NoneAhead(o)' BY <1>4, <2>1, <2>3 DEF NoneAhead, WorksOf
  <2> QED BY <2>2, <2>4
<1>8. ASSUME NEW o \in Ops, col'[o].phase = "acquiring", AcquiresFor(o)' PROVE Leased(o)'
  <2>1. PICK i \in 1..Len(mq) : /\ mq[i].kind = "acquire" /\ mq[i].op = o
                                /\ lease'[o] = [state |-> "active", mode |-> mq[i].mode]
    BY <1>1, <1>8 DEF LeaseMoves
  <2>2. mq[i].mode = col[o].mode BY <1>3, <1>8, <2>1 DEF LeasedOK
  <2> QED BY <1>3, <2>1, <2>2 DEF Leased
<1>9. ASSUME NEW i \in 1..Len(mq'), mq'[i].kind = "acquire", col'[mq'[i].op].phase = "acquiring"
      PROVE  mq'[i].mode = col'[mq'[i].op].mode
  <2>1. PICK a \in 1..Len(mq) : mq'[i] = mq[a] BY <1>4
  <2> QED BY <1>3, <1>9, <2>1 DEF LeasedOK
<1>10. ASSUME NEW i \in 1..Len(results'), results'[i].kind = "acquired", results'[i].ok,
              col'[results'[i].op].phase = "acquiring"
       PROVE  lease'[results'[i].op] = [state |-> "active", mode |-> col'[results'[i].op].mode]
  <2> DEFINE o == results'[i].op
  <2>1. results'[i] \in Outcomes BY <1>2 DEF WorkerType
  <2>2. o \in Ops BY <2>1 DEF Outcomes
  <2>3. CASE \E a \in 1..Len(results) : results'[i] = results[a]
    <3>1. PICK a \in 1..Len(results) : results'[i] = results[a] BY <2>3
    <3>2. Has(results, "acquired", o) BY <1>10, <3>1 DEF Has
    <3>3. Leased(results[a].op) BY <1>3, <1>10, <3>1 DEF LeasedOK
    <3>4. lease[o] = [state |-> "active", mode |-> col[o].mode] BY <3>1, <3>3 DEF Leased
    <3>5. ~Has(mq, "acquire", o) /\ ~AcquiresFor(o) BY <1>1, <2>2, <3>2 DEF AcquiresOnce
    <3>6. ~Has(mq, "release", o) BY <1>3, <1>10, <2>2 DEF LeasedOK, Wanted
    <3>7. lease'[o] = lease[o] BY <1>1, <2>2, <3>5, <3>6 DEF LeaseMoves
    <3> QED BY <1>3, <3>4, <3>7
  <2>4. CASE AcquiresFor(o) /\ lease' = lease
    <3>1. Leased(o) BY <1>3, <1>10, <2>2, <2>4 DEF LeasedOK
    <3> QED BY <1>3, <2>4, <3>1 DEF Leased
  <2> QED BY <1>1, <1>10, <2>3, <2>4 DEF LeaseMoves
<1> QED BY <1>5, <1>7, <1>8, <1>9, <1>10 DEF LeasedOK, Leased

\* The media worker and the digits.
LEMMA WorkerDigit ==
  ASSUME Core, DigitInv, WorkerStep, "RepeatAcrossModes" \notin Races
  PROVE  DigitInv'
<1>1. LeasedOK' BY WorkerLeased DEF DigitInv
<1>2. UNCHANGED <<col, heard, stopped, parser, parsed, press, lock, recent, consumed, relayed>>
  BY WorkerCore DEF Works, WorkerFrame
<1>3. \A p \in Presses : press[p] = 2 /\ ~stopped =>
        config' = config \/ (config'.mode = "transparent" /\ config.mode # "collect")
  BY WorkerMode DEF Repeating
<1>4. /\ \A tr, p : InHeard(tr, p)' <=> InHeard(tr, p)
      /\ \A p : Taken(p)' <=> Taken(p)
      /\ Collecting' <=> Collecting
  BY <1>2 DEF InHeard, Taken, Collecting
<1>5. HeardOK'
  <2>1. \A p \in Presses : Sounded(p)' => Sounded(p) BY <1>2, <1>4 DEF Sounded
  <2>2. \A p \in Presses : NoMore(p) => NoMore(p)' BY <1>2, <1>3 DEF NoMore
  <2> QED BY <1>2, <2>1, <2>2 DEF DigitInv, HeardOK
<1>6. ByRfc' /\ ByInfo' BY <1>2, <1>4 DEF DigitInv, ByRfc, ByInfo
<1>7. ConsumedOK' BY <1>2, <1>3 DEF DigitInv, ConsumedOK
<1>8. RelayedOK' BY <1>2, <1>3, <1>4 DEF DigitInv, RelayedOK
<1>9. PairsOK' /\ PressOnce' BY <1>2 DEF DigitInv, PairsOK, PressOnce
<1> QED BY <1>1, <1>5, <1>6, <1>7, <1>8, <1>9 DEF DigitInv

\* The digits on their way, each of RFC 4733 once.
QueueOK ==
  /\ \A i, j \in 1..Len(heard) :
       heard[i].tr = "rfc" /\ heard[j].tr = "rfc" /\ heard[i].press = heard[j].press => i = j
  /\ \A i \in 1..Len(heard) : heard[i].tr = "info" => heard[i].gen = 1

\* A digit is put behind the others.
LEMMA EmitHeard ==
  ASSUME Core, HeardOK, NEW tr \in {"rfc", "info"}, NEW gen \in Nat, NEW p \in Presses,
         heard' = Emit(Digit(tr, gen, p)), tr = "rfc" => ~InHeard("rfc", p), tr = "info" => gen = 1
  PROVE  /\ QueueOK'
         /\ \A t, q : InHeard(t, q)' <=> (InHeard(t, q) \/ (t = tr /\ q = p))
<1> DEFINE d == Digit(tr, gen, p)
<1>1. heard \in Seq(Digits) BY RelayFacts
<1>2. d \in Digits /\ d.tr = tr /\ d.gen = gen /\ d.press = p BY DEF Digit, Digits
<1>3. heard' = Append(heard, d) BY DEF Emit
<1> HIDE DEF d
<1>4. /\ Len(heard) \in Nat /\ Len(heard') = Len(heard) + 1 /\ heard'[Len(heard) + 1] = d
      /\ \A i \in 1..Len(heard) : i \in 1..Len(heard') /\ heard'[i] = heard[i]
      /\ Len(heard) + 1 \in 1..Len(heard')
      /\ \A i \in 1..Len(heard') : (i \in 1..Len(heard) /\ heard'[i] = heard[i]) \/ (i = Len(heard) + 1 /\ heard'[i] = d)
  BY <1>1, <1>2, <1>3
<1>5. \A t, q : InHeard(t, q)' <=> (InHeard(t, q) \/ (t = tr /\ q = p)) BY <1>2, <1>4 DEF InHeard
<1>6. ASSUME NEW i \in 1..Len(heard'), NEW j \in 1..Len(heard'),
             heard'[i].tr = "rfc", heard'[j].tr = "rfc", heard'[i].press = heard'[j].press
      PROVE  i = j
  <2>1. CASE i \in 1..Len(heard) /\ heard'[i] = heard[i] /\ j \in 1..Len(heard) /\ heard'[j] = heard[j]
    BY <1>6, <2>1 DEF HeardOK
  <2>2. CASE i = Len(heard) + 1 /\ j = Len(heard) + 1 BY <2>2
  <2>3. CASE i \in 1..Len(heard) /\ heard'[i] = heard[i] /\ heard'[j] = d BY <1>2, <1>6, <2>3 DEF InHeard
  <2>4. CASE j \in 1..Len(heard) /\ heard'[j] = heard[j] /\ heard'[i] = d BY <1>2, <1>6, <2>4 DEF InHeard
  <2> QED BY <1>4, <2>1, <2>2, <2>3, <2>4
<1>7. \A i \in 1..Len(heard') : heard'[i].tr = "info" => heard'[i].gen = 1 BY <1>2, <1>4 DEF HeardOK
<1> QED BY <1>5, <1>6, <1>7 DEF QueueOK

\* What the relay and the phone leave alone.
LEMMA RelayDigit ==
  ASSUME DigitInv, RelayFrame, HeardOK', ConsumedOK', RelayedOK',
         NEW S \in SUBSET Presses, relayed' = relayed \cup ({"rfc"} \X S),
         lock.tr = "rfc" => \A p \in Presses : Taken(p) => ~InHeard("rfc", p)'
  PROVE  DigitInv'
<1>1. UNCHANGED <<col, mq, worker, lease, config, results, stopped, lock, recent, consumed>> BY DEF RelayFrame
<1>2. LeasedOK' BY <1>1 DEF DigitInv, LeasedOK, Leased, Wanted, NoneAhead, AcquiresFor
<1>3. \A p : Taken(p)' <=> Taken(p) BY <1>1 DEF Taken
<1>4. ByRfc' BY <1>1, <1>3 DEF DigitInv, ByRfc
<1>5. \A p \in Presses : <<"info", p>> \in relayed' <=> <<"info", p>> \in relayed OBVIOUS
<1>6. ByInfo' BY <1>1, <1>3, <1>5 DEF DigitInv, ByInfo
<1>7. PairsOK' BY <1>1, <1>5 DEF DigitInv, PairsOK
<1>8. PressOnce' BY <1>1 DEF DigitInv, PressOnce
<1> QED BY <1>2, <1>4, <1>6, <1>7, <1>8 DEF DigitInv

\* Nothing is heard, and the ends of the presses of S go on to the peer.
LEMMA QuietDigit ==
  ASSUME DigitInv, RelayFrame, heard' = heard, NEW S \in SUBSET Presses, relayed' = relayed \cup ({"rfc"} \X S),
         \A p \in Presses : NoMore(p) => NoMore(p)', ConsumedOK', RelayedOK'
  PROVE  DigitInv'
<1>1. \A tr, p : InHeard(tr, p)' <=> InHeard(tr, p) BY DEF InHeard
<1>2. UNCHANGED <<col, lock, consumed>> BY DEF RelayFrame
<1>3. \A p \in Presses : Sounded(p)' => Sounded(p) BY <1>1, <1>2 DEF Sounded, Taken
<1>4. HeardOK' BY <1>3 DEF DigitInv, HeardOK
<1>5. lock.tr = "rfc" => \A p \in Presses : Taken(p) => ~InHeard("rfc", p)' BY <1>1 DEF DigitInv, ByRfc
<1> QED BY <1>4, <1>5, RelayDigit

\* A press is heard, which was not before.
LEMMA SoundDigit ==
  ASSUME Core, DigitInv, RelayFrame, NEW p \in Presses, ~Sounded(p), heard' = Emit(Digit("rfc", parser.gen, p)),
         NEW S \in SUBSET Presses, relayed' = relayed \cup ({"rfc"} \X S),
         NoMore(p)', \A q \in Presses : q # p /\ NoMore(q) => NoMore(q)', ConsumedOK', RelayedOK'
  PROVE  DigitInv'
<1>1. parser.gen \in Nat BY RelayFacts DEF Configs
<1>2. ~InHeard("rfc", p) /\ (lock.tr = "rfc" => ~Taken(p)) BY DEF Sounded
<1>3. HeardOK BY DEF DigitInv
<1>4. QueueOK' /\ \A t, q : InHeard(t, q)' <=> (InHeard(t, q) \/ (t = "rfc" /\ q = p)) BY <1>1, <1>2, <1>3, EmitHeard
<1>5. UNCHANGED <<col, lock, consumed>> BY DEF RelayFrame
<1>6. \A q \in Presses : Sounded(q)' => Sounded(q) \/ q = p BY <1>4, <1>5 DEF Sounded, Taken
<1>7. \A q \in Presses : Sounded(q)' => NoMore(q)' BY <1>3, <1>6 DEF HeardOK
<1>8. HeardOK' BY <1>4, <1>7 DEF HeardOK, QueueOK
<1>9. lock.tr = "rfc" => \A q \in Presses : Taken(q) => ~InHeard("rfc", q)' BY <1>2, <1>4 DEF DigitInv, ByRfc
<1> QED BY <1>8, <1>9, RelayDigit

\* A new configuration: what was heard is not heard again.
LEMMA ApplyConfigDigit == ASSUME Core, DigitInv, ApplyConfig PROVE DigitInv'
<1>1. RelayFrame BY RelayStepCore DEF RelayStep
<1>2. UNCHANGED <<config, stopped, consumed, col>> BY <1>1 DEF RelayFrame
<1>3. /\ parser # config /\ parser' = config /\ \A p \in Presses : parsed'[p] = "no"
      /\ UNCHANGED <<heard, press, relayed>>
  BY DEF ApplyConfig, Reset
<1>4. \A p \in Presses : NoMore(p) => NoMore(p)' BY <1>2, <1>3 DEF NoMore
<1>5. ConsumedOK' BY <1>2, <1>3 DEF DigitInv, ConsumedOK
<1>6. RelayedOK' BY <1>2, <1>3 DEF DigitInv, RelayedOK, InHeard, Collecting
<1>7. relayed' = relayed \cup ({"rfc"} \X {}) BY <1>3
<1>8. heard' = heard /\ {} \in SUBSET Presses BY <1>3
<1> QED BY ONLY DigitInv, <1>1, <1>4, <1>5, <1>6, <1>7, <1>8, QuietDigit

\* A key goes down, of which nothing was heard.
LEMMA PressBeginsDigit == ASSUME Core, DigitInv, NEW p \in Presses, PressBegins(p) PROVE DigitInv'
<1>1. RelayFrame BY RelayStepCore DEF RelayStep
<1>2. UNCHANGED <<config, stopped, consumed, col>> BY <1>1 DEF RelayFrame
<1>3. /\ press[p] = 0 /\ press' = [press EXCEPT ![p] = 1] /\ UNCHANGED <<heard, parser, relayed>>
      /\ parsed' = parsed \/ (parser.mode # "transparent" /\ parsed' = [parsed EXCEPT ![p] = "active"])
  BY DEF PressBegins, Hears
<1>4. \A q \in Presses : q # p => press'[q] = press[q] /\ parsed'[q] = parsed[q] BY <1>3, RelayFacts
<1>5. ~NoMore(p) /\ <<"rfc", p>> \notin consumed /\ <<"rfc", p>> \notin relayed
  BY <1>3 DEF NoMore, DigitInv, ConsumedOK, RelayedOK
<1>6. \A q \in Presses : NoMore(q) => NoMore(q)' BY <1>2, <1>3, <1>4, <1>5 DEF NoMore
<1>7. ConsumedOK' BY <1>2, <1>3, <1>4, <1>5 DEF DigitInv, ConsumedOK
<1>8. RelayedOK'
  <2>1. \A q \in Presses : InHeard("rfc", q)' /\ <<"rfc", q>> \in relayed' => ~Collecting'
    BY <1>2, <1>3 DEF DigitInv, RelayedOK, InHeard, Collecting
  <2>2. \A q \in Presses : parsed'[q] = "active" => parser'.mode # "transparent" /\ <<"rfc", q>> \notin relayed'
    BY <1>3, <1>4, <1>5 DEF DigitInv, RelayedOK
  <2>3. \A q \in Presses : <<"rfc", q>> \in relayed' => q # p /\ press'[q] = press[q] BY <1>3, <1>4, <1>5
  <2> QED BY <1>2, <1>3, <2>1, <2>2, <2>3 DEF DigitInv, RelayedOK
<1>9. relayed' = relayed \cup ({"rfc"} \X {}) BY <1>3
<1>10. heard' = heard /\ {} \in SUBSET Presses BY <1>3
<1> QED BY ONLY DigitInv, <1>1, <1>6, <1>7, <1>8, <1>9, <1>10, QuietDigit

\* A press is heard because nothing more came of it.
LEMMA ExpireDigit == ASSUME Core, DigitInv, NEW p \in Presses, Expire(p) PROVE DigitInv'
<1>1. RelayFrame BY RelayStepCore DEF RelayStep
<1>2. UNCHANGED <<config, stopped, consumed, col>> BY <1>1 DEF RelayFrame
<1>3. /\ parsed[p] = "active" /\ press' = [press EXCEPT ![p] = 3] /\ parsed' = [parsed EXCEPT ![p] = "recent"]
      /\ heard' = Emit(Digit("rfc", parser.gen, p)) /\ UNCHANGED <<parser, relayed>>
  BY DEF Expire
<1>4. /\ press'[p] = 3 /\ parsed'[p] = "recent"
      /\ \A q \in Presses : q # p => press'[q] = press[q] /\ parsed'[q] = parsed[q]
  BY <1>3, RelayFacts
<1>5. ~Sounded(p) BY <1>3 DEF DigitInv, HeardOK, NoMore
<1>6. <<"rfc", p>> \notin relayed BY <1>3 DEF DigitInv, RelayedOK
<1>7. NoMore(p)' BY <1>4 DEF NoMore
<1>8. \A q \in Presses : q # p /\ NoMore(q) => NoMore(q)' BY <1>2, <1>3, <1>4 DEF NoMore
<1>9. ConsumedOK' BY <1>2, <1>3, <1>4 DEF DigitInv, ConsumedOK
<1>10. \A t, q : InHeard(t, q)' <=> (InHeard(t, q) \/ (t = "rfc" /\ q = p))
  <2>1. parser.gen \in Nat BY RelayFacts DEF Configs
  <2>2. ~InHeard("rfc", p) /\ HeardOK BY <1>5 DEF Sounded, DigitInv
  <2> QED BY <1>3, <2>1, <2>2, EmitHeard
<1>11. RelayedOK'
  <2>1. \A q \in Presses : InHeard("rfc", q)' /\ <<"rfc", q>> \in relayed' => ~Collecting'
    BY <1>2, <1>3, <1>6, <1>10 DEF DigitInv, RelayedOK, Collecting
  <2>2. \A q \in Presses : parsed'[q] = "active" => parser'.mode # "transparent" /\ <<"rfc", q>> \notin relayed'
    BY <1>3, <1>4 DEF DigitInv, RelayedOK
  <2>3. \A q \in Presses : <<"rfc", q>> \in relayed' => q # p /\ press'[q] = press[q] BY <1>3, <1>4, <1>6
  <2> QED BY <1>2, <1>3, <2>1, <2>2, <2>3 DEF DigitInv, RelayedOK
<1>12. relayed' = relayed \cup ({"rfc"} \X {}) BY <1>3
<1> QED BY <1>1, <1>3, <1>5, <1>7, <1>8, <1>9, <1>11, <1>12, SoundDigit

\* The digit comes by SIP INFO as well.
LEMMA PressInfoDigit == ASSUME Core, DigitInv, NEW p \in Presses, PressInfo(p) PROVE DigitInv'
<1>1. RelayFrame BY RelayStepCore DEF RelayStep
<1>2. UNCHANGED <<config, stopped, consumed, col, lock>> BY <1>1 DEF RelayFrame
<1>3. heard' = Emit(Digit("info", 1, p)) /\ UNCHANGED <<parser, parsed, press, relayed>> BY DEF PressInfo, relay
<1>4. HeardOK BY DEF DigitInv
<1>5. QueueOK' /\ \A t, q : InHeard(t, q)' <=> (InHeard(t, q) \/ (t = "info" /\ q = p)) BY <1>3, <1>4, EmitHeard
<1>6. \A q \in Presses : InHeard("rfc", q)' <=> InHeard("rfc", q) BY <1>5
<1>7. \A q \in Presses : Sounded(q)' => Sounded(q) BY <1>2, <1>6 DEF Sounded, Taken
<1>8. \A q \in Presses : NoMore(q) => NoMore(q)' BY <1>2, <1>3 DEF NoMore
<1>9. HeardOK' BY <1>4, <1>5, <1>7, <1>8 DEF HeardOK, QueueOK
<1>10. ConsumedOK' BY <1>2, <1>3 DEF DigitInv, ConsumedOK
<1>11. RelayedOK' BY <1>2, <1>3, <1>6 DEF DigitInv, RelayedOK, Collecting
<1>12. lock.tr = "rfc" => \A q \in Presses : Taken(q) => ~InHeard("rfc", q)' BY <1>6 DEF DigitInv, ByRfc
<1>13. relayed' = relayed \cup ({"rfc"} \X {}) BY <1>3
<1> QED BY <1>1, <1>9, <1>10, <1>11, <1>12, <1>13, RelayDigit

\* The end of a press, the first time and again.
LEMMA PressEndsDigit ==
  ASSUME Core, DigitInv, NEW p \in Presses, PressEnds(p), "RepeatAcrossModes" \notin Races
  PROVE  DigitInv'
<1>1. RelayFrame BY RelayStepCore DEF RelayStep
<1>2. UNCHANGED <<config, stopped, consumed, col, parser>> BY <1>1 DEF RelayFrame, PressEnds
<1>3. /\ ~stopped /\ press[p] \in {1, 2} /\ parser = config /\ press' = [press EXCEPT ![p] = @ + 1]
      /\ EndPacket(p) \/ UNCHANGED <<heard, parsed, relayed>>
  BY DEF PressEnds
<1>4. press'[p] = press[p] + 1 /\ \A q \in Presses : q # p => press'[q] = press[q] BY <1>3, RelayFacts
<1>5. <<"rfc", p>> \in consumed => press'[p] = 3 /\ config.mode = "collect"
  BY <1>3, <1>4 DEF DigitInv, ConsumedOK
<1>6. <<"rfc", p>> \in relayed => press'[p] = 3 /\ config.mode # "collect"
  BY <1>3, <1>4 DEF DigitInv, RelayedOK
<1>7. Collecting => config.mode = "collect" BY CollectingMode DEF DigitInv
<1>8. ASSUME UNCHANGED parsed PROVE \A q \in Presses : NoMore(q) => NoMore(q)'
  <2>1. NoMore(p) => press[p] = 2 /\ press'[p] = 3 BY <1>3, <1>4 DEF NoMore
  <2>2. NoMore(p) => NoMore(p)' BY <1>8, <2>1 DEF NoMore
  <2>3. \A q \in Presses : q # p /\ NoMore(q) => NoMore(q)' BY <1>2, <1>4, <1>8 DEF NoMore
  <2> QED BY <2>2, <2>3
<1>9. CASE UNCHANGED <<heard, parsed, relayed>>
  <2>1. ConsumedOK' BY <1>2, <1>4, <1>5, <1>9 DEF DigitInv, ConsumedOK
  <2>2. RelayedOK'
    <3>1. \A q \in Presses : InHeard("rfc", q)' /\ <<"rfc", q>> \in relayed' => ~Collecting'
      BY <1>2, <1>9 DEF DigitInv, RelayedOK, InHeard, Collecting
    <3> QED BY <1>2, <1>4, <1>6, <1>9, <3>1 DEF DigitInv, RelayedOK
  <2>3. relayed' = relayed \cup ({"rfc"} \X {}) BY <1>9
  <2> QED BY <1>1, <1>8, <1>9, <2>1, <2>2, <2>3, QuietDigit
<1>10. CASE EndPacket(p)
  <2> DEFINE S == IF parser.mode = "collect" THEN {} ELSE {p}
  <2>1. relayed' = relayed \cup ({"rfc"} \X S) /\ S \in SUBSET Presses
    <3>1. relayed' = IF parser.mode = "collect" THEN relayed ELSE relayed \cup {<<"rfc", p>>} BY <1>10 DEF EndPacket
    <3>2. CASE parser.mode = "collect" BY <3>1, <3>2
    <3>3. CASE parser.mode # "collect"
      <4>1. {"rfc"} \X {p} = {<<"rfc", p>>} OBVIOUS
      <4> QED BY <3>1, <3>3, <4>1
    <3> QED BY <3>2, <3>3
  <2>2. \A q \in Presses : <<"rfc", q>> \in relayed' <=> (<<"rfc", q>> \in relayed \/ (q = p /\ config.mode # "collect"))
    BY <1>3, <2>1
  <2>3. ConsumedOK'
    <3> SUFFICES ASSUME NEW q \in Presses, <<"rfc", q>> \in consumed
                 PROVE  /\ <<"rfc", q>> \notin relayed'
                        /\ press'[q] = 3 \/ (press'[q] = 2 /\ (stopped \/ config.mode = "collect"))
      BY <1>2 DEF ConsumedOK
    <3>1. <<"rfc", q>> \notin relayed BY DEF DigitInv, ConsumedOK
    <3>2. CASE q = p BY <1>5, <2>2, <3>1, <3>2
    <3>3. CASE q # p BY <1>4, <2>2, <3>1, <3>3 DEF DigitInv, ConsumedOK
    <3> QED BY <3>2, <3>3
  <2>4. <<"rfc", p>> \in relayed' => config.mode # "collect" /\ ~Collecting BY <1>6, <1>7, <2>2
  <2>5. press'[p] \in {2, 3} BY <1>3, <1>4
  <2>6. \A q \in Presses : <<"rfc", q>> \in relayed' => press'[q] \in {2, 3} BY <1>4, <2>2, <2>5 DEF DigitInv, RelayedOK
  <2>7. \A q \in Presses : <<"rfc", q>> \in relayed' /\ press'[q] = 2 /\ ~stopped' => config'.mode # "collect"
    BY <1>2, <1>4, <2>2, <2>4 DEF DigitInv, RelayedOK
  <2> HIDE DEF S
  <2>8. CASE Hears(p)
    <3>1. /\ parser.mode # "transparent" /\ parsed[p] # "recent" /\ heard' = Emit(Digit("rfc", parser.gen, p))
          /\ parsed' = [parsed EXCEPT ![p] = "recent"]
      BY <1>10, <2>8 DEF EndPacket, Hears
    <3>2. parsed'[p] = "recent" /\ \A q \in Presses : q # p => parsed'[q] = parsed[q] BY <3>1, RelayFacts
    <3>3. ~NoMore(p) BY <1>3, <3>1 DEF NoMore
    <3>4. ~Sounded(p) BY <3>3 DEF DigitInv, HeardOK
    <3>5. NoMore(p)' BY <1>2, <1>3, <2>5, <3>2 DEF NoMore
    <3>6. \A q \in Presses : q # p /\ NoMore(q) => NoMore(q)' BY <1>2, <1>4, <3>2 DEF NoMore
    <3>7. \A t, q : InHeard(t, q)' <=> (InHeard(t, q) \/ (t = "rfc" /\ q = p))
      <4>1. parser.gen \in Nat BY RelayFacts DEF Configs
      <4>2. ~InHeard("rfc", p) /\ HeardOK BY <3>4 DEF Sounded, DigitInv
      <4> QED BY <3>1, <4>1, <4>2, EmitHeard
    <3>8. \A q \in Presses : InHeard("rfc", q)' /\ <<"rfc", q>> \in relayed' => ~Collecting'
      BY <1>2, <2>2, <2>4, <3>7 DEF DigitInv, RelayedOK, Collecting
    <3>9. \A q \in Presses : parsed'[q] = "active" => parser'.mode # "transparent" /\ <<"rfc", q>> \notin relayed'
      BY <1>2, <2>2, <3>2 DEF DigitInv, RelayedOK
    <3>10. RelayedOK' BY <2>6, <2>7, <3>8, <3>9 DEF RelayedOK
    <3> QED BY <1>1, <2>1, <2>3, <3>1, <3>4, <3>5, <3>6, <3>10, SoundDigit
  <2>9. CASE ~Hears(p)
    <3>1. (parser.mode = "transparent" \/ parsed[p] = "recent") /\ UNCHANGED <<heard, parsed>>
      BY <1>10, <2>9 DEF EndPacket, Hears
    <3>2. \A q \in Presses : InHeard("rfc", q)' /\ <<"rfc", q>> \in relayed' => ~Collecting'
      BY <1>2, <2>2, <2>4, <3>1 DEF DigitInv, RelayedOK, InHeard, Collecting
    <3>3. parsed[p] # "active" BY <3>1 DEF DigitInv, RelayedOK
    <3>4. \A q \in Presses : parsed'[q] = "active" => parser'.mode # "transparent" /\ <<"rfc", q>> \notin relayed'
      BY <1>2, <2>2, <3>1, <3>3 DEF DigitInv, RelayedOK
    <3>5. RelayedOK' BY <2>6, <2>7, <3>2, <3>4 DEF RelayedOK
    <3> QED BY <1>1, <1>8, <2>1, <2>3, <3>1, <3>5, QuietDigit
  <2> QED BY <2>8, <2>9
<1> QED BY <1>3, <1>9, <1>10

\* At the start nothing was pressed.
LEMMA InitDigit == ASSUME Init PROVE DigitInv
<1>1. /\ mq = << >> /\ results = << >> /\ heard = << >> /\ lock.tr = "unset" /\ relayed = {} /\ consumed = {}
      /\ \A o \in Ops : col[o] = NoCollector
      /\ \A p \in Presses : parsed[p] = "no"
  BY DEF Init, Reset
<1>2. NoCollector.phase = "none" /\ NoCollector.digits = << >> BY DEF NoCollector
<1>3. \A tr, p : ~InHeard(tr, p) BY <1>1 DEF InHeard
<1>4. \A p : ~Taken(p) BY <1>1, <1>2 DEF Taken
<1>5. LeasedOK BY <1>1, <1>2 DEF LeasedOK, Wanted
<1>6. HeardOK
  <2>1. \A p \in Presses : ~Sounded(p) BY <1>1, <1>3, <1>4 DEF Sounded
  <2> QED BY <1>1, <2>1 DEF HeardOK
<1>7. ByRfc /\ ByInfo BY <1>1, <1>4 DEF ByRfc, ByInfo
<1>8. ConsumedOK /\ RelayedOK /\ PairsOK BY <1>1 DEF ConsumedOK, RelayedOK, PairsOK
<1>9. PressOnce BY <1>1, <1>2 DEF PressOnce
<1> QED BY <1>5, <1>6, <1>7, <1>8, <1>9 DEF DigitInv

\* Every step keeps the digits, as long as no race of the two is let happen.
LEMMA NextDigit ==
  ASSUME Core, DigitInv, [Next]_vars, "LateObservation" \notin Races, "RepeatAcrossModes" \notin Races
  PROVE  DigitInv'
<1>1. CASE ServiceStep
  <2>1. UNCHANGED DigitVars
    BY <1>1 DEF ServiceStep, Start, Cancel, CancelRefused, TaskReady, TaskResult, Detach, HandleOperation, DigitVars,
                media, relay, source
  <2> QED BY <2>1, OthersDigit
<1>2. CASE ActorStep
  <2>1. Shape BY DEF Core
  <2>2. (CoordStep /\ NoDigit) \/ (CoordStep /\ TakeDigit) \/ Registered(Head(evq)) BY <1>2, <2>1, ActorStepIs
  <2>3. CASE CoordStep /\ NoDigit BY <2>3, CoordDigit
  <2>4. CASE Registered(Head(evq)) BY <2>4, RegisteredDigit
  <2>5. CASE CoordStep /\ TakeDigit
    <3>1. NoDigit \/ (Accepts(Head(heard)) /\ AddsDigit(Head(heard).press)) BY <2>5, TakeDigitIs
    <3>2. CASE NoDigit BY <2>5, <3>2, CoordDigit
    <3>3. CASE Accepts(Head(heard)) /\ AddsDigit(Head(heard).press)
      <4> DEFINE m == Head(heard)
      <4>1. Accepts(m) /\ AddsDigit(m.press) /\ HeardOK BY <3>3 DEF DigitInv
      <4> HIDE DEF m
      <4>2. m.tr \in {"rfc", "info"} BY <4>1, HeadDigit
      <4>3. CASE m.tr = "rfc" BY <2>5, <4>1, <4>3, AcceptsRfc
      <4>4. CASE m.tr = "info" BY <2>5, <4>1, <4>4, AcceptsInfo
      <4> QED BY <4>2, <4>3, <4>4
    <3> QED BY <3>1, <3>2, <3>3
  <2> QED BY <2>2, <2>3, <2>4, <2>5
<1>3. CASE WorkerStep BY <1>3, WorkerDigit
<1>4. CASE RelayStep
  BY <1>4, ApplyConfigDigit, PressBeginsDigit, PressEndsDigit, ExpireDigit, PressInfoDigit DEF RelayStep
<1>5. CASE UNCHANGED vars
  <2>1. UNCHANGED DigitVars BY <1>5 DEF vars, DigitVars, media, relay, source
  <2> QED BY <2>1, OthersDigit
<1> QED BY <1>1, <1>2, <1>3, <1>4, <1>5 DEF Next

\* What it says of a press.
LEMMA DigitInvOnce == ASSUME DigitInv PROVE DigitOnce
<1>1. NotBoth
  <2> SUFFICES ASSUME NEW x \in consumed, x \in relayed PROVE FALSE BY DEF NotBoth
  <2>1. x \in {"rfc", "info"} \X Presses BY DEF DigitInv, PairsOK
  <2>2. PICK tr \in {"rfc", "info"}, p \in Presses : x = <<tr, p>> BY <2>1
  <2>3. CASE tr = "rfc" BY <2>2, <2>3 DEF DigitInv, ConsumedOK
  <2>4. CASE tr = "info" BY <2>2, <2>4 DEF DigitInv, PairsOK
  <2> QED BY <2>2, <2>3, <2>4
<1> QED BY <1>1 DEF DigitOnce, DigitInv

\* A press counts once, however many operations, presses, negotiations and faults there are: a collector takes it
\* once, whether it comes by RFC 4733, by SIP INFO or by both, and what a collector of mode collect consumed does
\* not reach the peer as well (DtmfSourceState::accept, observe_packet, suppresses_packet, route_digit and the
\* drain of release_dtmf_capability). It needs that no digit heard in one mode is taken in the next, and that the
\* mode does not change between the end of a press and its repetition, which the code leaves to the timing.
THEOREM DigitsCountOnce ==
  ASSUME Races \cap {"LateObservation", "RepeatAcrossModes"} = {}
  PROVE  Spec => []DigitOnce
<1>1. Init => DigitInv BY InitDigit
<1>2. "LateObservation" \notin Races /\ "RepeatAcrossModes" \notin Races OBVIOUS
<1>3. Core /\ DigitInv /\ [Next]_vars => DigitInv' BY <1>2, NextDigit
<1>4. DigitInv => DigitOnce BY DigitInvOnce
<1> QED BY <1>1, <1>3, <1>4, CollectionCore, PTL DEF Spec
=============================================================================
