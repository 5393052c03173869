---------------------------- MODULE CdrSpoolProofs ----------------------------
(***************************************************************************)
(* Proofs about CdrSpool, for every set of records, segment size, capacity *)
(* and set of watermarks: the accounts of the writer and the worker, the   *)
(* records that were promised, and the safety part of the refinement of    *)
(* CdrLog.                                                                 *)
(***************************************************************************)
EXTENDS CdrSpool, FiniteSetTheorems, SequenceTheorems, WellFoundedInduction, TLAPS

----------------------------------------------------------------------------
(* The inductive invariant *)

\* The queue holds the records whose finalizers wait for their answer, each
\* once; the writer has one while it reports, and none when it stops.
QueueOK ==
  /\ \A i, j \in DOMAIN queue : queue[i] = queue[j] => i = j
  /\ \A r \in Cdrs : call[r] = "queued" <=> \E i \in DOMAIN queue : queue[i] = r
  /\ written # None => queue # <<>>
  /\ stop = "draining" => queue = <<>>

\* No more finalizers wait than there are permits.
PermitsOK == IsFiniteSet(Waiting) /\ Cardinality(Waiting) <= Capacity

\* The checkpoint lies within the spool, so a new frame comes behind it.
SpoolOK ==
  /\ IsFiniteSet(FramesOf(segs))
  /\ checkpoint.seg <= Len(segs)
  /\ checkpoint.seg \in DOMAIN segs => checkpoint.off <= Len(segs[checkpoint.seg])
  /\ ~up => worker.step = "idle"

IsNext(p) == \A q \in Unread : q = p \/ Before(p, q)

Replaying == worker.step \notin {"idle", "load"}

\* What the worker may rely on between a replay and the next: the frames
\* ahead of it are whole, the invalid ones are in quarantine, and it has a
\* frame to work on, which is settled before the checkpoint passes it.
WorkerOK ==
  Replaying =>
    /\ \A p \in Unread : FrameAt(p).kind # "torn"
    /\ \A p \in Unread : FrameAt(p).kind = "bad" => FrameAt(p).cdr \in quarantine
    /\ Before(checkpoint, worker.end) => worker.end \in FramesOf(segs)
    /\ worker.step \in {"work", "ack"} => Before(checkpoint, worker.end)
    /\ worker.step = "ack" => \A p \in Unread : IsNext(p) => FrameAt(p).cdr \in Settled

IInv == TypeOK /\ QueueOK /\ PermitsOK /\ SpoolOK /\ WorkerOK /\ CheckpointIsSettled

\* The records a replay still finds, or that need none.
KeptRecords ==
  Settled \cup {FrameAt(p).cdr : p \in {q \in Unread : FrameAt(q).kind # "torn"}}

\* The record the writer reports is kept, and an incomplete frame is the last
\* one of the spool until the replay has removed it.
KeptInv ==
  /\ DurableIsKept
  /\ written # None => Head(queue) \in KeptRecords
  /\ recovered => \A p \in Unread : FrameAt(p).kind # "torn"
  /\ \A p \in Unread : FrameAt(p).kind = "torn" => p.seg = Len(segs) /\ p.off = Len(segs[p.seg])

Positions == [seg : Nat, off : Nat]
Steps == {"idle", "load", "work", "ack", "purge", "refresh", "report"}

----------------------------------------------------------------------------
(* Numbers *)

\* A set of naturals that is not empty has a least element.
LEMMA Smallest ==
  ASSUME NEW S \in SUBSET Nat, S # {}
  PROVE  \E n \in S : \A m \in S : n <= m
<1> DEFINE R == {ss \in Nat \X Nat : ss[1] < ss[2]}
<1>1. IsWellFoundedOn(R, Nat)
  BY NatLessThanWellFounded DEF OpToRel
<1>2. PICK x \in S : \A y \in S : ~(<<y, x>> \in R)
  <2> HIDE DEF R
  <2> QED BY <1>1, WFMin
<1>3. \A y \in S : x <= y
  <2> TAKE y \in S
  <2>1. x \in Nat /\ y \in Nat OBVIOUS
  <2>2. ~(y < x) BY <1>2, <2>1
  <2> QED BY <2>1, <2>2
<1> QED BY <1>3

\* ... and a bounded one a greatest element.
LEMMA Largest ==
  ASSUME NEW S \in SUBSET Nat, S # {}, NEW b \in Nat, \A n \in S : n <= b
  PROVE  \E n \in S : \A m \in S : m <= n
<1> DEFINE T == {n \in Nat : \A m \in S : m <= n}
<1>1. T \in SUBSET Nat /\ T # {}
  OBVIOUS
<1>2. PICK n \in T : \A m \in T : n <= m
  <2> HIDE DEF T
  <2> QED BY <1>1, Smallest
<1>3. n \in S
  <2> SUFFICES ASSUME n \notin S PROVE FALSE OBVIOUS
  <2>1. \A m \in S : m < n
    <3> TAKE m \in S
    <3>1. m <= n /\ m # n /\ m \in Nat /\ n \in Nat OBVIOUS
    <3> QED BY ONLY <3>1
  <2>0. PICK m \in S : TRUE OBVIOUS
  <2>2. n \in Nat /\ n # 0 BY <2>0, <2>1
  <2>3. n - 1 \in T
    <3>1. \A k \in S : k <= n - 1 BY <2>1, <2>2
    <3> QED BY <3>1, <2>2
  <2> QED BY <2>2, <2>3, <1>2
<1> QED BY <1>3

----------------------------------------------------------------------------
(* Positions *)

\* The frames of a spool, by segment and offset.
LEMMA FramesMember ==
  ASSUME NEW log \in Seq(Seq(Frames))
  PROVE  /\ FramesOf(log) \subseteq Positions
         /\ \A p \in Positions : p \in FramesOf(log) <=> p.seg \in DOMAIN log /\ p.off \in DOMAIN log[p.seg]
         /\ \A p \in FramesOf(log) : /\ p.seg \in 1..Len(log) /\ p.off \in 1..Len(log[p.seg])
                                     /\ log[p.seg][p.off] \in Frames
<1>1. \A s \in DOMAIN log : s \in Nat /\ log[s] \in Seq(Frames) /\ DOMAIN log[s] = 1..Len(log[s])
  OBVIOUS
<1>2. DOMAIN log = 1..Len(log) OBVIOUS
<1>3. ASSUME NEW p \in FramesOf(log)
      PROVE  p \in Positions /\ p.seg \in DOMAIN log /\ p.off \in DOMAIN log[p.seg]
  <2>0. PICK s \in DOMAIN log : p \in {[seg |-> s, off |-> i] : i \in DOMAIN log[s]}
    BY DEF FramesOf, Position
  <2>1. PICK i \in DOMAIN log[s] : p = [seg |-> s, off |-> i] BY <2>0
  <2>2. i \in Nat BY <1>1
  <2>3. p.seg = s /\ p.off = i BY <2>1
  <2>4. p \in Positions BY <2>1, <2>2, <1>1 DEF Positions
  <2> QED BY <2>3, <2>4
<1>4. ASSUME NEW p \in Positions, p.seg \in DOMAIN log, p.off \in DOMAIN log[p.seg]
      PROVE  p \in FramesOf(log)
  <2>1. p = [seg |-> p.seg, off |-> p.off] BY DEF Positions
  <2> QED BY <2>1, <1>4 DEF FramesOf, Position
<1>5. ASSUME NEW p \in FramesOf(log)
      PROVE  p.seg \in 1..Len(log) /\ p.off \in 1..Len(log[p.seg]) /\ log[p.seg][p.off] \in Frames
  BY <1>1, <1>2, <1>3
<1> QED BY <1>3, <1>4, <1>5

\* Positions are ordered.
LEMMA BeforeOrder ==
  ASSUME NEW p \in Positions, NEW q \in Positions
  PROVE  /\ ~Before(p, p)
         /\ Before(p, q) \/ Before(q, p) \/ p = q
         /\ ~(Before(p, q) /\ Before(q, p))
         /\ \A r \in Positions : Before(p, q) /\ Before(q, r) => Before(p, r)
<1>1. p.seg \in Nat /\ p.off \in Nat /\ q.seg \in Nat /\ q.off \in Nat BY DEF Positions
<1>2. p.seg = q.seg /\ p.off = q.off => p = q BY DEF Positions
<1>3. \A r \in Positions : r.seg \in Nat /\ r.off \in Nat BY DEF Positions
<1> QED BY <1>1, <1>2, <1>3 DEF Before

\* A set of positions that is not empty has a first one.
LEMMA FirstPosition ==
  ASSUME NEW P \in SUBSET Positions, P # {}
  PROVE  \E p \in P : \A q \in P : q = p \/ Before(p, q)
<1>0. \A p \in P : p.seg \in Nat /\ p.off \in Nat BY DEF Positions
<1> DEFINE S == {p.seg : p \in P}
<1>1. S \in SUBSET Nat /\ S # {} BY <1>0
<1>2. PICK s \in S : \A t \in S : s <= t
  <2> HIDE DEF S
  <2> QED BY <1>1, Smallest
<1> DEFINE O == {p.off : p \in {q \in P : q.seg = s}}
<1>3. O \in SUBSET Nat /\ O # {} BY <1>0, <1>2
<1>4. PICK o \in O : \A t \in O : o <= t
  <2> HIDE DEF O
  <2> QED BY <1>3, Smallest
<1>5. PICK p \in P : p.seg = s /\ p.off = o BY <1>4
<1>6. ASSUME NEW q \in P PROVE q = p \/ Before(p, q)
  <2>1. s <= q.seg /\ (q.seg = s => o <= q.off) BY <1>2, <1>4
  <2>2. q.seg = p.seg /\ q.off = p.off => q = p BY DEF Positions
  <2> QED BY <1>0, <1>5, <2>1, <2>2 DEF Before
<1> QED BY <1>6

\* A set of frames of a spool that is not empty has a last one.
LEMMA LastPosition ==
  ASSUME NEW log \in Seq(Seq(Frames)), NEW P \in SUBSET FramesOf(log), P # {}
  PROVE  \E p \in P : \A q \in P : q = p \/ Before(q, p)
<1>0. \A p \in P : /\ p \in Positions /\ p.seg \in Nat /\ p.off \in Nat
                   /\ p.seg \in 1..Len(log) /\ p.off \in 1..Len(log[p.seg])
  BY FramesMember DEF Positions
<1>a. Len(log) \in Nat /\ \A s \in 1..Len(log) : Len(log[s]) \in Nat OBVIOUS
<1> DEFINE S == {p.seg : p \in P}
<1>1. S \in SUBSET Nat /\ S # {} /\ \A n \in S : n <= Len(log) BY <1>0, <1>a
<1>2. PICK s \in S : \A t \in S : t <= s
  <2> HIDE DEF S
  <2> QED BY <1>1, <1>a, Largest
<1> DEFINE O == {p.off : p \in {q \in P : q.seg = s}}
<1>3. O \in SUBSET Nat /\ O # {} /\ Len(log[s]) \in Nat /\ \A n \in O : n <= Len(log[s])
  <2>1. PICK p \in P : p.seg = s BY <1>2
  <2>2. s \in 1..Len(log) /\ Len(log[s]) \in Nat BY <1>0, <1>a, <2>1
  <2>3. p.off \in O BY <2>1
  <2>4. \A q \in P : q.seg = s => q.off \in Nat /\ q.off <= Len(log[s]) BY <1>0, <2>2
  <2> QED BY <2>2, <2>3, <2>4
<1>4. PICK o \in O : \A t \in O : t <= o
  <2> HIDE DEF O
  <2> QED BY <1>3, Largest
<1>5. PICK p \in P : p.seg = s /\ p.off = o BY <1>4
<1>6. ASSUME NEW q \in P PROVE q = p \/ Before(q, p)
  <2>1. q.seg <= s /\ (q.seg = s => q.off <= o) BY <1>2, <1>4
  <2>2. q.seg = p.seg /\ q.off = p.off => q = p
    <3>1. p \in Positions /\ q \in Positions BY <1>0
    <3> QED BY ONLY <3>1 DEF Positions
  <2> QED BY <1>0, <1>5, <2>1, <2>2 DEF Before
<1> QED BY <1>6

----------------------------------------------------------------------------
(* Appending a frame *)

\* WithFrame adds one frame behind the checkpoint and behind all the others.
Extends(new, f, e) ==
  /\ new \in Seq(Seq(Frames))
  /\ e \in Positions /\ e \notin FramesOf(segs)
  /\ FramesOf(new) = FramesOf(segs) \cup {e} /\ new[e.seg][e.off] = f
  /\ e.seg = Len(new) /\ e.off = Len(new[e.seg])
  /\ \A p \in FramesOf(segs) : new[p.seg][p.off] = FrameAt(p) /\ Before(p, e)
  /\ Before(checkpoint, e)
  /\ Len(segs) <= Len(new) /\ \A s \in DOMAIN segs : Len(segs[s]) <= Len(new[s])

\* CdrSpool::append puts its frame there, in the open segment or in a new one.
LEMMA WithFrameExtends ==
  ASSUME TypeOK, SpoolOK, NEW f \in Frames
  PROVE  \E e \in Positions : Extends(WithFrame(f), f, e)
<1> DEFINE n == Len(segs)
<1>0. /\ segs \in Seq(Seq(Frames)) /\ n \in Nat /\ DOMAIN segs = 1..n
      /\ \A s \in 1..n : segs[s] \in Seq(Frames) /\ Len(segs[s]) \in Nat /\ DOMAIN segs[s] = 1..Len(segs[s])
  BY DEF TypeOK
<1>c. /\ checkpoint.seg \in Nat /\ checkpoint.off \in Nat /\ checkpoint.seg <= n
      /\ checkpoint.seg \in 1..n => checkpoint.off <= Len(segs[checkpoint.seg])
  BY <1>0 DEF TypeOK, SpoolOK
<1>1. CASE n = 0 \/ Len(segs[n]) >= SegmentFrames
  <2> DEFINE e == [seg |-> n + 1, off |-> 1]  new == Append(segs, <<f>>)
  <2>1. WithFrame(f) = new BY <1>1 DEF WithFrame, LastSegment
  <2>2. /\ new \in Seq(Seq(Frames)) /\ Len(new) = n + 1 /\ new[n + 1] = <<f>>
        /\ \A s \in 1..n : new[s] = segs[s]
    <3>1. <<f>> \in Seq(Frames) OBVIOUS
    <3> QED BY <1>0, <3>1, AppendProperties
  <2>3. e \in Positions /\ e.seg = n + 1 /\ e.off = 1 BY <1>0 DEF Positions
  <2>b. DOMAIN new = 1..(n + 1) /\ Len(<<f>>) = 1 /\ <<f>>[1] = f /\ DOMAIN <<f>> = 1..1
    BY <2>2, LenProperties
  <2> HIDE DEF e, new
  <2>4. e \notin FramesOf(segs) BY <2>3, <1>0, FramesMember
  <2>5. ASSUME NEW p \in Positions
        PROVE  p \in FramesOf(new) <=> p \in FramesOf(segs) \/ p = e
    <3>1. p \in FramesOf(new) <=> p.seg \in 1..(n + 1) /\ p.off \in DOMAIN new[p.seg]
      BY <2>2, <2>b, FramesMember
    <3>2. p \in FramesOf(segs) <=> p.seg \in 1..n /\ p.off \in DOMAIN segs[p.seg]
      BY <1>0, FramesMember
    <3>3. CASE p.seg \in 1..n
      <4>1. new[p.seg] = segs[p.seg] BY <3>3, <2>2
      <4>2. p # e /\ p.seg \in 1..(n + 1) BY <3>3, <2>3, <1>0
      <4> QED BY <3>1, <3>2, <3>3, <4>1, <4>2
    <3>4. CASE p.seg = n + 1
      <4>1. DOMAIN new[p.seg] = {1} BY <3>4, <2>2, <2>b
      <4>2. p = e <=> p.off = 1 BY <3>4, <2>3 DEF Positions
      <4> QED BY <3>1, <3>2, <3>4, <4>1, <4>2, <1>0
    <3>5. CASE p.seg \notin 1..(n + 1) BY <3>5, <3>1, <3>2, <2>3, <1>0
    <3>6. p.seg \in Nat BY DEF Positions
    <3> QED BY <3>3, <3>4, <3>5, <3>6, <1>0
  <2>6. FramesOf(new) = FramesOf(segs) \cup {e}
    <3>1. FramesOf(new) \subseteq Positions /\ FramesOf(segs) \subseteq Positions
      BY <2>2, <1>0, FramesMember
    <3> HIDE DEF e, new
    <3> QED BY <3>1, <2>5, <2>3
  <2>7. new[e.seg][e.off] = f /\ e.seg = Len(new) /\ e.off = Len(new[e.seg]) BY <2>2, <2>3, <2>b
  <2>8. \A p \in FramesOf(segs) : new[p.seg][p.off] = FrameAt(p) /\ Before(p, e)
    <3> TAKE p \in FramesOf(segs)
    <3>1. p.seg \in 1..n BY <1>0, FramesMember
    <3> QED BY <3>1, <2>2, <2>3, <1>0 DEF FrameAt, Before
  <2>9. Before(checkpoint, e) BY <1>c, <2>3, <1>0 DEF Before
  <2>10. Len(segs) <= Len(new) /\ \A s \in DOMAIN segs : Len(segs[s]) <= Len(new[s])
    BY <2>2, <1>0
  <2>11. Extends(new, f, e)
    <3> HIDE DEF e, new
    <3> QED BY <2>2, <2>3, <2>4, <2>6, <2>7, <2>8, <2>9, <2>10 DEF Extends
  <2> QED BY <2>1, <2>3, <2>11
<1>2. CASE ~(n = 0 \/ Len(segs[n]) >= SegmentFrames)
  <2> DEFINE k == Len(segs[n])  e == [seg |-> n, off |-> k + 1]
             new == [segs EXCEPT ![n] = Append(segs[n], f)]
  <2>0. n \in 1..n /\ k \in Nat BY <1>0, <1>2
  <2>1. WithFrame(f) = new BY <1>2 DEF WithFrame, LastSegment
  <2>a. /\ Append(segs[n], f) \in Seq(Frames) /\ Len(Append(segs[n], f)) = k + 1
        /\ Append(segs[n], f)[k + 1] = f /\ \A i \in 1..k : Append(segs[n], f)[i] = segs[n][i]
    BY <1>0, <2>0, AppendProperties
  <2>2. /\ new \in Seq(Seq(Frames)) /\ Len(new) = n /\ new[n] = Append(segs[n], f)
        /\ \A s \in 1..n : s # n => new[s] = segs[s]
    <3> DEFINE v == Append(segs[n], f)
    <3>1. v \in Seq(Frames) BY <2>a
    <3> HIDE DEF v
    <3>2. /\ [segs EXCEPT ![n] = v] \in Seq(Seq(Frames)) /\ Len([segs EXCEPT ![n] = v]) = Len(segs)
          /\ \A i \in 1..Len(segs) : [segs EXCEPT ![n] = v][i] = IF i = n THEN v ELSE segs[i]
      BY <1>0, <2>0, <3>1, ExceptSeq
    <3> QED BY <3>2, <2>0 DEF v
  <2>3. e \in Positions /\ e.seg = n /\ e.off = k + 1 BY <1>0, <2>0 DEF Positions
  <2>b. DOMAIN new = 1..n /\ DOMAIN new[n] = 1..(k + 1) /\ Len(new[n]) = k + 1
    BY <2>2, <2>a, LenProperties
  <2>d. DOMAIN segs[n] = 1..k BY <1>0, <2>0
  <2> HIDE DEF e, new
  <2>4. e \notin FramesOf(segs) BY <2>0, <2>3, <1>0, FramesMember
  <2>5. ASSUME NEW p \in Positions
        PROVE  p \in FramesOf(new) <=> p \in FramesOf(segs) \/ p = e
    <3>1. p \in FramesOf(new) <=> p.seg \in 1..n /\ p.off \in DOMAIN new[p.seg]
      BY <2>2, <2>b, FramesMember
    <3>2. p \in FramesOf(segs) <=> p.seg \in 1..n /\ p.off \in DOMAIN segs[p.seg]
      BY <1>0, FramesMember
    <3>3. CASE p.seg # n BY <3>3, <3>1, <3>2, <2>2, <2>3, <1>0
    <3>4. CASE p.seg = n
      <4>1. DOMAIN new[p.seg] = 1..(k + 1) /\ DOMAIN segs[p.seg] = 1..k
        BY <3>4, <2>b, <2>d
      <4>2. p = e <=> p.off = k + 1 BY <3>4, <2>3 DEF Positions
      <4>3. p.off \in Nat BY DEF Positions
      <4> HIDE DEF k, e, new, n
      <4> QED BY <3>1, <3>2, <3>4, <4>1, <4>2, <4>3, <2>0
    <3> QED BY <3>3, <3>4
  <2>6. FramesOf(new) = FramesOf(segs) \cup {e}
    <3>1. FramesOf(new) \subseteq Positions /\ FramesOf(segs) \subseteq Positions
      BY <2>2, <1>0, FramesMember
    <3> HIDE DEF e, new
    <3> QED BY <3>1, <2>5, <2>3
  <2>7. new[e.seg][e.off] = f /\ e.seg = Len(new) /\ e.off = Len(new[e.seg])
    BY <2>2, <2>3, <2>a, <2>b
  <2>8. \A p \in FramesOf(segs) : new[p.seg][p.off] = FrameAt(p) /\ Before(p, e)
    <3> TAKE p \in FramesOf(segs)
    <3>1. p.seg \in 1..n /\ p.off \in 1..Len(segs[p.seg]) BY <1>0, FramesMember
    <3>2. CASE p.seg = n
      <4>1. p.off \in 1..k BY <3>1, <3>2
      <4>2. new[p.seg][p.off] = segs[n][p.off] BY <3>2, <4>1, <2>2, <2>a
      <4>3. p.off < k + 1 BY <4>1, <2>0
      <4> QED BY <3>2, <4>2, <4>3, <2>3 DEF FrameAt, Before
    <3>3. CASE p.seg # n
      <4>1. new[p.seg] = segs[p.seg] BY <3>1, <3>3, <2>2
      <4>2. p.seg < n BY <3>1, <3>3, <1>0
      <4> QED BY <4>1, <4>2, <2>3 DEF FrameAt, Before
    <3> QED BY <3>2, <3>3
  <2>9. Before(checkpoint, e) BY <1>c, <2>0, <2>3, <1>0 DEF Before
  <2>10. Len(segs) <= Len(new) /\ \A s \in DOMAIN segs : Len(segs[s]) <= Len(new[s])
    <3>1. Len(new[n]) = k + 1 BY <2>b
    <3>2. \A s \in 1..n : Len(segs[s]) <= Len(new[s])
      <4> TAKE s \in 1..n
      <4>1. CASE s = n BY <4>1, <3>1, <2>0
      <4>2. CASE s # n BY <4>2, <2>2, <1>0
      <4> QED BY <4>1, <4>2
    <3> QED BY <2>2, <1>0, <3>2
  <2>11. Extends(new, f, e)
    <3> HIDE DEF e, new
    <3> QED BY <2>2, <2>3, <2>4, <2>6, <2>7, <2>8, <2>9, <2>10 DEF Extends
  <2> QED BY <2>1, <2>3, <2>11
<1> QED BY <1>1, <1>2

\* What an append changes of the spool.
LEMMA AppendedFrame ==
  ASSUME TypeOK, SpoolOK, NEW f \in Frames, segs' = WithFrame(f), UNCHANGED checkpoint
  PROVE  \E e \in Positions :
           /\ Extends(segs', f, e) /\ e \notin Unread /\ Unread' = Unread \cup {e}
           /\ \A p \in FramesOf(segs) : FrameAt(p)' = FrameAt(p)
           /\ FrameAt(e)' = f /\ FramesOf(segs)' = FramesOf(segs) \cup {e}
<1>1. PICK e \in Positions : Extends(segs', f, e) BY WithFrameExtends
<1>2. FramesOf(segs)' = FramesOf(segs) \cup {e}
  BY <1>1 DEF Extends, FramesOf
<1>3. Unread' = Unread \cup {e} /\ e \notin Unread
  BY <1>1, <1>2 DEF Extends, Unread
<1>4. FrameAt(e)' = f /\ \A p \in FramesOf(segs) : FrameAt(p)' = FrameAt(p)
  BY <1>1 DEF Extends, FrameAt
<1> QED BY <1>1, <1>2, <1>3, <1>4

\* An append keeps the checkpoint within the spool and the settled frames
\* settled, and loses no record.
LEMMA AppendKeepsSpool ==
  ASSUME TypeOK, SpoolOK, CheckpointIsSettled, NEW f \in Frames, segs' = WithFrame(f),
         UNCHANGED <<checkpoint, quarantine, db>>, ~up' => worker'.step = "idle"
  PROVE  /\ segs' \in Seq(Seq(Frames)) /\ SpoolOK' /\ CheckpointIsSettled'
         /\ KeptRecords \subseteq KeptRecords'
         /\ f.kind # "torn" => f.cdr \in KeptRecords'
<1>1. PICK e \in Positions :
           /\ Extends(segs', f, e) /\ e \notin Unread /\ Unread' = Unread \cup {e}
           /\ \A p \in FramesOf(segs) : FrameAt(p)' = FrameAt(p)
           /\ FrameAt(e)' = f /\ FramesOf(segs)' = FramesOf(segs) \cup {e}
  BY AppendedFrame
<1>2. segs' \in Seq(Seq(Frames)) BY <1>1 DEF Extends
<1>3. SpoolOK'
  <2>1. IsFiniteSet(FramesOf(segs)') BY <1>1, FS_AddElement DEF SpoolOK
  <2>2. Len(segs) <= Len(segs') /\ \A s \in DOMAIN segs : Len(segs[s]) <= Len(segs'[s])
    BY <1>1 DEF Extends
  <2>3. Len(segs) \in Nat /\ Len(segs') \in Nat /\ DOMAIN segs = 1..Len(segs) /\ DOMAIN segs' = 1..Len(segs')
    BY <1>2 DEF TypeOK
  <2>4. checkpoint.seg \in Nat /\ checkpoint.off \in Nat /\ checkpoint.seg <= Len(segs) BY DEF TypeOK, SpoolOK
  <2>5. \A s \in DOMAIN segs : Len(segs[s]) \in Nat BY DEF TypeOK
  <2>6. \A s \in DOMAIN segs' : Len(segs'[s]) \in Nat BY <1>2
  <2>7. checkpoint.seg <= Len(segs') BY <2>2, <2>3, <2>4
  <2>8. ASSUME checkpoint.seg \in DOMAIN segs' PROVE checkpoint.off <= Len(segs'[checkpoint.seg])
    <3>1. checkpoint.seg \in DOMAIN segs BY <2>3, <2>4, <2>8
    <3>2. checkpoint.off <= Len(segs[checkpoint.seg]) BY <3>1 DEF SpoolOK
    <3> QED BY <3>1, <3>2, <2>2, <2>4, <2>5, <2>6, <2>8
  <2> QED BY <2>1, <2>7, <2>8 DEF SpoolOK
<1>4. CheckpointIsSettled'
  <2> SUFFICES ASSUME NEW p \in FramesOf(segs)' \ Unread', FrameAt(p)'.kind # "torn"
               PROVE  FrameAt(p)'.cdr \in db \cup quarantine
    BY DEF CheckpointIsSettled
  <2>1. p \in FramesOf(segs) \ Unread /\ FrameAt(p)' = FrameAt(p) BY <1>1
  <2> QED BY <2>1 DEF CheckpointIsSettled
<1>5. KeptRecords \subseteq KeptRecords'
  <2>1. Unread \subseteq FramesOf(segs) BY DEF Unread
  <2> QED BY <1>1, <2>1 DEF KeptRecords, Settled
<1>6. f.kind # "torn" => f.cdr \in KeptRecords'
  BY <1>1 DEF KeptRecords
<1> QED BY <1>2, <1>3, <1>4, <1>5, <1>6

\* An append of a whole frame leaves the worker its next frame.
LEMMA AppendKeepsWorker ==
  ASSUME TypeOK, SpoolOK, WorkerOK, NEW f \in Frames, f.kind = "ok", segs' = WithFrame(f),
         UNCHANGED <<checkpoint, quarantine, db, worker>>
  PROVE  WorkerOK'
<1>1. PICK e \in Positions :
           /\ Extends(segs', f, e) /\ e \notin Unread /\ Unread' = Unread \cup {e}
           /\ \A p \in FramesOf(segs) : FrameAt(p)' = FrameAt(p)
           /\ FrameAt(e)' = f /\ FramesOf(segs)' = FramesOf(segs) \cup {e}
  BY AppendedFrame
<1>2. Unread \subseteq FramesOf(segs) BY DEF Unread
<1> SUFFICES ASSUME Replaying' PROVE WorkerOK' BY DEF WorkerOK
<1>3. Replaying BY DEF Replaying
<1>4. \A p \in Unread' : FrameAt(p)'.kind # "torn" BY <1>1, <1>2, <1>3 DEF WorkerOK
<1>5. \A p \in Unread' : FrameAt(p)'.kind = "bad" => FrameAt(p)'.cdr \in quarantine'
  BY <1>1, <1>2, <1>3 DEF WorkerOK
<1>6. Before(checkpoint, worker.end) => worker.end \in FramesOf(segs)' BY <1>1, <1>3 DEF WorkerOK
<1>7. worker.step \in {"work", "ack"} => Before(checkpoint, worker.end) BY <1>3 DEF WorkerOK
<1>8. ASSUME worker.step = "ack", NEW p \in Unread', IsNext(p)'
      PROVE  FrameAt(p)'.cdr \in Settled'
  <2>1. worker.end \in Unread BY <1>3, <1>8 DEF WorkerOK, Unread
  <2>2. \A q \in Unread' : q = p \/ Before(p, q) BY <1>8 DEF IsNext, Before
  <2>3. worker.end \in Positions /\ worker.end \in FramesOf(segs)
    BY <2>1, <1>2 DEF TypeOK, Positions
  <2>4. Before(worker.end, e) BY <1>1, <2>3 DEF Extends
  <2>5. p # e
    <3> SUFFICES ASSUME p = e PROVE FALSE OBVIOUS
    <3>1. worker.end = e \/ Before(e, worker.end) BY <1>1, <2>1, <2>2
    <3>2. worker.end # e BY <1>1, <2>1
    <3> QED BY <3>1, <3>2, <2>3, <2>4, BeforeOrder
  <2>6. p \in Unread /\ IsNext(p) BY <1>1, <2>2, <2>5 DEF IsNext
  <2> QED BY <2>6, <1>1, <1>2, <1>3, <1>8 DEF WorkerOK, Settled
<1> QED BY <1>4, <1>5, <1>6, <1>7, <1>8 DEF WorkerOK, Before

----------------------------------------------------------------------------
(* The worker's replay *)

\* The frame that follows the checkpoint exists and is the only first one.
LEMMA NextUnreadIsFirst ==
  ASSUME TypeOK, Unread # {}
  PROVE  /\ NextUnread \in Unread /\ IsNext(NextUnread)
         /\ \A p \in Unread : IsNext(p) => p = NextUnread
<1>1. Unread \in SUBSET Positions BY FramesMember DEF Unread, TypeOK
<1>2. \E p \in Unread : \A q \in Unread : q = p \/ Before(p, q) BY <1>1, FirstPosition
<1>3. NextUnread \in Unread /\ \A q \in Unread : q = NextUnread \/ Before(NextUnread, q)
  BY <1>2 DEF NextUnread
<1>4. ASSUME NEW p \in Unread, IsNext(p) PROVE p = NextUnread
  <2>1. NextUnread = p \/ Before(p, NextUnread) BY <1>3, <1>4 DEF IsNext
  <2>2. p = NextUnread \/ Before(NextUnread, p) BY <1>3
  <2>3. p \in Positions /\ NextUnread \in Positions BY <1>1, <1>3
  <2> QED BY <2>1, <2>2, <2>3, BeforeOrder
<1> QED BY <1>3, <1>4 DEF IsNext

\* While the worker has a frame to work on, that frame is the next one.
LEMMA WorkIsAhead ==
  ASSUME TypeOK, WorkerOK, worker.step \in {"work", "ack"}
  PROVE  /\ NextUnread \in Unread /\ IsNext(NextUnread)
         /\ \A p \in Unread : IsNext(p) => p = NextUnread
<1>1. worker.end \in Unread BY DEF WorkerOK, Replaying, Unread
<1> QED BY <1>1, NextUnreadIsFirst

\* The first incomplete frame of a segment.
LEMMA CutIsFirst ==
  ASSUME TypeOK, NEW s \in DOMAIN segs, Torn(s) # {}
  PROVE  CutOf(s) \in Torn(s) /\ \A k \in Torn(s) : CutOf(s) <= k
<1>1. Torn(s) \in SUBSET Nat BY DEF Torn, TypeOK
<1>2. \E i \in Torn(s) : \A k \in Torn(s) : i <= k
  <2> HIDE DEF Torn
  <2> QED BY <1>1, Smallest
<1> QED BY <1>2 DEF CutOf

\* What a replay leaves of a segment.
LEMMA KeptSegment ==
  ASSUME TypeOK, NEW s \in DOMAIN segs
  PROVE  /\ Kept(s) \in Seq(Frames) /\ Len(Kept(s)) <= Len(segs[s])
         /\ \A i \in 1..Len(Kept(s)) : Kept(s)[i] = segs[s][i] /\ i \notin Torn(s)
         /\ \A i \in 1..Len(segs[s]) :
              i > Len(Kept(s)) => /\ Before(checkpoint, Position(s, i))
                                  /\ Torn(s) # {} /\ CutOf(s) \in 1..Len(segs[s])
                                  /\ i = CutOf(s) \/ i \in (CutOf(s) + 1)..Len(segs[s])
<1>0. segs[s] \in Seq(Frames) /\ Len(segs[s]) \in Nat /\ DOMAIN segs[s] = 1..Len(segs[s]) /\ s \in Nat
  BY DEF TypeOK
<1>1. CASE Torn(s) = {} BY <1>0, <1>1 DEF Kept
<1>2. CASE Torn(s) # {}
  <2> DEFINE c == CutOf(s)
  <2>1. c \in Torn(s) /\ \A k \in Torn(s) : c <= k BY <1>2, CutIsFirst
  <2>2. c \in 1..Len(segs[s]) /\ Before(checkpoint, Position(s, c))
    BY <2>1, <1>0 DEF Torn
  <2>3. Kept(s) = SubSeq(segs[s], 1, c - 1) BY <1>2 DEF Kept
  <2> HIDE DEF c
  <2>4. /\ Kept(s) \in Seq(Frames) /\ Len(Kept(s)) = c - 1
        /\ \A i \in 1..(c - 1) : Kept(s)[i] = segs[s][i]
    BY <2>2, <2>3, <1>0
  <2>5. Torn(s) \subseteq Nat BY <1>0 DEF Torn
  <2>6. \A i \in 1..(c - 1) : i \notin Torn(s)
    <3> SUFFICES ASSUME NEW i \in 1..(c - 1), i \in Torn(s) PROVE FALSE OBVIOUS
    <3>1. c <= i /\ i <= c - 1 /\ i \in Nat /\ c \in Nat BY <2>1, <2>2
    <3> QED BY ONLY <3>1
  <2>7. ASSUME NEW i \in 1..Len(segs[s]), i > c - 1
        PROVE  /\ Before(checkpoint, Position(s, i))
               /\ i = c \/ i \in (c + 1)..Len(segs[s])
    <3>1. c <= i BY <2>2, <2>7, <1>0
    <3>2. checkpoint.seg \in Nat /\ checkpoint.off \in Nat BY DEF TypeOK
    <3>3. Before(checkpoint, Position(s, i)) BY <3>1, <3>2, <2>2, <1>0 DEF Before, Position
    <3> QED BY <3>1, <3>3, <2>2, <1>0
  <2> QED BY <1>2, <2>2, <2>4, <2>6, <2>7, <1>0 DEF c
<1> QED BY <1>1, <1>2

\* A replay keeps the checkpoint within the spool, keeps the frames it keeps
\* in their places, and leaves no incomplete one ahead of the checkpoint.
LEMMA RecoveredSpool ==
  ASSUME TypeOK, SpoolOK
  PROVE  /\ Recovered \in Seq(Seq(Frames)) /\ Len(Recovered) = Len(segs)
         /\ \A s \in DOMAIN segs : Recovered[s] = Kept(s)
         /\ FramesOf(Recovered) \subseteq FramesOf(segs)
         /\ \A p \in FramesOf(Recovered) : /\ Recovered[p.seg][p.off] = FrameAt(p)
                                           /\ Before(checkpoint, p) => FrameAt(p).kind # "torn"
         /\ checkpoint.seg \in DOMAIN Recovered => checkpoint.off <= Len(Recovered[checkpoint.seg])
<1>0. /\ segs \in Seq(Seq(Frames)) /\ Len(segs) \in Nat /\ DOMAIN segs = 1..Len(segs)
      /\ \A s \in DOMAIN segs : Len(segs[s]) \in Nat /\ DOMAIN segs[s] = 1..Len(segs[s]) /\ segs[s] \in Seq(Frames)
  BY DEF TypeOK
<1>1. \A s \in DOMAIN segs : Recovered[s] = Kept(s) BY DEF Recovered
<1>2. \A s \in DOMAIN segs : Kept(s) \in Seq(Frames) BY KeptSegment
<1>3. Recovered \in Seq(Seq(Frames)) /\ Len(Recovered) = Len(segs) /\ DOMAIN Recovered = DOMAIN segs
  BY <1>0, <1>2 DEF Recovered
<1>4. ASSUME NEW p \in FramesOf(Recovered)
      PROVE  /\ p \in FramesOf(segs) /\ Recovered[p.seg][p.off] = FrameAt(p)
             /\ Before(checkpoint, p) => FrameAt(p).kind # "torn"
  <2>1. p \in Positions /\ p.seg \in DOMAIN segs /\ p.off \in 1..Len(Kept(p.seg))
    BY <1>1, <1>3, <1>0, FramesMember
  <2>2. /\ Len(Kept(p.seg)) <= Len(segs[p.seg]) /\ Kept(p.seg)[p.off] = segs[p.seg][p.off]
        /\ p.off \notin Torn(p.seg)
    BY <2>1, KeptSegment
  <2>3. Len(Kept(p.seg)) \in Nat BY <1>2, <2>1
  <2>4. p.off \in DOMAIN segs[p.seg] BY <2>1, <2>2, <2>3, <1>0
  <2>5. p \in FramesOf(segs) BY <2>1, <2>4, <1>0, FramesMember
  <2>6. p = Position(p.seg, p.off) BY <2>1 DEF Positions, Position
  <2> QED BY <2>1, <2>2, <2>4, <2>5, <2>6, <1>1 DEF Torn, FrameAt
<1>5. ASSUME checkpoint.seg \in DOMAIN Recovered
      PROVE  checkpoint.off <= Len(Recovered[checkpoint.seg])
  <2> DEFINE s == checkpoint.seg
  <2>1. s \in DOMAIN segs /\ checkpoint.off <= Len(segs[s]) /\ checkpoint.off \in Nat
    BY <1>3, <1>5 DEF SpoolOK, TypeOK
  <2>2. Len(Kept(s)) \in Nat BY <1>2, <2>1
  <2> SUFFICES ASSUME checkpoint.off > Len(Kept(s)) PROVE FALSE BY <1>1, <2>1, <2>2
  <2>3. checkpoint.off \in 1..Len(segs[s]) BY <2>1, <2>2, <1>0
  <2>4. Before(checkpoint, Position(s, checkpoint.off)) BY <2>1, <2>3, KeptSegment
  <2> QED BY <2>4, <2>1, <1>0 DEF Before, Position
<1> QED BY <1>1, <1>3, <1>4, <1>5

\* What the replay sets aside are records.
LEMMA SetAsideRecords ==
  ASSUME TypeOK, SpoolOK
  PROVE  Invalid \subseteq Cdrs /\ \A s \in Nat : Behind(s) \subseteq Cdrs
<1>1. \A p \in FramesOf(segs) : FrameAt(p).cdr \in Cdrs
  BY FramesMember DEF TypeOK, FrameAt, Frames
<1>2. Invalid \subseteq Cdrs BY <1>1 DEF Invalid, Unread
<1>3. ASSUME NEW s \in Nat, NEW r \in Behind(s) PROVE r \in Cdrs
  <2>1. s \in DOMAIN segs /\ Torn(s) # {} BY <1>3 DEF Behind
  <2>2. PICK i \in (CutOf(s) + 1)..Len(segs[s]) : r = segs[s][i].cdr BY <1>3, <2>1 DEF Behind
  <2>3. segs[s] \in Seq(Frames) BY <2>1 DEF TypeOK
  <2>4. CutOf(s) \in Torn(s) BY <2>1, CutIsFirst
  <2>5. CutOf(s) \in 1..Len(segs[s]) BY <2>4, <2>3 DEF Torn
  <2>6. i \in 1..Len(segs[s]) BY <2>2, <2>3, <2>5
  <2>7. segs[s][i] \in Frames BY <2>3, <2>6
  <2> QED BY <2>2, <2>7 DEF Frames
<1> QED BY <1>2, <1>3

\* A replay hands the worker whole frames, and the invalid ones are set aside.
LEMMA LoadEntriesSpool ==
  ASSUME TypeOK, SpoolOK, WorkerOK, CheckpointIsSettled, NEW keep \in BOOLEAN, LoadEntries(keep)
  PROVE  TypeOK' /\ SpoolOK' /\ WorkerOK' /\ CheckpointIsSettled'
<1>1. /\ Recovered \in Seq(Seq(Frames)) /\ Len(Recovered) = Len(segs)
      /\ FramesOf(Recovered) \subseteq FramesOf(segs)
      /\ \A p \in FramesOf(Recovered) : /\ Recovered[p.seg][p.off] = FrameAt(p)
                                        /\ Before(checkpoint, p) => FrameAt(p).kind # "torn"
      /\ checkpoint.seg \in DOMAIN Recovered => checkpoint.off <= Len(Recovered[checkpoint.seg])
  BY RecoveredSpool
<1>2. /\ segs' = Recovered /\ up /\ UNCHANGED <<checkpoint, db, up>> /\ recovered' = TRUE
      /\ quarantine \subseteq quarantine' /\ Invalid \subseteq quarantine'
  BY DEF LoadEntries
<1>a. UNCHANGED <<call, queue, stop, wake, written, adm, events>> BY DEF LoadEntries
<1>3. /\ FramesOf(segs)' = FramesOf(Recovered)
      /\ \A p \in FramesOf(Recovered) : FrameAt(p)' = FrameAt(p)
      /\ Unread' = {p \in FramesOf(Recovered) : Before(checkpoint, p)}
  <2>1. FramesOf(segs)' = FramesOf(Recovered) BY <1>2 DEF FramesOf
  <2>2. \A p \in FramesOf(Recovered) : FrameAt(p)' = FrameAt(p) BY <1>1, <1>2 DEF FrameAt
  <2>3. Unread' = {p \in FramesOf(segs)' : Before(checkpoint, p)} BY <1>2 DEF Unread, Before
  <2> QED BY <2>1, <2>2, <2>3
<1>4. SpoolOK'
  <2>1. IsFiniteSet(FramesOf(segs)') BY <1>1, <1>3, FS_Subset DEF SpoolOK
  <2> QED BY <1>1, <1>2, <2>1 DEF SpoolOK
<1>5. CheckpointIsSettled' BY <1>1, <1>2, <1>3 DEF CheckpointIsSettled, Unread
<1>6. worker' = IF Unread' = {} THEN Idle
                ELSE [worker EXCEPT !.step = "work",
                        !.end = CHOOSE p \in Unread' : \A q \in Unread' : q = p \/ Before(q, p)]
  BY <1>3 DEF LoadEntries
<1>7. ASSUME Unread' = {}
      PROVE  worker' \in [step : Steps, end : Positions, backlog : Nat] /\ WorkerOK'
  <2>1. worker' = Idle BY <1>6, <1>7
  <2>2. worker'.step = "idle" /\ worker' \in [step : Steps, end : Positions, backlog : Nat]
    BY <2>1 DEF Idle, Steps, Positions, Position
  <2> QED BY <2>2 DEF WorkerOK, Replaying
<1>8. ASSUME Unread' # {}
      PROVE  worker' \in [step : Steps, end : Positions, backlog : Nat] /\ WorkerOK'
  <2> DEFINE last == CHOOSE p \in Unread' : \A q \in Unread' : q = p \/ Before(q, p)
  <2>1. last \in Unread'
    <3>1. Unread' \in SUBSET FramesOf(Recovered) BY <1>3
    <3>2. \E p \in Unread' : \A q \in Unread' : q = p \/ Before(q, p)
      BY <3>1, <1>1, <1>8, LastPosition
    <3> QED BY <3>2
  <2> HIDE DEF last
  <2>2. worker \in [step : Steps, end : Positions, backlog : Nat] BY DEF TypeOK, Steps, Positions
  <2>3. worker' = [worker EXCEPT !.step = "work", !.end = last] BY <1>6, <1>8 DEF last
  <2>4. last \in Positions /\ last \in FramesOf(Recovered) /\ Before(checkpoint, last)
    BY <2>1, <1>1, <1>3, FramesMember
  <2>5. worker'.step = "work" /\ worker'.end = last BY <2>2, <2>3
  <2>6. worker' \in [step : Steps, end : Positions, backlog : Nat] BY <2>2, <2>3, <2>4 DEF Steps
  <2>7. \A p \in Unread' : FrameAt(p)'.kind = "bad" => FrameAt(p)'.cdr \in quarantine'
    <3> TAKE p \in Unread'
    <3>1. p \in Unread \cap FramesOf(Recovered) /\ FrameAt(p)' = FrameAt(p) BY <1>1, <1>3 DEF Unread
    <3> QED BY <3>1, <1>2 DEF Invalid
  <2>8. \A p \in Unread' : FrameAt(p)'.kind # "torn" BY <1>1, <1>3
  <2>9. worker'.end \in FramesOf(segs)' /\ Before(checkpoint', worker'.end) BY <2>4, <2>5, <1>2, <1>3
  <2>10. WorkerOK' BY <2>5, <2>7, <2>8, <2>9 DEF WorkerOK, Before
  <2> QED BY <2>6, <2>10
<1>9. worker' \in [step : Steps, end : Positions, backlog : Nat] /\ WorkerOK' BY <1>7, <1>8
<1>10. quarantine' \subseteq Cdrs
  <2>1. LastSegment \in Nat BY DEF LastSegment, TypeOK
  <2>2. quarantine' = quarantine \cup Invalid \cup (UNION {Behind(s) : s \in 1..(LastSegment - 1)})
                        \cup (IF keep THEN Behind(LastSegment) ELSE {})
    BY DEF LoadEntries
  <2>3. Invalid \subseteq Cdrs /\ (\A s \in Nat : Behind(s) \subseteq Cdrs) BY SetAsideRecords
  <2>5. quarantine \subseteq Cdrs BY DEF TypeOK
  <2> SUFFICES ASSUME NEW r \in quarantine' PROVE r \in Cdrs OBVIOUS
  <2>6. \/ r \in quarantine \cup Invalid
        \/ \E s \in 1..(LastSegment - 1) : r \in Behind(s)
        \/ r \in Behind(LastSegment)
    <3>1. \/ r \in quarantine \cup Invalid
          \/ r \in UNION {Behind(s) : s \in 1..(LastSegment - 1)}
          \/ r \in (IF keep THEN Behind(LastSegment) ELSE {})
      BY <2>2, Zenon
    <3>2. r \in UNION {Behind(s) : s \in 1..(LastSegment - 1)}
           => \E s \in 1..(LastSegment - 1) : r \in Behind(s)
      BY Zenon
    <3> QED BY <3>1, <3>2, Zenon
  <2> QED BY <2>1, <2>3, <2>5, <2>6
<1>11. TypeOK' BY <1>1, <1>2, <1>a, <1>9, <1>10 DEF TypeOK, Steps, Positions
<1> QED BY <1>4, <1>5, <1>9, <1>11

\* A step of the worker that leaves the files alone and stays within a replay.
LEMMA StepKeepsSpool ==
  ASSUME TypeOK, SpoolOK, CheckpointIsSettled, UNCHANGED disk, ~up' => worker'.step = "idle"
  PROVE  SpoolOK' /\ CheckpointIsSettled' /\ Unread' = Unread /\ KeptRecords' = KeptRecords
<1>1. segs' = segs /\ checkpoint' = checkpoint /\ db' = db /\ quarantine' = quarantine BY DEF disk
<1>2. Unread' = Unread /\ FramesOf(segs)' = FramesOf(segs) BY <1>1 DEF Unread, FramesOf, Before
<1>3. \A p : FrameAt(p)' = FrameAt(p) BY <1>1 DEF FrameAt
<1>4. SpoolOK' BY <1>1, <1>2 DEF SpoolOK
<1>5. CheckpointIsSettled' BY <1>1, <1>2, <1>3 DEF CheckpointIsSettled
<1>6. KeptRecords' = KeptRecords BY <1>1, <1>2, <1>3 DEF KeptRecords, Settled
<1> QED BY <1>2, <1>4, <1>5, <1>6

\* ... keeps what the worker relies on, when it moves to a step that asks no
\* more of the spool.
LEMMA StepKeepsWorker ==
  ASSUME WorkerOK, UNCHANGED disk, worker'.end = worker.end,
         worker'.step \notin {"idle", "load"} => Replaying,
         worker'.step \in {"work", "ack"} => Before(checkpoint, worker.end),
         worker'.step = "ack" => \A p \in Unread : IsNext(p) => FrameAt(p).cdr \in Settled
  PROVE  WorkerOK'
<1>1. segs' = segs /\ checkpoint' = checkpoint /\ db' = db /\ quarantine' = quarantine BY DEF disk
<1>2. Unread' = Unread /\ FramesOf(segs)' = FramesOf(segs) BY <1>1 DEF Unread, FramesOf, Before
<1>3. \A p : FrameAt(p)' = FrameAt(p) BY <1>1 DEF FrameAt
<1>4. \A p : IsNext(p)' = IsNext(p) BY <1>2 DEF IsNext, Before
<1>5. Settled' = Settled BY <1>1 DEF Settled
<1>6. Before(checkpoint, worker.end)' = Before(checkpoint, worker.end) BY <1>1 DEF Before
<1> SUFFICES ASSUME Replaying' PROVE WorkerOK' BY DEF WorkerOK
<1>7. Replaying BY DEF Replaying
<1> QED BY <1>1, <1>2, <1>3, <1>4, <1>5, <1>6, <1>7 DEF WorkerOK

\* persist_cdr_batch settles the frame the worker acknowledges next.
LEMMA PersistRecordSpool ==
  ASSUME TypeOK, SpoolOK, WorkerOK, CheckpointIsSettled, PersistRecord
  PROVE  TypeOK' /\ SpoolOK' /\ WorkerOK' /\ CheckpointIsSettled' /\ KeptRecords \subseteq KeptRecords'
<1>1. /\ UNCHANGED <<call, queue, stop, segs, checkpoint, quarantine, wake, written, adm, up, recovered, events>>
      /\ up /\ worker.step = "work" /\ db' = db \cup {FrameAt(NextUnread).cdr}
      /\ worker' = [worker EXCEPT !.step = "ack"]
  BY DEF PersistRecord
<1>2. NextUnread \in Unread /\ \A p \in Unread : IsNext(p) => p = NextUnread BY <1>1, WorkIsAhead
<1>3. FrameAt(NextUnread).cdr \in Cdrs
  BY <1>2, FramesMember DEF Unread, TypeOK, FrameAt, Frames
<1>4. worker \in [step : Steps, end : Positions, backlog : Nat] BY DEF TypeOK, Steps, Positions
<1>5. /\ worker' \in [step : Steps, end : Positions, backlog : Nat]
      /\ worker'.step = "ack" /\ worker'.end = worker.end
  BY <1>1, <1>4 DEF Steps
<1>6. TypeOK' BY <1>1, <1>3, <1>5 DEF TypeOK, Steps, Positions
<1>7. Unread' = Unread /\ FramesOf(segs)' = FramesOf(segs) BY <1>1 DEF Unread, FramesOf, Before
<1>8. \A p : FrameAt(p)' = FrameAt(p) BY <1>1 DEF FrameAt
<1>9. \A p : IsNext(p)' = IsNext(p) BY <1>7 DEF IsNext, Before
<1>10. SpoolOK' BY <1>1, <1>7 DEF SpoolOK
<1>11. CheckpointIsSettled' BY <1>1, <1>7, <1>8 DEF CheckpointIsSettled
<1>12. KeptRecords \subseteq KeptRecords' BY <1>1, <1>7, <1>8 DEF KeptRecords, Settled
<1>13. WorkerOK'
  <2>1. Replaying BY <1>1 DEF Replaying
  <2>2. Before(checkpoint, worker.end)' = Before(checkpoint, worker.end) BY <1>1, <1>5 DEF Before
  <2>3. /\ \A p \in Unread : FrameAt(p).kind # "torn"
        /\ \A p \in Unread : FrameAt(p).kind = "bad" => FrameAt(p).cdr \in quarantine
        /\ Before(checkpoint, worker.end) /\ worker.end \in FramesOf(segs)
    BY <2>1, <1>1 DEF WorkerOK
  <2>4. \A p \in Unread : IsNext(p) => FrameAt(p).cdr \in Settled'
    BY <1>1, <1>2 DEF Settled
  <2> QED BY <2>2, <2>3, <2>4, <1>1, <1>5, <1>7, <1>8, <1>9 DEF WorkerOK
<1> QED BY <1>6, <1>10, <1>11, <1>12, <1>13

\* The checkpoint passes one frame, a settled one.
LEMMA AcknowledgeSpool ==
  ASSUME TypeOK, SpoolOK, WorkerOK, CheckpointIsSettled, Acknowledge
  PROVE  /\ TypeOK' /\ SpoolOK' /\ WorkerOK' /\ CheckpointIsSettled' /\ KeptRecords \subseteq KeptRecords'
         /\ Unread' \subseteq Unread
<1> DEFINE c == NextUnread
<1>1. /\ UNCHANGED <<call, queue, stop, segs, quarantine, db, wake, written, adm, up, recovered, events>>
      /\ up /\ worker.step = "ack" /\ checkpoint' = c
      /\ worker' = [worker EXCEPT !.step = "purge"]
  BY DEF Acknowledge
<1>2. c \in Unread /\ IsNext(c) BY <1>1, WorkIsAhead
<1>3. FrameAt(c).cdr \in Settled BY <1>1, <1>2 DEF WorkerOK, Replaying
<1> HIDE DEF c
<1>0. FramesOf(segs) \subseteq Positions /\ checkpoint \in Positions BY FramesMember DEF TypeOK, Positions
<1>4. worker \in [step : Steps, end : Positions, backlog : Nat] BY DEF TypeOK, Steps, Positions
<1>5. /\ worker' \in [step : Steps, end : Positions, backlog : Nat]
      /\ worker'.step = "purge" /\ worker'.end = worker.end
  BY <1>1, <1>4 DEF Steps
<1>6. c \in FramesOf(segs) /\ c \in Positions /\ Before(checkpoint, c) BY <1>0, <1>2 DEF Unread
<1>7. TypeOK' BY <1>1, <1>5, <1>6 DEF TypeOK, Steps, Positions
<1>8. FramesOf(segs)' = FramesOf(segs) /\ \A p : FrameAt(p)' = FrameAt(p) BY <1>1 DEF FramesOf, FrameAt
<1>9. Unread' = {p \in FramesOf(segs) : Before(c, p)} BY <1>1, <1>8 DEF Unread, Before
<1>10. Unread' \subseteq Unread BY <1>0, <1>6, <1>9, BeforeOrder DEF Unread
<1>11. \A p \in Unread : p = c \/ p \in Unread' BY <1>2, <1>9 DEF IsNext, Unread
<1>12. SpoolOK'
  <2>1. c.seg \in 1..Len(segs) /\ c.off \in 1..Len(segs[c.seg]) BY <1>6, FramesMember DEF TypeOK
  <2>2. Len(segs) \in Nat /\ Len(segs[c.seg]) \in Nat BY <2>1 DEF TypeOK
  <2>3. c.seg <= Len(segs) /\ c.off <= Len(segs[c.seg]) BY <2>1, <2>2
  <2> QED BY <2>3, <1>1, <1>8 DEF SpoolOK
<1>13. CheckpointIsSettled'
  <2> SUFFICES ASSUME NEW p \in FramesOf(segs) \ Unread', FrameAt(p).kind # "torn"
               PROVE  FrameAt(p).cdr \in db \cup quarantine
    BY <1>1, <1>8 DEF CheckpointIsSettled
  <2>1. p = c \/ p \in FramesOf(segs) \ Unread BY <1>11
  <2> QED BY <2>1, <1>3 DEF CheckpointIsSettled, Settled
<1>14. KeptRecords \subseteq KeptRecords'
  <2>1. Settled' = Settled BY <1>1 DEF Settled
  <2> QED BY <2>1, <1>3, <1>8, <1>11 DEF KeptRecords
<1>15. WorkerOK'
  <2>1. Replaying BY <1>1 DEF Replaying
  <2>2. worker.end \in FramesOf(segs) BY <2>1, <1>1 DEF WorkerOK
  <2>3. /\ \A p \in Unread : FrameAt(p).kind # "torn"
        /\ \A p \in Unread : FrameAt(p).kind = "bad" => FrameAt(p).cdr \in quarantine
    BY <2>1 DEF WorkerOK
  <2> QED BY <2>2, <2>3, <1>1, <1>5, <1>8, <1>10 DEF WorkerOK
<1> QED BY <1>7, <1>10, <1>12, <1>13, <1>14, <1>15

\* Only segments before the checkpoint are removed.
LEMMA PurgeSegmentsSpool ==
  ASSUME TypeOK, SpoolOK, WorkerOK, CheckpointIsSettled, PurgeSegments
  PROVE  /\ TypeOK' /\ SpoolOK' /\ WorkerOK' /\ CheckpointIsSettled' /\ KeptRecords \subseteq KeptRecords'
         /\ Unread' = Unread /\ Len(segs') = Len(segs)
         /\ \A p \in Unread : FrameAt(p)' = FrameAt(p) /\ segs'[p.seg] = segs[p.seg]
<1>1. /\ UNCHANGED <<call, queue, stop, checkpoint, quarantine, db, wake, written, adm, up, recovered, events>>
      /\ up /\ worker.step = "purge" /\ worker' = [worker EXCEPT !.step = "refresh"]
      /\ segs' = [s \in DOMAIN segs |-> IF s < checkpoint.seg THEN <<>> ELSE segs[s]]
  BY DEF PurgeSegments
<1>0. /\ segs \in Seq(Seq(Frames)) /\ Len(segs) \in Nat /\ DOMAIN segs = 1..Len(segs)
      /\ checkpoint.seg \in Nat /\ checkpoint.off \in Nat
      /\ \A s \in DOMAIN segs : segs[s] \in Seq(Frames)
  BY DEF TypeOK
<1>2. /\ segs' \in Seq(Seq(Frames)) /\ Len(segs') = Len(segs) /\ DOMAIN segs' = DOMAIN segs
      /\ \A s \in DOMAIN segs : segs'[s] = IF s < checkpoint.seg THEN <<>> ELSE segs[s]
  BY <1>0, <1>1
<1>3. worker \in [step : Steps, end : Positions, backlog : Nat] BY DEF TypeOK, Steps, Positions
<1>4. /\ worker' \in [step : Steps, end : Positions, backlog : Nat]
      /\ worker'.step = "refresh" /\ worker'.end = worker.end
  BY <1>1, <1>3 DEF Steps
<1>5. TypeOK' BY <1>1, <1>2, <1>4 DEF TypeOK, Steps, Positions
<1>6. ASSUME NEW p \in Positions
      PROVE  p \in FramesOf(segs') <=> p \in FramesOf(segs) /\ ~(p.seg < checkpoint.seg)
  <2>1. p \in FramesOf(segs') <=> p.seg \in DOMAIN segs /\ p.off \in DOMAIN segs'[p.seg]
    BY <1>2, FramesMember
  <2>2. p \in FramesOf(segs) <=> p.seg \in DOMAIN segs /\ p.off \in DOMAIN segs[p.seg]
    BY <1>0, FramesMember
  <2>3. CASE p.seg \in DOMAIN segs /\ p.seg < checkpoint.seg
    <3>1. DOMAIN segs'[p.seg] = {} BY <2>3, <1>2
    <3> QED BY <3>1, <2>1, <2>3
  <2>4. CASE p.seg \in DOMAIN segs /\ ~(p.seg < checkpoint.seg) BY <2>1, <2>2, <2>4, <1>2
  <2> QED BY <2>1, <2>2, <2>3, <2>4
<1>7. /\ FramesOf(segs)' \subseteq FramesOf(segs)
      /\ \A p \in FramesOf(segs) : ~(p.seg < checkpoint.seg) => p \in FramesOf(segs)'
  <2>1. FramesOf(segs) \subseteq Positions /\ FramesOf(segs') \subseteq Positions BY <1>0, <1>2, FramesMember
  <2>2. FramesOf(segs)' = FramesOf(segs') BY DEF FramesOf
  <2> QED BY <2>1, <2>2, <1>6
<1>8. ASSUME NEW p \in FramesOf(segs), ~(p.seg < checkpoint.seg)
      PROVE  FrameAt(p)' = FrameAt(p) /\ segs'[p.seg] = segs[p.seg]
  <2>1. p.seg \in DOMAIN segs BY <1>0, FramesMember
  <2> QED BY <2>1, <1>2, <1>8 DEF FrameAt
<1>9. \A p \in FramesOf(segs)' : FrameAt(p)' = FrameAt(p) BY <1>6, <1>7, <1>8, <1>2, FramesMember DEF FramesOf
<1>10. \A p \in Unread : p \in FramesOf(segs) /\ ~(p.seg < checkpoint.seg)
  <2> TAKE p \in Unread
  <2>1. p \in FramesOf(segs) /\ Before(checkpoint, p) BY DEF Unread
  <2>2. p.seg \in Nat BY <2>1, <1>0, FramesMember
  <2> QED BY <2>1, <2>2, <1>0 DEF Before
<1>11. Unread' = Unread
  <2>1. Unread' = {p \in FramesOf(segs)' : Before(checkpoint, p)} BY <1>1 DEF Unread, Before
  <2>2. Unread' \subseteq Unread BY <2>1, <1>7 DEF Unread
  <2>3. ASSUME NEW p \in Unread PROVE p \in Unread'
    <3>1. p \in FramesOf(segs)' /\ Before(checkpoint, p) BY <1>7, <1>10 DEF Unread
    <3> QED BY <3>1, <2>1
  <2> QED BY <2>2, <2>3
<1>12. SpoolOK'
  <2>1. IsFiniteSet(FramesOf(segs)') BY <1>7, FS_Subset DEF SpoolOK
  <2>2. checkpoint.seg \in DOMAIN segs => segs'[checkpoint.seg] = segs[checkpoint.seg] BY <1>0, <1>2
  <2> QED BY <2>1, <2>2, <1>1, <1>2 DEF SpoolOK
<1>13. CheckpointIsSettled' BY <1>1, <1>7, <1>9, <1>11 DEF CheckpointIsSettled
<1>14. \A p \in Unread : FrameAt(p)' = FrameAt(p) /\ segs'[p.seg] = segs[p.seg] BY <1>8, <1>10
<1>15. KeptRecords \subseteq KeptRecords' BY <1>1, <1>11, <1>14 DEF KeptRecords, Settled
<1>16. WorkerOK'
  <2>1. Replaying BY <1>1 DEF Replaying
  <2>2. Before(checkpoint, worker.end)' = Before(checkpoint, worker.end) BY <1>1, <1>4 DEF Before
  <2>3. ASSUME Before(checkpoint, worker.end) PROVE worker.end \in FramesOf(segs)'
    <3>1. worker.end \in Unread BY <2>1, <2>3 DEF WorkerOK, Unread
    <3> QED BY <3>1, <1>7, <1>10
  <2>4. /\ \A p \in Unread : FrameAt(p).kind # "torn"
        /\ \A p \in Unread : FrameAt(p).kind = "bad" => FrameAt(p).cdr \in quarantine
    BY <2>1 DEF WorkerOK
  <2> QED BY <2>2, <2>3, <2>4, <1>1, <1>4, <1>11, <1>14 DEF WorkerOK
<1> QED BY <1>2, <1>5, <1>11, <1>12, <1>13, <1>14, <1>15, <1>16

\* A frame that goes bad keeps its place and its record.
LEMMA CorruptSpool ==
  ASSUME TypeOK, SpoolOK, WorkerOK, CheckpointIsSettled, NEW p \in FramesOf(segs), Corrupt(p)
  PROVE  /\ TypeOK' /\ SpoolOK' /\ WorkerOK' /\ CheckpointIsSettled' /\ KeptRecords \subseteq KeptRecords'
         /\ Unread' = Unread /\ Len(segs') = Len(segs)
         /\ \A s \in DOMAIN segs : Len(segs'[s]) = Len(segs[s])
         /\ \A q \in Unread : FrameAt(q)'.kind = "torn" => FrameAt(q).kind = "torn"
<1>1. /\ UNCHANGED <<call, queue, stop, checkpoint, quarantine, db, worker, wake, written, adm, up, recovered>>
      /\ ~up /\ events < MaxEvents /\ FrameAt(p).kind = "ok" /\ events' = events + 1
      /\ segs' = [segs EXCEPT ![p.seg][p.off].kind = "bad"]
  BY DEF Corrupt
<1>0. /\ segs \in Seq(Seq(Frames)) /\ Len(segs) \in Nat /\ DOMAIN segs = 1..Len(segs)
      /\ \A s \in DOMAIN segs : segs[s] \in Seq(Frames)
  BY DEF TypeOK
<1>2. /\ p \in Positions /\ p.seg \in DOMAIN segs /\ p.off \in DOMAIN segs[p.seg]
      /\ p.off \in 1..Len(segs[p.seg]) /\ segs[p.seg][p.off] \in Frames
  BY <1>0, FramesMember
<1> DEFINE f == [segs[p.seg][p.off] EXCEPT !.kind = "bad"]
           g == [segs[p.seg] EXCEPT ![p.off] = f]
<1>3. f \in Frames /\ f.kind = "bad" /\ f.cdr = FrameAt(p).cdr BY <1>2 DEF Frames, FrameAt
<1>4. segs' = [segs EXCEPT ![p.seg] = g] BY <1>1
<1> HIDE DEF f
<1>5. /\ g \in Seq(Frames) /\ Len(g) = Len(segs[p.seg])
      /\ \A i \in 1..Len(segs[p.seg]) : g[i] = IF i = p.off THEN f ELSE segs[p.seg][i]
  BY <1>0, <1>2, <1>3, ExceptSeq
<1> HIDE DEF g
<1>6. /\ segs' \in Seq(Seq(Frames)) /\ Len(segs') = Len(segs)
      /\ \A s \in DOMAIN segs : segs'[s] = IF s = p.seg THEN g ELSE segs[s]
  BY <1>0, <1>2, <1>4, <1>5, ExceptSeq
<1>7. \A s \in DOMAIN segs : Len(segs'[s]) = Len(segs[s]) /\ DOMAIN segs'[s] = DOMAIN segs[s]
  <2> TAKE s \in DOMAIN segs
  <2>1. CASE s = p.seg
    <3>1. segs'[s] = g BY <2>1, <1>6
    <3>2. DOMAIN g = 1..Len(g) /\ DOMAIN segs[s] = 1..Len(segs[s]) BY <1>0, <1>5
    <3> QED BY <2>1, <3>1, <3>2, <1>5
  <2>2. CASE s # p.seg BY <2>2, <1>6
  <2> QED BY <2>1, <2>2
<1>8. DOMAIN segs' = DOMAIN segs BY <1>0, <1>6
<1>9. FramesOf(segs)' = FramesOf(segs)
  <2>1. FramesOf(segs)' = FramesOf(segs') BY DEF FramesOf
  <2>2. FramesOf(segs) \subseteq Positions /\ FramesOf(segs') \subseteq Positions BY <1>0, <1>6, FramesMember
  <2>3. \A q \in Positions : q \in FramesOf(segs') <=> q \in FramesOf(segs)
    BY <1>0, <1>6, <1>7, <1>8, FramesMember
  <2> QED BY <2>1, <2>2, <2>3
<1>10. Unread' = Unread BY <1>1, <1>9 DEF Unread, Before
<1>11. ASSUME NEW q \in FramesOf(segs)
       PROVE  /\ FrameAt(q)'.cdr = FrameAt(q).cdr
              /\ FrameAt(q)'.kind = "torn" <=> FrameAt(q).kind = "torn"
  <2>1. q \in Positions /\ q.seg \in DOMAIN segs /\ q.off \in 1..Len(segs[q.seg]) BY <1>0, FramesMember
  <2>2. CASE q.seg = p.seg /\ q.off = p.off
    <3>1. FrameAt(q)' = f BY <2>1, <2>2, <1>5, <1>6 DEF FrameAt
    <3>2. FrameAt(q) = FrameAt(p) BY <2>2 DEF FrameAt
    <3> QED BY <3>1, <3>2, <1>1, <1>3
  <2>3. CASE ~(q.seg = p.seg /\ q.off = p.off)
    <3>1. FrameAt(q)' = FrameAt(q)
      <4>1. CASE q.seg = p.seg
        <5>1. segs'[q.seg] = g BY <4>1, <2>1, <1>6
        <5>2. g[q.off] = segs[q.seg][q.off] BY <4>1, <2>1, <2>3, <1>5
        <5> QED BY <5>1, <5>2 DEF FrameAt
      <4>2. CASE q.seg # p.seg BY <4>2, <2>1, <1>6 DEF FrameAt
      <4> QED BY <4>1, <4>2
    <3> QED BY <3>1
  <2> QED BY <2>2, <2>3
<1>12. TypeOK'
  <2>1. events' \in 0..MaxEvents BY <1>1, SpoolAssumption DEF TypeOK
  <2> QED BY <2>1, <1>1, <1>6 DEF TypeOK
<1>13. SpoolOK' BY <1>1, <1>6, <1>7, <1>8, <1>9 DEF SpoolOK
<1>14. WorkerOK' BY <1>1 DEF SpoolOK, WorkerOK, Replaying
<1>15. CheckpointIsSettled' BY <1>1, <1>9, <1>10, <1>11 DEF CheckpointIsSettled
<1>16. Unread \subseteq FramesOf(segs) BY DEF Unread
<1>17. KeptRecords \subseteq KeptRecords' BY <1>1, <1>10, <1>11, <1>16 DEF KeptRecords, Settled
<1> QED BY <1>6, <1>7, <1>10, <1>11, <1>12, <1>13, <1>14, <1>15, <1>16, <1>17

----------------------------------------------------------------------------
(* The finalizers and the writer's queue *)

\* A queue whose entries differ and all wait is no longer than the permits.
LEMMA DistinctEntries ==
  ASSUME NEW q \in Seq(Cdrs), NEW W, IsFiniteSet(W), \A i \in DOMAIN q : q[i] \in W,
         \A i, j \in DOMAIN q : q[i] = q[j] => i = j
  PROVE  Len(q) <= Cardinality(W)
<1>1. Len(q) \in Nat /\ DOMAIN q = 1..Len(q) /\ q \in [1..Len(q) -> W] OBVIOUS
<1>2. q \in Injection(1..Len(q), W) BY <1>1 DEF Injection, IsInjective
<1>3. Cardinality(1..Len(q)) <= Cardinality(W) BY <1>2, FS_Injection
<1>4. Cardinality(1..Len(q)) = Len(q) BY <1>1, FS_Interval
<1> QED BY <1>3, <1>4

\* The finalizer of a record moves on without a word of the queue.
LEMMA QueueKept ==
  ASSUME TypeOK, QueueOK, NEW r \in Cdrs, NEW v, call[r] # "queued", v # "queued",
         call' = [call EXCEPT ![r] = v], UNCHANGED <<queue, written, stop>>
  PROVE  QueueOK'
<1>1. \A x \in Cdrs : call'[x] = "queued" <=> call[x] = "queued" BY DEF TypeOK
<1> QED BY <1>1 DEF QueueOK

\* ... and without a word of the permits.
LEMMA PermitsKept ==
  ASSUME TypeOK, PermitsOK, Waiting' \subseteq Waiting
  PROVE  PermitsOK'
<1>1. IsFiniteSet(Waiting') /\ Cardinality(Waiting') <= Cardinality(Waiting) BY FS_Subset DEF PermitsOK
<1>2. Cardinality(Waiting') \in Nat /\ Cardinality(Waiting) \in Nat /\ Capacity \in Nat
  BY <1>1, FS_CardinalityType, SpoolAssumption DEF PermitsOK
<1> QED BY <1>1, <1>2 DEF PermitsOK

\* A new call takes no permit.
LEMMA StartCallQueue ==
  ASSUME TypeOK, QueueOK, PermitsOK, NEW r \in Cdrs, StartCall(r)
  PROVE  TypeOK' /\ QueueOK' /\ PermitsOK'
<1>1. TypeOK' BY DEF TypeOK, StartCall, disk
<1>2. QueueOK' BY QueueKept DEF StartCall
<1>3. Waiting' \subseteq Waiting BY DEF TypeOK, StartCall, Waiting
<1> QED BY <1>1, <1>2, <1>3, PermitsKept

\* A permit is given while one is free.
LEMMA AcquirePermitQueue ==
  ASSUME TypeOK, QueueOK, PermitsOK, NEW r \in Cdrs, AcquirePermit(r)
  PROVE  TypeOK' /\ QueueOK' /\ PermitsOK'
<1>1. TypeOK' BY DEF TypeOK, AcquirePermit, disk
<1>2. QueueOK'
  <2> DEFINE v == IF stop = "no" THEN "permit" ELSE "refused"
  <2>1. v # "queued" OBVIOUS
  <2>2. call' = [call EXCEPT ![r] = v] BY DEF AcquirePermit
  <2> HIDE DEF v
  <2> QED BY <2>1, <2>2, QueueKept DEF AcquirePermit
<1>3. CASE stop # "no"
  <2>1. Waiting' \subseteq Waiting BY <1>3 DEF TypeOK, AcquirePermit, Waiting
  <2> QED BY <1>1, <1>2, <2>1, PermitsKept
<1>4. CASE stop = "no"
  <2>1. Waiting' = Waiting \cup {r} /\ r \notin Waiting
    BY <1>4 DEF TypeOK, AcquirePermit, Waiting
  <2>2. Cardinality(Waiting) < Capacity BY <1>4 DEF AcquirePermit
  <2>3. IsFiniteSet(Waiting') /\ Cardinality(Waiting') = Cardinality(Waiting) + 1
    BY <2>1, FS_AddElement DEF PermitsOK
  <2>4. Cardinality(Waiting) \in Nat /\ Capacity \in Nat BY FS_CardinalityType, SpoolAssumption DEF PermitsOK
  <2> QED BY <1>1, <1>2, <2>2, <2>3, <2>4 DEF PermitsOK
<1> QED BY <1>3, <1>4

\* The sent record comes last in the queue and keeps its permit.
LEMMA SendWriteQueue ==
  ASSUME TypeOK, QueueOK, PermitsOK, NEW r \in Cdrs, SendWrite(r)
  PROVE  TypeOK' /\ QueueOK' /\ PermitsOK'
<1>1. Waiting' \subseteq Waiting BY DEF TypeOK, SendWrite, Waiting
<1>2. PermitsOK' BY <1>1, PermitsKept
<1>3. CASE stop \notin {"no", "asked"}
  <2>1. QueueOK' BY <1>3, QueueKept DEF SendWrite
  <2>2. TypeOK' BY <1>3 DEF TypeOK, SendWrite, disk
  <2> QED BY <2>1, <2>2, <1>2
<1>4. CASE stop \in {"no", "asked"}
  <2> DEFINE n == Len(queue)
  <2>0. queue \in Seq(Cdrs) /\ n \in Nat /\ DOMAIN queue = 1..n BY DEF TypeOK
  <2>1. /\ call' = [call EXCEPT ![r] = "queued"] /\ queue' = Append(queue, r) /\ call[r] = "permit"
        /\ UNCHANGED <<stop, disk, worker, wake, written, adm, up, recovered, events>>
    BY <1>4 DEF SendWrite
  <2>2. /\ queue' \in Seq(Cdrs) /\ DOMAIN queue' = 1..(n + 1) /\ queue'[n + 1] = r
        /\ (\A i \in 1..n : queue'[i] = queue[i]) /\ queue' # <<>>
    BY <2>0, <2>1, AppendProperties
  <2>3. call' \in [Cdrs -> {"none", "active", "permit", "queued", "durable", "refused", "lost"}]
    BY <2>1 DEF TypeOK
  <2>4. \A x \in Cdrs : call'[x] = IF x = r THEN "queued" ELSE call[x] BY <2>1 DEF TypeOK
  <2> HIDE DEF n
  <2>5. \A i \in 1..n : queue[i] # r BY <2>0, <2>1 DEF QueueOK
  <2>6. \A x \in Cdrs : call'[x] = "queued" <=> \E i \in DOMAIN queue' : queue'[i] = x
    <3> TAKE x \in Cdrs
    <3>1. call[x] = "queued" <=> \E i \in 1..n : queue[i] = x BY <2>0 DEF QueueOK
    <3>2. 1..(n + 1) = (1..n) \cup {n + 1} BY <2>0
    <3> QED BY <2>2, <2>4, <2>5, <3>1, <3>2
  <2>7. \A i, j \in DOMAIN queue' : queue'[i] = queue'[j] => i = j
    <3> TAKE i, j \in DOMAIN queue'
    <3>1. \A k \in 1..(n + 1) : k \in 1..n \/ k = n + 1 BY <2>0
    <3>2. i \in 1..n /\ j \in 1..n /\ queue[i] = queue[j] => i = j BY <2>0 DEF QueueOK
    <3> QED BY <2>2, <2>5, <3>1, <3>2
  <2>8. QueueOK' BY <1>4, <2>1, <2>2, <2>6, <2>7 DEF QueueOK
  <2>9. Len(queue') <= Cardinality(Waiting')
    <3>1. \A i \in DOMAIN queue' : queue'[i] \in Waiting'
      <4> TAKE i \in DOMAIN queue'
      <4>1. queue'[i] \in Cdrs
        <5>1. i \in 1..Len(queue') BY <2>2, LenProperties
        <5> QED BY <2>2, <5>1, ElementOfSeq
      <4>2. call'[queue'[i]] = "queued" BY <4>1, <2>6
      <4> QED BY <4>1, <4>2 DEF Waiting
    <3>2. IsFiniteSet(Waiting') BY <1>2 DEF PermitsOK
    <3> QED BY <2>2, <2>7, <3>1, <3>2, DistinctEntries
  <2>10. Len(queue') <= Capacity
    <3>1. /\ Len(queue') \in Nat /\ Cardinality(Waiting') \in Nat /\ Capacity \in Nat
          /\ Cardinality(Waiting') <= Capacity
      BY <1>2, <2>2, FS_CardinalityType, SpoolAssumption DEF PermitsOK
    <3> QED BY <2>9, <3>1
  <2>11. TypeOK' BY <2>1, <2>2, <2>3, <2>10 DEF TypeOK, disk
  <2> QED BY <1>2, <2>8, <2>11
<1> QED BY <1>3, <1>4

\* The backlog is the size of a finite set of frames.
LEMMA BacklogType ==
  ASSUME SpoolOK
  PROVE  Backlog \in Nat
<1>1. Unread \subseteq FramesOf(segs) BY DEF Unread
<1> QED BY <1>1, FS_Subset, FS_CardinalityType DEF SpoolOK, Backlog

\* SpoolAdmission::update and the flag of failed appends keep the type.
Admission == [limits : Limits, backlog : Nat, rejecting : BOOLEAN, appendFailed : BOOLEAN,
              update : Nat \cup {None}]

\* The admission record stays one.
LEMMA AdmissionType ==
  ASSUME NEW a \in Admission, NEW b \in Nat, NEW flag \in BOOLEAN
  PROVE  /\ Update(a, b) \in Admission /\ AppendFailure(a, flag) \in Admission
         /\ AppendFailure(Update(a, b), flag) \in Admission
<1>1. ASSUME NEW c \in Admission PROVE AppendFailure(c, flag) \in Admission
  BY DEF AppendFailure, Admission
<1>2. Update(a, b) \in Admission
  <2> DEFINE v == IF a.rejecting THEN b >= a.limits.resume ELSE b >= a.limits.reject
  <2>0. a.limits.resume \in Nat /\ a.limits.reject \in Nat
    <3>1. a.limits \in Limits BY DEF Admission
    <3> QED BY <3>1, SpoolAssumption
  <2>a. (b >= a.limits.resume) \in BOOLEAN /\ (b >= a.limits.reject) \in BOOLEAN BY <2>0
  <2>1. v \in BOOLEAN BY <2>a, Zenon
  <2>2. Update(a, b) = [a EXCEPT !.backlog = b, !.rejecting = v] BY DEF Update
  <2> HIDE DEF v
  <2> QED BY <2>1, <2>2 DEF Admission
<1> QED BY <1>1, <1>2

----------------------------------------------------------------------------
(* Every step keeps the invariant *)

\* What the steps outside the worker and the files leave as it is.
LEMMA SpoolUntouched ==
  ASSUME IInv, UNCHANGED <<disk, worker>>, up' = up \/ up'
  PROVE  SpoolOK' /\ WorkerOK' /\ CheckpointIsSettled'
<1>1. ~up' => worker'.step = "idle" BY DEF IInv, SpoolOK
<1>2. SpoolOK' /\ CheckpointIsSettled' BY <1>1, StepKeepsSpool DEF IInv
<1>3. /\ worker'.end = worker.end /\ worker'.step \notin {"idle", "load"} => Replaying
      /\ worker'.step \in {"work", "ack"} => Before(checkpoint, worker.end)
      /\ worker'.step = "ack" => \A p \in Unread : IsNext(p) => FrameAt(p).cdr \in Settled
  BY DEF IInv, WorkerOK, Replaying
<1>4. WorkerOK' BY <1>3, StepKeepsWorker DEF IInv
<1> QED BY <1>2, <1>4

\* What the steps outside the finalizers and the queue leave as it is.
LEMMA QueueUntouched ==
  ASSUME IInv, UNCHANGED <<call, queue>>, written' = None \/ queue # <<>>,
         stop' = stop \/ stop' # "draining" \/ queue = <<>>
  PROVE  QueueOK' /\ PermitsOK'
<1>1. Waiting' = Waiting BY DEF Waiting
<1> QED BY <1>1 DEF IInv, QueueOK, PermitsOK

\* A new call leaves the writer and the worker alone.
LEMMA StartCallInv == ASSUME IInv, NEW r \in Cdrs, StartCall(r) PROVE IInv'
<1>1. TypeOK' /\ QueueOK' /\ PermitsOK' BY StartCallQueue DEF IInv
<1>2. SpoolOK' /\ WorkerOK' /\ CheckpointIsSettled' BY SpoolUntouched DEF StartCall
<1> QED BY <1>1, <1>2 DEF IInv

\* So does a finalizer that gets its permit or is refused.
LEMMA AcquirePermitInv == ASSUME IInv, NEW r \in Cdrs, AcquirePermit(r) PROVE IInv'
<1>1. TypeOK' /\ QueueOK' /\ PermitsOK' BY AcquirePermitQueue DEF IInv
<1>2. SpoolOK' /\ WorkerOK' /\ CheckpointIsSettled' BY SpoolUntouched DEF AcquirePermit
<1> QED BY <1>1, <1>2 DEF IInv

\* So does a finalizer that sends its record.
LEMMA SendWriteInv == ASSUME IInv, NEW r \in Cdrs, SendWrite(r) PROVE IInv'
<1>1. TypeOK' /\ QueueOK' /\ PermitsOK' BY SendWriteQueue DEF IInv
<1>2. SpoolOK' /\ WorkerOK' /\ CheckpointIsSettled' BY SpoolUntouched DEF SendWrite
<1> QED BY <1>1, <1>2 DEF IInv

\* One more event stays within the bound.
LEMMA EventCounted ==
  ASSUME TypeOK, events < MaxEvents
  PROVE  events + 1 \in 0..MaxEvents
BY SpoolAssumption DEF TypeOK

\* New limits wait for their update.
LEMMA SetLimitsInv == ASSUME IInv, NEW l \in Limits, SetLimits(l) PROVE IInv'
<1>1. TypeOK'
  <2>1. adm \in Admission BY DEF IInv, TypeOK, Admission
  <2>2. adm' \in Admission BY <2>1 DEF SetLimits, Admission
  <2>3. events' \in 0..MaxEvents BY EventCounted DEF IInv, SetLimits
  <2> QED BY <2>2, <2>3 DEF IInv, TypeOK, SetLimits, Admission, disk
<1>2. QueueOK' /\ PermitsOK' BY QueueUntouched DEF SetLimits, IInv, QueueOK
<1>3. SpoolOK' /\ WorkerOK' /\ CheckpointIsSettled' BY SpoolUntouched DEF SetLimits
<1> QED BY <1>1, <1>2, <1>3 DEF IInv

\* The update of set_limits uses the backlog it collected.
LEMMA ApplyLimitsInv == ASSUME IInv, ApplyLimits PROVE IInv'
<1>1. TypeOK'
  <2>1. adm \in Admission /\ adm.update \in Nat BY DEF IInv, TypeOK, Admission, ApplyLimits
  <2>2. Update(adm, adm.update) \in Admission BY <2>1, AdmissionType
  <2>3. adm' \in Admission
    <3>1. adm' = [Update(adm, adm.update) EXCEPT !.update = None] BY DEF ApplyLimits
    <3> HIDE DEF Update
    <3> QED BY <2>2, <3>1 DEF Admission
  <2> QED BY <2>3 DEF IInv, TypeOK, ApplyLimits, Admission, disk
<1>2. QueueOK' /\ PermitsOK' BY QueueUntouched DEF ApplyLimits, IInv, QueueOK
<1>3. SpoolOK' /\ WorkerOK' /\ CheckpointIsSettled' BY SpoolUntouched DEF ApplyLimits
<1> QED BY <1>1, <1>2, <1>3 DEF IInv

\* The record at the head of the queue.
LEMMA HeadOfQueue ==
  ASSUME TypeOK, queue # <<>>
  PROVE  Head(queue) \in Cdrs /\ Head(queue) = queue[1] /\ 1 \in DOMAIN queue
BY DEF TypeOK

\* An append adds the record at the head of the queue.
LEMMA AppendFrameInv == ASSUME IInv, AppendFrame PROVE IInv'
<1> DEFINE f == Frame("ok", Head(queue))
<1>1. queue # <<>> /\ up BY DEF AppendFrame, MayAppend
<1>2. f \in Frames /\ f.kind = "ok" BY <1>1, HeadOfQueue DEF IInv, Frame, Frames
<1>3. segs' = WithFrame(f) /\ UNCHANGED <<checkpoint, quarantine, db, worker, up>> BY DEF AppendFrame
<1> HIDE DEF f
<1>4. segs' \in Seq(Seq(Frames)) /\ SpoolOK' /\ CheckpointIsSettled'
  BY <1>1, <1>2, <1>3, AppendKeepsSpool DEF IInv
<1>5. WorkerOK' BY <1>2, <1>3, AppendKeepsWorker DEF IInv
<1>6. QueueOK' /\ PermitsOK' BY <1>1, QueueUntouched DEF AppendFrame
<1>7. TypeOK'
  <2>1. written' \in Nat BY BacklogType DEF IInv, AppendFrame
  <2> QED BY <2>1, <1>3, <1>4 DEF IInv, TypeOK, AppendFrame
<1> QED BY <1>4, <1>5, <1>6, <1>7 DEF IInv

\* A failed append leaves the record at the head, with or without its frame.
LEMMA AppendFailsInv == ASSUME IInv, NEW stays \in BOOLEAN, AppendFails(stays) PROVE IInv'
<1> DEFINE f == Frame("ok", Head(queue))
<1>1. queue # <<>> /\ up BY DEF AppendFails, MayAppend
<1>2. f \in Frames /\ f.kind = "ok" BY <1>1, HeadOfQueue DEF IInv, Frame, Frames
<1>3. /\ UNCHANGED <<call, queue, stop, checkpoint, quarantine, db, worker, wake, written, up, recovered>>
      /\ events < MaxEvents /\ events' = events + 1 /\ adm' = AppendFailure(adm, TRUE)
      /\ segs' = WithFrame(f) \/ segs' = segs
  BY DEF AppendFails
<1> HIDE DEF f
<1>4. segs' \in Seq(Seq(Frames)) /\ SpoolOK' /\ CheckpointIsSettled' /\ WorkerOK'
  <2>1. CASE segs' = WithFrame(f)
    BY <1>1, <1>2, <1>3, <2>1, AppendKeepsSpool, AppendKeepsWorker DEF IInv
  <2>2. CASE segs' = segs
    <3>1. UNCHANGED <<disk, worker>> BY <1>3, <2>2 DEF disk
    <3>2. SpoolOK' /\ WorkerOK' /\ CheckpointIsSettled' BY <3>1, <1>3, SpoolUntouched
    <3> QED BY <3>2, <2>2 DEF IInv, TypeOK
  <2> QED BY <1>3, <2>1, <2>2
<1>5. QueueOK' /\ PermitsOK' BY <1>1, <1>3, QueueUntouched
<1>6. TypeOK'
  <2>1. adm' \in Admission
    <3>1. adm \in Admission BY DEF IInv, TypeOK, Admission
    <3> QED BY <3>1, <1>3, AdmissionType
  <2>2. events' \in 0..MaxEvents BY <1>3, EventCounted DEF IInv
  <2> QED BY <2>1, <2>2, <1>3, <1>4 DEF IInv, TypeOK, Admission
<1> QED BY <1>4, <1>5, <1>6 DEF IInv

\* The report answers the head of the queue and gives its permit back.
LEMMA ReportAppendInv == ASSUME IInv, ReportAppend PROVE IInv'
<1> DEFINE h == Head(queue)
<1>1. /\ UNCHANGED <<stop, disk, worker, up, recovered, events>> /\ written # None /\ written' = None
      /\ adm' = AppendFailure(Update(adm, written), FALSE) /\ wake' = TRUE
      /\ call' = [call EXCEPT ![h] = "durable"] /\ queue' = Tail(queue)
  BY DEF ReportAppend
<1>2. queue # <<>> BY <1>1 DEF IInv, QueueOK
<1>3. h \in Cdrs /\ h = queue[1] BY <1>2, HeadOfQueue DEF IInv
<1> HIDE DEF h
<1> DEFINE n == Len(queue)
<1>4. queue \in Seq(Cdrs) /\ n \in Nat /\ n >= 1 /\ n <= Capacity /\ DOMAIN queue = 1..n
  BY <1>2 DEF IInv, TypeOK
<1>5. /\ queue' \in Seq(Cdrs) /\ Len(queue') = n - 1 /\ DOMAIN queue' = 1..(n - 1)
      /\ \A i \in 1..(n - 1) : queue'[i] = queue[i + 1]
  BY <1>1, <1>2, <1>4, HeadTailProperties
<1> HIDE DEF n
<1>6. \A r \in Cdrs : call'[r] = IF r = h THEN "durable" ELSE call[r] BY <1>1, <1>3 DEF IInv, TypeOK
<1>7. QueueOK'
  <2>1. \A i, j \in DOMAIN queue' : queue'[i] = queue'[j] => i = j
    <3> TAKE i, j \in DOMAIN queue'
    <3>1. i + 1 \in 1..n /\ j + 1 \in 1..n /\ i \in Nat /\ j \in Nat BY <1>4, <1>5
    <3>2. queue[i + 1] = queue[j + 1] => i + 1 = j + 1 BY <3>1, <1>4 DEF IInv, QueueOK
    <3> QED BY <3>1, <3>2, <1>5
  <2>2. ASSUME NEW r \in Cdrs PROVE call'[r] = "queued" <=> \E i \in DOMAIN queue' : queue'[i] = r
    <3>1. call[r] = "queued" <=> \E i \in 1..n : queue[i] = r BY <1>4 DEF IInv, QueueOK
    <3>2. ASSUME call'[r] = "queued" PROVE \E i \in DOMAIN queue' : queue'[i] = r
      <4>1. r # h /\ call[r] = "queued" BY <3>2, <1>6
      <4>2. PICK i \in 1..n : queue[i] = r BY <4>1, <3>1
      <4>3. i # 1 BY <4>1, <4>2, <1>3
      <4>4. i - 1 \in 1..(n - 1) /\ (i - 1) + 1 = i BY <4>3, <1>4
      <4> QED BY <4>2, <4>4, <1>5
    <3>3. ASSUME NEW i \in DOMAIN queue', queue'[i] = r PROVE call'[r] = "queued"
      <4>1. i + 1 \in 1..n /\ i + 1 # 1 /\ 1 \in 1..n BY <1>4, <1>5
      <4>2. queue[i + 1] = r BY <3>3, <1>5
      <4>3. r # h BY <4>1, <4>2, <1>3, <1>4 DEF IInv, QueueOK
      <4> QED BY <4>1, <4>2, <4>3, <3>1, <1>6
    <3> QED BY <3>2, <3>3
  <2>3. stop' = "draining" => queue' = <<>> BY <1>1, <1>2 DEF IInv, QueueOK
  <2> QED BY <2>1, <2>2, <2>3, <1>1 DEF QueueOK
<1>8. PermitsOK'
  <2>1. Waiting' \subseteq Waiting BY <1>6 DEF Waiting
  <2> QED BY <2>1, PermitsKept DEF IInv
<1>9. TypeOK'
  <2>1. adm' \in Admission
    <3>1. adm \in Admission /\ written \in Nat BY <1>1 DEF IInv, TypeOK, Admission
    <3> QED BY <3>1, <1>1, AdmissionType
  <2>2. Len(queue') <= Capacity BY <1>4, <1>5, SpoolAssumption
  <2>3. call' \in [Cdrs -> {"none", "active", "permit", "queued", "durable", "refused", "lost"}]
    BY <1>1, <1>3 DEF IInv, TypeOK
  <2> QED BY <2>1, <2>2, <2>3, <1>1, <1>5 DEF IInv, TypeOK, Admission, disk
<1>10. SpoolOK' /\ WorkerOK' /\ CheckpointIsSettled' BY <1>1, SpoolUntouched
<1> QED BY <1>7, <1>8, <1>9, <1>10 DEF IInv

\* A step of the worker that leaves the files alone.
LEMMA WorkerMoves ==
  ASSUME IInv, up, UNCHANGED <<call, queue, stop, disk, written, up, recovered, events>>,
         NEW v \in Steps, NEW b \in Nat, worker' = [worker EXCEPT !.step = v, !.backlog = b],
         wake' \in BOOLEAN, adm' \in Admission,
         v \notin {"idle", "load"} => Replaying,
         v \in {"work", "ack"} => Before(checkpoint, worker.end),
         v = "ack" => \A p \in Unread : IsNext(p) => FrameAt(p).cdr \in Settled
  PROVE  IInv'
<1>1. worker \in [step : Steps, end : Positions, backlog : Nat] BY DEF IInv, TypeOK, Steps, Positions
<1>2. /\ worker' \in [step : Steps, end : Positions, backlog : Nat]
      /\ worker'.step = v /\ worker'.end = worker.end
  BY <1>1
<1>3. TypeOK' BY <1>2 DEF IInv, TypeOK, disk, Steps, Positions, Admission
<1>4. QueueOK' /\ PermitsOK' BY QueueUntouched DEF IInv, QueueOK
<1>5. SpoolOK' /\ CheckpointIsSettled' BY StepKeepsSpool DEF IInv
<1>6. WorkerOK' BY <1>2, StepKeepsWorker DEF IInv
<1> QED BY <1>3, <1>4, <1>5, <1>6 DEF IInv

\* The fields a step of the worker leaves as they are.
LEMMA WorkerFields ==
  ASSUME TypeOK
  PROVE  /\ worker.backlog \in Nat /\ adm \in Admission
         /\ \A v : [worker EXCEPT !.step = v] = [worker EXCEPT !.step = v, !.backlog = worker.backlog]
BY DEF TypeOK, Admission

\* A woken worker replays the spool.
LEMMA WorkerWakesInv == ASSUME IInv, WorkerWakes PROVE IInv'
<1>1. worker' = [worker EXCEPT !.step = "load", !.backlog = worker.backlog]
  BY WorkerFields DEF IInv, WorkerWakes
<1>2. worker.backlog \in Nat /\ adm' \in Admission BY WorkerFields DEF IInv, WorkerWakes
<1> QED BY <1>1, <1>2, WorkerMoves DEF WorkerWakes, Steps

\* An invalid frame was set aside by the replay before it is skipped.
LEMMA SkipQuarantinedInv == ASSUME IInv, SkipQuarantined PROVE IInv'
<1>1. worker' = [worker EXCEPT !.step = "ack", !.backlog = worker.backlog]
  BY WorkerFields DEF IInv, SkipQuarantined
<1>2. worker.backlog \in Nat /\ adm' \in Admission /\ wake' \in BOOLEAN
  BY WorkerFields DEF IInv, TypeOK, SkipQuarantined
<1>3. worker.step = "work" /\ FrameAt(NextUnread).kind = "bad" BY DEF SkipQuarantined
<1>4. Replaying /\ Before(checkpoint, worker.end) BY <1>3 DEF IInv, WorkerOK, Replaying
<1>5. \A p \in Unread : IsNext(p) => FrameAt(p).cdr \in Settled
  <2> SUFFICES ASSUME NEW p \in Unread, IsNext(p) PROVE FrameAt(p).cdr \in Settled OBVIOUS
  <2>1. p = NextUnread BY <1>3, WorkIsAhead DEF IInv
  <2> QED BY <2>1, <1>3, <1>4 DEF IInv, WorkerOK, Settled
<1> QED BY <1>1, <1>2, <1>4, <1>5, WorkerMoves DEF SkipQuarantined, Steps

\* A failure of the database sends the worker back to the replay.
LEMMA RetryLaterInv == ASSUME IInv, RetryLater PROVE IInv'
<1>1. worker' = [worker EXCEPT !.step = "load", !.backlog = worker.backlog]
  BY WorkerFields DEF IInv, RetryLater
<1>2. worker.backlog \in Nat /\ adm' \in Admission /\ wake' \in BOOLEAN
  BY WorkerFields DEF IInv, TypeOK, RetryLater
<1> QED BY <1>1, <1>2, WorkerMoves DEF RetryLater, Steps

\* The backlog is read between the purge and its report.
LEMMA ReadBacklogInv == ASSUME IInv, ReadBacklog PROVE IInv'
<1>1. Backlog \in Nat BY BacklogType DEF IInv
<1>2. adm' \in Admission /\ wake' \in BOOLEAN BY WorkerFields DEF IInv, TypeOK, ReadBacklog
<1>3. Replaying BY DEF ReadBacklog, Replaying
<1> QED BY <1>1, <1>2, <1>3, WorkerMoves DEF ReadBacklog, Steps

\* After the report the worker goes on up to the end of its replay.
LEMMA ReportBacklogInv == ASSUME IInv, ReportBacklog PROVE IInv'
<1> DEFINE v == IF Before(checkpoint, worker.end) THEN "work" ELSE "load"
<1>1. worker' = [worker EXCEPT !.step = v, !.backlog = 0] BY DEF ReportBacklog
<1>2. adm' \in Admission /\ wake' \in BOOLEAN
  <2>1. adm \in Admission /\ worker.backlog \in Nat BY WorkerFields DEF IInv
  <2> QED BY <2>1, AdmissionType DEF IInv, TypeOK, ReportBacklog
<1>3. v \in Steps /\ v # "ack" /\ (v = "work" => Before(checkpoint, worker.end)) BY DEF Steps
<1>4. Replaying BY DEF ReportBacklog, Replaying
<1> HIDE DEF v
<1> QED BY <1>1, <1>2, <1>3, <1>4, WorkerMoves DEF ReportBacklog

\* The replay leaves the queue alone.
LEMMA LoadEntriesInv == ASSUME IInv, NEW keep \in BOOLEAN, LoadEntries(keep) PROVE IInv'
<1>1. TypeOK' /\ SpoolOK' /\ WorkerOK' /\ CheckpointIsSettled' BY LoadEntriesSpool DEF IInv
<1>2. QueueOK' /\ PermitsOK' BY QueueUntouched DEF IInv, QueueOK, LoadEntries
<1> QED BY <1>1, <1>2 DEF IInv

\* So does the transaction.
LEMMA PersistRecordInv == ASSUME IInv, PersistRecord PROVE IInv'
<1>1. TypeOK' /\ SpoolOK' /\ WorkerOK' /\ CheckpointIsSettled' BY PersistRecordSpool DEF IInv
<1>2. QueueOK' /\ PermitsOK' BY QueueUntouched DEF IInv, QueueOK, PersistRecord
<1> QED BY <1>1, <1>2 DEF IInv

\* So does the new checkpoint.
LEMMA AcknowledgeInv == ASSUME IInv, Acknowledge PROVE IInv'
<1>1. TypeOK' /\ SpoolOK' /\ WorkerOK' /\ CheckpointIsSettled' BY AcknowledgeSpool DEF IInv
<1>2. QueueOK' /\ PermitsOK' BY QueueUntouched DEF IInv, QueueOK, Acknowledge
<1> QED BY <1>1, <1>2 DEF IInv

\* So does the removal of segments.
LEMMA PurgeSegmentsInv == ASSUME IInv, PurgeSegments PROVE IInv'
<1>1. TypeOK' /\ SpoolOK' /\ WorkerOK' /\ CheckpointIsSettled' BY PurgeSegmentsSpool DEF IInv
<1>2. QueueOK' /\ PermitsOK' BY QueueUntouched DEF IInv, QueueOK, PurgeSegments
<1> QED BY <1>1, <1>2 DEF IInv

\* So does a frame that goes bad.
LEMMA CorruptInv == ASSUME IInv, NEW p \in FramesOf(segs), Corrupt(p) PROVE IInv'
<1>1. TypeOK' /\ SpoolOK' /\ WorkerOK' /\ CheckpointIsSettled' BY CorruptSpool DEF IInv
<1>2. QueueOK' /\ PermitsOK' BY QueueUntouched DEF IInv, QueueOK, Corrupt
<1> QED BY <1>1, <1>2 DEF IInv

\* A shutdown closes the permits.
LEMMA AskShutdownInv == ASSUME IInv, AskShutdown PROVE IInv'
<1>1. events' \in 0..MaxEvents BY EventCounted DEF IInv, AskShutdown
<1>2. TypeOK' BY <1>1 DEF IInv, TypeOK, AskShutdown, disk
<1>3. QueueOK' /\ PermitsOK' BY QueueUntouched DEF AskShutdown, IInv, QueueOK
<1>4. SpoolOK' /\ WorkerOK' /\ CheckpointIsSettled' BY SpoolUntouched DEF AskShutdown
<1> QED BY <1>2, <1>3, <1>4 DEF IInv

\* The queue is closed while it may hold records.
LEMMA CloseQueueInv == ASSUME IInv, CloseQueue PROVE IInv'
<1>1. TypeOK' BY DEF IInv, TypeOK, CloseQueue, disk
<1>2. QueueOK' /\ PermitsOK' BY QueueUntouched DEF CloseQueue, IInv, QueueOK
<1>3. SpoolOK' /\ WorkerOK' /\ CheckpointIsSettled' BY SpoolUntouched DEF CloseQueue
<1> QED BY <1>1, <1>2, <1>3 DEF IInv

\* The workers are drained once the queue is empty.
LEMMA DrainWorkersInv == ASSUME IInv, DrainWorkers PROVE IInv'
<1>1. TypeOK' BY DEF IInv, TypeOK, DrainWorkers, disk
<1>2. QueueOK' /\ PermitsOK' BY QueueUntouched DEF DrainWorkers, IInv, QueueOK
<1>3. SpoolOK' /\ WorkerOK' /\ CheckpointIsSettled' BY SpoolUntouched DEF DrainWorkers
<1> QED BY <1>1, <1>2, <1>3 DEF IInv

\* A restart reads the backlog of the spool.
LEMMA RestartInv == ASSUME IInv, Restart PROVE IInv'
<1>1. adm' \in Admission
  <2>1. adm \in Admission /\ Backlog \in Nat BY BacklogType DEF IInv, TypeOK, Admission
  <2> QED BY <2>1, AdmissionType DEF Restart
<1>2. TypeOK' BY <1>1 DEF IInv, TypeOK, Restart, disk, Admission
<1>3. QueueOK' /\ PermitsOK' BY QueueUntouched DEF Restart, IInv, QueueOK
<1>4. SpoolOK' /\ WorkerOK' /\ CheckpointIsSettled' BY SpoolUntouched DEF Restart
<1> QED BY <1>2, <1>3, <1>4 DEF IInv

\* What is left when the process goes down.
LEMMA DownQueue ==
  ASSUME IInv, Down, events' \in 0..MaxEvents, segs' \in Seq(Seq(Frames)),
         UNCHANGED <<checkpoint, quarantine, db>>
  PROVE  TypeOK' /\ QueueOK' /\ PermitsOK' /\ WorkerOK' /\ worker'.step = "idle"
<1>1. \A r \in Cdrs : call'[r] = IF call[r] \in {"active", "permit", "queued"} THEN "lost" ELSE call[r]
  BY DEF Down
<1>2. \A r \in Cdrs : call'[r] \notin {"permit", "queued"} BY <1>1
<1>3. queue' = <<>> /\ written' = None /\ stop' = "no" BY DEF Down
<1>4. QueueOK' BY <1>2, <1>3 DEF QueueOK
<1>5. PermitsOK'
  <2>1. Waiting' = {} BY <1>2 DEF Waiting
  <2> QED BY <2>1, FS_EmptySet, SpoolAssumption DEF PermitsOK
<1>6. worker'.step = "idle" /\ worker' \in [step : Steps, end : Positions, backlog : Nat]
  BY DEF Down, Idle, Steps, Positions, Position
<1>7. WorkerOK' BY <1>6 DEF WorkerOK, Replaying
<1>8. adm' \in Admission BY DEF Down, IInv, TypeOK, Admission
<1>9. call' \in [Cdrs -> {"none", "active", "permit", "queued", "durable", "refused", "lost"}]
  BY DEF Down, IInv, TypeOK
<1>10. TypeOK'
  <2>1. queue' \in Seq(Cdrs) /\ Len(queue') <= Capacity BY <1>3, SpoolAssumption
  <2>2. wake' = FALSE /\ up' = FALSE /\ recovered' = FALSE BY DEF Down
  <2> QED BY <2>1, <2>2, <1>3, <1>6, <1>8, <1>9 DEF IInv, TypeOK, Admission, Steps, Positions
<1> QED BY <1>4, <1>5, <1>6, <1>7, <1>10

\* The end of the process leaves the files as they are.
LEMMA ExitInv == ASSUME IInv, Exit PROVE IInv'
<1>1. /\ Down /\ events' \in 0..MaxEvents /\ UNCHANGED disk
      /\ segs' \in Seq(Seq(Frames)) /\ UNCHANGED <<checkpoint, quarantine, db>>
  BY DEF Exit, IInv, TypeOK, disk
<1>2. TypeOK' /\ QueueOK' /\ PermitsOK' /\ WorkerOK' /\ worker'.step = "idle" BY <1>1, DownQueue
<1>3. SpoolOK' /\ CheckpointIsSettled' BY <1>1, <1>2, StepKeepsSpool DEF IInv
<1> QED BY <1>2, <1>3 DEF IInv

\* So does a crash.
LEMMA CrashInv == ASSUME IInv, Crash PROVE IInv'
<1>1. /\ Down /\ UNCHANGED disk
      /\ segs' \in Seq(Seq(Frames)) /\ UNCHANGED <<checkpoint, quarantine, db>>
  BY DEF Crash, IInv, TypeOK, disk
<1>a. events' \in 0..MaxEvents BY EventCounted DEF Crash, IInv
<1>2. TypeOK' /\ QueueOK' /\ PermitsOK' /\ WorkerOK' /\ worker'.step = "idle" BY <1>1, <1>a, DownQueue
<1>3. SpoolOK' /\ CheckpointIsSettled' BY <1>1, <1>2, StepKeepsSpool DEF IInv
<1> QED BY <1>2, <1>3 DEF IInv

\* A crash inside an append leaves one more frame, whole or not.
LEMMA CrashInAppendInv == ASSUME IInv, NEW kind \in {"ok", "torn"}, CrashInAppend(kind) PROVE IInv'
<1> DEFINE f == Frame(kind, Head(queue))
<1>1. /\ Down /\ UNCHANGED <<checkpoint, quarantine, db>> /\ segs' = WithFrame(f)
      /\ queue # <<>> /\ worker'.step = "idle"
  BY DEF CrashInAppend, MayAppend, Down, Idle
<1>2. events' \in 0..MaxEvents BY EventCounted DEF CrashInAppend, IInv
<1>3. f \in Frames BY <1>1, HeadOfQueue DEF IInv, Frame, Frames
<1> HIDE DEF f
<1>4. segs' \in Seq(Seq(Frames)) /\ SpoolOK' /\ CheckpointIsSettled'
  BY <1>1, <1>3, AppendKeepsSpool DEF IInv
<1>5. TypeOK' /\ QueueOK' /\ PermitsOK' /\ WorkerOK' BY <1>1, <1>2, <1>4, DownQueue
<1> QED BY <1>4, <1>5 DEF IInv

\* The invariant holds at the start.
LEMMA InitInv == Init => IInv
<1> SUFFICES ASSUME Init PROVE IInv OBVIOUS
<1>1. FramesOf(segs) = {} /\ Len(segs) = 0 /\ DOMAIN segs = {} BY DEF Init, FramesOf
<1>2. Waiting = {} BY DEF Init, Waiting
<1>3. TypeOK
  <2>1. worker \in [step : Steps, end : Positions, backlog : Nat]
    BY DEF Init, Idle, Steps, Positions, Position
  <2>2. adm \in Admission BY SpoolAssumption DEF Init, Admission
  <2>3. checkpoint \in Positions BY DEF Init, Position, Positions
  <2>4. queue \in Seq(Cdrs) /\ Len(queue) <= Capacity /\ events \in 0..MaxEvents BY SpoolAssumption DEF Init
  <2>5. segs \in Seq(Seq(Frames)) /\ quarantine = {} /\ db = {} /\ stop = "no" BY DEF Init
  <2>6. call \in [Cdrs -> {"none", "active", "permit", "queued", "durable", "refused", "lost"}] BY DEF Init
  <2>7. wake = FALSE /\ written = None /\ up = TRUE /\ recovered = TRUE BY DEF Init
  <2> QED BY <2>1, <2>2, <2>3, <2>4, <2>5, <2>6, <2>7 DEF TypeOK, Steps, Positions, Admission
<1>4. QueueOK BY DEF Init, QueueOK
<1>5. PermitsOK BY <1>2, FS_EmptySet, SpoolAssumption DEF PermitsOK
<1>6. SpoolOK
  <2>1. checkpoint.seg = 0 /\ up = TRUE BY DEF Init, Position
  <2>2. checkpoint.seg <= Len(segs) BY <2>1, <1>1
  <2>3. IsFiniteSet(FramesOf(segs)) BY <1>1, FS_EmptySet
  <2> QED BY <2>1, <2>2, <2>3, <1>1 DEF SpoolOK
<1>7. WorkerOK BY DEF Init, Idle, WorkerOK, Replaying
<1>8. CheckpointIsSettled BY <1>1 DEF CheckpointIsSettled
<1> QED BY <1>3, <1>4, <1>5, <1>6, <1>7, <1>8 DEF IInv

\* ... and every step keeps it.
LEMMA NextInv == IInv /\ [Next]_vars => IInv'
<1> SUFFICES ASSUME IInv, [Next]_vars PROVE IInv' OBVIOUS
<1>1. CASE UNCHANGED vars
  <2>1. UNCHANGED <<disk, worker>> /\ up' = up BY <1>1 DEF vars, disk
  <2>2. SpoolOK' /\ WorkerOK' /\ CheckpointIsSettled' BY <2>1, SpoolUntouched
  <2>3. QueueOK' /\ PermitsOK' BY <1>1, QueueUntouched DEF vars, IInv, QueueOK
  <2>4. TypeOK' BY <1>1 DEF vars, IInv, TypeOK
  <2> QED BY <2>2, <2>3, <2>4 DEF IInv
<1>2. CASE \E r \in Cdrs : StartCall(r) \/ AcquirePermit(r) \/ SendWrite(r)
  BY <1>2, StartCallInv, AcquirePermitInv, SendWriteInv
<1>3. CASE \E l \in Limits : SetLimits(l) BY <1>3, SetLimitsInv
<1>4. CASE \E stays \in BOOLEAN : AppendFails(stays) BY <1>4, AppendFailsInv
<1>5. CASE WorkerStep
  BY <1>5, WorkerWakesInv, PersistRecordInv, SkipQuarantinedInv, RetryLaterInv, AcknowledgeInv,
     PurgeSegmentsInv, ReadBacklogInv, ReportBacklogInv, LoadEntriesInv DEF WorkerStep
<1>6. CASE \E kind \in {"ok", "torn"} : CrashInAppend(kind) BY <1>6, CrashInAppendInv
<1>7. CASE \E p \in FramesOf(segs) : Corrupt(p) BY <1>7, CorruptInv
<1> QED
  BY <1>1, <1>2, <1>3, <1>4, <1>5, <1>6, <1>7, ApplyLimitsInv, AppendFrameInv, ReportAppendInv,
     AskShutdownInv, CloseQueueInv, DrainWorkersInv, ExitInv, CrashInv, RestartInv DEF Next

\* A stopping writer with an empty queue owes no answer.
LEMMA InvImpliesSafe == IInv => PipelineSafe
BY DEF IInv, PipelineSafe, QueueOK, ShutdownAnswersAll

\* The invariant holds in every state.
LEMMA InvHolds == Spec => []IInv
BY InitInv, NextInv, PTL DEF Spec

\* The writer never holds more records than it gave permits, the checkpoint
\* passes only frames that were persisted or set aside, and the writer stops
\* only when all it took is answered: for all segment sizes and capacities,
\* any number of crashes and with the races of AllRaces.
THEOREM PipelineIsSafe == Spec => []PipelineSafe
BY InvHolds, InvImpliesSafe, PTL

----------------------------------------------------------------------------
(* What was promised is kept *)

\* The steps that promise nothing, append nothing and cut nothing.
LEMMA KeptCarries ==
  ASSUME IInv, KeptInv, KeptRecords \subseteq KeptRecords',
         \A r \in Cdrs : call'[r] = "durable" => call[r] = "durable",
         written' # None => written # None /\ Head(queue') = Head(queue),
         recovered' => recovered,
         Unread' \subseteq Unread, Len(segs') = Len(segs),
         \A p \in Unread' : /\ FrameAt(p)'.kind = "torn" => FrameAt(p).kind = "torn"
                            /\ Len(segs'[p.seg]) = Len(segs[p.seg])
  PROVE  KeptInv'
<1>1. DurableIsKept' BY DEF KeptInv, DurableIsKept, KeptRecords, Settled
<1>2. written' # None => Head(queue') \in KeptRecords' BY DEF KeptInv
<1>3. recovered' => \A p \in Unread' : FrameAt(p)'.kind # "torn" BY DEF KeptInv
<1>4. \A p \in Unread' : FrameAt(p)'.kind = "torn" => p.seg = Len(segs') /\ p.off = Len(segs'[p.seg])
  BY DEF KeptInv
<1> QED BY <1>1, <1>2, <1>3, <1>4 DEF KeptInv

\* ... the ones among them that leave the files alone.
LEMMA KeptDiskUntouched ==
  ASSUME IInv, KeptInv, UNCHANGED disk,
         \A r \in Cdrs : call'[r] = "durable" => call[r] = "durable",
         written' # None => written # None /\ Head(queue') = Head(queue),
         recovered' => recovered
  PROVE  KeptInv'
<1>1. segs' = segs /\ checkpoint' = checkpoint /\ db' = db /\ quarantine' = quarantine BY DEF disk
<1>2. Unread' = Unread BY <1>1 DEF Unread, FramesOf, Before
<1>3. \A p : FrameAt(p)' = FrameAt(p) BY <1>1 DEF FrameAt
<1>4. KeptRecords' = KeptRecords BY <1>1, <1>2, <1>3 DEF KeptRecords, Settled
<1> QED BY <1>1, <1>2, <1>3, <1>4, KeptCarries

\* An append comes behind no incomplete frame.
LEMMA KeptAppend ==
  ASSUME IInv, KeptInv, \A p \in Unread : FrameAt(p).kind # "torn",
         NEW f \in Frames, segs' = WithFrame(f), UNCHANGED <<checkpoint, quarantine, db>>,
         ~up' => worker'.step = "idle",
         \A r \in Cdrs : call'[r] = "durable" => call[r] = "durable",
         written' # None => Head(queue') = f.cdr, recovered' \/ written' # None => f.kind # "torn"
  PROVE  KeptInv'
<1>1. PICK e \in Positions :
           /\ Extends(segs', f, e) /\ e \notin Unread /\ Unread' = Unread \cup {e}
           /\ \A p \in FramesOf(segs) : FrameAt(p)' = FrameAt(p)
           /\ FrameAt(e)' = f /\ FramesOf(segs)' = FramesOf(segs) \cup {e}
  BY AppendedFrame DEF IInv
<1>2. KeptRecords \subseteq KeptRecords' /\ (f.kind # "torn" => f.cdr \in KeptRecords')
  BY AppendKeepsSpool DEF IInv
<1>3. Unread \subseteq FramesOf(segs) BY DEF Unread
<1>4. \A p \in Unread' : FrameAt(p)'.kind = "torn" => p = e /\ f.kind = "torn" BY <1>1, <1>3
<1>5. DurableIsKept' BY <1>2 DEF KeptInv, DurableIsKept, KeptRecords, Settled
<1>6. written' # None => Head(queue') \in KeptRecords' BY <1>2
<1>7. recovered' => \A p \in Unread' : FrameAt(p)'.kind # "torn" BY <1>4
<1>8. \A p \in Unread' : FrameAt(p)'.kind = "torn" => p.seg = Len(segs') /\ p.off = Len(segs'[p.seg])
  BY <1>1, <1>4 DEF Extends
<1> QED BY <1>5, <1>6, <1>7, <1>8 DEF KeptInv

\* The replay cuts nothing but the incomplete frame.
LEMMA KeptLoadEntries ==
  ASSUME IInv, KeptInv, NEW keep \in BOOLEAN, LoadEntries(keep)
  PROVE  KeptInv'
<1>1. /\ Recovered \in Seq(Seq(Frames))
      /\ FramesOf(Recovered) \subseteq FramesOf(segs)
      /\ \A p \in FramesOf(Recovered) : /\ Recovered[p.seg][p.off] = FrameAt(p)
                                        /\ Before(checkpoint, p) => FrameAt(p).kind # "torn"
  BY RecoveredSpool DEF IInv
<1>2. /\ segs' = Recovered /\ UNCHANGED <<checkpoint, db, call, queue, written>>
      /\ quarantine \subseteq quarantine'
  BY DEF LoadEntries
<1>3. FramesOf(segs)' = FramesOf(Recovered) BY <1>2 DEF FramesOf
<1>4. \A p \in FramesOf(Recovered) : FrameAt(p)' = FrameAt(p) BY <1>1, <1>2 DEF FrameAt
<1>5. Unread' = {p \in FramesOf(Recovered) : Before(checkpoint, p)} BY <1>2, <1>3 DEF Unread, Before
<1>6. \A p \in Unread' : FrameAt(p)'.kind # "torn" BY <1>1, <1>4, <1>5
<1>7. ASSUME NEW p \in Unread, FrameAt(p).kind # "torn" PROVE p \in Unread'
  <2> SUFFICES ASSUME p \notin FramesOf(Recovered) PROVE FALSE BY <1>5 DEF Unread
  <2> DEFINE s == p.seg
  <2>0. p \in FramesOf(segs) BY DEF Unread
  <2>1. /\ p \in Positions /\ s \in DOMAIN segs /\ p.off \in 1..Len(segs[s])
        /\ segs[s] \in Seq(Frames) /\ s \in Nat
    BY <2>0, FramesMember DEF IInv, TypeOK
  <2>2. p.off \notin DOMAIN Kept(s)
    <3>1. Recovered[s] = Kept(s) /\ s \in DOMAIN Recovered BY <2>1 DEF Recovered
    <3> QED BY <3>1, <2>1, <1>1, FramesMember
  <2>3. Kept(s) \in Seq(Frames) BY <2>1, KeptSegment DEF IInv
  <2>4. p.off > Len(Kept(s)) BY <2>1, <2>2, <2>3
  <2>5. Torn(s) # {} /\ (p.off = CutOf(s) \/ p.off \in (CutOf(s) + 1)..Len(segs[s]))
    BY <2>1, <2>4, KeptSegment DEF IInv
  <2>6. CutOf(s) \in Torn(s) BY <2>1, <2>5, CutIsFirst DEF IInv
  <2>7. CutOf(s) \in 1..Len(segs[s]) /\ segs[s][CutOf(s)].kind = "torn"
        /\ Before(checkpoint, Position(s, CutOf(s)))
    BY <2>1, <2>6 DEF Torn
  <2> DEFINE q == Position(s, CutOf(s))
  <2>8. q \in Positions /\ q.seg = s /\ q.off = CutOf(s) BY <2>1, <2>7 DEF Position, Positions
  <2>9. q \in Unread /\ FrameAt(q).kind = "torn"
    <3>1. q \in FramesOf(segs) BY <2>1, <2>7, <2>8, FramesMember DEF IInv, TypeOK
    <3> QED BY <3>1, <2>7, <2>8 DEF Unread, FrameAt
  <2>10. CutOf(s) = Len(segs[s]) BY <2>8, <2>9 DEF KeptInv
  <2>11. p.off = CutOf(s) BY <2>1, <2>5, <2>7, <2>10
  <2> QED BY <2>7, <2>11, <1>7 DEF FrameAt
<1>8. KeptRecords \subseteq KeptRecords'
  <2>1. Settled \subseteq Settled' BY <1>2 DEF Settled
  <2>2. ASSUME NEW p \in Unread, FrameAt(p).kind # "torn" PROVE FrameAt(p).cdr \in KeptRecords'
    <3>1. p \in Unread' /\ FrameAt(p)' = FrameAt(p) BY <2>2, <1>4, <1>5, <1>7
    <3> QED BY <3>1, <2>2 DEF KeptRecords
  <2>3. Settled' \subseteq KeptRecords' BY DEF KeptRecords
  <2> QED BY <2>1, <2>2, <2>3 DEF KeptRecords
<1>9. DurableIsKept' BY <1>2, <1>8 DEF KeptInv, DurableIsKept, KeptRecords, Settled
<1>10. written' # None => Head(queue') \in KeptRecords' BY <1>2, <1>8 DEF KeptInv
<1> QED BY <1>6, <1>9, <1>10 DEF KeptInv

\* Every step keeps what was promised, as long as no append comes before the
\* replay of a restarted process.
LEMMA KeptNext ==
  ASSUME "AppendBeforeReplay" \notin Races, IInv, KeptInv, [Next]_vars
  PROVE  KeptInv'
<1>1. MayAppend => \A p \in Unread : FrameAt(p).kind # "torn" BY DEF MayAppend, KeptInv
<1>2. CASE UNCHANGED vars
  <2>1. UNCHANGED disk /\ UNCHANGED <<call, queue, written, recovered>> BY <1>2 DEF vars, disk
  <2> QED BY <2>1, KeptDiskUntouched
<1>3. ASSUME NEW r \in Cdrs, StartCall(r) PROVE KeptInv'
  <2>1. \A x \in Cdrs : call'[x] = "durable" => call[x] = "durable" BY <1>3 DEF StartCall, IInv, TypeOK
  <2> QED BY <1>3, <2>1, KeptDiskUntouched DEF StartCall
<1>4. ASSUME NEW r \in Cdrs, AcquirePermit(r) PROVE KeptInv'
  <2>1. \A x \in Cdrs : call'[x] = "durable" => call[x] = "durable" BY <1>4 DEF AcquirePermit, IInv, TypeOK
  <2> QED BY <1>4, <2>1, KeptDiskUntouched DEF AcquirePermit
<1>5. ASSUME NEW r \in Cdrs, SendWrite(r) PROVE KeptInv'
  <2>1. \A x \in Cdrs : call'[x] = "durable" => call[x] = "durable" BY <1>5 DEF SendWrite, IInv, TypeOK
  <2>2. written # None => Head(queue') = Head(queue)
    <3> SUFFICES ASSUME written # None PROVE Head(queue') = Head(queue) OBVIOUS
    <3>1. queue \in Seq(Cdrs) /\ queue # <<>> BY DEF IInv, TypeOK, QueueOK
    <3>2. queue' = queue \/ queue' = Append(queue, r) BY <1>5 DEF SendWrite
    <3> QED BY <3>1, <3>2
  <2> QED BY <1>5, <2>1, <2>2, KeptDiskUntouched DEF SendWrite
<1>6. ASSUME NEW l \in Limits, SetLimits(l) PROVE KeptInv' BY <1>6, KeptDiskUntouched DEF SetLimits
<1>7. CASE ApplyLimits BY <1>7, KeptDiskUntouched DEF ApplyLimits
<1>8. CASE AppendFrame
  <2> DEFINE f == Frame("ok", Head(queue))
  <2>1. /\ MayAppend /\ segs' = WithFrame(f) /\ up' /\ queue # <<>>
        /\ UNCHANGED <<call, queue, checkpoint, quarantine, db>>
    BY <1>8 DEF AppendFrame, MayAppend
  <2>2. f \in Frames /\ f.kind = "ok" /\ f.cdr = Head(queue)
    BY <2>1, HeadOfQueue DEF IInv, Frame, Frames
  <2> HIDE DEF f
  <2> QED BY <1>1, <2>1, <2>2, KeptAppend
<1>9. ASSUME NEW stays \in BOOLEAN, AppendFails(stays) PROVE KeptInv'
  <2> DEFINE f == Frame("ok", Head(queue))
  <2>1. /\ MayAppend /\ up' /\ queue # <<>> /\ written = None
        /\ UNCHANGED <<call, queue, checkpoint, quarantine, db, written, recovered>>
        /\ segs' = WithFrame(f) \/ segs' = segs
    BY <1>9 DEF AppendFails, MayAppend
  <2>2. f \in Frames /\ f.kind = "ok" /\ f.cdr = Head(queue)
    BY <2>1, HeadOfQueue DEF IInv, Frame, Frames
  <2> HIDE DEF f
  <2>3. CASE segs' = WithFrame(f) BY <1>1, <2>1, <2>2, <2>3, KeptAppend
  <2>4. CASE segs' = segs BY <2>1, <2>4, KeptDiskUntouched DEF disk
  <2> QED BY <2>1, <2>3, <2>4
<1>10. CASE ReportAppend
  <2>1. /\ UNCHANGED <<disk, recovered>> /\ written # None /\ written' = None
        /\ call' = [call EXCEPT ![Head(queue)] = "durable"]
    BY <1>10 DEF ReportAppend
  <2>2. segs' = segs /\ checkpoint' = checkpoint /\ db' = db /\ quarantine' = quarantine BY <2>1 DEF disk
  <2>3. Unread' = Unread BY <2>2 DEF Unread, FramesOf, Before
  <2>4. \A p : FrameAt(p)' = FrameAt(p) BY <2>2 DEF FrameAt
  <2>5. KeptRecords' = KeptRecords BY <2>2, <2>3, <2>4 DEF KeptRecords, Settled
  <2>6. Head(queue) \in KeptRecords BY <2>1 DEF KeptInv
  <2>7. \A r \in Cdrs : call'[r] = "durable" => r = Head(queue) \/ call[r] = "durable"
    BY <2>1 DEF IInv, TypeOK
  <2>8. DurableIsKept' BY <2>5, <2>6, <2>7 DEF KeptInv, DurableIsKept, KeptRecords, Settled
  <2> QED BY <2>1, <2>2, <2>3, <2>4, <2>8 DEF KeptInv
<1>11. CASE WorkerStep
  <2>1. CASE WorkerWakes BY <2>1, KeptDiskUntouched DEF WorkerWakes
  <2>2. CASE SkipQuarantined BY <2>2, KeptDiskUntouched DEF SkipQuarantined
  <2>3. CASE RetryLater BY <2>3, KeptDiskUntouched DEF RetryLater
  <2>4. CASE ReadBacklog BY <2>4, KeptDiskUntouched DEF ReadBacklog
  <2>5. CASE ReportBacklog BY <2>5, KeptDiskUntouched DEF ReportBacklog
  <2>6. CASE PersistRecord
    <3>1. UNCHANGED <<call, queue, segs, checkpoint, written, recovered>> BY <2>6 DEF PersistRecord
    <3>2. Unread' = Unread /\ \A p : FrameAt(p)' = FrameAt(p)
      BY <3>1 DEF Unread, FramesOf, Before, FrameAt
    <3>3. KeptRecords \subseteq KeptRecords' BY <2>6, PersistRecordSpool DEF IInv
    <3> QED BY <3>1, <3>2, <3>3, KeptCarries
  <2>7. CASE Acknowledge
    <3>1. UNCHANGED <<call, queue, segs, written, recovered>> BY <2>7 DEF Acknowledge
    <3>2. KeptRecords \subseteq KeptRecords' /\ Unread' \subseteq Unread BY <2>7, AcknowledgeSpool DEF IInv
    <3>3. \A p : FrameAt(p)' = FrameAt(p) BY <3>1 DEF FrameAt
    <3> QED BY <3>1, <3>2, <3>3, KeptCarries
  <2>8. CASE PurgeSegments
    <3>1. UNCHANGED <<call, queue, written, recovered>> BY <2>8 DEF PurgeSegments
    <3>2. /\ KeptRecords \subseteq KeptRecords' /\ Unread' = Unread /\ Len(segs') = Len(segs)
          /\ \A p \in Unread : FrameAt(p)' = FrameAt(p) /\ segs'[p.seg] = segs[p.seg]
      BY <2>8, PurgeSegmentsSpool DEF IInv
    <3> QED BY <3>1, <3>2, KeptCarries
  <2> QED BY <1>11, <2>1, <2>2, <2>3, <2>4, <2>5, <2>6, <2>7, <2>8, KeptLoadEntries DEF WorkerStep
<1>12. CASE AskShutdown BY <1>12, KeptDiskUntouched DEF AskShutdown
<1>13. CASE CloseQueue BY <1>13, KeptDiskUntouched DEF CloseQueue
<1>14. CASE DrainWorkers BY <1>14, KeptDiskUntouched DEF DrainWorkers
<1>15. CASE Restart BY <1>15, KeptDiskUntouched DEF Restart
<1>16. Down => /\ \A r \in Cdrs : call'[r] = "durable" => call[r] = "durable"
               /\ written' = None /\ ~recovered' /\ worker'.step = "idle"
  BY DEF Down, Idle
<1>17. CASE Exit BY <1>16, <1>17, KeptDiskUntouched DEF Exit
<1>18. CASE Crash BY <1>16, <1>18, KeptDiskUntouched DEF Crash
<1>19. ASSUME NEW kind \in {"ok", "torn"}, CrashInAppend(kind) PROVE KeptInv'
  <2> DEFINE f == Frame(kind, Head(queue))
  <2>1. /\ MayAppend /\ Down /\ segs' = WithFrame(f) /\ queue # <<>>
        /\ UNCHANGED <<checkpoint, quarantine, db>>
    BY <1>19 DEF CrashInAppend, MayAppend
  <2>2. f \in Frames BY <2>1, HeadOfQueue DEF IInv, Frame, Frames
  <2> HIDE DEF f
  <2> QED BY <1>1, <1>16, <2>1, <2>2, KeptAppend
<1>20. ASSUME NEW p \in FramesOf(segs), Corrupt(p) PROVE KeptInv'
  <2>1. UNCHANGED <<call, queue, written, recovered>> BY <1>20 DEF Corrupt
  <2>2. /\ KeptRecords \subseteq KeptRecords' /\ Unread' = Unread /\ Len(segs') = Len(segs)
        /\ \A s \in DOMAIN segs : Len(segs'[s]) = Len(segs[s])
        /\ \A q \in Unread : FrameAt(q)'.kind = "torn" => FrameAt(q).kind = "torn"
    BY <1>20, CorruptSpool DEF IInv
  <2>3. \A q \in Unread : q.seg \in DOMAIN segs BY FramesMember DEF Unread, IInv, TypeOK
  <2> QED BY <2>1, <2>2, <2>3, KeptCarries
<1> QED
  BY <1>2, <1>3, <1>4, <1>5, <1>6, <1>7, <1>8, <1>9, <1>10, <1>11, <1>12, <1>13, <1>14, <1>15,
     <1>17, <1>18, <1>19, <1>20 DEF Next

\* Nothing is promised at the start.
LEMMA KeptInit == Init => KeptInv
<1> SUFFICES ASSUME Init PROVE KeptInv OBVIOUS
<1>1. FramesOf(segs) = {} BY DEF Init, FramesOf
<1>2. Unread = {} BY <1>1 DEF Unread
<1>3. \A r \in Cdrs : call[r] # "durable" BY DEF Init
<1>4. written = None BY DEF Init
<1> QED BY <1>2, <1>3, <1>4 DEF KeptInv, DurableIsKept

\* A record whose finalizer was told Ok stays in the database, in quarantine
\* or in a frame a replay reads, over any number of crashes inside and between
\* the steps of the writer and the worker.  The writer must wait for the first
\* replay of a restarted process: behind an incomplete frame it would append
\* what the replay then drops.
THEOREM PromisesAreKept ==
  ASSUME "AppendBeforeReplay" \notin Races
  PROVE  Spec => []DurableIsKept
<1>1. Init => IInv /\ KeptInv BY InitInv, KeptInit
<1>2. IInv /\ KeptInv /\ [Next]_vars => (IInv /\ KeptInv)' BY NextInv, KeptNext
<1>3. KeptInv => DurableIsKept BY DEF KeptInv
<1> QED BY <1>1, <1>2, <1>3, PTL DEF Spec

----------------------------------------------------------------------------
(* The pipeline implements CdrLog *)

logVars == <<Promised, Settled>>

\* The pipeline starts with nothing promised and nothing settled.
LEMMA LogInit == Init => Log!Init
BY DEF Init, Log!Init, Promised, Settled

\* A step that moves no finalizer to "durable" and none away from it.
LEMMA PromisedSame ==
  ASSUME \A r \in Cdrs : call'[r] = "durable" <=> call[r] = "durable"
  PROVE  Promised' = Promised
BY DEF Promised

\* A replay and a transaction settle records, the report of an append
\* promises one, and no other step is seen by the log.
LEMMA LogStep ==
  ASSUME IInv, [Next]_vars
  PROVE  [Log!Next]_logVars
<1>1. ASSUME NEW r \in Cdrs, StartCall(r) \/ AcquirePermit(r) \/ SendWrite(r) PROVE UNCHANGED logVars
  <2>1. \A x \in Cdrs : call'[x] = "durable" <=> call[x] = "durable"
    BY <1>1 DEF StartCall, AcquirePermit, SendWrite, IInv, TypeOK
  <2>2. UNCHANGED disk BY <1>1 DEF StartCall, AcquirePermit, SendWrite
  <2> QED BY <2>1, <2>2, PromisedSame DEF logVars, Settled, disk
<1>2. ASSUME UNCHANGED <<call, db, quarantine>> PROVE UNCHANGED logVars
  BY <1>2, PromisedSame DEF logVars, Settled
<1>3. ASSUME Down, UNCHANGED <<db, quarantine>> PROVE UNCHANGED logVars
  <2>1. \A x \in Cdrs : call'[x] = "durable" <=> call[x] = "durable" BY <1>3 DEF Down
  <2> QED BY <1>3, <2>1, PromisedSame DEF logVars, Settled
<1>4. ASSUME call' = call, db \subseteq db', quarantine \subseteq quarantine',
             db' \subseteq Cdrs, quarantine' \subseteq Cdrs
      PROVE  Log!Next
  <2>1. Promised' = Promised BY <1>4, PromisedSame
  <2>2. Settled' = Settled \cup Settled' /\ Settled' \in SUBSET Cdrs BY <1>4 DEF Settled
  <2>3. Log!Settle(Settled') BY <2>1, <2>2 DEF Log!Settle
  <2> QED BY <2>2, <2>3 DEF Log!Next
<1>5. CASE ReportAppend
  <2> DEFINE h == Head(queue)
  <2>1. queue # <<>> BY <1>5 DEF ReportAppend, IInv, QueueOK
  <2>2. h \in Cdrs /\ call[h] = "queued" BY <2>1, HeadOfQueue DEF IInv, QueueOK
  <2>3. call' = [call EXCEPT ![h] = "durable"] /\ UNCHANGED disk BY <1>5 DEF ReportAppend
  <2>4. Promised' = Promised \cup {h} /\ h \notin Promised
    BY <2>2, <2>3 DEF Promised, IInv, TypeOK
  <2>5. Settled' = Settled BY <2>3 DEF Settled, disk
  <2>6. Log!Promise(h) BY <2>4, <2>5 DEF Log!Promise
  <2> QED BY <2>2, <2>6 DEF Log!Next
<1>6. CASE PersistRecord
  <2>1. db' \subseteq Cdrs /\ quarantine' \subseteq Cdrs BY <1>6, PersistRecordInv DEF IInv, TypeOK
  <2> QED BY <1>4, <1>6, <2>1 DEF PersistRecord
<1>7. ASSUME NEW keep \in BOOLEAN, LoadEntries(keep) PROVE Log!Next
  <2>1. db' \subseteq Cdrs /\ quarantine' \subseteq Cdrs BY <1>7, LoadEntriesInv DEF IInv, TypeOK
  <2> QED BY <1>4, <1>7, <2>1 DEF LoadEntries
<1>8. CASE WorkerStep
  BY <1>2, <1>6, <1>7, <1>8 DEF WorkerStep, WorkerWakes, SkipQuarantined, RetryLater, Acknowledge,
     PurgeSegments, ReadBacklog, ReportBacklog, disk
<1>9. CASE Exit \/ Crash \/ \E kind \in {"ok", "torn"} : CrashInAppend(kind)
  BY <1>3, <1>9 DEF Exit, Crash, CrashInAppend, disk
<1>10. CASE \/ UNCHANGED vars \/ \E l \in Limits : SetLimits(l)
            \/ ApplyLimits \/ AppendFrame \/ \E stays \in BOOLEAN : AppendFails(stays)
            \/ AskShutdown \/ CloseQueue \/ DrainWorkers \/ Restart
            \/ \E p \in FramesOf(segs) : Corrupt(p)
  <2>1. UNCHANGED <<call, db, quarantine>>
    BY <1>10 DEF vars, SetLimits, ApplyLimits, AppendFrame, AppendFails, AskShutdown, CloseQueue,
       DrainWorkers, Restart, Corrupt, disk
  <2> QED BY <1>2, <2>1
<1> QED BY <1>1, <1>5, <1>8, <1>9, <1>10 DEF Next

\* The safety part of ImplementsLog: what was promised stays promised, what
\* was settled stays settled, and nothing else happens to either.
THEOREM PipelineImplementsLog == Spec => Log!Init /\ [][Log!Next]_<<Promised, Settled>>
<1>1. IInv /\ [Next]_vars => [Log!Next]_logVars BY LogStep
<1> QED BY <1>1, LogInit, InvHolds, PTL DEF Spec, logVars
=============================================================================
