-------------------------- MODULE CallRecordsProofs --------------------------
(***************************************************************************)
(* Proofs about the records of a domain: the trace tables, the recordings, *)
(* their rows and files agree whatever interleaving, failed write, replay  *)
(* or crash happens, a complete recording lost nothing, and a stored trace *)
(* is not rewritten.  They hold for every number of calls and every value  *)
(* of the limits, with or without a start that races the stop.             *)
(***************************************************************************)
EXTENDS CallRecords, FiniteSetTheorems, SequenceTheorems, WellFoundedInduction, TLAPS

----------------------------------------------------------------------------
(* The inductive invariant *)

Statuses == {"none", "no_media", "incomplete", "complete", "failed"}
RecRecord ==
  [start : {"no", "opening", "refused", "started"}, stop : {"no", "cleared", "quiet", "joining", "stopped"},
   slot : BOOLEAN, tap : BOOLEAN, clone : BOOLEAN, queue : 0..RecCapacity, seen : 0..MaxPackets,
   written : BOOLEAN, dropped : BOOLEAN, status : Statuses]
BatchRecord ==
  [state : {"active", "spooled", "stored", "acked", "lost"}, ended : 0..Cardinality(Calls),
   available : BOOLEAN, status : Statuses]
Commands == [kind : {"mark"}, call : Calls, seq : {0}] \cup [kind : {"record"}, call : Calls, seq : 1..MaxMessages]
TraceRow == [ended : 0..Cardinality(Calls), incomplete : BOOLEAN]
RecordingRow == [status : Statuses \cup {"expired"}, path : BOOLEAN]

\* The migration: no row of an older version is lost.
BootInv ==
  /\ up \in {"down", "migrating", "running"}
  /\ legacy \in [tables : BOOLEAN, rows : SUBSET LegacyDomains] /\ migrated \subseteq LegacyDomains
  /\ LegacyKept

\* The trace writer and its channel.
TraceInv ==
  /\ tracing \in BOOLEAN /\ observed \in [Calls -> 0..MaxMessages]
  /\ tracked \subseteq Calls /\ marking \subseteq Calls
  /\ traceQueue \in Seq(Commands) /\ Len(traceQueue) <= QueueCapacity

TableTypes ==
  /\ traceCall \in [Calls -> {None} \cup TraceRow] /\ traceMsg \subseteq Calls \X (1..MaxMessages)
  /\ batch \in [Calls -> BatchRecord] /\ row \in [Calls -> {None} \cup RecordingRow]
  /\ cdr \in [Calls -> {None} \cup [available : BOOLEAN]]

\* The end of a call is in its batch before it is in its trace.
BatchOK ==
  \A c \in Calls :
    /\ Active(c) => batch[c].ended = 0
    /\ batch[c].state \in {"spooled", "stored", "acked"} => batch[c].ended > 0
    /\ traceCall[c] # None /\ traceCall[c].ended > 0 => batch[c].ended > 0

\* The tables.
StoreInv == TableTypes /\ BatchOK /\ NoOrphanMessages /\ RetentionBound /\ TraceIndexed

\* A recorder that was started keeps its session in the slot until the stop
\* takes it, a stop waits for a start under way, and a thread that ended by
\* itself has no sender left.
RecOK(c, r) ==
  /\ c \notin Recorded => r.start = "no"
  /\ r.status # "none" => r.start = "started"
  /\ r.start = "opening" => r.stop \notin {"joining", "stopped"}
  /\ r.start = "started" /\ r.stop \in {"no", "cleared", "quiet"} => r.slot
  /\ r.start = "started" /\ r.stop = "stopped" => r.status # "none"
  /\ r.status \in {"no_media", "incomplete", "complete"} => ~r.tap /\ ~r.clone
  /\ r.status = "complete" => ~r.dropped

\* The recorder is not at work: it did not start, or its thread has ended.
Ended(r) == r.start # "opening" /\ (r.start = "started" => r.status # "none")

\* A call that is not active has no recorder at work.
RecorderOK == \A c \in Calls : RecOK(c, rec[c]) /\ (~Active(c) => Ended(rec[c]))

\* A recording's row comes with its batch, and the cleanup works on rows whose
\* file it has removed.
CleanupOK ==
  /\ \A c \in Calls : row[c] # None => ~Active(c)
  /\ \A c \in sweep \cup removed : row[c] # None
  /\ \A c \in removed : c \notin file

FileTypes ==
  /\ rec \in [Calls -> RecRecord]
  /\ file \subseteq Calls /\ aged \subseteq Calls /\ sweep \subseteq Calls /\ removed \subseteq Calls

\* The recorders, the files and the cleanup.
MediaInv == FileTypes /\ RecorderOK /\ CleanupOK /\ ExpiredHasNoFile

EventsOK == events \in 0..MaxEvents

IInv == BootInv /\ TraceInv /\ StoreInv /\ MediaInv /\ EventsOK

\* The ended calls of a trace table, and the ones newer than a given one.
EndedTraces(table) == {c \in Calls : table[c] # None /\ table[c].ended > 0}
NewerTrace(table, d, c) ==
  table[d].ended > table[c].ended \/ (table[d].ended = table[c].ended /\ d > c)
NewerTraces(table, c) == {d \in EndedTraces(table) : NewerTrace(table, d, c)}

TraceTable == [Calls -> {None} \cup TraceRow]

----------------------------------------------------------------------------
(* Values *)


\* A set of naturals that is not empty has a least element.
LEMMA Smallest ==
  ASSUME NEW S \in SUBSET Nat, S # {}
  PROVE  \E n \in S : \A m \in S : n <= m
<1> DEFINE R == {ss \in Nat \X Nat : ss[1] < ss[2]}
<1>1. IsWellFoundedOn(R, Nat)
  BY NatLessThanWellFounded DEF OpToRel
<1>2. PICK x \in S : \A y \in S : ~(<<y, x>> \in R)
  <2> HIDE DEF R
  <2> QED BY <1>1, WFMin
<1>3. \A y \in S : x <= y
  <2> TAKE y \in S
  <2>1. x \in Nat /\ y \in Nat OBVIOUS
  <2>2. ~(y < x) BY <1>2, <2>1
  <2> QED BY <2>1, <2>2
<1> QED BY <1>3

\* A row of a table is not the value that stands for no row.
LEMMA NoneApart ==
  None \notin TraceRow /\ None \notin RecordingRow /\ None \notin [available : BOOLEAN]
<1>1. "none" \in DOMAIN None BY DEF None
<1>2. \A r \in TraceRow : DOMAIN r = {"ended", "incomplete"} BY DEF TraceRow
<1>3. \A r \in RecordingRow : DOMAIN r = {"status", "path"} BY DEF RecordingRow
<1>4. \A r \in [available : BOOLEAN] : DOMAIN r = {"available"} OBVIOUS
<1> QED BY <1>1, <1>2, <1>3, <1>4

----------------------------------------------------------------------------
(* The retention of traces *)

\* Any set of ended calls is finite.
LEMMA EndedFinite ==
  ASSUME NEW table
  PROVE  /\ EndedTraces(table) \subseteq Calls /\ IsFiniteSet(EndedTraces(table))
         /\ Cardinality(EndedTraces(table)) \in Nat
         /\ \A c : /\ IsFiniteSet(NewerTraces(table, c)) /\ Cardinality(NewerTraces(table, c)) \in Nat
                   /\ NewerTraces(table, c) \subseteq EndedTraces(table)
<1>1. EndedTraces(table) \subseteq Calls BY DEF EndedTraces
<1>2. IsFiniteSet(EndedTraces(table)) BY <1>1, FS_Subset, RecordsAssumption
<1>3. \A c : NewerTraces(table, c) \subseteq EndedTraces(table) BY DEF NewerTraces
<1>4. \A c : IsFiniteSet(NewerTraces(table, c)) BY <1>2, <1>3, FS_Subset
<1> QED BY <1>1, <1>2, <1>3, <1>4, FS_CardinalityType

\* The calls the retention selects are the ended ones with Keep newer ones.
LEMMA ExpiredIs ==
  ASSUME NEW table
  PROVE  Expired(table) = {c \in EndedTraces(table) : Cardinality(NewerTraces(table, c)) >= Keep}
BY DEF Expired, EndedTraces, NewerTraces, NewerTrace

\* Newest first is a total order.
LEMMA NewerOrder ==
  ASSUME NEW table \in TraceTable
  PROVE  LET E == EndedTraces(table) IN
         /\ \A c \in E : ~NewerTrace(table, c, c)
         /\ \A c, d \in E : c # d => NewerTrace(table, c, d) \/ NewerTrace(table, d, c)
         /\ \A c, d, e \in E : NewerTrace(table, c, d) /\ NewerTrace(table, d, e) => NewerTrace(table, c, e)
<1>1. \A c \in EndedTraces(table) : c \in Nat /\ table[c].ended \in Nat
  <2> TAKE c \in EndedTraces(table)
  <2>1. c \in Calls /\ table[c] \in TraceRow BY DEF EndedTraces, TraceTable
  <2>2. Cardinality(Calls) \in Nat BY RecordsAssumption, FS_CardinalityType
  <2> QED BY <2>1, <2>2, RecordsAssumption DEF TraceRow
<1> QED BY <1>1 DEF NewerTrace

\* A call that is newer than another has fewer newer ones.
LEMMA NewerRank ==
  ASSUME NEW table \in TraceTable, NEW c \in EndedTraces(table), NEW d \in EndedTraces(table),
         NewerTrace(table, d, c)
  PROVE  Cardinality(NewerTraces(table, d)) < Cardinality(NewerTraces(table, c))
<1>1. NewerTraces(table, d) \subseteq NewerTraces(table, c) BY NewerOrder DEF NewerTraces
<1>2. d \in NewerTraces(table, c) /\ d \notin NewerTraces(table, d) BY NewerOrder DEF NewerTraces
<1>3. IsFiniteSet(NewerTraces(table, c)) BY EndedFinite
<1>4. /\ Cardinality(NewerTraces(table, d)) <= Cardinality(NewerTraces(table, c))
      /\ Cardinality(NewerTraces(table, d)) = Cardinality(NewerTraces(table, c)) =>
           NewerTraces(table, d) = NewerTraces(table, c)
  BY <1>1, <1>3, FS_Subset
<1>5. Cardinality(NewerTraces(table, d)) \in Nat /\ Cardinality(NewerTraces(table, c)) \in Nat
  BY EndedFinite
<1> QED BY <1>2, <1>4, <1>5

\* The retention leaves at most Keep ended traces, and Keep of them when it
\* removes one.
LEMMA AfterRetention ==
  ASSUME NEW table \in TraceTable, NEW kept,
         kept = [c \in Calls |-> IF c \in Expired(table) THEN None ELSE table[c]]
  PROVE  /\ kept \in TraceTable
         /\ EndedTraces(kept) = EndedTraces(table) \ Expired(table)
         /\ Cardinality(EndedTraces(kept)) <= Keep
         /\ Expired(table) # {} => Cardinality(EndedTraces(kept)) >= Keep
<1> DEFINE E == EndedTraces(table)
           X == Expired(table)
           K == E \ X
           rank(c) == Cardinality(NewerTraces(table, c))
<1>1. kept \in TraceTable BY DEF TraceTable
<1>2. EndedTraces(kept) = K BY DEF EndedTraces
<1>3. /\ \A c : rank(c) \in Nat /\ IsFiniteSet(NewerTraces(table, c))
      /\ IsFiniteSet(E) /\ X \subseteq E
      /\ \A c \in E : c \in X <=> rank(c) >= Keep
  BY EndedFinite, ExpiredIs
<1>4. /\ \A c, d \in E : c # d => NewerTrace(table, c, d) \/ NewerTrace(table, d, c)
      /\ \A c, d \in E : NewerTrace(table, d, c) => d \in NewerTraces(table, c) /\ rank(d) < rank(c)
      /\ \A c, d \in E : d \in NewerTraces(table, c) => NewerTrace(table, d, c)
      /\ \A c : NewerTraces(table, c) \subseteq E
  <2>1. \A c, d \in E : NewerTrace(table, d, c) => rank(d) < rank(c) BY NewerRank
  <2> QED BY <2>1, NewerOrder DEF NewerTraces
<1>5. IsFiniteSet(K) /\ Cardinality(K) \in Nat /\ Keep \in Nat
  BY <1>3, FS_Subset, FS_CardinalityType, RecordsAssumption
<1> HIDE DEF E, X, rank
<1>6. Cardinality(K) <= Keep
  <2>1. CASE K = {} BY <2>1, <1>5, FS_EmptySet
  <2>2. CASE K # {}
    <3> DEFINE S == {Keep - rank(c) : c \in K}
    <3>1. \A c \in K : rank(c) \in Nat /\ rank(c) < Keep BY <1>3, <1>5
    <3>2. S \in SUBSET Nat /\ S # {} BY <3>1, <2>2, <1>5
    <3>3. PICK n \in S : \A k \in S : n <= k
      <4> HIDE DEF S
      <4> QED BY <3>2, Smallest
    <3>4. PICK m \in K : n = Keep - rank(m) BY <3>3
    <3>5. \A d \in K : rank(d) <= rank(m)
      <4> TAKE d \in K
      <4>1. Keep - rank(m) <= Keep - rank(d) BY <3>3, <3>4
      <4> QED BY <4>1, <3>1, <1>5
    <3>6. K \ {m} \subseteq NewerTraces(table, m)
      <4> SUFFICES ASSUME NEW d \in K, d # m PROVE d \in NewerTraces(table, m) OBVIOUS
      <4>1. ~(rank(m) < rank(d)) BY <3>5, <3>1
      <4> QED BY <4>1, <1>4
    <3>7. Cardinality(K \ {m}) <= rank(m) BY <3>6, <1>3, FS_Subset DEF rank
    <3>8. Cardinality(K \ {m}) = Cardinality(K) - 1 BY <1>5, FS_RemoveElement
    <3> QED BY <3>7, <3>8, <3>1, <1>5
  <2> QED BY <2>1, <2>2
<1>7. ASSUME X # {} PROVE Cardinality(K) >= Keep
  <2> DEFINE S == {rank(c) : c \in X}
  <2>1. S \in SUBSET Nat /\ S # {} BY <1>3, <1>7
  <2>2. PICK n \in S : \A k \in S : n <= k
    <3> HIDE DEF S
    <3> QED BY <2>1, Smallest
  <2>3. PICK e \in X : n = rank(e) BY <2>2
  <2>4. NewerTraces(table, e) \subseteq K
    <3> SUFFICES ASSUME NEW d \in NewerTraces(table, e) PROVE d \in K OBVIOUS
    <3>1. d \in E /\ e \in E BY <1>3, <1>4
    <3>2. rank(d) < rank(e) BY <3>1, <1>4
    <3>3. d \notin X BY <3>2, <2>2, <2>3, <1>3
    <3> QED BY <3>1, <3>3
  <2>5. rank(e) <= Cardinality(K) BY <2>4, <1>5, FS_Subset DEF rank
  <2> QED BY <2>5, <1>3, <1>5
<1> QED BY <1>1, <1>2, <1>6, <1>7 DEF X, E

----------------------------------------------------------------------------
(* Steps that leave a part alone *)

\* The migration's part.
LEMMA BootSame ==
  ASSUME IInv, UNCHANGED boot
  PROVE  BootInv'
BY DEF IInv, BootInv, LegacyKept, boot

\* The trace writer's part.
LEMMA TraceSame ==
  ASSUME IInv, UNCHANGED trace
  PROVE  TraceInv'
BY DEF IInv, TraceInv, trace

\* The tables, while the batches stay.
LEMMA StoreSame ==
  ASSUME IInv, UNCHANGED <<traceDb, tables, batch>>
  PROVE  StoreInv'
<1>1. UNCHANGED <<traceCall, traceMsg, row, cdr, batch>> BY DEF traceDb, tables
<1>2. StoreInv BY DEF IInv
<1>3. TableTypes' BY <1>1, <1>2 DEF StoreInv, TableTypes
<1>4. BatchOK' BY <1>1, <1>2 DEF StoreInv, BatchOK, Active
<1>5. NoOrphanMessages' BY <1>1, <1>2 DEF StoreInv, NoOrphanMessages
<1>6. RetentionBound' BY <1>1, <1>2 DEF StoreInv, RetentionBound
<1>7. TraceIndexed' BY <1>1, <1>2 DEF StoreInv, TraceIndexed
<1> QED BY <1>3, <1>4, <1>5, <1>6, <1>7 DEF StoreInv

\* The recorders, files and cleanup, while the batches stay.
LEMMA MediaSame ==
  ASSUME IInv, UNCHANGED <<rec, file, batch, tables, cleanup>>
  PROVE  MediaInv'
<1>1. UNCHANGED <<rec, file, batch, row, aged, sweep, removed>> BY DEF tables, cleanup
<1>2. MediaInv BY DEF IInv
<1>3. FileTypes' BY <1>1, <1>2 DEF MediaInv, FileTypes
<1>4. RecorderOK' BY <1>1, <1>2 DEF MediaInv, RecorderOK, RecOK, Ended, Active
<1>5. CleanupOK' BY <1>1, <1>2 DEF MediaInv, CleanupOK, Active
<1>6. ExpiredHasNoFile' BY <1>1, <1>2 DEF MediaInv, ExpiredHasNoFile
<1> QED BY <1>3, <1>4, <1>5, <1>6 DEF MediaInv

\* The count of events goes up to its bound.
LEMMA EventsStep ==
  ASSUME IInv, UNCHANGED events \/ (events < MaxEvents /\ events' = events + 1)
  PROVE  EventsOK'
BY RecordsAssumption DEF IInv, EventsOK

----------------------------------------------------------------------------
(* Steps of the start *)

\* Boot, MigrateDomain, MigrateFails and DropTables.
LEMMA StartInv ==
  ASSUME IInv, Boot \/ MigrateFails \/ DropTables \/ \E d \in LegacyDomains : MigrateDomain(d)
  PROVE  IInv'
<1>1. UNCHANGED <<trace, traceDb, rec, file, batch, tables, cleanup>>
  BY DEF Boot, MigrateFails, DropTables, MigrateDomain
<1>2. EventsOK' BY EventsStep DEF Boot, MigrateFails, DropTables, MigrateDomain
<1>3. BootInv'
  <2>0. BootInv BY DEF IInv
  <2>1. CASE Boot BY <2>0, <2>1 DEF Boot, BootInv, LegacyKept
  <2>2. CASE MigrateFails BY <2>0, <2>2 DEF MigrateFails, BootInv, LegacyKept
  <2>3. CASE DropTables BY <2>0, <2>3 DEF DropTables, BootInv, LegacyKept, Legacy
  <2>4. CASE \E d \in LegacyDomains : MigrateDomain(d) BY <2>0, <2>4 DEF MigrateDomain, BootInv, LegacyKept
  <2> QED BY <2>1, <2>2, <2>3, <2>4
<1>4. TraceInv' BY <1>1, TraceSame
<1>5. StoreInv' BY <1>1, StoreSame
<1>6. MediaInv' BY <1>1, MediaSame
<1> QED BY <1>2, <1>3, <1>4, <1>5, <1>6 DEF IInv

----------------------------------------------------------------------------
(* Steps of the trace writer *)

\* A command appended to the channel, and one taken from it.
LEMMA CommandIn ==
  ASSUME NEW c \in Calls, NEW n \in 1..MaxMessages
  PROVE  Command("record", c, n) \in Commands /\ Command("mark", c, 0) \in Commands
BY DEF Command, Commands

\* The steps that only concern the writer's memory.
LEMMA WriterInv ==
  ASSUME IInv, \/ TraceOff \/ WriteTraceFails
               \/ \E c \in Calls : Record(c) \/ Unrecorded(c) \/ MarkIncomplete(c)
  PROVE  IInv'
<1>1. UNCHANGED <<boot, traceDb, rec, file, batch, tables, cleanup>>
  BY DEF Record, Unrecorded, TraceOff, MarkIncomplete, WriteTraceFails
<1>2. EventsOK' BY EventsStep DEF Record, Unrecorded, TraceOff, MarkIncomplete, WriteTraceFails
<1>3. TraceInv'
  <2>0. TraceInv /\ MaxMessages \in Nat /\ QueueCapacity \in Nat BY RecordsAssumption DEF IInv
  <2>1. ASSUME NEW c \in Calls, Record(c) PROVE TraceInv'
    <3>1. observed[c] + 1 \in 1..MaxMessages /\ observed[c] + 1 \in 0..MaxMessages
      BY <2>0, <2>1 DEF Record, TraceInv
    <3>2. observed' \in [Calls -> 0..MaxMessages] BY <2>0, <2>1, <3>1 DEF Record, TraceInv
    <3>3. Command("record", c, observed[c] + 1) \in Commands BY <3>1, CommandIn
    <3>4. traceQueue' \in Seq(Commands) /\ Len(traceQueue') <= QueueCapacity
      <4> DEFINE m == Command("record", c, observed[c] + 1)
      <4>1. traceQueue' = traceQueue \/ (Len(traceQueue) < QueueCapacity /\ traceQueue' = Append(traceQueue, m))
        BY <2>1 DEF Record, HasRoom
      <4>2. traceQueue \in Seq(Commands) /\ Len(traceQueue) <= QueueCapacity /\ m \in Commands
        BY <2>0, <3>3 DEF TraceInv
      <4> HIDE DEF m
      <4> QED BY <2>0, <4>1, <4>2
    <3>5. UNCHANGED tracing /\ tracked' \subseteq Calls /\ marking' \subseteq Calls
      BY <2>0, <2>1 DEF Record, TraceInv
    <3> QED BY <2>0, <3>2, <3>4, <3>5 DEF TraceInv
  <2>2. ASSUME NEW c \in Calls, Unrecorded(c) PROVE TraceInv' BY <2>0, <2>2 DEF Unrecorded, TraceInv
  <2>3. CASE TraceOff BY <2>0, <2>3 DEF TraceOff, TraceInv
  <2>4. ASSUME NEW c \in Calls, MarkIncomplete(c) PROVE TraceInv'
    <3>1. Command("mark", c, 0) \in Commands BY DEF Command, Commands
    <3>2. traceQueue' \in Seq(Commands) /\ Len(traceQueue') <= QueueCapacity
      BY <2>0, <2>4, <3>1 DEF MarkIncomplete, TraceInv, HasRoom
    <3> QED BY <2>0, <2>4, <3>2 DEF MarkIncomplete, TraceInv
  <2>5. CASE WriteTraceFails
    <3>1. traceQueue' \in Seq(Commands) /\ Len(traceQueue') <= QueueCapacity
      BY <2>0, <2>5 DEF WriteTraceFails, TraceInv
    <3> QED BY <2>0, <2>5, <3>1 DEF WriteTraceFails, TraceInv
  <2> QED BY <2>1, <2>2, <2>3, <2>4, <2>5
<1>4. BootInv' BY <1>1, BootSame
<1>5. StoreInv' BY <1>1, StoreSame
<1>6. MediaInv' BY <1>1, MediaSame
<1> QED BY <1>2, <1>3, <1>4, <1>5, <1>6 DEF IInv

\* A step that stores messages or marks and leaves the ended traces as they
\* are keeps what the tables promise.
LEMMA RowsKept ==
  ASSUME StoreInv, UNCHANGED <<batch, tables>>,
         traceCall' \in TraceTable, traceMsg' \subseteq Calls \X (1..MaxMessages), NoOrphanMessages',
         \A c \in Calls : traceCall[c] # None => traceCall'[c] # None /\ traceCall'[c].ended = traceCall[c].ended,
         \A c \in Calls : traceCall[c] = None /\ traceCall'[c] # None => traceCall'[c].ended = 0
  PROVE  StoreInv'
<1>0. UNCHANGED <<row, cdr, batch>> BY DEF tables
<1>1. TableTypes' BY <1>0 DEF StoreInv, TableTypes, TraceTable
<1>2. BatchOK' BY <1>0 DEF StoreInv, BatchOK, Active
<1> DEFINE Old == {c \in Calls : traceCall[c] # None /\ traceCall[c].ended > 0}
           New == {c \in Calls : traceCall'[c] # None /\ traceCall'[c].ended > 0}
<1>3. New = Old OBVIOUS
<1>4. RetentionBound' <=> Cardinality(New) <= Keep BY DEF RetentionBound
<1>5. RetentionBound <=> Cardinality(Old) <= Keep BY DEF RetentionBound
<1>6. TraceIndexed => (\A c \in Calls : cdr[c] # None /\ cdr[c].available /\ traceCall[c] = None => Cardinality(Old) >= Keep)
  BY DEF TraceIndexed
<1>7. (\A c \in Calls : cdr'[c] # None /\ cdr'[c].available /\ traceCall'[c] = None => Cardinality(New) >= Keep) => TraceIndexed'
  BY DEF TraceIndexed
<1> HIDE DEF Old, New
<1>8. RetentionBound' BY <1>3, <1>4, <1>5 DEF StoreInv
<1>9. TraceIndexed' BY <1>0, <1>3, <1>6, <1>7 DEF StoreInv
<1> QED BY <1>1, <1>2, <1>8, <1>9 DEF StoreInv

\* The writer thread stores a message or a mark.
LEMMA WriteTraceInv ==
  ASSUME IInv, WriteTrace
  PROVE  IInv'
<1> DEFINE m == Head(traceQueue)
<1>0. StoreInv /\ TraceInv /\ TableTypes /\ NoOrphanMessages BY DEF IInv, StoreInv
<1>1. UNCHANGED <<boot, tracing, observed, tracked, marking, rec, file, batch, tables, cleanup, events>>
  BY DEF WriteTrace
<1>2. m \in Commands /\ traceQueue' \in Seq(Commands) /\ Len(traceQueue') <= QueueCapacity
  BY <1>0, RecordsAssumption DEF WriteTrace, TraceInv
<1>3. TraceInv' BY <1>0, <1>1, <1>2 DEF TraceInv
<1>4. m.call \in Calls /\ (m.kind = "record" => m.seq \in 1..MaxMessages) BY <1>2 DEF Commands
<1>5. StoreInv'
  <2>0. Cardinality(Calls) \in Nat BY RecordsAssumption, FS_CardinalityType
  <2>1. CASE m.kind = "record"
    <3>1. InsertMessage(m) BY <2>1 DEF WriteTrace
    <3> HIDE DEF m
    <3>2. [ended |-> 0, incomplete |-> FALSE] \in TraceRow BY <2>0 DEF TraceRow
    <3>3. \A c \in Calls : traceCall'[c] = IF c = m.call /\ traceCall[c] = None
                                          THEN [ended |-> 0, incomplete |-> FALSE] ELSE traceCall[c]
      BY <3>1, <1>0, <1>4 DEF InsertMessage, TableTypes
    <3>4. traceCall' \in TraceTable BY <3>1, <3>2, <1>0, <1>4 DEF InsertMessage, TableTypes, TraceTable
    <3>5. traceCall'[m.call] # None BY <3>3, <3>2, <1>4, NoneApart
    <3>6. traceMsg' \subseteq Calls \X (1..MaxMessages) BY <3>1, <1>0, <1>4, <2>1 DEF InsertMessage, TableTypes
    <3>7. NoOrphanMessages'
      <4> SUFFICES ASSUME NEW k \in traceMsg' PROVE traceCall'[k[1]] # None BY DEF NoOrphanMessages
      <4>1. CASE k = <<m.call, m.seq>> BY <4>1, <3>5
      <4>2. CASE k \in traceMsg
        <5>1. k[1] \in Calls BY <4>2, <1>0 DEF TableTypes
        <5>2. traceCall[k[1]] # None BY <4>2, <1>0 DEF NoOrphanMessages
        <5> QED BY <5>1, <5>2, <3>3
      <4> QED BY <4>1, <4>2, <3>1 DEF InsertMessage
    <3> QED BY <3>3, <3>4, <3>6, <3>7, <1>0, <1>1, RowsKept
  <2>2. CASE m.kind # "record"
    <3>1. MarkRow(m.call) BY <2>2 DEF WriteTrace
    <3> HIDE DEF m
    <3>2. \A c \in Calls : /\ traceCall'[c] \in {None} \cup TraceRow
                           /\ traceCall[c] = None => traceCall'[c] = None
                           /\ traceCall[c] # None => traceCall'[c] \in TraceRow /\ traceCall'[c].ended = traceCall[c].ended
      BY <3>1, <1>0, <1>4 DEF MarkRow, TableTypes, TraceRow
    <3>3. traceCall' \in TraceTable BY <3>1, <3>2, <1>0 DEF MarkRow, TableTypes, TraceTable
    <3>4. NoOrphanMessages'
      <4> SUFFICES ASSUME NEW k \in traceMsg' PROVE traceCall'[k[1]] # None BY DEF NoOrphanMessages
      <4>1. k \in traceMsg BY <3>1 DEF MarkRow
      <4>2. k[1] \in Calls /\ traceCall[k[1]] # None BY <4>1, <1>0 DEF TableTypes, NoOrphanMessages
      <4> QED BY <4>2, <3>2, NoneApart
    <3>5. traceMsg' \subseteq Calls \X (1..MaxMessages) BY <3>1, <1>0 DEF MarkRow, TableTypes
    <3> QED BY <3>2, <3>3, <3>4, <3>5, <1>0, <1>1, RowsKept, NoneApart
  <2> QED BY <2>1, <2>2
<1>6. BootInv' BY <1>1, BootSame
<1>7. MediaInv' BY <1>1, MediaSame
<1>8. EventsOK' BY <1>1, EventsStep
<1> QED BY <1>3, <1>5, <1>6, <1>7, <1>8 DEF IInv

----------------------------------------------------------------------------
(* Steps of the recorder *)

\* A step of one recorder that keeps its own promises keeps the invariant; a
\* file comes only from a recorder of an active call.
LEMMA RecStep ==
  ASSUME IInv, NEW c \in Calls, NEW r \in RecRecord, RecOK(c, r), ~Active(c) => Ended(r),
         rec' = [rec EXCEPT ![c] = r],
         UNCHANGED file \/ (Active(c) /\ file' = file \cup {c}),
         UNCHANGED <<boot, trace, traceDb, batch, tables, cleanup>>, EventsOK'
  PROVE  IInv'
<1>0. MediaInv BY DEF IInv
<1>1. UNCHANGED <<batch, row, aged, sweep, removed>> BY DEF tables, cleanup
<1>2. \A d \in Calls : rec'[d] = IF d = c THEN r ELSE rec[d] BY <1>0 DEF MediaInv, FileTypes
<1>3. FileTypes' BY <1>0, <1>1 DEF MediaInv, FileTypes
<1>4. RecorderOK'
  <2> SUFFICES ASSUME NEW d \in Calls
               PROVE  RecOK(d, rec'[d]) /\ (~(batch'[d].state = "active") => Ended(rec'[d]))
    BY DEF RecorderOK, Active
  <2>1. CASE d = c BY <2>1, <1>1, <1>2 DEF Active
  <2>2. CASE d # c
    <3>1. rec'[d] = rec[d] BY <2>2, <1>2
    <3>2. RecOK(d, rec[d]) /\ (~Active(d) => Ended(rec[d])) BY <1>0 DEF MediaInv, RecorderOK
    <3> QED BY <3>1, <3>2, <1>1 DEF Active
  <2> QED BY <2>1, <2>2
<1>5. CleanupOK' /\ ExpiredHasNoFile'
  <2>1. Active(c) => row[c] = None /\ c \notin removed BY <1>0 DEF MediaInv, CleanupOK
  <2> QED BY <1>0, <1>1, <2>1 DEF MediaInv, CleanupOK, ExpiredHasNoFile, Active
<1>6. BootInv' BY BootSame
<1>7. TraceInv' BY TraceSame
<1>8. StoreInv' BY StoreSame
<1> QED BY <1>3, <1>4, <1>5, <1>6, <1>7, <1>8 DEF IInv, MediaInv

\* What is known of a recorder before a step of it.
LEMMA RecBefore ==
  ASSUME IInv, NEW c \in Calls
  PROVE  rec[c] \in RecRecord /\ RecOK(c, rec[c]) /\ (~Active(c) => Ended(rec[c]))
BY DEF IInv, MediaInv, FileTypes, RecorderOK

\* The same, when SetRec writes the recorder.
LEMMA SetRecInv ==
  ASSUME IInv, NEW c \in Calls, NEW r \in RecRecord, RecOK(c, r), ~Active(c) => Ended(r), SetRec(c, r)
  PROVE  IInv'
<1>1. EventsOK' BY EventsStep DEF SetRec
<1> QED BY <1>1, RecStep DEF SetRec

\* The start of a recording.
LEMMA StartRecordingInv ==
  ASSUME IInv, NEW c \in Calls, StartRecording(c) \/ StartedRecording(c)
  PROVE  IInv'
<1> DEFINE o == rec[c]
<1>0. o \in RecRecord /\ RecOK(c, o) /\ (~Active(c) => Ended(o)) BY RecBefore
<1>1. CASE StartRecording(c)
  <2> DEFINE r == [o EXCEPT !.start = IF o.stop = "no" THEN "opening" ELSE "refused"]
  <2>1. SetRec(c, r) /\ c \in Recorded /\ Active(c) /\ o.start = "no" BY <1>1 DEF StartRecording
  <2> HIDE DEF o
  <2>2. r \in RecRecord /\ RecOK(c, r) BY <1>0, <2>1 DEF RecRecord, RecOK, Statuses
  <2> HIDE DEF r
  <2> QED BY <2>1, <2>2, SetRecInv
<1>2. CASE StartedRecording(c)
  <2> DEFINE r == [o EXCEPT !.start = "started", !.tap = TRUE, !.slot = TRUE]
             q == [o EXCEPT !.start = "refused"]
  <2>1. o.start = "opening" /\ (SetRec(c, r) \/ SetRec(c, q)) BY <1>2 DEF StartedRecording, OpenFails
  <2> HIDE DEF o
  <2>2. Active(c) BY <1>0, <2>1 DEF Ended
  <2>3. r \in RecRecord /\ RecOK(c, r) BY <1>0, <2>1 DEF RecRecord, RecOK, Statuses
  <2>4. q \in RecRecord /\ RecOK(c, q) BY <1>0, <2>1 DEF RecRecord, RecOK, Statuses
  <2> HIDE DEF r, q
  <2> QED BY <2>1, <2>2, <2>3, <2>4, SetRecInv
<1> QED BY <1>1, <1>2

\* The relays tap packets, and the recorder's thread takes them.
LEMMA PacketInv ==
  ASSUME IInv, NEW c \in Calls, CloneTap(c) \/ Tap(c) \/ RecordPacket(c)
  PROVE  IInv'
<1> DEFINE o == rec[c]
<1>0. /\ o \in RecRecord /\ RecOK(c, o) /\ (~Active(c) => Ended(o))
      /\ MaxPackets \in Nat /\ RecCapacity \in Nat
  BY RecBefore, RecordsAssumption
<1>1. CASE CloneTap(c)
  <2> DEFINE r == [o EXCEPT !.clone = TRUE, !.seen = @ + 1]
  <2>1. SetRec(c, r) /\ o.tap /\ o.seen < MaxPackets BY <1>1 DEF CloneTap
  <2> HIDE DEF o
  <2>2. o.seen + 1 \in 0..MaxPackets BY <1>0, <2>1 DEF RecRecord
  <2>3. r \in RecRecord BY <1>0, <2>2 DEF RecRecord
  <2>4. RecOK(c, r) /\ (~Active(c) => Ended(r)) BY <1>0, <2>1 DEF RecRecord, RecOK, Ended
  <2> HIDE DEF r
  <2> QED BY <2>1, <2>3, <2>4, SetRecInv
<1>2. CASE Tap(c)
  <2> DEFINE r == [o EXCEPT !.clone = FALSE, !.queue = @ + 1]
             q == [o EXCEPT !.clone = FALSE, !.dropped = TRUE]
  <2>1. o.clone /\ ((o.queue < RecCapacity /\ SetRec(c, r)) \/ SetRec(c, q)) BY <1>2 DEF Tap
  <2> HIDE DEF o
  <2>2. o.queue < RecCapacity => o.queue + 1 \in 0..RecCapacity BY <1>0 DEF RecRecord
  <2>3. o.queue < RecCapacity => r \in RecRecord BY <1>0, <2>2 DEF RecRecord
  <2>4. RecOK(c, r) /\ (~Active(c) => Ended(r)) BY <1>0, <2>1 DEF RecRecord, RecOK, Ended
  <2>5. q \in RecRecord BY <1>0 DEF RecRecord
  <2>6. RecOK(c, q) /\ (~Active(c) => Ended(q)) BY <1>0, <2>1 DEF RecRecord, RecOK, Ended
  <2> HIDE DEF r, q
  <2> QED BY <2>1, <2>3, <2>4, <2>5, <2>6, SetRecInv
<1>3. CASE RecordPacket(c)
  <2> DEFINE r == [o EXCEPT !.queue = @ - 1]
             q == [r EXCEPT !.written = TRUE]
  <2>1. o.queue > 0 /\ (SetRec(c, r) \/ SetRec(c, q)) BY <1>3 DEF RecordPacket, Written
  <2> HIDE DEF o
  <2>2. o.queue - 1 \in 0..RecCapacity BY <1>0, <2>1 DEF RecRecord
  <2>3. r \in RecRecord BY <1>0, <2>2 DEF RecRecord
  <2>4. RecOK(c, r) /\ (~Active(c) => Ended(r)) BY <1>0 DEF RecRecord, RecOK, Ended
  <2> HIDE DEF r
  <2>5. q \in RecRecord BY <2>3 DEF RecRecord
  <2>6. RecOK(c, q) /\ (~Active(c) => Ended(q)) BY <2>3, <2>4 DEF RecRecord, RecOK, Ended
  <2> HIDE DEF q
  <2> QED BY <2>1, <2>3, <2>4, <2>5, <2>6, SetRecInv
<1> QED BY <1>1, <1>2, <1>3

\* The recorder's thread ends.
LEMMA ThreadEndsInv ==
  ASSUME IInv, NEW c \in Calls, FinishRecorder(c) \/ RecorderFails(c)
  PROVE  IInv'
<1> DEFINE o == rec[c]
<1>0. o \in RecRecord /\ RecOK(c, o) /\ (~Active(c) => Ended(o)) /\ rec \in [Calls -> RecRecord] /\ RecCapacity \in Nat
  BY RecBefore, RecordsAssumption DEF IInv, MediaInv, FileTypes
<1>1. CASE FinishRecorder(c)
  <2> DEFINE st == CASE ~o.written -> "no_media"
                     [] o.written /\ o.dropped -> "incomplete"
                     [] OTHER -> "complete"
             r == [o EXCEPT !.status = st]
  <2>1. /\ o.start = "started" /\ o.status = "none" /\ ~o.slot /\ ~o.tap /\ ~o.clone
        /\ UNCHANGED file \/ file' = file \cup {c}
        /\ UNCHANGED <<boot, trace, traceDb, batch, tables, cleanup, events>>
    BY <1>1 DEF FinishRecorder, Senders, Interleaved
  <2>2. rec' = [rec EXCEPT ![c] = r] BY <1>1, <1>0 DEF FinishRecorder
  <2> HIDE DEF o
  <2>3. Active(c) BY <1>0, <2>1 DEF Ended
  <2>4. st \in {"no_media", "incomplete", "complete"} /\ (st = "complete" => ~o.dropped)
    BY <1>0 DEF RecRecord
  <2> HIDE DEF st
  <2>5. r \in RecRecord BY <1>0, <2>4 DEF RecRecord, Statuses
  <2>6. RecOK(c, r) BY <1>0, <2>1, <2>4 DEF RecRecord, RecOK
  <2> HIDE DEF r
  <2>7. EventsOK' BY <2>1, EventsStep
  <2> QED BY <2>1, <2>2, <2>3, <2>5, <2>6, <2>7, RecStep
<1>2. CASE RecorderFails(c)
  <2> DEFINE r == [o EXCEPT !.status = "failed", !.queue = 0]
  <2>1. /\ o.start = "started" /\ o.status = "none"
        /\ UNCHANGED <<boot, trace, traceDb, file, batch, tables, cleanup>>
    BY <1>2 DEF RecorderFails
  <2>2. rec' = [rec EXCEPT ![c] = r] BY <1>2, <1>0 DEF RecorderFails
  <2> HIDE DEF o
  <2>3. Active(c) BY <1>0, <2>1 DEF Ended
  <2>4. 0 \in 0..RecCapacity BY <1>0
  <2>5. r \in RecRecord BY <1>0, <2>4 DEF RecRecord, Statuses
  <2>6. RecOK(c, r) BY <1>0, <2>1 DEF RecRecord, RecOK
  <2> HIDE DEF r
  <2>7. EventsOK' BY <1>2, EventsStep DEF RecorderFails
  <2> QED BY <2>1, <2>2, <2>3, <2>5, <2>6, <2>7, RecStep
<1> QED BY <1>1, <1>2

\* The bridge stops: the tap, the relays, the session and the thread.
LEMMA StopInv ==
  ASSUME IInv, NEW c \in Calls, StopBridge(c) \/ AwaitRelays(c) \/ TakeRecording(c) \/ JoinRecorder(c)
  PROVE  IInv'
<1> DEFINE o == rec[c]
<1>0. o \in RecRecord /\ RecOK(c, o) /\ (~Active(c) => Ended(o)) BY RecBefore
<1>1. CASE StopBridge(c)
  <2> DEFINE r == [o EXCEPT !.stop = IF c \in Recorded THEN "cleared" ELSE "stopped", !.tap = FALSE]
  <2>1. SetRec(c, r) /\ Active(c) /\ o.stop = "no" BY <1>1 DEF StopBridge
  <2> HIDE DEF o
  <2>2. r \in RecRecord BY <1>0 DEF RecRecord
  <2>3. RecOK(c, r) BY <1>0, <2>1 DEF RecRecord, RecOK
  <2> HIDE DEF r
  <2> QED BY <2>1, <2>2, <2>3, SetRecInv
<1>2. CASE AwaitRelays(c)
  <2> DEFINE r == [o EXCEPT !.stop = "quiet"]
  <2>1. SetRec(c, r) /\ o.stop = "cleared" BY <1>2 DEF AwaitRelays
  <2> HIDE DEF o
  <2>2. r \in RecRecord BY <1>0 DEF RecRecord
  <2>3. RecOK(c, r) /\ (~Active(c) => Ended(r)) BY <1>0, <2>1 DEF RecRecord, RecOK, Ended
  <2> HIDE DEF r
  <2> QED BY <2>1, <2>2, <2>3, SetRecInv
<1>3. CASE TakeRecording(c)
  <2> DEFINE r == [o EXCEPT !.stop = IF o.slot THEN "joining" ELSE "stopped", !.slot = FALSE]
  <2>1. SetRec(c, r) /\ o.stop = "quiet" /\ o.start # "opening" BY <1>3 DEF TakeRecording
  <2> HIDE DEF o
  <2>2. r \in RecRecord BY <1>0 DEF RecRecord
  <2>3. RecOK(c, r) /\ (~Active(c) => Ended(r)) BY <1>0, <2>1 DEF RecRecord, RecOK, Ended
  <2> HIDE DEF r
  <2> QED BY <2>1, <2>2, <2>3, SetRecInv
<1>4. CASE JoinRecorder(c)
  <2> DEFINE r == [o EXCEPT !.stop = "stopped"]
  <2>1. SetRec(c, r) /\ o.stop = "joining" /\ o.status # "none" BY <1>4 DEF JoinRecorder
  <2> HIDE DEF o
  <2>2. r \in RecRecord BY <1>0 DEF RecRecord
  <2>3. RecOK(c, r) /\ (~Active(c) => Ended(r)) BY <1>0, <2>1 DEF RecRecord, RecOK, Ended
  <2> HIDE DEF r
  <2> QED BY <2>1, <2>2, <2>3, SetRecInv
<1> QED BY <1>1, <1>2, <1>3, <1>4

----------------------------------------------------------------------------
(* Steps of a batch *)

\* The next end of a call fits the bound, since the call itself has not ended.
LEMMA NextEnd ==
  ASSUME IInv, NEW c \in Calls, Active(c)
  PROVE  LET n == Cardinality({d \in Calls : batch[d].ended > 0}) + 1 IN n \in 0..Cardinality(Calls) /\ n > 0
<1> DEFINE D == {d \in Calls : batch[d].ended > 0}
<1>1. batch[c].ended = 0 BY DEF IInv, StoreInv, BatchOK
<1>2. D \subseteq Calls \ {c} BY <1>1
<1>3. IsFiniteSet(Calls) /\ IsFiniteSet(Calls \ {c}) /\ Cardinality(Calls \ {c}) = Cardinality(Calls) - 1
  BY RecordsAssumption, FS_RemoveElement
<1> HIDE DEF D
<1>4. Cardinality(D) <= Cardinality(Calls \ {c}) /\ IsFiniteSet(D) BY <1>2, <1>3, FS_Subset
<1>5. Cardinality(D) \in Nat /\ Cardinality(Calls) \in Nat BY <1>3, <1>4, FS_CardinalityType
<1>6. Cardinality(D) + 1 \in 0..Cardinality(Calls) /\ Cardinality(D) + 1 > 0 BY <1>3, <1>4, <1>5
<1> QED BY <1>6 DEF D

\* A step that only moves batches on keeps the invariant when it keeps the
\* ends and, where a call stops being active, its recorder is not at work.
LEMMA BatchMoves ==
  ASSUME IInv, batch' \in [Calls -> BatchRecord],
         UNCHANGED <<boot, trace, traceDb, rec, file, tables, cleanup, events>>,
         \A c \in Calls :
           /\ batch'[c].state = "active" => batch'[c] = batch[c]
           /\ batch'[c].state \in {"spooled", "stored", "acked"} => batch'[c].ended > 0
           /\ batch[c].ended > 0 => batch'[c].ended > 0
           /\ Active(c) /\ batch'[c].state # "active" => Ended(rec[c])
  PROVE  IInv'
<1>0. StoreInv /\ MediaInv BY DEF IInv
<1>1. UNCHANGED <<traceCall, traceMsg, row, cdr, aged, sweep, removed, rec, file>> BY DEF traceDb, tables, cleanup
<1>2. TableTypes' BY <1>0, <1>1 DEF StoreInv, TableTypes
<1>3. BatchOK'
  <2> SUFFICES ASSUME NEW c \in Calls
               PROVE  /\ batch'[c].state = "active" => batch'[c].ended = 0
                      /\ batch'[c].state \in {"spooled", "stored", "acked"} => batch'[c].ended > 0
                      /\ traceCall'[c] # None /\ traceCall'[c].ended > 0 => batch'[c].ended > 0
    BY DEF BatchOK, Active
  <2> QED BY <1>0, <1>1 DEF StoreInv, BatchOK, Active
<1>4. NoOrphanMessages' BY <1>0, <1>1 DEF StoreInv, NoOrphanMessages
<1>5. RetentionBound' BY <1>0, <1>1 DEF StoreInv, RetentionBound
<1>6. TraceIndexed' BY <1>0, <1>1 DEF StoreInv, TraceIndexed
<1>7. FileTypes' BY <1>0, <1>1 DEF MediaInv, FileTypes
<1>8. RecorderOK'
  <2> SUFFICES ASSUME NEW c \in Calls
               PROVE  RecOK(c, rec[c]) /\ (batch'[c].state # "active" => Ended(rec[c]))
    BY <1>1 DEF RecorderOK, Active
  <2> QED BY <1>0 DEF MediaInv, RecorderOK
<1>9. CleanupOK' BY <1>0, <1>1 DEF MediaInv, CleanupOK, Active
<1>10. ExpiredHasNoFile' BY <1>0, <1>1 DEF MediaInv, ExpiredHasNoFile
<1>11. BootInv' /\ TraceInv' /\ EventsOK' BY BootSame, TraceSame, EventsStep
<1> QED BY <1>2, <1>3, <1>4, <1>5, <1>6, <1>7, <1>8, <1>9, <1>10, <1>11 DEF IInv, StoreInv, MediaInv

\* The call is finalized: its recorder has been joined.
LEMMA FinalizeInv ==
  ASSUME IInv, NEW c \in Calls, FinalizeCall(c)
  PROVE  IInv'
<1> DEFINE n == Cardinality({d \in Calls : batch[d].ended > 0}) + 1
           b == [state |-> "spooled", ended |-> n, available |-> c \in tracked, status |-> RecordingStatus(c)]
<1>0. /\ batch \in [Calls -> BatchRecord] /\ rec[c] \in RecRecord /\ RecOK(c, rec[c])
      /\ Active(c) /\ rec[c].stop = "stopped"
  BY RecBefore DEF IInv, StoreInv, TableTypes, FinalizeCall
<1>1. batch' = [batch EXCEPT ![c] = b] /\ UNCHANGED <<boot, trace, traceDb, rec, file, tables, cleanup, events>>
  BY DEF FinalizeCall
<1>2. n \in 0..Cardinality(Calls) /\ n > 0 BY <1>0, NextEnd
<1>3. RecordingStatus(c) \in Statuses BY <1>0 DEF RecordingStatus, RecRecord, Statuses
<1> HIDE DEF n
<1>4. (c \in tracked) \in BOOLEAN OBVIOUS
<1>5. b \in BatchRecord /\ b.state = "spooled" /\ b.ended = n BY <1>2, <1>3, <1>4 DEF BatchRecord
<1> HIDE DEF b
<1>6. batch' \in [Calls -> BatchRecord] BY <1>0, <1>1, <1>5
<1>7. \A d \in Calls : batch'[d] = IF d = c THEN b ELSE batch[d] BY <1>0, <1>1
<1>8. Ended(rec[c]) BY <1>0 DEF RecOK, Ended
<1>9. \A d \in Calls : batch[d].state \in {"spooled", "stored", "acked"} => batch[d].ended > 0
  BY DEF IInv, StoreInv, BatchOK
<1>10. \A d \in Calls :
         /\ batch'[d].state = "active" => batch'[d] = batch[d]
         /\ batch'[d].state \in {"spooled", "stored", "acked"} => batch'[d].ended > 0
         /\ batch[d].ended > 0 => batch'[d].ended > 0
         /\ Active(d) /\ batch'[d].state # "active" => Ended(rec[d])
  BY <1>2, <1>5, <1>7, <1>8, <1>9 DEF Active
<1> QED BY <1>1, <1>6, <1>10, BatchMoves

\* The checkpoint moves past a stored batch.
LEMMA AcknowledgeInv ==
  ASSUME IInv, NEW c \in Calls, Acknowledge(c)
  PROVE  IInv'
<1> DEFINE b == [batch[c] EXCEPT !.state = "acked"]
<1>0. batch \in [Calls -> BatchRecord] BY DEF IInv, StoreInv, TableTypes
<1>1. /\ batch[c].state = "stored" /\ batch' = [batch EXCEPT ![c] = b]
      /\ UNCHANGED <<boot, trace, traceDb, rec, file, tables, cleanup, events>>
  BY <1>0 DEF Acknowledge
<1>2. b \in BatchRecord /\ b.state = "acked" /\ b.ended = batch[c].ended BY <1>0 DEF BatchRecord
<1> HIDE DEF b
<1>3. batch' \in [Calls -> BatchRecord] BY <1>0, <1>1, <1>2
<1>4. \A d \in Calls : batch'[d] = IF d = c THEN b ELSE batch[d] BY <1>0, <1>1
<1>5. \A d \in Calls : batch[d].state \in {"spooled", "stored", "acked"} => batch[d].ended > 0
  BY DEF IInv, StoreInv, BatchOK
<1>6. \A d \in Calls :
         /\ batch'[d].state = "active" => batch'[d] = batch[d]
         /\ batch'[d].state \in {"spooled", "stored", "acked"} => batch'[d].ended > 0
         /\ batch[d].ended > 0 => batch'[d].ended > 0
         /\ Active(d) /\ batch'[d].state # "active" => Ended(rec[d])
  BY <1>1, <1>2, <1>4, <1>5 DEF Active
<1> QED BY <1>1, <1>3, <1>6, BatchMoves

\* The trace of a finalized call is completed and the retention applied: the
\* ended traces stay within Keep, and a trace is only missing when Keep others
\* are there.
LEMMA TraceStored ==
  ASSUME IInv, NEW c \in Calls, batch[c].state = "spooled",
         Retain(CompleteTrace(traceCall, c, batch[c].ended)),
         NEW available \in BOOLEAN, cdr' = [cdr EXCEPT ![c] = [available |-> available]]
  PROVE  /\ traceCall' \in TraceTable /\ traceMsg' \subseteq Calls \X (1..MaxMessages)
         /\ NoOrphanMessages' /\ RetentionBound' /\ TraceIndexed'
         /\ \A d \in Calls : traceCall'[d] # None /\ traceCall'[d].ended > 0 => batch[d].ended > 0
<1> DEFINE n == batch[c].ended
           table == CompleteTrace(traceCall, c, n)
           X == Expired(table)
<1>0. /\ traceCall \in TraceTable /\ traceMsg \subseteq Calls \X (1..MaxMessages) /\ NoOrphanMessages
      /\ TraceIndexed /\ cdr \in [Calls -> {None} \cup [available : BOOLEAN]]
      /\ n \in 0..Cardinality(Calls) /\ n > 0 /\ BatchOK
  BY DEF IInv, StoreInv, TableTypes, TraceTable, BatchOK, BatchRecord
<1>1. /\ traceMsg' = {m \in traceMsg : m[1] \notin X}
      /\ traceCall' = [d \in Calls |-> IF d \in X THEN None ELSE table[d]]
  BY DEF Retain
<1> DEFINE new == [ended |-> n, incomplete |-> traceCall[c] # None /\ traceCall[c].incomplete]
<1>2. new \in TraceRow /\ new.ended = n
  <2>1. traceCall[c] # None => traceCall[c].incomplete \in BOOLEAN BY <1>0 DEF TraceTable, TraceRow
  <2>2. (traceCall[c] # None /\ traceCall[c].incomplete) \in BOOLEAN BY <2>1
  <2> QED BY <2>2, <1>0 DEF TraceRow
<1>3. table = [traceCall EXCEPT ![c] = new] BY DEF CompleteTrace
<1> HIDE DEF table, new, X
<1>4. table \in TraceTable /\ (\A d \in Calls : table[d] = IF d = c THEN new ELSE traceCall[d])
  BY <1>0, <1>2, <1>3 DEF TraceTable
<1>5. table[c] # None /\ table[c].ended > 0 BY <1>2, <1>4, <1>0, NoneApart
<1>6. /\ traceCall' \in TraceTable
      /\ EndedTraces(traceCall') = EndedTraces(table) \ X
      /\ Cardinality(EndedTraces(traceCall')) <= Keep
      /\ X # {} => Cardinality(EndedTraces(traceCall')) >= Keep
  BY <1>1, <1>4, AfterRetention DEF X
<1>7. traceMsg' \subseteq Calls \X (1..MaxMessages) BY <1>0, <1>1
<1>8. NoOrphanMessages'
  <2> SUFFICES ASSUME NEW m \in traceMsg' PROVE traceCall'[m[1]] # None BY DEF NoOrphanMessages
  <2>1. m \in traceMsg /\ m[1] \notin X BY <1>1
  <2>2. m[1] \in Calls /\ traceCall[m[1]] # None BY <2>1, <1>0 DEF NoOrphanMessages
  <2>3. table[m[1]] # None BY <2>2, <1>4, <1>5
  <2> QED BY <2>1, <2>2, <2>3, <1>1
<1>9. RetentionBound' BY <1>6 DEF RetentionBound, EndedTraces
<1>10. TraceIndexed'
  <2> SUFFICES ASSUME NEW d \in Calls, cdr'[d] # None, cdr'[d].available, traceCall'[d] = None
               PROVE  Cardinality(EndedTraces(traceCall')) >= Keep
    BY DEF TraceIndexed, EndedTraces
  <2>1. CASE X # {} BY <2>1, <1>6
  <2>2. CASE X = {}
    <3>1. table[d] = None BY <2>2, <1>1
    <3>2. d # c /\ traceCall[d] = None BY <3>1, <1>4, <1>5
    <3>3. cdr[d] # None /\ cdr[d].available BY <3>2, <1>0
    <3>4. Cardinality(EndedTraces(traceCall)) >= Keep BY <3>2, <3>3, <1>0 DEF TraceIndexed, EndedTraces
    <3>5. EndedTraces(traceCall) \subseteq EndedTraces(traceCall')
      BY <2>2, <1>4, <1>5, <1>6 DEF EndedTraces
    <3>6. /\ IsFiniteSet(EndedTraces(traceCall')) /\ Cardinality(EndedTraces(traceCall')) \in Nat
          /\ Cardinality(EndedTraces(traceCall)) \in Nat
      BY EndedFinite
    <3>7. Cardinality(EndedTraces(traceCall)) <= Cardinality(EndedTraces(traceCall')) BY <3>5, <3>6, FS_Subset
    <3> QED BY <3>4, <3>6, <3>7, RecordsAssumption
  <2> QED BY <2>1, <2>2
<1>11. \A d \in Calls : traceCall'[d] # None /\ traceCall'[d].ended > 0 => batch[d].ended > 0
  <2> TAKE d \in Calls
  <2> HAVE traceCall'[d] # None /\ traceCall'[d].ended > 0
  <2>1. traceCall'[d] = table[d] BY <1>1
  <2>2. CASE d = c BY <2>2, <1>0
  <2>3. CASE d # c BY <2>1, <2>3, <1>0, <1>4 DEF BatchOK
  <2> QED BY <2>2, <2>3
<1> QED BY <1>6, <1>7, <1>8, <1>9, <1>10, <1>11

\* The batch is stored: recording, CDR and trace in one transaction.
LEMMA PersistInv ==
  ASSUME IInv, NEW c \in Calls, PersistBatch(c)
  PROVE  IInv'
<1> DEFINE b == [batch[c] EXCEPT !.state = "stored"]
           av == batch[c].available \/ (cdr[c] # None /\ cdr[c].available)
           nr == [status |-> batch[c].status, path |-> HasFile(batch[c].status)]
<1>0. /\ TableTypes /\ StoreInv /\ MediaInv BY DEF IInv, StoreInv
<1>1. /\ UNCHANGED <<boot, trace, rec, file, cleanup, events>> /\ batch[c].state = "spooled"
      /\ cdr' = [cdr EXCEPT ![c] = [available |-> av]]
      /\ row' = IF batch[c].status = "none" THEN row ELSE [row EXCEPT ![c] = nr]
  BY DEF PersistBatch, UpsertCdr, UpsertRecording
<1>2. batch' = [batch EXCEPT ![c] = b] BY <1>0 DEF PersistBatch, TableTypes
<1>3. batch[c] \in BatchRecord /\ b \in BatchRecord /\ b.state = "stored" /\ b.ended = batch[c].ended
  BY <1>0 DEF TableTypes, BatchRecord
<1>4. av \in BOOLEAN
  <2>1. batch[c].available \in BOOLEAN BY <1>3 DEF BatchRecord
  <2>2. cdr[c] # None => cdr[c].available \in BOOLEAN BY <1>0 DEF TableTypes
  <2> QED BY <2>1, <2>2
<1>5. nr \in RecordingRow /\ nr.status # "expired"
  <2>1. batch[c].status \in Statuses BY <1>3 DEF BatchRecord
  <2>2. HasFile(batch[c].status) \in BOOLEAN BY DEF HasFile
  <2>3. batch[c].status # "expired" BY <2>1 DEF Statuses
  <2> QED BY <2>1, <2>2, <2>3 DEF RecordingRow
<1> HIDE DEF b, nr
<1>6. /\ row' \in [Calls -> {None} \cup RecordingRow]
      /\ \A d \in Calls : row'[d] = row[d] \/ (d = c /\ row'[d] = nr)
  BY <1>0, <1>1, <1>5 DEF TableTypes
<1>7. /\ batch' \in [Calls -> BatchRecord]
      /\ \A d \in Calls : batch'[d] = IF d = c THEN b ELSE batch[d]
  BY <1>0, <1>2, <1>3 DEF TableTypes
<1>8. /\ traceCall' \in TraceTable /\ traceMsg' \subseteq Calls \X (1..MaxMessages)
      /\ NoOrphanMessages' /\ RetentionBound' /\ TraceIndexed'
      /\ \A d \in Calls : traceCall'[d] # None /\ traceCall'[d].ended > 0 => batch[d].ended > 0
  <2>1. CASE batch[c].available
    <3>1. Retain(CompleteTrace(traceCall, c, batch[c].ended)) BY <2>1 DEF PersistBatch
    <3> HIDE DEF av
    <3> QED BY <3>1, <1>1, <1>4, TraceStored
  <2>2. CASE ~batch[c].available
    <3>1. UNCHANGED <<traceCall, traceMsg>> BY <2>2 DEF PersistBatch, traceDb
    <3>2. traceCall' \in TraceTable /\ traceMsg' \subseteq Calls \X (1..MaxMessages)
      BY <3>1, <1>0 DEF TableTypes, TraceTable
    <3>3. NoOrphanMessages' BY <3>1, <1>0 DEF StoreInv, NoOrphanMessages
    <3>4. RetentionBound' BY <3>1, <1>0 DEF StoreInv, RetentionBound
    <3>5. \A d \in Calls : cdr'[d] # None /\ cdr'[d].available => cdr[d] # None /\ cdr[d].available
      BY <1>0, <1>1, <2>2 DEF TableTypes
    <3>6. TraceIndexed' BY <3>1, <3>5, <1>0 DEF StoreInv, TraceIndexed
    <3>7. \A d \in Calls : traceCall'[d] # None /\ traceCall'[d].ended > 0 => batch[d].ended > 0
      BY <3>1, <1>0 DEF StoreInv, BatchOK
    <3> QED BY <3>2, <3>3, <3>4, <3>6, <3>7
  <2> QED BY <2>1, <2>2
<1>9. TableTypes'
  <2>1. [available |-> av] \in [available : BOOLEAN] BY <1>4
  <2> HIDE DEF av
  <2>2. cdr' \in [Calls -> {None} \cup [available : BOOLEAN]] BY <2>1, <1>0, <1>1 DEF TableTypes
  <2> QED BY <2>2, <1>6, <1>7, <1>8 DEF TableTypes, TraceTable
<1> HIDE DEF av
<1>10. BatchOK'
  <2> SUFFICES ASSUME NEW d \in Calls
               PROVE  /\ batch'[d].state = "active" => batch'[d].ended = 0
                      /\ batch'[d].state \in {"spooled", "stored", "acked"} => batch'[d].ended > 0
                      /\ traceCall'[d] # None /\ traceCall'[d].ended > 0 => batch'[d].ended > 0
    BY DEF BatchOK, Active
  <2>1. batch'[d].ended = batch[d].ended BY <1>3, <1>7
  <2>2. batch[c].ended > 0 BY <1>0, <1>1 DEF StoreInv, BatchOK
  <2> QED BY <2>1, <2>2, <1>0, <1>3, <1>7, <1>8 DEF StoreInv, BatchOK, Active
<1>11. UNCHANGED <<aged, sweep, removed, rec, file>> BY <1>1 DEF cleanup
<1>12. \A d \in Calls : (batch'[d].state = "active") <=> Active(d) BY <1>1, <1>3, <1>7 DEF Active
<1>13. FileTypes' BY <1>0, <1>11 DEF MediaInv, FileTypes
<1>14. RecorderOK'
  <2> SUFFICES ASSUME NEW d \in Calls
               PROVE  RecOK(d, rec[d]) /\ (batch'[d].state # "active" => Ended(rec[d]))
    BY <1>11 DEF RecorderOK, Active
  <2> QED BY <1>0, <1>12 DEF MediaInv, RecorderOK
<1>15. nr # None /\ ~Active(c) BY <1>1, <1>5, NoneApart DEF Active
<1>16. CleanupOK'
  <2> SUFFICES /\ \A d \in Calls : row'[d] # None => batch'[d].state # "active"
               /\ \A d \in sweep \cup removed : row'[d] # None
               /\ \A d \in removed : d \notin file
    BY <1>11 DEF CleanupOK, Active
  <2>1. sweep \cup removed \subseteq Calls BY <1>0 DEF MediaInv, FileTypes
  <2> QED BY <2>1, <1>0, <1>6, <1>12, <1>15 DEF MediaInv, CleanupOK
<1>17. ExpiredHasNoFile' BY <1>0, <1>5, <1>6, <1>11 DEF MediaInv, ExpiredHasNoFile
<1>18. BootInv' /\ TraceInv' /\ EventsOK' BY <1>1, BootSame, TraceSame, EventsStep
<1> QED BY <1>8, <1>9, <1>10, <1>13, <1>14, <1>16, <1>17, <1>18 DEF IInv, StoreInv, MediaInv

----------------------------------------------------------------------------
(* Steps of the cleanup *)

\* A step of the cleanup that keeps its own promises keeps the invariant.
LEMMA CleanupStep ==
  ASSUME IInv, UNCHANGED <<boot, trace, traceDb, rec, batch, cdr>>, EventsOK',
         row' \in [Calls -> {None} \cup RecordingRow],
         \A c \in Calls : row'[c] # None <=> row[c] # None,
         file' \subseteq file, aged' \subseteq Calls, sweep' \subseteq Calls, removed' \subseteq Calls,
         \A c \in sweep' \cup removed' : row[c] # None,
         \A c \in removed' : c \notin file',
         ExpiredHasNoFile'
  PROVE  IInv'
<1>0. StoreInv /\ MediaInv BY DEF IInv
<1>1. UNCHANGED <<traceCall, traceMsg, cdr, batch, rec>> BY DEF traceDb
<1>2. TableTypes' BY <1>0, <1>1 DEF StoreInv, TableTypes
<1>3. BatchOK' BY <1>0, <1>1 DEF StoreInv, BatchOK, Active
<1>4. NoOrphanMessages' BY <1>0, <1>1 DEF StoreInv, NoOrphanMessages
<1>5. RetentionBound' BY <1>0, <1>1 DEF StoreInv, RetentionBound
<1>6. TraceIndexed' BY <1>0, <1>1 DEF StoreInv, TraceIndexed
<1>7. FileTypes' BY <1>0, <1>1 DEF MediaInv, FileTypes
<1>8. RecorderOK' BY <1>0, <1>1 DEF MediaInv, RecorderOK, RecOK, Ended, Active
<1>9. CleanupOK' BY <1>0, <1>1 DEF MediaInv, CleanupOK, Active
<1>10. BootInv' /\ TraceInv' BY BootSame, TraceSame
<1> QED BY <1>2, <1>3, <1>4, <1>5, <1>6, <1>7, <1>8, <1>9, <1>10 DEF IInv, StoreInv, MediaInv

\* Rows age, the cleanup reads them, removes their files and expires them.
LEMMA CleanupInv ==
  ASSUME IInv, NEW c \in Calls,
         Age(c) \/ BeginCleanup \/ RemoveFile(c) \/ RemoveFileFails(c) \/ ExpireRow(c)
  PROVE  IInv'
<1>0. /\ row \in [Calls -> {None} \cup RecordingRow]
      /\ file \subseteq Calls /\ aged \subseteq Calls /\ sweep \subseteq Calls /\ removed \subseteq Calls
      /\ CleanupOK /\ ExpiredHasNoFile
  BY DEF IInv, StoreInv, TableTypes, MediaInv, FileTypes
<1>1. UNCHANGED <<boot, trace, traceDb, rec, batch, cdr>>
  BY DEF Age, BeginCleanup, RemoveFile, RemoveFileFails, ExpireRow, tables
<1>2. EventsOK' BY EventsStep DEF Age, BeginCleanup, RemoveFile, RemoveFileFails, ExpireRow
<1>3. CASE UNCHANGED row
  <2>1. /\ file' \subseteq file /\ aged' \subseteq Calls /\ sweep' \subseteq Calls /\ removed' \subseteq Calls
        /\ \A d \in sweep' \cup removed' : row[d] # None
        /\ \A d \in removed' : d \notin file'
    <3>1. CASE Age(c) BY <1>0, <3>1 DEF Age, CleanupOK
    <3>2. CASE BeginCleanup BY <1>0, <3>2 DEF BeginCleanup, CleanupOK, Cleanable
    <3>3. CASE RemoveFile(c) BY <1>0, <3>3 DEF RemoveFile, CleanupOK
    <3>4. CASE RemoveFileFails(c) BY <1>0, <3>4 DEF RemoveFileFails, CleanupOK
    <3>5. CASE ExpireRow(c) BY <1>0, <3>5 DEF ExpireRow, CleanupOK
    <3> QED BY <3>1, <3>2, <3>3, <3>4, <3>5
  <2>2. ExpiredHasNoFile' BY <1>0, <1>3, <2>1 DEF ExpiredHasNoFile
  <2>3. row' \in [Calls -> {None} \cup RecordingRow] /\ \A d \in Calls : row'[d] # None <=> row[d] # None
    BY <1>0, <1>3
  <2> QED BY <1>1, <1>2, <2>1, <2>2, <2>3, CleanupStep
<1>4. CASE ExpireRow(c)
  <2> DEFINE x == [status |-> "expired", path |-> FALSE]
  <2>1. /\ c \in removed /\ removed' = {} /\ UNCHANGED <<file, aged, sweep>> /\ row' = [row EXCEPT ![c] = x]
    BY <1>4 DEF ExpireRow
  <2>2. x \in RecordingRow BY DEF RecordingRow
  <2> HIDE DEF x
  <2>3. x # None BY <2>2, NoneApart
  <2>4. \A d \in Calls : row'[d] = IF d = c THEN x ELSE row[d] BY <1>0, <2>1
  <2>5. row' \in [Calls -> {None} \cup RecordingRow] BY <1>0, <2>1, <2>2
  <2>6. row[c] # None /\ c \notin file BY <1>0, <2>1 DEF CleanupOK
  <2>7. \A d \in Calls : row'[d] # None <=> row[d] # None BY <2>3, <2>4, <2>6
  <2>8. ExpiredHasNoFile' BY <1>0, <2>1, <2>4, <2>6 DEF ExpiredHasNoFile
  <2>9. /\ file' \subseteq file /\ aged' \subseteq Calls /\ sweep' \subseteq Calls /\ removed' \subseteq Calls
        /\ \A d \in sweep' \cup removed' : row[d] # None
        /\ \A d \in removed' : d \notin file'
    BY <1>0, <2>1 DEF CleanupOK
  <2> QED BY <1>1, <1>2, <2>5, <2>7, <2>8, <2>9, CleanupStep
<1>5. UNCHANGED row \/ ExpireRow(c) BY DEF Age, BeginCleanup, RemoveFile, RemoveFileFails, tables
<1> QED BY <1>3, <1>4, <1>5

----------------------------------------------------------------------------
(* Crash and the whole specification *)

\* An idle recorder keeps every promise.
LEMMA IdleOK ==
  Idle \in RecRecord /\ Ended(Idle) /\ \A c : RecOK(c, Idle)
<1>1. 0 \in 0..RecCapacity /\ 0 \in 0..MaxPackets BY RecordsAssumption
<1>2. Idle \in RecRecord BY <1>1 DEF Idle, RecRecord, Statuses
<1>3. Ended(Idle) BY DEF Idle, Ended
<1>4. \A c : RecOK(c, Idle) BY DEF Idle, RecOK
<1> QED BY <1>2, <1>3, <1>4

\* Memory is gone: the tables and the files keep their promises.
LEMMA CrashInv ==
  ASSUME IInv, Crash
  PROVE  IInv'
<1>0. BootInv /\ TraceInv /\ StoreInv /\ MediaInv BY DEF IInv
<1>1. /\ up' = "down" /\ tracked' = {} /\ traceQueue' = << >> /\ marking' = {} /\ rec' = [c \in Calls |-> Idle]
      /\ sweep' = {} /\ removed' = {}
      /\ UNCHANGED <<legacy, migrated, tracing, observed, traceCall, traceMsg, file, row, cdr, aged>>
  BY DEF Crash, traceDb, tables
<1>2. BootInv' BY <1>0, <1>1 DEF BootInv, LegacyKept
<1>3. TraceInv'
  <2>1. << >> \in Seq(Commands) /\ Len(<< >>) = 0 OBVIOUS
  <2> QED BY <2>1, <1>0, <1>1, RecordsAssumption DEF TraceInv
<1>4. EventsOK' BY EventsStep DEF Crash
<1>5. \A c \in Calls : /\ batch'[c] \in BatchRecord /\ batch'[c].ended = batch[c].ended
                       /\ batch'[c].state # "active"
                       /\ batch'[c].state \in {"spooled", "stored", "acked"} =>
                            batch[c].state \in {"spooled", "stored", "acked"}
  <2> TAKE c \in Calls
  <2>1. batch[c] \in BatchRecord BY <1>0 DEF StoreInv, TableTypes
  <2>2. CASE batch[c].state = "stored"
    <3>1. batch'[c] = [batch[c] EXCEPT !.state = "spooled"] BY <2>2 DEF Crash, Active
    <3> QED BY <2>1, <2>2, <3>1 DEF BatchRecord
  <2>3. CASE batch[c].state = "active"
    <3>1. batch'[c] = [batch[c] EXCEPT !.state = "lost"] BY <2>3 DEF Crash, Active
    <3> QED BY <2>1, <2>3, <3>1 DEF BatchRecord
  <2>4. CASE batch[c].state \notin {"stored", "active"}
    <3>1. batch'[c] = batch[c] BY <2>4 DEF Crash, Active
    <3> QED BY <2>1, <2>4, <3>1 DEF BatchRecord
  <2> QED BY <2>2, <2>3, <2>4
<1>6. batch' \in [Calls -> BatchRecord]
  <2>1. batch' = [c \in Calls |-> batch'[c]] BY DEF Crash
  <2> QED BY <2>1, <1>5
<1>7. TableTypes' BY <1>0, <1>1, <1>6 DEF StoreInv, TableTypes
<1>8. BatchOK' BY <1>0, <1>1, <1>5 DEF StoreInv, BatchOK, Active
<1>9. NoOrphanMessages' BY <1>0, <1>1 DEF StoreInv, NoOrphanMessages
<1>10. RetentionBound' BY <1>0, <1>1 DEF StoreInv, RetentionBound
<1>11. TraceIndexed' BY <1>0, <1>1 DEF StoreInv, TraceIndexed
<1>12. FileTypes' BY <1>0, <1>1, IdleOK DEF MediaInv, FileTypes
<1>13. RecorderOK'
  <2> SUFFICES ASSUME NEW c \in Calls PROVE RecOK(c, rec'[c]) /\ Ended(rec'[c]) BY DEF RecorderOK, Active
  <2>1. rec'[c] = Idle BY <1>1
  <2> QED BY <2>1, IdleOK
<1>14. CleanupOK' BY <1>1, <1>5 DEF CleanupOK, Active
<1>15. ExpiredHasNoFile' BY <1>0, <1>1 DEF MediaInv, ExpiredHasNoFile
<1> QED BY <1>2, <1>3, <1>4, <1>7, <1>8, <1>9, <1>10, <1>11, <1>12, <1>13, <1>14, <1>15
  DEF IInv, StoreInv, MediaInv

\* The first state.
LEMMA InitInv ==
  ASSUME Init
  PROVE  IInv
<1>0. Cardinality(Calls) \in Nat BY RecordsAssumption, FS_CardinalityType
<1>1. BootInv
  <2>1. legacy = [tables |-> LegacyDomains # {}, rows |-> LegacyDomains] BY DEF Init, Legacy
  <2>2. (LegacyDomains # {}) \in BOOLEAN OBVIOUS
  <2>3. legacy \in [tables : BOOLEAN, rows : SUBSET LegacyDomains] /\ legacy.rows = LegacyDomains BY <2>1, <2>2
  <2> QED BY <2>3 DEF Init, BootInv, LegacyKept
<1>2. TraceInv
  <2>1. << >> \in Seq(Commands) /\ Len(<< >>) = 0 /\ 0 \in 0..MaxMessages BY RecordsAssumption
  <2>2. observed \in [Calls -> 0..MaxMessages] BY <2>1 DEF Init
  <2> QED BY <2>1, <2>2, RecordsAssumption DEF Init, TraceInv
<1>3. EventsOK BY RecordsAssumption DEF Init, EventsOK
<1>4. /\ \A c \in Calls : /\ traceCall[c] = None /\ rec[c] = Idle /\ batch[c] = NoBatch /\ row[c] = None
                          /\ cdr[c] = None
      /\ traceMsg = {} /\ file = {} /\ aged = {} /\ sweep = {} /\ removed = {}
  BY DEF Init
<1>5. TableTypes
  <2>1. 0 \in 0..Cardinality(Calls) BY <1>0
  <2>2. NoBatch \in BatchRecord BY <2>1 DEF NoBatch, BatchRecord, Statuses
  <2> QED BY <2>2 DEF Init, TableTypes
<1>6. BatchOK BY <1>4 DEF BatchOK, Active, NoBatch
<1>7. NoOrphanMessages BY <1>4 DEF NoOrphanMessages
<1>8. RetentionBound
  <2>1. {c \in Calls : traceCall[c] # None /\ traceCall[c].ended > 0} = {} BY <1>4
  <2> QED BY <2>1, FS_EmptySet, RecordsAssumption DEF RetentionBound
<1>9. TraceIndexed BY <1>4 DEF TraceIndexed
<1>10. FileTypes BY <1>4, IdleOK DEF Init, FileTypes
<1>11. RecorderOK BY <1>4, IdleOK DEF RecorderOK
<1>12. CleanupOK BY <1>4 DEF CleanupOK
<1>13. ExpiredHasNoFile BY <1>4 DEF ExpiredHasNoFile
<1> QED BY <1>1, <1>2, <1>3, <1>5, <1>6, <1>7, <1>8, <1>9, <1>10, <1>11, <1>12, <1>13
  DEF IInv, StoreInv, MediaInv

\* Every step.
LEMMA NextInv ==
  ASSUME IInv, [Next]_vars
  PROVE  IInv'
<1>1. CASE Starting \/ MigrateFails BY <1>1, StartInv DEF Starting
<1>2. CASE TraceOff \/ WriteTraceFails BY <1>2, WriterInv
<1>3. CASE Writing BY <1>3, WriterInv, WriteTraceInv DEF Writing
<1>4. CASE Cleaning
  <2>1. BeginCleanup => Calls # {} BY DEF BeginCleanup, IInv, MediaInv, FileTypes
  <2> QED BY <1>4, <2>1, CleanupInv DEF Cleaning
<1>5. CASE Crash BY <1>5, CrashInv
<1>6. ASSUME NEW c \in Calls,
             \/ Record(c) \/ Unrecorded(c)
             \/ StartRecording(c) \/ CloneTap(c) \/ Recorder(c) \/ RecorderFails(c)
             \/ StopBridge(c) \/ Stopping(c) \/ Finalizing(c)
             \/ Age(c) \/ RemoveFileFails(c)
      PROVE  IInv'
  <2>1. CASE Record(c) \/ Unrecorded(c) BY <2>1, WriterInv
  <2>2. CASE StartRecording(c) \/ StartedRecording(c) BY <2>2, StartRecordingInv
  <2>3. CASE CloneTap(c) \/ Tap(c) \/ RecordPacket(c) BY <2>3, PacketInv
  <2>4. CASE FinishRecorder(c) \/ RecorderFails(c) BY <2>4, ThreadEndsInv
  <2>5. CASE StopBridge(c) \/ Stopping(c) BY <2>5, StopInv DEF Stopping
  <2>6. CASE Finalizing(c) BY <2>6, FinalizeInv, PersistInv, AcknowledgeInv DEF Finalizing
  <2>7. CASE Age(c) \/ RemoveFileFails(c) BY <2>7, CleanupInv
  <2> QED BY <1>6, <2>1, <2>2, <2>3, <2>4, <2>5, <2>6, <2>7 DEF Recorder
<1>7. CASE UNCHANGED vars
  <2>1. UNCHANGED <<boot, trace, traceDb, rec, file, batch, tables, cleanup, events>>
    BY <1>7 DEF vars, boot, trace, traceDb, tables, cleanup
  <2> QED BY <2>1, BootSame, TraceSame, StoreSame, MediaSame, EventsStep DEF IInv
<1> QED BY <1>1, <1>2, <1>3, <1>4, <1>5, <1>6, <1>7 DEF Next

\* The invariant gives what the run checks.
LEMMA InvGivesStore ==
  ASSUME IInv
  PROVE  StoreConsistent /\ CompleteLostNothing
<1>1. /\ NoOrphanMessages /\ RetentionBound /\ TraceIndexed /\ ExpiredHasNoFile /\ LegacyKept
  BY DEF IInv, StoreInv, MediaInv, BootInv
<1>2. \A i \in DOMAIN traceQueue : traceQueue[i] \in [kind : {"record", "mark"}, call : Calls, seq : 0..MaxMessages]
  <2> TAKE i \in DOMAIN traceQueue
  <2>1. traceQueue[i] \in Commands BY DEF IInv, TraceInv
  <2>2. 0 \in 0..MaxMessages /\ 1..MaxMessages \subseteq 0..MaxMessages BY RecordsAssumption
  <2> QED BY <2>1, <2>2 DEF Commands
<1>3. \A c \in Calls : /\ rec[c].queue \in 0..RecCapacity /\ rec[c].seen \in 0..MaxPackets
                       /\ batch[c].state \in {"active", "spooled", "stored", "acked", "lost"}
  BY DEF IInv, StoreInv, TableTypes, BatchRecord, MediaInv, FileTypes, RecRecord
<1>4. TypeOK
  BY <1>2, <1>3 DEF TypeOK, IInv, BootInv, TraceInv, StoreInv, TableTypes, TraceRow, MediaInv, FileTypes, EventsOK
<1>5. CompleteLostNothing BY DEF CompleteLostNothing, IInv, MediaInv, RecorderOK, RecOK
<1> QED BY <1>1, <1>4, <1>5 DEF StoreConsistent

----------------------------------------------------------------------------
(* The results *)

\* The inductive invariant holds in every reachable state.
LEMMA Invariant == Spec => []IInv
<1>1. Init => IInv BY InitInv
<1>2. IInv /\ [Next]_vars => IInv' BY NextInv
<1> QED BY <1>1, <1>2, PTL DEF Spec

\* The tables and the files agree in every state: no message without its call,
\* at most Keep ended traces, no CDR pointing to a trace that neither exists
\* nor was displaced by newer ones, no file left behind by an expired row, and
\* every row of an older version in one of the two databases
\* (persist_cdr_batch, trace_retention_statements, cleanup_recordings,
\* migrate_legacy_runtime_data).
THEOREM StoreIsConsistent == Spec => []StoreConsistent
<1>1. IInv => StoreConsistent BY InvGivesStore
<1> QED BY <1>1, Invariant, PTL

\* A recording reported as complete has lost no packet, however the relays,
\* the recorder's thread and the stop of the bridge interleave (run_recorder,
\* MediaBridge::stop).
THEOREM CompleteRecordingLostNothing == Spec => []CompleteLostNothing
<1>1. IInv => CompleteLostNothing BY InvGivesStore
<1> QED BY <1>1, Invariant, PTL

\* A step that changes the trace table does not take an incomplete mark back
\* and removes no call that has not ended.
LEMMA StepNotRewritten ==
  ASSUME IInv, Next, NEW c \in Calls, traceCall[c] # None
  PROVE  IF traceCall'[c] = None THEN batch[c].ended > 0
         ELSE traceCall[c].incomplete => traceCall'[c].incomplete
<1>0. /\ traceCall \in TraceTable /\ BatchOK /\ batch \in [Calls -> BatchRecord]
      /\ \A d \in Calls : batch[d].state = "spooled" => batch[d].ended > 0
  BY DEF IInv, StoreInv, TableTypes, TraceTable, BatchOK
<1>1. CASE UNCHANGED traceCall BY <1>1
<1>2. CASE WriteTrace
  <2> DEFINE m == Head(traceQueue)
  <2>1. \/ m.kind = "record" /\ InsertMessage(m)
        \/ m.kind # "record" /\ MarkRow(m.call)
    BY <1>2 DEF WriteTrace
  <2> HIDE DEF m
  <2>2. CASE InsertMessage(m)
    <3>1. traceCall'[c] = traceCall[c] BY <2>2, <1>0 DEF InsertMessage, TraceTable
    <3> QED BY <3>1
  <2>3. CASE MarkRow(m.call)
    <3>1. traceCall'[c] = traceCall[c] \/ traceCall'[c] = [traceCall[c] EXCEPT !.incomplete = TRUE]
      BY <2>3, <1>0 DEF MarkRow, TraceTable
    <3>2. traceCall[c] \in TraceRow BY <1>0 DEF TraceTable
    <3>3. [traceCall[c] EXCEPT !.incomplete = TRUE] \in TraceRow BY <3>2 DEF TraceRow
    <3> QED BY <3>1, <3>2, <3>3, NoneApart DEF TraceRow
  <2> QED BY <2>1, <2>2, <2>3
<1>3. ASSUME NEW d \in Calls, PersistBatch(d), batch[d].available
      PROVE  IF traceCall'[c] = None THEN batch[c].ended > 0
             ELSE traceCall[c].incomplete => traceCall'[c].incomplete
  <2> DEFINE table == CompleteTrace(traceCall, d, batch[d].ended)
             new == [ended |-> batch[d].ended, incomplete |-> traceCall[d] # None /\ traceCall[d].incomplete]
  <2>1. batch[d].state = "spooled" /\ Retain(table) BY <1>3 DEF PersistBatch
  <2>2. traceCall'[c] = IF c \in Expired(table) THEN None ELSE table[c] BY <2>1 DEF Retain
  <2>3. \A e \in Calls : table[e] = IF e = d THEN new ELSE traceCall[e] BY <1>0 DEF CompleteTrace, TraceTable
  <2>4. c \in Expired(table) => table[c].ended > 0 BY ExpiredIs DEF EndedTraces
  <2> HIDE DEF table
  <2>5. ASSUME c \in Expired(table) PROVE batch[c].ended > 0
    <3>1. CASE c = d BY <3>1, <1>0, <2>1
    <3>2. CASE c # d
      <4>1. traceCall[c].ended > 0 BY <2>3, <2>4, <2>5, <3>2
      <4> QED BY <4>1, <1>0 DEF BatchOK
    <3> QED BY <3>1, <3>2
  <2>6. ASSUME c \notin Expired(table) PROVE traceCall'[c] # None /\ (traceCall[c].incomplete => traceCall'[c].incomplete)
    <3>1. CASE c # d BY <3>1, <2>2, <2>3, <2>6
    <3>2. CASE c = d
      <4>1. traceCall'[c] = new BY <3>2, <2>2, <2>3, <2>6
      <4>2. "none" \in DOMAIN None BY DEF None
      <4>3. DOMAIN new = {"ended", "incomplete"} OBVIOUS
      <4>4. new # None BY <4>2, <4>3
      <4>5. new.incomplete = (traceCall[d] # None /\ traceCall[d].incomplete) OBVIOUS
      <4> QED BY <3>2, <4>1, <4>4, <4>5
    <3> QED BY <3>1, <3>2
  <2>7. CASE c \in Expired(table) BY <2>2, <2>5, <2>7
  <2>8. CASE c \notin Expired(table) BY <2>6, <2>8
  <2> QED BY <2>7, <2>8
<1>4. \/ UNCHANGED traceCall
      \/ WriteTrace
      \/ \E d \in Calls : PersistBatch(d) /\ batch[d].available
  BY DEF Next, Starting, Boot, MigrateDomain, MigrateFails, DropTables, Writing, MarkIncomplete, TraceOff,
         WriteTraceFails, Record, Unrecorded, Cleaning, BeginCleanup, RemoveFile, ExpireRow, Age, RemoveFileFails,
         Crash, StartRecording, SetRec, CloneTap, Recorder, StartedRecording, Tap, RecordPacket, FinishRecorder,
         RecorderFails, StopBridge, Stopping, AwaitRelays, TakeRecording, JoinRecorder, Finalizing, FinalizeCall,
         PersistBatch, Acknowledge, traceDb
<1> QED BY <1>1, <1>2, <1>3, <1>4

\* No step shows a trace marked incomplete as complete, and the retention
\* removes the trace of no call that has not ended (complete_trace_statement,
\* trace_retention_statements, mark_call_trace_incomplete).
THEOREM TracesAreNotRewritten == Spec => TraceNotRewritten
<1> DEFINE A == \A c \in Calls : traceCall[c] # None =>
                  IF traceCall'[c] = None THEN batch[c].ended > 0
                  ELSE traceCall[c].incomplete => traceCall'[c].incomplete
<1>1. IInv /\ [Next]_vars => [A]_vars BY StepNotRewritten
<1>2. Spec => [][A]_vars
  <2> HIDE DEF A
  <2> QED BY <1>1, Invariant, PTL DEF Spec
<1> QED BY <1>2 DEF TraceNotRewritten
=============================================================================
