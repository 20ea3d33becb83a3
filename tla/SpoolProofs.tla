---------------------------- MODULE SpoolProofs -----------------------------
(***************************************************************************)
(* Proofs about Spool, for any number of readers, any batch sizes and any  *)
(* length of the result.  SpoolInv is inductive.  The heart of the proof   *)
(* is lemma PrefixKept: every step keeps the committed prefix of the file  *)
(* (Evolves), so that the facts a reader relies on after it left the lock  *)
(* survive every step of the others (lemma ReaderKept).                    *)
(***************************************************************************)
EXTENDS Spool, SequenceTheorems, TLAPS

ProducerState == [pc : ProducerPcs, rows : Nat, record : Records]
CommitState   == [offset : Nat, rows : Nat, status : Statuses]
ReaderState   == [pc : ReaderPcs, offset : Nat, rows : Nat, limit : Nat]

\* The initial state satisfies the invariant.
LEMMA InitInv == Init => SpoolInv
<1> SUFFICES ASSUME Init PROVE SpoolInv
  OBVIOUS
<1> USE DEF Init
<1>1. TypeOK
  <2>1. file \in Seq(Records)
    OBVIOUS
  <2>2. producer \in ProducerState
    BY DEF ProducerState, ProducerPcs, Records, NoRecord
  <2>3. reader \in [Readers -> ReaderState]
    BY DEF ReaderState, ReaderPcs
  <2>4. got \in [Readers -> Seq(Nat)]
    OBVIOUS
  <2> QED
    BY <2>1, <2>2, <2>3, <2>4 DEF TypeOK, Statuses, ProducerState, ReaderState
<1>2. BatchCount = 0 /\ Len(file) = 0
  BY DEF BatchCount
<1>3. CommittedIsWhole
  BY <1>2 DEF CommittedIsWhole
<1>4. ProducerFollows
  BY <1>2 DEF ProducerFollows, ProducerAt, TotalAt
<1>5. ASSUME NEW r \in Readers PROVE ReaderFollows(r)
  <2>1. [i \in 1..0 |-> file[i].rows] = <<>>
    OBVIOUS
  <2> QED
    BY <1>2, <2>1 DEF ReaderFollows, ReaderAt, TotalAt
<1> QED
  BY <1>1, <1>3, <1>4, <1>5 DEF SpoolInv

---------------------------------------------------------------------------
(* Types *)

\* Moving a program counter keeps the types.
LEMMA GoToType ==
  ASSUME TypeOK, NEW pc \in ProducerPcs, GoTo(pc)
  PROVE  producer' \in ProducerState
  BY DEF TypeOK, GoTo, ProducerState

\* Moving the program counter of a reader keeps the types.
LEMMA ReaderToType ==
  ASSUME TypeOK, NEW r \in Readers, NEW pc \in ReaderPcs, ReaderTo(r, pc)
  PROVE  reader' \in [Readers -> ReaderState]
<1>1. reader \in [Readers -> ReaderState]
  BY DEF TypeOK, ReaderState
<1>2. [reader[r] EXCEPT !.pc = pc] \in ReaderState
  BY <1>1 DEF ReaderState
<1> QED
  BY <1>1, <1>2 DEF ReaderTo

\* A stop keeps the commit record well typed.
LEMMA StopAsType ==
  ASSUME TypeOK, NEW status \in Statuses, StopAs(status)
  PROVE  commit' \in CommitState
  BY DEF TypeOK, StopAs, CommitState

\* Every step of the producer and of the owner keeps the types.
LEMMA ProducerTypeKept ==
  TypeOK /\ (ProducerStep \/ StopSpool \/ SetCancel) => TypeOK'
<1> SUFFICES ASSUME TypeOK, ProducerStep \/ StopSpool \/ SetCancel PROVE TypeOK'
  OBVIOUS
<1>1. ASSUME NEW n \in BatchSizes, StartAppend(n) PROVE TypeOK'
  BY <1>1, SpoolAssumption DEF StartAppend, Batch, TypeOK, ProducerPcs, Records
<1>2. CASE RejectAppend
  BY <1>2 DEF RejectAppend, NoRecord, TypeOK, ProducerPcs, Records
<1>3. CASE StartFinish
  BY <1>3 DEF StartFinish, End, TypeOK, ProducerPcs, Records
<1>4. CASE CheckBeforeWrite
  BY <1>4 DEF CheckBeforeWrite, GoTo, TypeOK, ProducerPcs
<1>5. CASE WritePart
  BY <1>5 DEF WritePart, GoTo, TypeOK, ProducerPcs
<1>6. CASE Flush
  <2>1. Append(file, producer.record) \in Seq(Records)
    BY AppendProperties DEF TypeOK
  <2>2. file' \in Seq(Records)
    BY <1>6, <2>1 DEF Flush, TypeOK
  <2>3. producer' \in ProducerState
    BY <1>6, GoToType DEF Flush, ProducerPcs
  <2> QED
    BY <1>6, <2>2, <2>3 DEF Flush, TypeOK, ProducerState
<1>7. CASE CommitRecord
  <2>1. commit.offset + 1 \in Nat /\ producer.rows \in Nat /\ commit.status \in Statuses
    BY DEF TypeOK
  <2>2. Published \in CommitState
    BY <2>1 DEF Published, CommitState, Statuses
  <2>3. commit' \in CommitState
    BY <1>7, <2>2 DEF CommitRecord, TypeOK, CommitState
  <2>4. producer' \in ProducerState
    BY <1>7, GoToType DEF CommitRecord, AfterRecord, ProducerPcs
  <2> QED
    BY <1>7, <2>3, <2>4 DEF CommitRecord, TypeOK, ProducerState, CommitState
<1>8. CASE ReadFailure
  BY <1>8 DEF ReadFailure, GoTo, TypeOK, ProducerPcs
<1>9. CASE RecordFailure
  <2>1. commit' \in CommitState
    BY <1>9, StopAsType DEF RecordFailure, Statuses
  <2>2. producer' \in ProducerState
    BY <1>9, GoToType DEF RecordFailure, AfterRecord, ProducerPcs
  <2> QED
    BY <1>9, <2>1, <2>2 DEF RecordFailure, TypeOK, ProducerState, CommitState
<1>10. CASE DropProducer
  <2>1. commit' \in CommitState
    BY <1>10, StopAsType DEF DropProducer, Statuses
  <2>2. producer' \in ProducerState
    BY <1>10, GoToType DEF DropProducer, ProducerPcs
  <2> QED
    BY <1>10, <2>1, <2>2 DEF DropProducer, TypeOK, ProducerState, CommitState
<1>11. CASE StopSpool
  <2>1. commit' \in CommitState
    BY <1>11, StopAsType DEF StopSpool, Statuses
  <2> QED
    BY <1>11, <2>1 DEF StopSpool, TypeOK, CommitState
<1>12. CASE SetCancel
  BY <1>12 DEF SetCancel, TypeOK
<1> QED
  BY <1>1, <1>2, <1>3, <1>4, <1>5, <1>6, <1>7, <1>8, <1>9, <1>10, <1>11, <1>12
     DEF ProducerStep

\* Every step of a reader keeps the types.
LEMMA ReaderTypeKept ==
  ASSUME TypeOK, NEW r \in Readers, ReaderStep(r) \/ StopReader(r)
  PROVE  TypeOK'
<1>1. reader \in [Readers -> ReaderState]
  BY DEF TypeOK, ReaderState
<1>2. CASE Await(r)
  <2>1. [reader[r] EXCEPT !.pc = "read", !.limit = commit.offset] \in ReaderState
    BY <1>1 DEF ReaderState, ReaderPcs, TypeOK
  <2>2. reader' \in [Readers -> ReaderState]
    BY <1>1, <1>2, <2>1, ReaderToType DEF Await, ReaderPcs
  <2> QED
    BY <1>2, <2>2 DEF Await, TypeOK, ReaderState
<1>3. CASE ReadRecord(r)
  <2>1. CASE /\ \/ ReaderTo(r, "corrupt")
                \/ ReaderTo(r, "stopped")
                \/ ReaderTo(r, "end")
                \/ ReaderTo(r, "failed")
             /\ UNCHANGED got
    <3>1. reader' \in [Readers -> ReaderState]
      BY <2>1, ReaderToType DEF ReaderPcs
    <3> QED
      BY <1>3, <2>1, <3>1 DEF ReadRecord, TypeOK, ReaderState
  <2>2. CASE /\ Readable(r)
             /\ reader' = [reader EXCEPT ![r] = Advanced(r)]
             /\ got' = [got EXCEPT ![r] = Append(@, NextRecord(r).rows)]
    <3>1. NextRecord(r).rows \in Nat
      <4>1. reader[r].offset + 1 \in 1..Len(file)
        BY <1>1, <2>2, LenProperties DEF Readable, ReaderState, TypeOK
      <4>2. NextRecord(r) \in Records
        BY <4>1, ElementOfSeq DEF NextRecord, TypeOK
      <4> QED
        BY <4>2 DEF Records
    <3>2. reader' \in [Readers -> ReaderState]
      <4>1. reader[r] \in ReaderState
        BY <1>1
      <4>2. Advanced(r) \in ReaderState
        BY <3>1, <4>1 DEF Advanced, ReaderState, ReaderPcs
      <4> QED
        BY <1>1, <2>2, <4>2
    <3>3. Append(got[r], NextRecord(r).rows) \in Seq(Nat)
      BY <3>1, AppendProperties DEF TypeOK
    <3>4. got' \in [Readers -> Seq(Nat)]
      BY <2>2, <3>3 DEF TypeOK
    <3> QED
      BY <1>3, <3>2, <3>4 DEF ReadRecord, TypeOK, ReaderState
  <2> QED
    BY <1>3, <2>1, <2>2 DEF ReadRecord
<1>4. CASE CheckEnd(r)
  <2>1. reader' \in [Readers -> ReaderState]
    BY <1>4, ReaderToType DEF CheckEnd, ReaderPcs
  <2> QED
    BY <1>4, <2>1 DEF CheckEnd, TypeOK, ReaderState
<1>5. CASE StopReader(r)
  BY <1>5 DEF StopReader, TypeOK
<1> QED
  BY <1>2, <1>3, <1>4, <1>5 DEF ReaderStep

\* Every step of the specification keeps the types.
LEMMA TypeKept == TypeOK /\ [Next]_vars => TypeOK'
<1>1. TypeOK /\ UNCHANGED vars => TypeOK'
  BY DEF vars, TypeOK
<1> QED
  BY <1>1, ProducerTypeKept, ReaderTypeKept DEF Next, Finished

---------------------------------------------------------------------------
(* The committed prefix *)

\* What every step does to the file and to the commit record.
Evolves ==
  /\ Len(file) <= Len(file')
  /\ \A i \in 1..Len(file) : file'[i] = file[i]
  /\ commit'.offset \in Nat /\ commit.offset <= commit'.offset
  /\ BatchCount' \in Nat /\ BatchCount <= BatchCount'
  /\ commit.status = "complete" => commit' = commit

\* The bounds that make the expressions of the invariant meaningful.
LEMMA Bounds ==
  ASSUME SpoolInv
  PROVE  /\ Len(file) \in Nat /\ commit.offset \in Nat /\ BatchCount \in Nat
         /\ BatchCount <= commit.offset /\ commit.offset <= Len(file)
         /\ commit.status # "complete" => BatchCount = commit.offset
  BY LenProperties DEF SpoolInv, TypeOK, CommittedIsWhole, BatchCount

\* A stop only turns a running download into a failed or cancelled one.
LEMMA StopEvolves ==
  ASSUME SpoolInv, NEW status \in {"failed", "cancelled"}, StopAs(status),
         UNCHANGED file
  PROVE  /\ Evolves
         /\ commit'.offset = commit.offset /\ commit'.rows = commit.rows
         /\ BatchCount' = BatchCount
         /\ commit'.status # "downloading"
         /\ commit'.status = "complete" <=> commit.status = "complete"
<1>1. /\ commit'.offset = commit.offset /\ commit'.rows = commit.rows
      /\ commit'.status # "downloading"
      /\ commit'.status = "complete" <=> commit.status = "complete"
      /\ commit.status = "complete" => commit' = commit
  BY DEF SpoolInv, TypeOK, StopAs, Statuses
<1>2. BatchCount' = BatchCount
  BY <1>1 DEF BatchCount
<1> QED
  BY <1>1, <1>2, Bounds DEF Evolves

\* The steps that touch neither the file nor the commit record.
LEMMA QuietEvolves ==
  ASSUME SpoolInv, UNCHANGED <<file, commit>>
  PROVE  Evolves /\ BatchCount' = BatchCount
<1>1. BatchCount' = BatchCount
  BY DEF BatchCount
<1> QED
  BY <1>1, Bounds DEF Evolves

\* A flush leaves the commit record alone and appends at most the record being written.
LEMMA FlushEvolves ==
  ASSUME SpoolInv, Flush
  PROVE  /\ Evolves /\ BatchCount' = BatchCount /\ UNCHANGED commit
         /\ \/ UNCHANGED file
            \/ Len(file') = Len(file) + 1 /\ file'[Len(file')] = producer.record
<1>1. BatchCount' = BatchCount /\ UNCHANGED commit
  BY DEF Flush, BatchCount
<1>2. CASE UNCHANGED file
  BY <1>1, <1>2, QuietEvolves
<1>3. CASE file' = Append(file, producer.record)
  <2>1. /\ Len(file') = Len(file) + 1
        /\ \A i \in 1..Len(file) : file'[i] = file[i]
        /\ file'[Len(file) + 1] = producer.record
    BY <1>3, AppendProperties DEF SpoolInv, TypeOK
  <2> QED
    BY <1>1, <2>1, Bounds DEF Evolves
<1> QED
  BY <1>2, <1>3 DEF Flush

\* A record is published, or nothing happens to the commit record.
LEMMA CommitEvolves ==
  ASSUME SpoolInv, CommitRecord
  PROVE  /\ Evolves /\ UNCHANGED file
         /\ \/ UNCHANGED commit
            \/ /\ commit.status = "downloading"
               /\ commit' = Published
               /\ BatchCount' = IF producer.record.kind = "end"
                                THEN commit.offset ELSE commit.offset + 1
<1>1. CASE UNCHANGED commit
  BY <1>1, QuietEvolves DEF CommitRecord
<1>2. CASE commit.status = "downloading" /\ commit' = Published
  <2>1. /\ commit'.offset = commit.offset + 1
        /\ producer.record.kind = "end" => commit'.status = "complete"
        /\ producer.record.kind # "end" => commit'.status # "complete"
    BY <1>2 DEF Published
  <2>2. BatchCount' = IF producer.record.kind = "end"
                      THEN commit.offset ELSE commit.offset + 1
    BY <2>1, Bounds DEF BatchCount
  <2> QED
    BY <1>2, <2>1, <2>2, Bounds DEF Evolves, CommitRecord
<1> QED
  BY <1>1, <1>2 DEF CommitRecord, Writable

\* Every step keeps the committed prefix of the file.
LEMMA PrefixKept == SpoolInv /\ [Next]_vars => Evolves
<1> SUFFICES ASSUME SpoolInv, [Next]_vars PROVE Evolves
  OBVIOUS
<1>1. CASE UNCHANGED <<file, commit>>
  BY <1>1, QuietEvolves
<1>2. CASE Flush
  BY <1>2, FlushEvolves
<1>3. CASE CommitRecord
  BY <1>3, CommitEvolves
<1>4. CASE \E status \in {"failed", "cancelled"} : StopAs(status) /\ UNCHANGED file
  BY <1>4, StopEvolves
<1>5. CASE RecordFailure
  BY <1>4, <1>5 DEF RecordFailure
<1>6. CASE DropProducer
  BY <1>4, <1>6 DEF DropProducer
<1>7. CASE StopSpool
  BY <1>4, <1>7 DEF StopSpool
<1> QED
  BY <1>1, <1>2, <1>3, <1>5, <1>6, <1>7
     DEF Next, ProducerStep, ReaderStep, StartAppend, RejectAppend, StartFinish,
         CheckBeforeWrite, WritePart, ReadFailure, SetCancel, Await, ReadRecord,
         CheckEnd, StopReader, Finished, vars

\* The row totals of the prefix stay as they were.
LEMMA TotalKept ==
  ASSUME SpoolInv, Evolves, NEW i \in 0..Len(file)
  PROVE  TotalAt(i)' = TotalAt(i)
  BY Bounds DEF Evolves, TotalAt

---------------------------------------------------------------------------
(* The committed records are whole *)

\* The steps that publish nothing.
LEMMA WholeKeptQuietly ==
  ASSUME SpoolInv, Evolves, BatchCount' = BatchCount,
         commit'.offset = commit.offset, commit'.rows = commit.rows,
         commit'.status = "complete" <=> commit.status = "complete"
  PROVE  CommittedIsWhole'
<1>1. commit'.offset <= Len(file')
  BY Bounds DEF Evolves, SpoolInv
<1>2. ASSUME NEW i \in 1..BatchCount'
      PROVE  file'[i].kind = "batch" /\ file'[i].upto = TotalAt(i - 1)' + file'[i].rows
  <2>1. i \in 1..BatchCount /\ i \in 1..Len(file) /\ i - 1 \in 0..Len(file)
    BY <1>2, Bounds
  <2>2. file'[i] = file[i] /\ TotalAt(i - 1)' = TotalAt(i - 1)
    BY <2>1, TotalKept DEF Evolves
  <2> QED
    BY <2>1, <2>2 DEF SpoolInv, CommittedIsWhole
<1>3. ASSUME commit'.status = "complete"
      PROVE  /\ commit'.offset > 0
             /\ file'[commit'.offset] = End(TotalAt(commit.offset - 1)')
             /\ commit'.rows = TotalAt(commit.offset - 1)'
  <2>1. commit.status = "complete" /\ commit.offset > 0
    BY <1>3 DEF SpoolInv, CommittedIsWhole
  <2>2. commit.offset \in 1..Len(file)
    BY <2>1, Bounds
  <2>3. PICK i \in 0..Len(file) : i = commit.offset - 1
    BY <2>2, Bounds
  <2>4. TotalAt(i)' = TotalAt(i)
    BY TotalKept
  <2>5. TotalAt(commit.offset - 1)' = TotalAt(commit.offset - 1)
    BY <2>3, <2>4 DEF TotalAt
  <2>6. file'[commit'.offset] = file[commit.offset]
    BY <2>2 DEF Evolves
  <2> QED
    BY <2>1, <2>5, <2>6 DEF SpoolInv, CommittedIsWhole
<1> QED
  BY <1>1, <1>2, <1>3 DEF CommittedIsWhole, End

\* Publishing the record after the committed ones.
LEMMA WholeKeptByCommit ==
  ASSUME SpoolInv, CommitRecord PROVE CommittedIsWhole'
<1>1. Evolves /\ UNCHANGED file
  BY CommitEvolves
<1>2. CASE UNCHANGED commit
  <2>1. BatchCount' = BatchCount
    BY <1>1, <1>2 DEF BatchCount
  <2> QED
    BY <1>1, <1>2, <2>1, WholeKeptQuietly
<1>3. CASE /\ commit.status = "downloading"
           /\ commit' = Published
           /\ BatchCount' = IF producer.record.kind = "end"
                            THEN commit.offset ELSE commit.offset + 1
  <2>1. PICK n \in 1..Len(file) : n = commit.offset + 1 /\ n = Len(file)
    BY <1>3, Bounds DEF CommitRecord, SpoolInv, ProducerFollows, ProducerAt
  <2>2. /\ file[n] = producer.record
        /\ producer.record.upto = producer.rows
        /\ \/ /\ producer.record.kind = "batch"
              /\ producer.rows = TotalAt(n - 1) + producer.record.rows
           \/ producer.record = End(TotalAt(n - 1))
    BY <1>3, <2>1, Bounds DEF CommitRecord, SpoolInv, ProducerFollows, ProducerAt
  <2>3. commit'.offset = n /\ commit'.rows = producer.rows
    BY <1>3, <2>1 DEF Published
  <2>4. ASSUME NEW i \in 1..BatchCount'
        PROVE  file'[i].kind = "batch" /\ file'[i].upto = TotalAt(i - 1)' + file'[i].rows
    <3>1. file' = file /\ TotalAt(i - 1)' = TotalAt(i - 1)
      BY <1>1 DEF TotalAt
    <3>2. CASE i = n
      BY <1>3, <2>1, <2>2, <3>1, <3>2, Bounds DEF End
    <3>3. CASE i # n
      <4>1. i \in 1..BatchCount
        BY <1>3, <2>1, <2>4, <3>3, Bounds
      <4> QED
        BY <3>1, <4>1 DEF SpoolInv, CommittedIsWhole
    <3> QED
      BY <3>2, <3>3
  <2>5. ASSUME commit'.status = "complete"
        PROVE  /\ commit'.offset > 0
               /\ file'[commit'.offset] = End(TotalAt(commit.offset - 1)')
               /\ commit'.rows = TotalAt(commit.offset - 1)'
    <3>1. producer.record.kind = "end"
      BY <1>3, <2>5 DEF Published
    <3>2. producer.record = End(TotalAt(n - 1)) /\ producer.rows = TotalAt(n - 1)
      BY <2>2, <3>1 DEF End
    <3>3. TotalAt(commit.offset - 1)' = TotalAt(n - 1)
      BY <1>1, <2>3 DEF TotalAt
    <3> QED
      BY <1>1, <2>1, <2>2, <2>3, <3>2, <3>3
  <2> QED
    BY <1>1, <2>1, <2>3, <2>4, <2>5 DEF CommittedIsWhole, End
<1> QED
  BY <1>2, <1>3, CommitEvolves

\* Every step keeps what is committed whole.
LEMMA WholeKept == SpoolInv /\ [Next]_vars => CommittedIsWhole'
<1> SUFFICES ASSUME SpoolInv, [Next]_vars PROVE CommittedIsWhole'
  OBVIOUS
<1>1. CASE UNCHANGED <<file, commit>>
  BY <1>1, QuietEvolves, WholeKeptQuietly
<1>2. CASE Flush
  BY <1>2, FlushEvolves, WholeKeptQuietly
<1>3. CASE CommitRecord
  BY <1>3, WholeKeptByCommit
<1>4. CASE \E status \in {"failed", "cancelled"} : StopAs(status) /\ UNCHANGED file
  BY <1>4, StopEvolves, WholeKeptQuietly
<1>5. CASE RecordFailure
  BY <1>4, <1>5 DEF RecordFailure
<1>6. CASE DropProducer
  BY <1>4, <1>6 DEF DropProducer
<1>7. CASE StopSpool
  BY <1>4, <1>7 DEF StopSpool
<1> QED
  BY <1>1, <1>2, <1>3, <1>5, <1>6, <1>7
     DEF Next, ProducerStep, ReaderStep, StartAppend, RejectAppend, StartFinish,
         CheckBeforeWrite, WritePart, ReadFailure, SetCancel, Await, ReadRecord,
         CheckEnd, StopReader, Finished, vars

---------------------------------------------------------------------------
(* The producer *)

\* The steps of the producer that write nothing to the file.
LEMMA FollowsKeptByProducer ==
  ASSUME SpoolInv,
         \/ \E n \in BatchSizes : StartAppend(n)
         \/ RejectAppend \/ StartFinish \/ CheckBeforeWrite \/ WritePart
         \/ ReadFailure
  PROVE  ProducerFollows'
<1>1. UNCHANGED <<file, commit>>
  BY DEF StartAppend, RejectAppend, StartFinish, CheckBeforeWrite, WritePart, ReadFailure
<1>2. TotalAt(commit.offset)' = TotalAt(commit.offset)
  BY <1>1 DEF TotalAt
<1>3. producer \in ProducerState
  BY DEF SpoolInv, TypeOK, ProducerState
<1> USE DEF ProducerFollows, ProducerAt
<1>4. ASSUME NEW n \in BatchSizes, StartAppend(n) PROVE ProducerFollows'
  BY <1>1, <1>2, <1>4 DEF StartAppend, Batch, SpoolInv
<1>5. CASE RejectAppend
  BY <1>1, <1>3, <1>5 DEF RejectAppend, SpoolInv, ProducerState
<1>6. CASE StartFinish
  BY <1>1, <1>2, <1>3, <1>6 DEF StartFinish, End, SpoolInv, ProducerState
<1>7. CASE CheckBeforeWrite
  BY <1>1, <1>2, <1>3, <1>7 DEF CheckBeforeWrite, GoTo, SpoolInv, ProducerState
<1>8. CASE WritePart
  BY <1>1, <1>2, <1>3, <1>8 DEF WritePart, GoTo, SpoolInv, ProducerState
<1>9. CASE ReadFailure
  BY <1>1, <1>3, <1>9 DEF ReadFailure, GoTo, SpoolInv, ProducerState
<1> QED
  BY <1>4, <1>5, <1>6, <1>7, <1>8, <1>9

\* A flush keeps the producer in step with the file.
LEMMA FollowsKeptByFlush ==
  ASSUME SpoolInv, Flush PROVE ProducerFollows'
<1>1. producer \in ProducerState
  BY DEF SpoolInv, TypeOK, ProducerState
<1>2. Evolves /\ UNCHANGED commit
  BY FlushEvolves
<1>3. PICK n \in 0..Len(file) : n = commit.offset
  BY Bounds
<1>4. TotalAt(commit.offset)' = TotalAt(commit.offset)
  BY <1>2, <1>3, TotalKept DEF TotalAt
<1>5. CASE GoTo("failing")
  BY <1>1, <1>2, <1>5 DEF GoTo, ProducerFollows, ProducerAt, ProducerState
<1>6. CASE file' = Append(file, producer.record) /\ GoTo("commit")
  <2>1. Len(file') = Len(file) + 1 /\ file'[Len(file')] = producer.record
    BY <1>6, AppendProperties DEF SpoolInv, TypeOK
  <2>2. producer' = [producer EXCEPT !.pc = "commit"]
    BY <1>6 DEF GoTo
  <2> QED
    BY <1>1, <1>2, <1>4, <2>1, <2>2
       DEF Flush, ProducerFollows, ProducerAt, SpoolInv, ProducerState
<1> QED
  BY <1>5, <1>6 DEF Flush

\* Publishing a record keeps the producer in step with the file.
LEMMA FollowsKeptByCommit ==
  ASSUME SpoolInv, CommitRecord PROVE ProducerFollows'
<1>1. producer \in ProducerState
  BY DEF SpoolInv, TypeOK, ProducerState
<1>2. CASE GoTo("failing")
  BY <1>1, <1>2 DEF GoTo, ProducerFollows, ProducerAt, ProducerState
<1>3. CASE Writable /\ commit' = Published /\ GoTo(AfterRecord)
  <2>1. commit'.offset = commit.offset + 1 /\ UNCHANGED file
    BY <1>3 DEF Published, CommitRecord
  <2>2. CASE producer.record.kind = "end"
    BY <1>1, <1>3, <2>2
       DEF GoTo, AfterRecord, Published, ProducerFollows, ProducerAt, ProducerState
  <2>3. CASE producer.record.kind # "end"
    <3>1. producer' = [producer EXCEPT !.pc = "idle"]
      BY <1>3, <2>3 DEF GoTo, AfterRecord
    <3>2. /\ Len(file) = commit.offset + 1
          /\ file[Len(file)].upto = producer.rows
      BY <1>3 DEF SpoolInv, ProducerFollows, ProducerAt, CommitRecord, Writable
    <3>3. TotalAt(commit.offset)' = producer.rows
      BY <2>1, <3>2, Bounds DEF TotalAt
    <3> QED
      BY <1>1, <2>1, <3>1, <3>2, <3>3 DEF ProducerFollows, ProducerAt, ProducerState
  <2> QED
    BY <2>2, <2>3
<1> QED
  BY <1>2, <1>3 DEF CommitRecord

\* After a stop the download does not run, so that nothing more is promised.
LEMMA FollowsKeptByStop ==
  ASSUME SpoolInv, RecordFailure \/ DropProducer \/ StopSpool
  PROVE  ProducerFollows'
<1>1. \E status \in {"failed", "cancelled"} : StopAs(status) /\ UNCHANGED file
  BY DEF RecordFailure, DropProducer, StopSpool
<1>2. commit'.status # "downloading"
  BY <1>1, StopEvolves
<1> QED
  BY <1>2 DEF ProducerFollows

\* Every step keeps the producer in step with the file and the commit record.
LEMMA FollowsKept == SpoolInv /\ [Next]_vars => ProducerFollows'
<1> SUFFICES ASSUME SpoolInv, [Next]_vars PROVE ProducerFollows'
  OBVIOUS
<1>1. CASE UNCHANGED <<file, commit, producer>>
  BY <1>1 DEF SpoolInv, ProducerFollows, ProducerAt, TotalAt
<1> QED
  BY <1>1, FollowsKeptByProducer, FollowsKeptByFlush, FollowsKeptByCommit,
     FollowsKeptByStop
     DEF Next, ProducerStep, ReaderStep, SetCancel, Await, ReadRecord, CheckEnd,
         StopReader, Finished, vars

---------------------------------------------------------------------------
(* The readers *)

\* The steps of others do not disturb a reader.
LEMMA ReaderKept ==
  ASSUME SpoolInv, Evolves, NEW r \in Readers,
         reader'[r] = reader[r], got'[r] = got[r]
  PROVE  ReaderFollows(r)'
<1>1. reader[r] \in ReaderState /\ ReaderFollows(r)
  BY DEF SpoolInv, TypeOK, ReaderState
<1>2. reader[r].offset <= BatchCount
  BY <1>1 DEF ReaderFollows
<1>3. PICK n \in 0..Len(file) : n = reader[r].offset
  BY <1>1, <1>2, Bounds DEF ReaderState
<1>4. TotalAt(n)' = TotalAt(n)
  BY TotalKept
<1>5. TotalAt(reader[r].offset)' = TotalAt(reader[r].offset)
  BY <1>3, <1>4 DEF TotalAt
<1>6. [i \in 1..n |-> file'[i].rows] = [i \in 1..n |-> file[i].rows]
  <2>1. \A i \in 1..n : file'[i].rows = file[i].rows
    BY <1>3, Bounds DEF Evolves
  <2> QED
    BY <2>1
<1>7. got'[r] = [i \in 1..reader'[r].offset |-> file'[i].rows]
  BY <1>1, <1>3, <1>6 DEF ReaderFollows
<1>8. reader'[r].offset <= BatchCount' /\ reader'[r].limit <= commit'.offset
  BY <1>1, <1>2, Bounds DEF ReaderFollows, Evolves, ReaderState
<1>9. commit.status = "complete" => commit' = commit /\ BatchCount' = BatchCount
  BY DEF Evolves, BatchCount
<1> QED
  BY <1>1, <1>5, <1>7, <1>8, <1>9 DEF ReaderFollows, ReaderAt

\* A reader's own step.
LEMMA ReaderAwaits ==
  ASSUME SpoolInv, NEW r \in Readers, Await(r) PROVE ReaderFollows(r)'
<1>1. reader[r] \in ReaderState /\ ReaderFollows(r) /\ reader \in [Readers -> ReaderState]
  BY DEF SpoolInv, TypeOK, ReaderState
<1>2. UNCHANGED <<file, commit, got>> /\ BatchCount' = BatchCount
  BY DEF Await, BatchCount
<1>3. TotalAt(reader[r].offset)' = IF reader'[r].offset = 0 THEN 0
                                   ELSE file[reader'[r].offset].upto
  BY <1>2 DEF TotalAt
<1>4. CASE ReaderTo(r, "stopped")
  <2>1. reader'[r] = [reader[r] EXCEPT !.pc = "stopped"]
    BY <1>1, <1>4 DEF ReaderTo
  <2> QED
    BY <1>1, <1>2, <1>3, <2>1 DEF ReaderFollows, ReaderAt, ReaderState, TotalAt
<1>5. CASE /\ reader[r].offset < commit.offset
           /\ reader' = [reader EXCEPT ![r] =
                           [@ EXCEPT !.pc = "read", !.limit = commit.offset]]
  <2>1. reader'[r] = [reader[r] EXCEPT !.pc = "read", !.limit = commit.offset]
    BY <1>1, <1>5
  <2> QED
    BY <1>1, <1>2, <1>3, <1>5, <2>1, Bounds
       DEF ReaderFollows, ReaderAt, ReaderState, TotalAt
<1>6. ~(commit.status = "complete" /\ ~(reader[r].offset < commit.offset))
  BY <1>1, Bounds DEF ReaderFollows, BatchCount, ReaderState
<1> QED
  BY <1>4, <1>5, <1>6 DEF Await

\* Reading a record keeps the reader on a record boundary of the committed prefix.
LEMMA ReaderReads ==
  ASSUME SpoolInv, NEW r \in Readers, ReadRecord(r) PROVE ReaderFollows(r)'
<1>1. reader[r] \in ReaderState /\ ReaderFollows(r) /\ reader \in [Readers -> ReaderState]
  BY DEF SpoolInv, TypeOK, ReaderState
<1>2. UNCHANGED <<file, commit>> /\ BatchCount' = BatchCount
  BY DEF ReadRecord, BatchCount
<1>3. PICK o \in Nat : o = reader[r].offset
  BY <1>1 DEF ReaderState
<1>4. o < reader[r].limit /\ reader[r].limit <= commit.offset /\ o < commit.offset
  BY <1>1, <1>3, Bounds DEF ReadRecord, ReaderFollows, ReaderAt, ReaderState
<1>5. Readable(r) /\ NextRecord(r) = file[o + 1]
  BY <1>1, <1>3, <1>4, Bounds DEF Readable, NextRecord, ReaderState
<1>6. TotalAt(o)' = TotalAt(o)
  BY <1>2 DEF TotalAt
<1>7. CASE ReaderTo(r, "stopped") /\ UNCHANGED got
  <2>1. reader'[r] = [reader[r] EXCEPT !.pc = "stopped"]
    BY <1>1, <1>7 DEF ReaderTo
  <2> QED
    BY <1>1, <1>2, <1>7, <2>1 DEF ReaderFollows, ReaderAt, ReaderState, TotalAt
<1>10. CASE ReaderTo(r, "failed") /\ UNCHANGED got
  <2>1. reader'[r] = [reader[r] EXCEPT !.pc = "failed"]
    BY <1>1, <1>10 DEF ReaderTo
  <2> QED
    BY <1>1, <1>2, <1>10, <2>1 DEF ReaderFollows, ReaderAt, ReaderState, TotalAt
<1>8. CASE /\ NextRecord(r).kind = "batch"
           /\ reader' = [reader EXCEPT ![r] = Advanced(r)]
           /\ got' = [got EXCEPT ![r] = Append(@, NextRecord(r).rows)]
  <2>1. o + 1 <= BatchCount
    BY <1>3, <1>4, <1>5, <1>8, Bounds
       DEF SpoolInv, CommittedIsWhole, BatchCount, End
  <2>2. /\ reader'[r].pc = "next" /\ reader'[r].offset = o + 1
        /\ reader'[r].rows = reader[r].rows + file[o + 1].rows
        /\ reader'[r].limit = reader[r].limit
    BY <1>1, <1>3, <1>5, <1>8 DEF Advanced
  <2>3. file[o + 1].upto = TotalAt(o) + file[o + 1].rows
    <3>1. o + 1 \in 1..BatchCount /\ (o + 1) - 1 = o
      BY <2>1, Bounds
    <3> QED
      BY <3>1 DEF SpoolInv, CommittedIsWhole
  <2>4. TotalAt(o + 1)' = reader'[r].rows
    BY <1>1, <1>2, <1>3, <2>2, <2>3 DEF TotalAt, ReaderFollows
  <2>5. TotalAt(reader[r].offset)' = reader'[r].rows
    BY <2>2, <2>4 DEF TotalAt
  <2>6. got'[r] = [i \in 1..(o + 1) |-> file[i].rows]
    <3>1. got[r] = [i \in 1..o |-> file[i].rows] /\ got[r] \in Seq(Nat)
      BY <1>1, <1>3 DEF ReaderFollows, SpoolInv, TypeOK
    <3>2. Len(got[r]) = o
      BY <3>1, LenProperties
    <3>3. file[o + 1] \in Records
      BY <1>4, Bounds, ElementOfSeq DEF SpoolInv, TypeOK
    <3>4. file[o + 1].rows \in Nat
      BY <3>3 DEF Records
    <3>5. got'[r] = Append(got[r], file[o + 1].rows)
      BY <1>5, <1>8 DEF SpoolInv, TypeOK
    <3>6. /\ got'[r] \in Seq(Nat) /\ Len(got'[r]) = o + 1
          /\ \A i \in 1..o : got'[r][i] = file[i].rows
          /\ got'[r][o + 1] = file[o + 1].rows
      BY <3>1, <3>2, <3>4, <3>5, AppendProperties
    <3>7. \A i \in 1..(o + 1) : got'[r][i] = file[i].rows
      BY <3>6
    <3>8. got'[r] \in [1..(o + 1) -> Nat]
      BY <3>6, LenProperties
    <3> QED
      BY <3>7, <3>8
  <2> QED
    BY <1>1, <1>2, <2>1, <2>2, <2>5, <2>6 DEF ReaderFollows, ReaderAt
<1>9. CASE NextRecord(r).kind = "end" /\ ReaderTo(r, "end") /\ UNCHANGED got
  <2>1. reader'[r] = [reader[r] EXCEPT !.pc = "end"]
    BY <1>1, <1>9 DEF ReaderTo
  <2>2. ~(o + 1 \in 1..BatchCount)
    BY <1>5, <1>9 DEF SpoolInv, CommittedIsWhole
  <2>3. commit.status = "complete" /\ o = BatchCount
    BY <1>1, <1>3, <1>4, <2>2, Bounds DEF BatchCount, ReaderFollows
  <2> QED
    BY <1>1, <1>2, <1>3, <1>6, <1>9, <2>1, <2>3
       DEF ReaderFollows, ReaderAt, ReaderState, TotalAt
<1> QED
  BY <1>5, <1>7, <1>8, <1>9, <1>10 DEF ReadRecord

\* Reading the end record keeps the reader in step with the committed result.
LEMMA ReaderChecksEnd ==
  ASSUME SpoolInv, NEW r \in Readers, CheckEnd(r) PROVE ReaderFollows(r)'
<1>1. reader[r] \in ReaderState /\ ReaderFollows(r) /\ reader \in [Readers -> ReaderState]
  BY DEF SpoolInv, TypeOK, ReaderState
<1>2. UNCHANGED <<file, commit, got>> /\ BatchCount' = BatchCount
  BY DEF CheckEnd, BatchCount
<1>3. commit.status = "complete" /\ reader[r].offset + 1 = commit.offset
  BY <1>1, Bounds DEF CheckEnd, ReaderFollows, ReaderAt, BatchCount, ReaderState
<1>4. commit.offset - 1 = reader[r].offset
  BY <1>1, <1>3 DEF ReaderState
<1>5. EndMatches(r)
  BY <1>1, <1>3, <1>4
     DEF EndMatches, NextRecord, SpoolInv, CommittedIsWhole, End, ReaderFollows
<1>6. reader'[r] = [reader[r] EXCEPT !.pc = "done"]
  BY <1>1, <1>5 DEF CheckEnd, ReaderTo
<1> QED
  BY <1>1, <1>2, <1>3, <1>6 DEF CheckEnd, ReaderFollows, ReaderAt, ReaderState, TotalAt

\* A step of one reader leaves the other readers alone.
LEMMA OthersKept ==
  ASSUME SpoolInv, NEW r \in Readers, NEW q \in Readers, q # r, ReaderStep(r)
  PROVE  reader'[q] = reader[q] /\ got'[q] = got[q]
<1>1. reader \in [Readers -> ReaderState] /\ got \in [Readers -> Seq(Nat)]
  BY DEF SpoolInv, TypeOK, ReaderState
<1>2. Await(r) => reader'[q] = reader[q] /\ got'[q] = got[q]
  BY <1>1 DEF Await, ReaderTo
<1>3. ReadRecord(r) => reader'[q] = reader[q] /\ got'[q] = got[q]
  BY <1>1 DEF ReadRecord, ReaderTo
<1>4. CheckEnd(r) => reader'[q] = reader[q] /\ got'[q] = got[q]
  BY <1>1 DEF CheckEnd, ReaderTo
<1> QED
  BY <1>2, <1>3, <1>4 DEF ReaderStep

\* Every step keeps every reader in step with what is committed.
LEMMA ReadersKept ==
  SpoolInv /\ [Next]_vars => \A q \in Readers : ReaderFollows(q)'
<1> SUFFICES ASSUME SpoolInv, [Next]_vars, NEW q \in Readers
             PROVE  ReaderFollows(q)'
  OBVIOUS
<1>1. Evolves
  BY PrefixKept
<1>2. CASE UNCHANGED <<reader, got>>
  BY <1>1, <1>2, ReaderKept
<1>3. ASSUME NEW r \in Readers, ReaderStep(r) PROVE ReaderFollows(q)'
  <2>1. CASE q = r
    BY <1>3, <2>1, ReaderAwaits, ReaderReads, ReaderChecksEnd DEF ReaderStep
  <2>2. CASE q # r
    BY <1>1, <1>3, <2>2, OthersKept, ReaderKept
  <2> QED
    BY <2>1, <2>2
<1> QED
  BY <1>2, <1>3
     DEF Next, ProducerStep, StartAppend, RejectAppend, StartFinish,
         CheckBeforeWrite, WritePart, Flush, CommitRecord, ReadFailure,
         RecordFailure, DropProducer, StopSpool, SetCancel, StopReader, Finished, vars

---------------------------------------------------------------------------
(* The theorems *)

\* The inductive invariant of the spool, for every set of readers: what is
\* committed is whole, the producer is one record ahead at most, and each
\* reader has returned exactly the batches before its offset.
THEOREM SpoolCorrect == Spec => []SpoolInv
<1>1. SpoolInv /\ [Next]_vars => SpoolInv'
  BY TypeKept, WholeKept, FollowsKept, ReadersKept DEF SpoolInv
<1> QED
  BY InitInv, <1>1, PTL DEF Spec

\* No reader ever meets bytes that are not a whole committed record.
THEOREM NeverCorrupt == Spec => []NoCorruptRead
<1>1. SpoolInv => NoCorruptRead
  BY DEF SpoolInv, ReaderFollows, NoCorruptRead
<1> QED
  BY SpoolCorrect, <1>1, PTL

\* A result that has an outcome keeps it: no late write, drop or cancel moves
\* its commit record again.
THEOREM OutcomeIsFinal == Spec => TerminalIsSticky
<1>1. ASSUME SpoolInv, [Next]_vars, commit.status # "downloading"
      PROVE  commit' = commit
  BY <1>1
     DEF Next, ProducerStep, ReaderStep, StartAppend, RejectAppend, StartFinish,
         CheckBeforeWrite, WritePart, Flush, CommitRecord, Writable, ReadFailure,
         RecordFailure, DropProducer, StopSpool, StopAs, SetCancel, Await,
         ReadRecord, CheckEnd, StopReader, Finished, vars
<1> QED
  BY SpoolCorrect, <1>1, PTL DEF Spec, TerminalIsSticky

---------------------------------------------------------------------------
(* The refinement: every step of the spool is a step of the stream *)

\* The committed row counts depend on the committed prefix only.
LEMMA RowsKept ==
  ASSUME SpoolInv, Evolves, BatchCount' = BatchCount
  PROVE  CommittedRows' = CommittedRows
<1>1. \A i \in 1..BatchCount : file'[i].rows = file[i].rows
  BY Bounds DEF Evolves
<1> QED
  BY <1>1 DEF CommittedRows

\* A step that changes neither the status nor the rows nor a reader is a stutter of the stream.
LEMMA QuietIsStutter ==
  ASSUME SpoolInv, Evolves, BatchCount' = BatchCount,
         commit'.status = commit.status, UNCHANGED <<reader, got, stopping>>
  PROVE  UNCHANGED Stream!streamVars
<1>1. CommittedRows' = CommittedRows
  BY RowsKept
<1>2. StreamResult' = StreamResult
  BY DEF StreamResult
<1> QED
  BY <1>1, <1>2 DEF Stream!streamVars

\* A stop closes the stream, or stutters when the stream is already closed.
LEMMA StopIsClose ==
  ASSUME SpoolInv, NEW status \in {"failed", "cancelled"}, StopAs(status),
         UNCHANGED <<file, reader, got, stopping>>
  PROVE  [Stream!Next]_Stream!streamVars
<1>1. Evolves /\ BatchCount' = BatchCount
  BY StopEvolves
<1>2. CASE commit.status = "downloading"
  <2>1. commit'.status \in {"failed", "cancelled"}
    BY <1>2 DEF StopAs, SpoolInv, TypeOK
  <2>2. CommittedRows' = CommittedRows /\ StreamResult' = StreamResult
    BY <1>1, RowsKept DEF StreamResult
  <2> QED
    BY <1>2, <2>1, <2>2 DEF Stream!Next, Stream!Close, Stream!Outcomes
<1>3. CASE commit.status # "downloading"
  BY <1>1, <1>3, QuietIsStutter DEF StopAs
<1> QED
  BY <1>2, <1>3

\* Publishing a record publishes its rows, or closes the stream as complete.
LEMMA CommitIsPublish ==
  ASSUME SpoolInv, CommitRecord
  PROVE  [Stream!Next]_Stream!streamVars
<1>1. Evolves /\ UNCHANGED <<file, reader, got, stopping>>
  BY CommitEvolves DEF CommitRecord
<1>2. StreamResult' = StreamResult
  BY <1>1 DEF StreamResult
<1>3. CASE UNCHANGED commit
  <2>1. BatchCount' = BatchCount
    BY <1>3 DEF BatchCount
  <2> QED
    BY <1>1, <1>3, <2>1, QuietIsStutter
<1>4. CASE /\ commit.status = "downloading"
           /\ commit' = Published
           /\ BatchCount' = IF producer.record.kind = "end"
                            THEN commit.offset ELSE commit.offset + 1
  <2>1. BatchCount = commit.offset
    BY <1>4, Bounds
  <2>2. CASE producer.record.kind = "end"
    <3>1. CommittedRows' = CommittedRows
      BY <1>1, <1>4, <2>1, <2>2, RowsKept
    <3>2. commit'.status = "complete"
      BY <1>4, <2>2 DEF Published
    <3> QED
      BY <1>1, <1>2, <1>4, <3>1, <3>2 DEF Stream!Next, Stream!Close, Stream!Outcomes
  <2>3. CASE producer.record.kind # "end"
    <3>1. PICK o \in Nat : o = commit.offset
      BY Bounds
    <3>2. file[o + 1].rows \in BatchSizes /\ o + 1 = Len(file)
      BY <1>4, <2>3, <3>1, Bounds
         DEF CommitRecord, SpoolInv, ProducerFollows, ProducerAt, End
    <3>3. /\ CommittedRows = [i \in 1..o |-> file[i].rows]
          /\ CommittedRows' = [i \in 1..(o + 1) |-> file[i].rows]
      BY <1>1, <1>4, <2>1, <2>3, <3>1 DEF CommittedRows
    <3>4. \A i \in 1..(o + 1) : file[i].rows \in Nat
      <4>1. \A i \in 1..(o + 1) : file[i] \in Records
        BY <3>2, ElementOfSeq DEF SpoolInv, TypeOK
      <4> QED
        BY <4>1 DEF Records
    <3>5. CommittedRows \in Seq(Nat) /\ Len(CommittedRows) = o
      BY <3>1, <3>3, <3>4
    <3>6. Append(CommittedRows, file[o + 1].rows) = CommittedRows'
      <4> DEFINE app == Append(CommittedRows, file[o + 1].rows)
      <4>1. /\ app \in Seq(Nat) /\ Len(app) = o + 1
            /\ \A i \in 1..o : app[i] = CommittedRows[i]
            /\ app[o + 1] = file[o + 1].rows
        BY <3>1, <3>4, <3>5, AppendProperties
      <4>2. app \in [1..(o + 1) -> Nat]
        BY <4>1, LenProperties
      <4>3. \A i \in 1..(o + 1) : app[i] = file[i].rows
        BY <3>1, <3>3, <4>1
      <4> HIDE DEF app
      <4>4. app = [i \in 1..(o + 1) |-> file[i].rows]
        BY <4>2, <4>3
      <4> QED
        BY <3>3, <4>4 DEF app
    <3>7. commit'.status = commit.status
      BY <1>4, <2>3 DEF Published
    <3> QED
      BY <1>1, <1>2, <1>4, <3>2, <3>6, <3>7 DEF Stream!Next, Stream!Publish
  <2> QED
    BY <2>2, <2>3
<1> QED
  BY <1>3, <1>4, CommitEvolves

\* A step of a reader delivers, finishes, stops or is invisible.
LEMMA ReaderIsStream ==
  ASSUME SpoolInv, SpoolInv', NEW r \in Readers, ReaderStep(r)
  PROVE  [Stream!Next]_Stream!streamVars
<1>1. /\ reader[r] \in ReaderState /\ ReaderFollows(r)
      /\ reader \in [Readers -> ReaderState] /\ got \in [Readers -> Seq(Nat)]
  BY DEF SpoolInv, TypeOK, ReaderState
<1>2. UNCHANGED <<file, commit, stopping>>
  BY DEF ReaderStep, Await, ReadRecord, CheckEnd
<1>3. CommittedRows' = CommittedRows
  BY <1>2 DEF CommittedRows, BatchCount
<1>4. ~ReaderTo(r, "corrupt")
  <2>1. ReaderTo(r, "corrupt") => ReaderAt(r, "corrupt")'
    BY <1>1 DEF ReaderTo, ReaderAt, ReaderState
  <2> QED
    BY <2>1 DEF SpoolInv, ReaderFollows
<1>5. reader[r].pc \in {"next", "read", "end"} => StreamResult[r] = "reading"
  BY DEF StreamResult
<1>6. CASE ReaderTo(r, "stopped") /\ UNCHANGED got
  <2>1. commit.status \in {"failed", "cancelled"} \/ r \in stopping
    <3>1. reader'[r].pc = "stopped"
      BY <1>1, <1>6 DEF ReaderTo, ReaderState
    <3>2. ASSUME Await(r), ~(r \in stopping \/ commit.status \in {"failed", "cancelled"})
          PROVE  FALSE
      <4>1. \/ ReaderTo(r, "corrupt")
            \/ reader' = [reader EXCEPT ![r] = [@ EXCEPT !.pc = "read", !.limit = commit.offset]]
        BY <3>2 DEF Await
      <4> QED
        BY <1>1, <3>1, <4>1 DEF ReaderTo, ReaderState
    <3>3. ASSUME ReadRecord(r), r \notin stopping PROVE FALSE
      <4>1. \/ \E pc \in {"corrupt", "end", "failed"} : ReaderTo(r, pc)
            \/ reader' = [reader EXCEPT ![r] = Advanced(r)]
        BY <3>3 DEF ReadRecord
      <4> QED
        BY <1>1, <3>1, <4>1 DEF ReaderTo, ReaderState, Advanced
    <3>4. ~CheckEnd(r)
      BY <1>1, <3>1 DEF CheckEnd, ReaderTo, ReaderState
    <3> QED
      BY <3>2, <3>3, <3>4 DEF ReaderStep
  <2>2. reader' = [reader EXCEPT ![r] = [reader[r] EXCEPT !.pc = "stopped"]]
    BY <1>6 DEF ReaderTo
  <2>3. StreamResult' = [StreamResult EXCEPT ![r] = "stopped"]
    BY <1>1, <2>2 DEF StreamResult, ReaderState
  <2>4. reader[r].pc \in {"next", "read", "end"}
    BY DEF ReaderStep, Await, ReadRecord, CheckEnd, ReaderAt
  <2> QED
    BY <1>2, <1>3, <1>5, <1>6, <2>1, <2>3, <2>4 DEF Stream!Next, Stream!Stop
<1>7. CASE /\ UNCHANGED got /\ StreamResult' = StreamResult
  BY <1>2, <1>3, <1>7 DEF Stream!streamVars
<1>8. CASE Await(r)
  <2>1. CASE reader' = [reader EXCEPT ![r] =
                          [@ EXCEPT !.pc = "read", !.limit = commit.offset]]
    <3>1. StreamResult' = StreamResult
      BY <1>1, <1>8, <2>1 DEF StreamResult, ReaderState, Await, ReaderAt
    <3> QED
      BY <1>7, <1>8, <3>1 DEF Await
  <2> QED
    BY <1>4, <1>6, <1>8, <2>1 DEF Await
<1>9. CASE ReadRecord(r)
  <2>1. CASE ReaderTo(r, "end") /\ UNCHANGED got
    <3>1. StreamResult' = StreamResult
      BY <1>1, <1>9, <2>1 DEF StreamResult, ReaderState, ReadRecord, ReaderAt, ReaderTo
    <3> QED
      BY <1>7, <2>1, <3>1
  <2>2. CASE /\ Readable(r)
             /\ reader' = [reader EXCEPT ![r] = Advanced(r)]
             /\ got' = [got EXCEPT ![r] = Append(@, NextRecord(r).rows)]
    <3>1. StreamResult' = StreamResult
      BY <1>1, <1>9, <2>2 DEF StreamResult, ReaderState, ReadRecord, ReaderAt, Advanced
    <3>2. PICK o \in Nat : o = reader[r].offset
      BY <1>1 DEF ReaderState
    <3>3. Len(got[r]) = o
      <4>1. got[r] = [i \in 1..o |-> file[i].rows] /\ got[r] \in Seq(Nat)
        BY <1>1, <3>2 DEF ReaderFollows
      <4> QED
        BY <4>1, LenProperties
    <3>4. o + 1 <= BatchCount
      <4>1. reader'[r].offset = o + 1 /\ BatchCount' = BatchCount
        BY <1>1, <1>2, <2>2, <3>2 DEF Advanced, BatchCount
      <4>2. reader'[r].offset <= BatchCount'
        BY DEF SpoolInv, ReaderFollows
      <4> QED
        BY <4>1, <4>2
    <3>5. Len(CommittedRows) = BatchCount
      BY Bounds DEF CommittedRows
    <3>6. CommittedRows[o + 1] = NextRecord(r).rows
      BY <3>2, <3>4, Bounds DEF CommittedRows, NextRecord
    <3>7. got' = [got EXCEPT ![r] = Append(got[r], CommittedRows[Len(got[r]) + 1])]
      BY <2>2, <3>3, <3>6
    <3>8. Len(got[r]) < Len(CommittedRows)
      BY <3>3, <3>4, <3>5, Bounds
    <3>9. StreamResult[r] = "reading"
      BY <1>5, <1>9 DEF ReadRecord, ReaderAt
    <3> QED
      BY <1>2, <1>3, <3>1, <3>7, <3>8, <3>9 DEF Stream!Next, Stream!Deliver
  <2>3. CASE ReaderTo(r, "failed") /\ UNCHANGED got
    <3>1. reader' = [reader EXCEPT ![r] = [reader[r] EXCEPT !.pc = "failed"]]
      BY <2>3 DEF ReaderTo
    <3>2. StreamResult' = [StreamResult EXCEPT ![r] = "failed"]
      BY <1>1, <3>1 DEF StreamResult, ReaderState
    <3>3. StreamResult[r] = "reading"
      BY <1>5, <1>9 DEF ReadRecord, ReaderAt
    <3> QED
      BY <1>2, <1>3, <2>3, <3>2, <3>3 DEF Stream!Next, Stream!Fail
  <2> QED
    BY <1>4, <1>6, <1>9, <2>1, <2>2, <2>3 DEF ReadRecord
<1>10. CASE CheckEnd(r)
  <2>1. ReaderTo(r, "done") /\ UNCHANGED got
    BY <1>4, <1>10 DEF CheckEnd
  <2>2. commit.status = "complete" /\ reader[r].offset = BatchCount
    BY <1>1, <1>10 DEF CheckEnd, ReaderFollows
  <2>3. got[r] = CommittedRows
    BY <1>1, <2>2 DEF ReaderFollows, CommittedRows
  <2>4. reader' = [reader EXCEPT ![r] = [reader[r] EXCEPT !.pc = "done"]]
    BY <2>1 DEF ReaderTo
  <2>5. StreamResult' = [StreamResult EXCEPT ![r] = "done"]
    BY <1>1, <2>4 DEF StreamResult, ReaderState
  <2> QED
    BY <1>2, <1>3, <1>5, <1>10, <2>1, <2>2, <2>3, <2>5
       DEF Stream!Next, Stream!Finish, CheckEnd, ReaderAt
<1> QED
  BY <1>8, <1>9, <1>10 DEF ReaderStep

\* Every step of the spool is a step of the stream or a stutter.
LEMMA StepIsStream ==
  SpoolInv /\ SpoolInv' /\ [Next]_vars => [Stream!Next]_Stream!streamVars
<1> SUFFICES ASSUME SpoolInv, SpoolInv', [Next]_vars
             PROVE  [Stream!Next]_Stream!streamVars
  OBVIOUS
<1>1. CASE UNCHANGED <<file, commit, reader, got, stopping>>
  BY <1>1, QuietEvolves, QuietIsStutter
<1>2. CASE Flush
  BY <1>2, FlushEvolves, QuietIsStutter DEF Flush
<1>3. CASE CommitRecord
  BY <1>3, CommitIsPublish
<1>4. CASE RecordFailure
  BY <1>4, StopIsClose DEF RecordFailure
<1>5. CASE DropProducer
  BY <1>5, StopIsClose DEF DropProducer
<1>6. CASE StopSpool
  BY <1>6, StopIsClose DEF StopSpool
<1>7. ASSUME NEW r \in Readers, StopReader(r)
      PROVE  [Stream!Next]_Stream!streamVars
  <2>1. UNCHANGED <<file, commit, reader, got>> /\ stopping' = stopping \cup {r}
    BY <1>7 DEF StopReader
  <2>2. CommittedRows' = CommittedRows /\ StreamResult' = StreamResult
    BY <2>1 DEF CommittedRows, BatchCount, StreamResult
  <2> QED
    BY <2>1, <2>2 DEF Stream!Next, Stream!Abandon
<1> QED
  BY <1>1, <1>2, <1>3, <1>4, <1>5, <1>6, <1>7, ReaderIsStream
     DEF Next, ProducerStep, StartAppend, RejectAppend, StartFinish,
         CheckBeforeWrite, WritePart, ReadFailure, SetCancel, Finished, vars

\* The spool implements the abstract stream of ResultStream: publication is
\* atomic, delivery is in order and gapless, and the end comes last.
THEOREM SpoolImplementsStream == Spec => ImplementsStream
<1>1. Init => Stream!Init
  <2> SUFFICES ASSUME Init PROVE Stream!Init
    OBVIOUS
  <2>1. CommittedRows = <<>>
    BY DEF Init, CommittedRows, BatchCount
  <2>2. StreamResult = [r \in Readers |-> "reading"]
    BY DEF Init, StreamResult
  <2> QED
    BY <2>1, <2>2 DEF Init, Stream!Init
<1>2. SpoolInv /\ SpoolInv' /\ [Next]_vars => [Stream!Next]_Stream!streamVars
  BY StepIsStream
<1> QED
  BY <1>1, <1>2, SpoolCorrect, PTL DEF Spec, ImplementsStream, Stream!Spec

=============================================================================
