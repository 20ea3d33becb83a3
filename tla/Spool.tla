------------------------------- MODULE Spool --------------------------------
(***************************************************************************)
(* The anonymous result spool of src/src/export/spool.rs: one producer     *)
(* appends length-prefixed records to a file and publishes each of them by *)
(* moving a commit record under a mutex; independent readers poll the      *)
(* commit record and then read the file without the lock.                  *)
(*                                                                         *)
(* A record stands for its bytes, so an offset counts records.  A batch    *)
(* record also carries `upto`, the rows up to and including it: the code   *)
(* writes no such field, and no guard reads it for a batch.                *)
(***************************************************************************)
EXTENDS Integers, Sequences

CONSTANTS Readers,       \* the export writers that read this result
          BatchSizes,    \* rows a record may hold (1..1000 in the code)
          MaxRows        \* bound: rows the source delivers

ASSUME SpoolAssumption ==
  /\ BatchSizes \subseteq Nat \ {0}
  /\ MaxRows \in Nat

VARIABLES
  file,       \* the records wholly in the file
  torn,       \* part of one more record has reached the file
  commit,     \* the mutex-protected Commit: offset, rows, status
  cancel,     \* the download's cancellation flag
  producer,   \* the Producer: pc, rows and the record being written
  reader,     \* per reader: pc, offset, rows, and the end it saw under the lock
  stopping,   \* the readers whose own cancellation flag is set
  got         \* per reader, the batches it returned (history)

vars == <<file, torn, commit, cancel, producer, reader, stopping, got>>

NoRecord   == [kind |-> "none", rows |-> 0, upto |-> 0]
Batch(n, total) == [kind |-> "batch", rows |-> n, upto |-> total]
End(total) == [kind |-> "end", rows |-> total, upto |-> total]

Statuses    == {"downloading", "complete", "failed", "cancelled"}
ProducerPcs == {"idle", "check", "write", "flush", "commit",
                "failing", "stopCancelled", "stopFailed", "dropping", "gone"}
ReaderPcs   == {"next", "read", "end", "done", "stopped", "failed", "corrupt"}
ReaderFinal == {"done", "stopped", "failed", "corrupt"}

Init ==
  /\ file = <<>>
  /\ torn = FALSE
  /\ commit = [offset |-> 0, rows |-> 0, status |-> "downloading"]
  /\ cancel = FALSE
  /\ producer = [pc |-> "idle", rows |-> 0, record |-> NoRecord]
  /\ reader = [r \in Readers |->
                 [pc |-> "next", offset |-> 0, rows |-> 0, limit |-> 0]]
  /\ stopping = {}
  /\ got = [r \in Readers |-> <<>>]

---------------------------------------------------------------------------
(* Status changes *)

\* Spool::stop: only a download that still runs can be stopped.
StopAs(status) ==
  commit' = IF commit.status = "downloading"
            THEN [commit EXCEPT !.status = status]
            ELSE commit

\* The owner of the download, another thread, cancels or fails the spool.
StopSpool ==
  /\ \E status \in {"failed", "cancelled"} : StopAs(status)
  /\ UNCHANGED <<file, torn, cancel, producer, reader, stopping, got>>

SetCancel ==
  /\ ~cancel
  /\ cancel' = TRUE
  /\ UNCHANGED <<file, torn, commit, producer, reader, stopping, got>>

---------------------------------------------------------------------------
(* The producer *)

ProducerAt(pc) == producer.pc = pc

GoTo(pc) == producer' = [producer EXCEPT !.pc = pc]

\* append: one bounded record is encoded and the row count moves before the
\* record is written.
StartAppend(n) ==
  /\ ProducerAt("idle")
  /\ producer.rows + n <= MaxRows
  /\ producer' = [pc |-> "check", rows |-> producer.rows + n,
                  record |-> Batch(n, producer.rows + n)]
  /\ UNCHANGED <<file, torn, commit, cancel, reader, stopping, got>>

\* append refuses a row it cannot normalise or has no memory for, or sees the
\* cancellation flag, before it writes anything.
RejectAppend ==
  /\ ProducerAt("idle")
  /\ producer' = [producer EXCEPT !.pc = "failing", !.record = NoRecord]
  /\ UNCHANGED <<file, torn, commit, cancel, reader, stopping, got>>

\* finish consumes the producer.
StartFinish ==
  /\ ProducerAt("idle")
  /\ producer' = [producer EXCEPT !.pc = "check", !.record = End(producer.rows)]
  /\ UNCHANGED <<file, torn, commit, cancel, reader, stopping, got>>

Writable == ~cancel /\ commit.status = "downloading"

\* The first check of write_record_with, before any byte is written.
CheckBeforeWrite ==
  /\ ProducerAt("check")
  /\ GoTo(IF Writable THEN "write" ELSE "failing")
  /\ UNCHANGED <<file, torn, commit, cancel, reader, stopping, got>>

\* The buffered writer may push any part of the record, or meet a full disk.
WritePart ==
  /\ ProducerAt("write")
  /\ torn' = TRUE
  /\ \/ GoTo("flush")
     \/ GoTo("failing")
  /\ UNCHANGED <<file, commit, cancel, reader, stopping, got>>

Flush ==
  /\ ProducerAt("flush")
  /\ \/ /\ file' = Append(file, producer.record)
        /\ torn' = FALSE
        /\ GoTo("commit")
     \/ /\ GoTo("failing")
        /\ UNCHANGED <<file, torn>>
  /\ UNCHANGED <<commit, cancel, reader, stopping, got>>

\* Mutant of Published: the end record does not close the download.
PublishedWithoutStatus ==
  [offset |-> commit.offset + 1, rows |-> producer.rows,
   status |-> commit.status]

\* The second check and the publication, in one critical section.
Published ==
  [offset |-> commit.offset + 1,
   rows   |-> producer.rows,
   status |-> IF producer.record.kind = "end" THEN "complete"
                                              ELSE commit.status]

AfterRecord == IF producer.record.kind = "end" THEN "dropping" ELSE "idle"

\* Mutant of CommitRecord: the checks made before the write are trusted.
CommitRecordUnchecked ==
  /\ ProducerAt("commit")
  /\ commit' = Published
  /\ GoTo(AfterRecord)
  /\ UNCHANGED <<file, torn, cancel, reader, stopping, got>>

\* before_commit, the download's handoff, may refuse the end record.
CommitRecord ==
  /\ ProducerAt("commit")
  /\ \/ /\ Writable
        /\ commit' = Published
        /\ GoTo(AfterRecord)
     \/ /\ ~Writable \/ producer.record.kind = "end"
        /\ GoTo("failing")
        /\ UNCHANGED commit
  /\ UNCHANGED <<file, torn, cancel, reader, stopping, got>>

\* record_failure reads the flag, then stops the spool.
ReadFailure ==
  /\ ProducerAt("failing")
  /\ GoTo(IF cancel THEN "stopCancelled" ELSE "stopFailed")
  /\ UNCHANGED <<file, torn, commit, cancel, reader, stopping, got>>

RecordFailure ==
  /\ \/ ProducerAt("stopCancelled") /\ StopAs("cancelled")
     \/ ProducerAt("stopFailed") /\ StopAs("failed")
  /\ GoTo(AfterRecord)
  /\ UNCHANGED <<file, torn, cancel, reader, stopping, got>>

\* Mutant of DropProducer: a dropped producer leaves the download open.
DropProducerSilently ==
  /\ ProducerAt("idle") \/ ProducerAt("dropping")
  /\ GoTo("gone")
  /\ UNCHANGED <<file, torn, commit, cancel, reader, stopping, got>>

DropProducer ==
  /\ ProducerAt("idle") \/ ProducerAt("dropping")
  /\ StopAs("failed")
  /\ GoTo("gone")
  /\ UNCHANGED <<file, torn, cancel, reader, stopping, got>>

ProducerStep ==
  \/ \E n \in BatchSizes : StartAppend(n)
  \/ RejectAppend
  \/ StartFinish
  \/ CheckBeforeWrite
  \/ WritePart
  \/ Flush
  \/ CommitRecord
  \/ ReadFailure
  \/ RecordFailure
  \/ DropProducer

---------------------------------------------------------------------------
(* The readers *)

ReaderAt(r, pc) == reader[r].pc = pc

ReaderTo(r, pc) == reader' = [reader EXCEPT ![r].pc = pc]

\* Mutant of Await: a reader trusts the length of the file, not the commit.
AwaitFile(r) ==
  /\ ReaderAt(r, "next")
  /\ IF r \in stopping \/ commit.status \in {"failed", "cancelled"}
     THEN ReaderTo(r, "stopped")
     ELSE /\ reader[r].offset < Len(file) \/ torn
          /\ reader' = [reader EXCEPT ![r].pc = "read",
                                      ![r].limit = Len(file)]
  /\ UNCHANGED <<file, torn, commit, cancel, producer, stopping, got>>

\* The critical section of next: errors first, then a committed record.  A
\* reader with nothing to read waits 100 ms and looks again (no step).
Await(r) ==
  /\ ReaderAt(r, "next")
  /\ IF r \in stopping \/ commit.status \in {"failed", "cancelled"}
     THEN ReaderTo(r, "stopped")
     ELSE IF reader[r].offset < commit.offset
     THEN reader' = [reader EXCEPT ![r] =
                       [@ EXCEPT !.pc = "read", !.limit = commit.offset]]
     ELSE commit.status = "complete" /\ ReaderTo(r, "corrupt")
  /\ UNCHANGED <<file, torn, commit, cancel, producer, stopping, got>>

NextRecord(r) == file[reader[r].offset + 1]

Readable(r) ==
  /\ reader[r].offset + 1 <= reader[r].limit
  /\ reader[r].offset + 1 <= Len(file)

\* The reader after it returned the next batch.
Advanced(r) ==
  [pc |-> "next", offset |-> reader[r].offset + 1,
   rows |-> reader[r].rows + NextRecord(r).rows, limit |-> reader[r].limit]

\* The record is read without the lock.  Bytes beyond a whole record cannot
\* be decoded.  A batch checks the reader's flag for every row.  The file may
\* fail to be read, and the memory budget may refuse the record or its rows.
ReadRecord(r) ==
  /\ ReaderAt(r, "read")
  /\ \/ /\ ~Readable(r)
        /\ ReaderTo(r, "corrupt")
        /\ UNCHANGED got
     \/ /\ Readable(r)
        /\ NextRecord(r).kind = "batch"
        /\ r \in stopping
        /\ ReaderTo(r, "stopped")
        /\ UNCHANGED got
     \/ /\ Readable(r)
        /\ NextRecord(r).kind = "batch"
        /\ r \notin stopping
        /\ reader' = [reader EXCEPT ![r] = Advanced(r)]
        /\ got' = [got EXCEPT ![r] = Append(@, NextRecord(r).rows)]
     \/ /\ Readable(r)
        /\ NextRecord(r).kind = "end"
        /\ ReaderTo(r, "end")
        /\ UNCHANGED got
     \/ ReaderTo(r, "failed") /\ UNCHANGED got
  /\ UNCHANGED <<file, torn, commit, cancel, producer, stopping>>

\* The end record is believed only if it agrees with the reader's own count
\* and with the commit record, and is the last one.
EndMatches(r) ==
  /\ NextRecord(r).rows = reader[r].rows
  /\ commit.status = "complete"
  /\ commit.rows = reader[r].rows
  /\ reader[r].offset + 1 = commit.offset

CheckEnd(r) ==
  /\ ReaderAt(r, "end")
  /\ ReaderTo(r, IF EndMatches(r) THEN "done" ELSE "corrupt")
  /\ UNCHANGED <<file, torn, commit, cancel, producer, stopping, got>>

\* The export that owns this reader is cancelled.
StopReader(r) ==
  /\ r \notin stopping
  /\ stopping' = stopping \cup {r}
  /\ UNCHANGED <<file, torn, commit, cancel, producer, reader, got>>

ReaderStep(r) == Await(r) \/ ReadRecord(r) \/ CheckEnd(r)

---------------------------------------------------------------------------

\* Everyone has finished: the only state in which nothing more happens.
Finished ==
  /\ ProducerAt("gone")
  /\ \A r \in Readers : reader[r].pc \in ReaderFinal
  /\ UNCHANGED vars

Next ==
  \/ ProducerStep
  \/ StopSpool
  \/ SetCancel
  \/ \E r \in Readers : ReaderStep(r) \/ StopReader(r)
  \/ Finished

\* The owner either appends, finishes or drops the producer (it unwinds on an
\* error), and a reader thread keeps calling next: both are ordinary threads.
Fairness ==
  /\ WF_vars(ProducerStep)
  /\ \A r \in Readers : WF_vars(ReaderStep(r))

Spec == Init /\ [][Next]_vars

FairSpec == Spec /\ Fairness

---------------------------------------------------------------------------
(* Properties *)

Records == [kind : {"none", "batch", "end"}, rows : Nat, upto : Nat]

TypeOK ==
  /\ file \in Seq(Records)
  /\ torn \in BOOLEAN
  /\ commit \in [offset : Nat, rows : Nat, status : Statuses]
  /\ cancel \in BOOLEAN
  /\ producer \in [pc : ProducerPcs, rows : Nat, record : Records]
  /\ reader \in [Readers -> [pc : ReaderPcs, offset : Nat,
                             rows : Nat, limit : Nat]]
  /\ stopping \subseteq Readers
  /\ got \in [Readers -> Seq(Nat)]

\* The rows of the first i records.
TotalAt(i) == IF i = 0 THEN 0 ELSE file[i].upto

BatchCount ==
  IF commit.status = "complete" THEN commit.offset - 1 ELSE commit.offset

\* What is committed is whole, and counts up without a gap; an end record is
\* committed only with the outcome, as the last record.
CommittedIsWhole ==
  /\ commit.offset <= Len(file)
  /\ \A i \in 1..BatchCount :
       /\ file[i].kind = "batch"
       /\ file[i].upto = TotalAt(i - 1) + file[i].rows
  /\ commit.status = "complete" =>
       /\ commit.offset > 0
       /\ file[commit.offset] = End(TotalAt(commit.offset - 1))
       /\ commit.rows = TotalAt(commit.offset - 1)

\* While the download runs, the producer is at most one record ahead of the
\* commit record, and that record follows on from the last committed one.
ProducerFollows ==
  /\ commit.status = "downloading" =>
       /\ ProducerAt("idle") =>
            /\ Len(file) = commit.offset
            /\ producer.rows = TotalAt(commit.offset)
       /\ producer.pc \in {"check", "write", "flush", "commit"} =>
            /\ producer.record.upto = producer.rows
            /\ \/ /\ producer.record.kind = "batch"
                  /\ producer.record.rows \in BatchSizes
                  /\ producer.rows = TotalAt(commit.offset) + producer.record.rows
               \/ /\ producer.record = End(TotalAt(commit.offset))
       /\ producer.pc \in {"check", "write", "flush"} =>
            Len(file) = commit.offset
       /\ ProducerAt("commit") =>
            /\ Len(file) = commit.offset + 1
            /\ file[Len(file)] = producer.record
  /\ producer.pc \in {"dropping", "gone"} => commit.status # "downloading"

\* A reader stays within what it saw committed, and has returned exactly the
\* batches before its offset.
ReaderFollows(r) ==
  /\ reader[r].offset <= BatchCount
  /\ reader[r].limit <= commit.offset
  /\ reader[r].rows = TotalAt(reader[r].offset)
  /\ got[r] = [i \in 1..reader[r].offset |-> file[i].rows]
  /\ ReaderAt(r, "read") => reader[r].offset < reader[r].limit
  /\ ReaderAt(r, "end") =>
       /\ commit.status = "complete"
       /\ reader[r].offset = BatchCount
  /\ ~ReaderAt(r, "corrupt")
  /\ ReaderAt(r, "done") =>
       commit.status = "complete" /\ reader[r].offset = BatchCount

\* The inductive invariant: the lock-free reads of the file are safe because
\* the committed prefix never changes and the producer writes only after it.
SpoolInv ==
  /\ TypeOK
  /\ CommittedIsWhole
  /\ ProducerFollows
  /\ \A r \in Readers : ReaderFollows(r)

\* No reader ever decodes bytes that are not a whole committed record, misses
\* the end record, or finds an end record that contradicts its own count: the
\* four "invalid" errors of Reader::next cannot happen, although the file is
\* read without the lock while the producer writes it.
NoCorruptRead == \A r \in Readers : ~ReaderAt(r, "corrupt")

\* Once a result has an outcome, nothing moves its commit record again: a late
\* write of the producer, its drop, or a late cancel by the writer.
TerminalIsSticky ==
  [][commit.status # "downloading" => commit' = commit]_vars

\* Every reader stops waiting: the download completes or is stopped, by the
\* drop of the producer if by nothing else, and each reader sees that.
ReadersFinish ==
  \A r \in Readers : <>(reader[r].pc \in ReaderFinal)

---------------------------------------------------------------------------
(* The refinement of ResultStream *)

CommittedRows == [i \in 1..BatchCount |-> file[i].rows]

StreamResult ==
  [r \in Readers |->
     CASE reader[r].pc = "done"    -> "done"
       [] reader[r].pc = "stopped" -> "stopped"
       [] reader[r].pc = "failed"  -> "failed"
       [] reader[r].pc = "corrupt" -> "corrupt"
       [] OTHER                    -> "reading"]

Stream == INSTANCE ResultStream WITH
            published <- CommittedRows,
            outcome   <- commit.status,
            delivered <- got,
            result    <- StreamResult,
            abandoned <- stopping

\* The spool implements the abstract stream: a record is published to every
\* reader at once, batches arrive in order without a gap, and the end is
\* reported only after all of a complete stream.
ImplementsStream == Stream!Spec

=============================================================================
