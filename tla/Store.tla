------------------------------- MODULE Store --------------------------------
(***************************************************************************)
(* The transaction journal with snapshot compaction, and the coordinator's *)
(* use of it: commit a transaction, apply it, then compact when the        *)
(* journal has grown past its bound.                                       *)
(*                                                                         *)
(* A file is the sequence of frames the operating system holds for it.  A  *)
(* crash keeps what was synced and any prefix of the rest, cut at a frame  *)
(* or inside one.  Directory operations (rename, create, truncate, remove) *)
(* are taken to be durable when they return.  A frame is a header of one   *)
(* unit and its payload and trailer; a tear keeps the header, so its length*)
(* field is read.  Checksums, magic numbers and versions only tell a whole *)
(* frame from a torn one here, and read-only opens are left out.           *)
(***************************************************************************)
EXTENDS Naturals, SequencesExt

CONSTANTS
  Shapes,           \* the sizes of the records of a transaction, in order
  MaxJournalBytes,  \* Options::max_journal_bytes
  Retained,         \* Options::retained_generations
  WriteErrors,      \* whether fwrite and fsync may fail on the journal
  CompactErrors,    \* whether a step of compact may fail
  MaxTransactions,  \* bound: transactions ever begun
  MaxGeneration     \* bound: file generations

ASSUME StoreAssumption ==
  /\ Shapes \subseteq Seq(Nat \ {0}) /\ <<>> \notin Shapes
  /\ MaxJournalBytes \in Nat /\ Retained \in Nat
  /\ WriteErrors \in BOOLEAN /\ CompactErrors \in BOOLEAN
  /\ MaxTransactions \in Nat /\ MaxGeneration \in Nat \ {0}

VARIABLES
  pc,                 \* where the process is, "closed" when there is none
  snapshots,          \* the snapshot files: generation -> the log they encode
  journals,           \* the journal files: generation -> frames
  synced,             \* frames of the newest journal on stable storage
  journal_,           \* Store::journal_ is not null
  journal_bytes_,     \* Store::journal_bytes_
  next_sequence_,     \* Store::next_sequence_
  journal_generation_,\* Store::journal_generation_
  log,                \* the coordinator's memory: the transactions it applied
  pending,            \* <<t>> while commit_transaction(t) runs, else <<>>
  stable,             \* history: how many transactions of log were acknowledged
  begun,              \* history: transactions ever begun, to tell them apart
  faulty              \* history: a write to the journal in use has failed

files == <<snapshots, journals, synced>>
handle == <<journal_, journal_bytes_, next_sequence_, journal_generation_>>
memory == <<log, pending, stable, begun, faulty>>
vars == <<pc, files, handle, memory>>

Generation == 1 .. MaxGeneration

Record == [txn : Nat, part : Nat, size : Nat]

(* The n-th transaction begun, with records of the given sizes.             *)
TransactionOf(n, shape) ==
  [i \in DOMAIN shape |-> [txn |-> n, part |-> i, size |-> shape[i]]]

Transaction == {TransactionOf(n, shape) : n \in 1 .. MaxTransactions, shape \in Shapes}

Marker == [txn |-> 0, part |-> 0, size |-> 1]

Frame ==
  [kind : {"Begin", "Record", "Commit"}, sequence : Nat, id : Nat,
   record : Record, missing : Nat]

FrameBytes(f) == 1 + f.record.size - f.missing
Bytes(fs) ==
  LET sum[n \in 0 .. Len(fs)] == IF n = 0 THEN 0 ELSE sum[n - 1] + FrameBytes(fs[n])
  IN sum[Len(fs)]

(* The frames of one transaction, numbered from n; its id is n as well.     *)
FramesOf(t, n) ==
  <<[kind |-> "Begin", sequence |-> n, id |-> n, record |-> Marker,
     missing |-> 0]>>
  \o [i \in DOMAIN t |-> [kind |-> "Record", sequence |-> n + i, id |-> 0,
                          record |-> t[i], missing |-> 0]]
  \o <<[kind |-> "Commit", sequence |-> n + Len(t) + 1, id |-> n,
        record |-> Marker, missing |-> 0]>>

(* The files when one of them is created or replaced.                       *)
With(fs, g, content) ==
  [h \in DOMAIN fs \cup {g} |-> IF h = g THEN content ELSE fs[h]]

(* What may be left of fs when only its first k frames are certain.         *)
Surviving(fs, k) ==
  {SubSeq(fs, 1, n) : n \in k .. Len(fs)}
  \cup UNION {{Append(SubSeq(fs, 1, n - 1), [fs[n] EXCEPT !.missing = m]) :
                 m \in 1 .. fs[n].record.size} : n \in (k + 1) .. Len(fs)}

-----------------------------------------------------------------------------
(* Reading the files back.                                                  *)

Newest(fs) == IF DOMAIN fs = {} THEN 0 ELSE Max(DOMAIN fs)

(* A journal older than the snapshot is not scanned.                        *)
JournalScanned == DOMAIN journals # {} /\ Newest(journals) >= Newest(snapshots)

FirstTorn(fs) == SelectInSeq(fs, LAMBDA f : f.missing # 0)

(* scan_journal: an incomplete frame is a torn tail when the file ends      *)
(* before it does, and corruption when later bytes complete it.             *)
TornTail(fs) ==
  FirstTorn(fs) # 0 /\
  Bytes(SubSeq(fs, FirstTorn(fs) + 1, Len(fs))) < fs[FirstTorn(fs)].missing

ScanCorrupt(fs) == FirstTorn(fs) # 0 /\ ~TornTail(fs)

Intact(fs) == IF TornTail(fs) THEN SubSeq(fs, 1, FirstTorn(fs) - 1) ELSE fs

(* The Begin frame of the transaction that position i is inside of, 0 for   *)
(* none: the last one before i, unless a Commit frame came after it.        *)
OpenedAt(fs, i) ==
  LET mark == SelectLastInSubSeq(fs, 1, i - 1, LAMBDA f : f.kind # "Record")
  IN IF mark # 0 /\ fs[mark].kind = "Begin" THEN mark ELSE 0

(* The loop of Store::open that assembles transactions: what it accepts...  *)
WellFormed(fs) ==
  \A i \in DOMAIN fs :
    /\ i > 1 => fs[i].sequence > fs[i - 1].sequence
    /\ fs[i].kind = "Begin" <=> OpenedAt(fs, i) = 0
    /\ fs[i].kind = "Commit" => fs[i].id = fs[OpenedAt(fs, i)].id

(* Mutant of Committed: a transaction needs no Commit frame.                *)
CommittedOrBegun(fs) ==
  LET begins == SelectSeq([i \in DOMAIN fs |-> i],
                          LAMBDA i : fs[i].kind = "Begin")
      end(b) == SelectInSubSeq(fs, b + 1, Len(fs), LAMBDA f : f.kind # "Record")
      body(b) == SubSeq(fs, b + 1, IF end(b) = 0 THEN Len(fs) ELSE end(b) - 1)
  IN [k \in DOMAIN begins |->
        [i \in DOMAIN body(begins[k]) |-> body(begins[k])[i].record]]

(* ... and the transactions it hands over: the committed ones.              *)
Commits(fs) == {c \in DOMAIN fs : fs[c].kind = "Commit"}

KthCommit(fs, k) ==
  CHOOSE c \in Commits(fs) : Cardinality({d \in Commits(fs) : d < c}) = k - 1

RecordsBefore(fs, c) ==
  LET b == OpenedAt(fs, c) IN [i \in 1 .. c - b - 1 |-> fs[b + i].record]

Committed(fs) ==
  [k \in 1 .. Cardinality(Commits(fs)) |-> RecordsBefore(fs, KthCommit(fs, k))]

Scanned == IF JournalScanned THEN journals[Newest(journals)] ELSE <<>>

Readable == ~ScanCorrupt(Scanned) /\ WellFormed(Intact(Scanned))

Recovered ==
  (IF DOMAIN snapshots = {} THEN <<>> ELSE snapshots[Newest(snapshots)])
  \o Committed(Intact(Scanned))

(* Mutant of LastSequence: numbering restarts on every open.                *)
LastSequenceForgotten(fs) == 0

LastSequence(fs) == IF fs = <<>> THEN 0 ELSE Last(fs).sequence

-----------------------------------------------------------------------------
(* Store::open: repair a torn tail, open the journal for appending (which   *)
(* creates it), continue its numbering, hand the transactions over.         *)
Open ==
  LET g  == IF JournalScanned THEN Newest(journals)
            ELSE Max({1, Newest(snapshots)})
      fs == Intact(Scanned)
  IN /\ pc = "closed" /\ Readable
     /\ journals' = With(journals, g, fs)
     /\ synced' = IF JournalScanned THEN Min({synced, Len(fs)}) ELSE 0
     /\ journal_' = TRUE /\ journal_bytes_' = Bytes(fs)
     /\ next_sequence_' = LastSequence(fs) + 1
     /\ journal_generation_' = g
     /\ log' = Recovered /\ pending' = <<>>
     /\ stable' = Min({stable, Len(Recovered)}) /\ faulty' = FALSE
     /\ pc' = "idle"
     /\ UNCHANGED <<snapshots, begun>>

(* Store::open refuses what it cannot read.                                 *)
OpenRefused ==
  /\ pc = "closed" /\ ~Readable
  /\ pc' = "refused"
  /\ UNCHANGED <<files, handle, memory>>

Close ==
  /\ pc = "idle"
  /\ pc' = "closed" /\ journal_' = FALSE
  /\ UNCHANGED <<files, journal_bytes_, next_sequence_, journal_generation_, memory>>

(* commit_transaction is entered; it refuses without an open journal.       *)
CommitBegin(shape) ==
  /\ pc = "idle" /\ journal_
  /\ begun < MaxTransactions /\ begun' = begun + 1
  /\ pending' = <<TransactionOf(begun + 1, shape)>>
  /\ pc' = "writing"
  /\ UNCHANGED <<files, handle, log, stable, faulty>>

Journal == journals[journal_generation_]
Written == Journal \o FramesOf(pending[1], next_sequence_)

(* Every frame is written and synced; the coordinator applies the change.   *)
CommitOk ==
  /\ pc = "writing"
  /\ journals' = [journals EXCEPT ![journal_generation_] = Written]
  /\ synced' = Len(Written)
  /\ journal_bytes_' = journal_bytes_ + Bytes(FramesOf(pending[1], next_sequence_))
  /\ next_sequence_' = LastSequence(Written) + 1
  /\ log' = log \o pending /\ stable' = Len(log \o pending) /\ pending' = <<>>
  /\ pc' = "applied"
  /\ UNCHANGED <<snapshots, journal_, journal_generation_, begun, faulty>>

(* A write or the sync fails: what reached the file stays there.            *)
CommitFails ==
  /\ WriteErrors /\ pc = "writing"
  /\ \E fs \in Surviving(Written, Len(Journal)) :
       journals' = [journals EXCEPT ![journal_generation_] = fs]
  /\ pending' = <<>> /\ faulty' = TRUE
  /\ pc' = "idle"
  /\ UNCHANGED <<snapshots, synced, handle, log, stable, begun>>

-----------------------------------------------------------------------------
(* Compaction.                                                              *)

rotation_due == journal_bytes_ >= MaxJournalBytes

RotateNotDue ==
  /\ pc = "applied" /\ ~rotation_due
  /\ pc' = "idle"
  /\ UNCHANGED <<files, handle, memory>>

(* Mutant of SnapshotImage: encoded before the change is applied.           *)
SnapshotImageBeforeApply == Front(log)

(* maybe_compact encodes the state as it is when rotation runs.             *)
SnapshotImage == log

(* The new snapshot is renamed into place, then the journal is closed.      *)
CompactSnapshot ==
  /\ pc = "applied" /\ rotation_due
  /\ journal_generation_ < MaxGeneration
  /\ snapshots' = With(snapshots, journal_generation_ + 1, SnapshotImage)
  /\ journal_' = FALSE /\ faulty' = FALSE
  /\ pc' = "snapshotted"
  /\ UNCHANGED <<journals, synced, journal_bytes_, next_sequence_,
                 journal_generation_, log, pending, stable, begun>>

CompactSnapshotFails ==
  /\ CompactErrors /\ pc = "applied" /\ rotation_due
  /\ pc' = "idle"
  /\ UNCHANGED <<files, handle, memory>>

(* The journal of the new generation is created empty and synced.           *)
CompactCreate ==
  /\ pc = "snapshotted"
  /\ journals' = With(journals, journal_generation_ + 1, <<>>)
  /\ synced' = 0
  /\ pc' = "created"
  /\ UNCHANGED <<snapshots, handle, memory>>

(* Creating or reopening the journal fails: no journal is open any more.    *)
CompactJournalFails ==
  /\ CompactErrors /\ pc \in {"snapshotted", "created"}
  /\ pc' = "idle"
  /\ UNCHANGED <<files, handle, memory>>

(* The new generation is in force; removing an old file may fail.           *)
Expired(fs) == {g \in DOMAIN fs : g + Max({1, Retained}) < journal_generation_ + 1}

(* Mutant of BytesAfterRotation: the count is not reset.                    *)
BytesAfterRotationKept == journal_bytes_

(* The new journal is empty, so rotation counts from nothing.               *)
BytesAfterRotation == 0

CompactFinish ==
  /\ pc = "created"
  /\ journal_' = TRUE /\ journal_bytes_' = BytesAfterRotation /\ next_sequence_' = 1
  /\ journal_generation_' = journal_generation_ + 1
  /\ \E gs \in SUBSET Expired(snapshots) :
       snapshots' = [g \in DOMAIN snapshots \ gs |-> snapshots[g]]
  /\ \E gs \in SUBSET Expired(journals) :
       journals' = [g \in DOMAIN journals \ gs |-> journals[g]]
  /\ pc' = "idle"
  /\ UNCHANGED <<synced, memory>>

-----------------------------------------------------------------------------
(* The process or the machine stops.  A crash during a commit leaves any    *)
(* part of the transaction; otherwise only unsynced frames are at risk.     *)
Crash ==
  /\ pc \notin {"closed", "refused"}
  /\ LET g  == Newest(journals)
         fs == IF pc = "writing" THEN Written ELSE journals[g]
     IN \E left \in Surviving(fs, synced) : journals' = [journals EXCEPT ![g] = left]
  /\ pc' = "closed" /\ journal_' = FALSE
  /\ UNCHANGED <<snapshots, synced, journal_bytes_, next_sequence_,
                 journal_generation_, memory>>

Init ==
  /\ pc = "closed" /\ snapshots = <<>> /\ journals = <<>> /\ synced = 0
  /\ journal_ = FALSE /\ journal_bytes_ = 0 /\ next_sequence_ = 1
  /\ journal_generation_ = 0
  /\ log = <<>> /\ pending = <<>> /\ stable = 0 /\ begun = 0 /\ faulty = FALSE

Next ==
  \/ Open \/ OpenRefused \/ Close
  \/ (\E shape \in Shapes : CommitBegin(shape)) \/ CommitOk \/ CommitFails
  \/ RotateNotDue \/ CompactSnapshot \/ CompactSnapshotFails
  \/ CompactCreate \/ CompactJournalFails \/ CompactFinish
  \/ Crash

Spec == Init /\ [][Next]_vars

-----------------------------------------------------------------------------
(* The types of the files, the handle and the coordinator's log.  Every     *)
(* journal file holds at least its synced frames, and the bytes counted for *)
(* rotation are the journal's, unless a write to it has failed.             *)
StoreTypeOK ==
  /\ pc \in {"closed", "idle", "writing", "applied", "snapshotted", "created",
             "refused"}
  /\ DOMAIN snapshots \subseteq Generation /\ DOMAIN journals \subseteq Generation
  /\ \A g \in DOMAIN snapshots : Range(snapshots[g]) \subseteq Transaction
  /\ \A g \in DOMAIN journals : Range(journals[g]) \subseteq Frame
  /\ DOMAIN journals # {} => synced \in 0 .. Len(journals[Newest(journals)])
  /\ journal_ \in BOOLEAN /\ next_sequence_ \in Nat \ {0}
  /\ journal_ /\ ~faulty =>
       /\ journal_generation_ = Newest(journals)
       /\ journal_bytes_ = Bytes(Journal)
  /\ Range(log) \subseteq Transaction /\ stable \in 0 .. Len(log)
  /\ pending = <<>> \/ pending[1] \in Transaction
  /\ begun \in 0 .. MaxTransactions /\ faulty \in BOOLEAN

(* At every moment, whatever the process is doing and wherever it is cut    *)
(* off, an open that succeeds hands back every acknowledged transaction, in *)
(* order, then only whole transactions the coordinator offered: across      *)
(* commits, torn tails, dropped transactions and every step of compaction.  *)
(* A failed write voids this until a compaction leaves its journal behind.  *)
AcknowledgedReadBack ==
  Readable /\ ~faulty =>
    /\ IsPrefix(SubSeq(log, 1, stable), Recovered)
    /\ IsPrefix(Recovered, log \o pending)

(* Even when writes fail half way and the journal is written on after that, *)
(* an open that succeeds hands back whole transactions only, each once and  *)
(* in the order they were offered.                                          *)
RecoveredWhole ==
  Readable => /\ Range(Recovered) \subseteq Transaction
              /\ \A i, j \in DOMAIN Recovered :
                   i < j => Recovered[i][1].txn < Recovered[j][1].txn

(* The part commit_transaction promises even when writes fail: it returns   *)
(* Ok only after the commit frame reached stable storage, so an open that   *)
(* succeeds hands every acknowledged transaction back.                      *)
OkIsDurable == Readable => IsPrefix(SubSeq(log, 1, stable), Recovered)

(* The store implements the durable log it promises.                        *)
PromisedLog ==
  INSTANCE DurableLog WITH up <- pc \notin {"closed", "refused"}
ImplementsLog == PromisedLog!Spec

(* An abandoned transaction followed by another one: commit_transaction     *)
(* appended to a journal whose last transaction a crash had cut short.      *)
AbandonedTransaction(fs) ==
  \E i \in DOMAIN fs : fs[i].kind = "Begin" /\ OpenedAt(fs, i) # 0

(* Nothing but an abandoned transaction or a failed write makes the files   *)
(* unreadable: numbering resumes where the journal left off, a torn tail is *)
(* cut before anything follows it, generations never mix, and a compaction  *)
(* gets rid of a journal that a failed write has spoilt.  Refusals by size  *)
(* and by number of records are not among the model's.                      *)
UnreadableOnlyIfAbandoned ==
  Readable \/ faulty \/ AbandonedTransaction(Scanned)

(* A crash never makes the next open refuse the store: an incomplete        *)
(* transaction is dropped and what was committed is read back.              *)
CrashNeverRefused == pc # "refused"
=============================================================================
