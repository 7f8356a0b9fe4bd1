---------------------------- MODULE StoreWriter ----------------------------
(***************************************************************************)
(* The buffered writer of src/netping/store.py: samples and events are     *)
(* appended to two in-memory lists and flushed to SQLite by one background *)
(* task, and once more by close().                                         *)
(*                                                                         *)
(* A flush is not atomic: it takes the lists, then inserts them in one     *)
(* transaction, then, when a row violates the foreign key, inserts them    *)
(* again row by row.  Hosts are deleted, rows enqueued and the process     *)
(* killed in between.  One transaction is one step: from its first INSERT  *)
(* on it holds SQLite's write lock.                                        *)
(***************************************************************************)
EXTENDS Integers, Sequences, SequencesExt

CONSTANTS
    Hosts,        \* host ids that exist at first
    MaxRows,      \* bound: rows ever enqueued
    MaxCrashes    \* bound: times the process is killed

ASSUME MaxRowsAssumption == MaxRows \in Nat
ASSUME MaxCrashesAssumption == MaxCrashes \in Nat

Kinds == {"sample", "event"}
Rows == 1..MaxRows
TriesSeen == 4  \* bound: no property tells more failures of a row apart

VARIABLES
    hosts,     \* host ids in the database
    next,      \* rows are numbered in the order they are enqueued
    owner,     \* sequence of hosts: owner[n] is the host row n is about
    buf,       \* kind -> rows waiting (_sample_buf, _event_buf)
    batch,     \* kind -> rows taken by the flush in progress
    db,        \* kind -> rows committed, in insertion order
    failures,  \* _flush_failures
    pc,        \* the flush: "waiting", "insert", "fallback", "done"
    flusher,   \* who runs it: "writer", or "close" for the final one
    phase,     \* "open", "closing" (_stop is set), "closed"
    fate,      \* how a row left: "skipped", "dropped", "cascaded", "lost"
    tries,     \* row -> flushes that failed with it in their batch
    crashes    \* times the process was killed

vars == <<hosts, next, owner, buf, batch, db, failures, pc, flusher, phase,
          fate, tries, crashes>>

Nothing == [k \in Kinds |-> <<>>]
In(lists) == UNION {Range(lists[k]) : k \in Kinds}

TypeOK ==
    /\ hosts \in SUBSET Hosts
    /\ next \in 1..(MaxRows + 1)
    /\ owner \in Seq(Hosts) /\ Len(owner) = next - 1
    /\ {buf, batch, db} \subseteq [Kinds -> Seq(Rows)]
    /\ failures \in 0..2
    /\ pc \in {"waiting", "insert", "fallback", "done"}
    /\ flusher \in {"writer", "close"}
    /\ phase \in {"open", "closing", "closed"}
    /\ fate \in [Rows -> {"none", "skipped", "dropped", "cascaded", "lost"}]
    /\ tries \in [Rows -> 0..TriesSeen]
    /\ crashes \in 0..MaxCrashes

Init ==
    /\ hosts = Hosts
    /\ next = 1
    /\ owner = <<>>
    /\ buf = Nothing /\ batch = Nothing /\ db = Nothing
    /\ failures = 0
    /\ pc = "waiting" /\ flusher = "writer" /\ phase = "open"
    /\ fate = [n \in Rows |-> "none"]
    /\ tries = [n \in Rows |-> 0]
    /\ crashes = 0

Doom(S, why) == [n \in Rows |-> IF n \in S THEN why ELSE fate[n]]

-----------------------------------------------------------------------------
\* enqueue_sample, enqueue_event: the host may have been deleted already.
Enqueue(h, k) ==
    /\ phase = "open"
    /\ next <= MaxRows
    /\ next' = next + 1
    /\ owner' = Append(owner, h)
    /\ buf' = [buf EXCEPT ![k] = Append(@, next)]
    /\ UNCHANGED <<hosts, batch, db, failures, pc, flusher, phase, fate, tries,
                   crashes>>

\* Mutant: the writer does not look at _stop after a flush.
FlushReturnsEndless ==
    /\ pc' = "waiting"
    /\ UNCHANGED <<flusher, phase>>
\* Mutant: close() awaits the writer and skips the final flush.
FlushReturnsLast ==
    /\ pc' = IF phase = "open" THEN "waiting" ELSE "done"
    /\ phase' = IF phase = "open" THEN phase ELSE "closed"
    /\ UNCHANGED flusher
\* Where the flush in progress returns to: the writer waits again, or leaves
\* its loop because _stop is set and close() runs the final flush, or close()
\* returns.
FlushReturns ==
    /\ pc' = IF phase # "open" /\ flusher = "close" THEN "done" ELSE "waiting"
    /\ flusher' = IF phase = "open" THEN flusher ELSE "close"
    /\ phase' = IF flusher = "close" THEN "closed" ELSE phase

\* Mutant: the flush takes the two lists at different instants.
FlushTakesSamples ==
    /\ pc = "waiting"
    /\ batch' = [buf EXCEPT !["event"] = <<>>]
    /\ buf' = [buf EXCEPT !["sample"] = <<>>]
    /\ IF batch' = Nothing
       THEN FlushReturns
       ELSE pc' = "insert" /\ UNCHANGED <<flusher, phase>>
    /\ UNCHANGED <<hosts, next, owner, db, failures, fate, tries, crashes>>
\* The interval is over, or _stop is set: take both lists.
FlushTakes ==
    /\ pc = "waiting"
    /\ batch' = buf
    /\ buf' = Nothing
    /\ IF buf = Nothing
       THEN FlushReturns
       ELSE pc' = "insert" /\ UNCHANGED <<flusher, phase>>
    /\ UNCHANGED <<hosts, next, owner, db, failures, fate, tries, crashes>>

\* The rows of a list that are about the hosts of a set, in their order.
About(rows, H) ==
    LET kept[i \in 0..Len(rows)] ==
            IF i = 0 THEN <<>>
            ELSE IF owner[rows[i]] \in H THEN Append(kept[i - 1], rows[i])
            ELSE kept[i - 1]
    IN kept[Len(rows)]

Violating == {n \in In(batch) : owner[n] \notin hosts}

Committed ==
    /\ batch' = Nothing
    /\ failures' = 0
    /\ FlushReturns
    /\ UNCHANGED <<hosts, next, owner, buf, tries, crashes>>

\* The batched executemany and its commit.
InsertCommits ==
    /\ pc = "insert"
    /\ Violating = {}
    /\ db' = [k \in Kinds |-> db[k] \o batch[k]]
    /\ Committed
    /\ UNCHANGED fate

\* sqlite3.IntegrityError aborts the whole transaction.
InsertViolates ==
    /\ pc = "insert"
    /\ Violating # {}
    /\ pc' = "fallback"
    /\ UNCHANGED <<hosts, next, owner, buf, batch, db, failures, flusher,
                   phase, fate, tries, crashes>>

\* Mutant: the fallback gives up the batch when a row of it violates the key.
KeptByFallbackNone(k) == IF Violating = {} THEN batch[k] ELSE <<>>
\* The rows that _insert_skipping_violations commits.
KeptByFallback(k) == About(batch[k], hosts)

FallbackCommits ==
    /\ pc = "fallback"
    /\ db' = [k \in Kinds |-> db[k] \o KeptByFallback(k)]
    /\ fate' = Doom(In(batch) \ UNION {Range(KeptByFallback(k)) : k \in Kinds},
                    "skipped")
    /\ Committed

\* Mutant: the failed batch is forgotten instead of re-queued.
RequeuedNothing(k) == buf[k]
\* Mutant: the re-queued rows are put behind the newer ones.
RequeuedBehind(k) == buf[k] \o batch[k]
Requeued(k) == batch[k] \o buf[k]

\* Mutant: the count of failures starts over with every batch.
CountedAnew == 1
Counted == failures + 1

\* Mutant: a failed batch is re-queued for ever.
RequeuesAlways(n) == TRUE
\* Mutant: a batch is dropped one failure too early.
RequeuesOnce(n) == n <= 1
Requeues(n) == n <= 2

\* Any other error, of either kind of insert: _on_flush_failure.
FlushFails ==
    /\ pc \in {"insert", "fallback"}
    /\ tries' = [n \in Rows |-> IF n \in In(batch) /\ tries[n] < TriesSeen
                                THEN tries[n] + 1 ELSE tries[n]]
    /\ IF Requeues(Counted)
       THEN /\ failures' = Counted
            /\ buf' = [k \in Kinds |-> Requeued(k)]
            /\ UNCHANGED fate
       ELSE /\ failures' = 0
            /\ fate' = Doom(In(batch), "dropped")
            /\ UNCHANGED buf
    /\ batch' = Nothing
    /\ FlushReturns
    /\ UNCHANGED <<hosts, next, owner, db, crashes>>

\* delete_host: ON DELETE CASCADE removes the host's committed rows.
DeleteHost(h) ==
    /\ h \in hosts
    /\ hosts' = hosts \ {h}
    /\ db' = [k \in Kinds |-> About(db[k], Hosts \ {h})]
    /\ fate' = Doom({n \in In(db) : owner[n] = h}, "cascaded")
    /\ UNCHANGED <<next, owner, buf, batch, failures, pc, flusher, phase,
                   tries, crashes>>

\* close(): set _stop and await the writer.
Close ==
    /\ phase = "open"
    /\ phase' = "closing"
    /\ UNCHANGED <<hosts, next, owner, buf, batch, db, failures, pc, flusher,
                   fate, tries, crashes>>

\* Closed: rows still in memory are gone with the process.
ProcessExits ==
    /\ phase = "closed"
    /\ buf # Nothing
    /\ fate' = Doom(In(buf), "lost")
    /\ buf' = Nothing
    /\ UNCHANGED <<hosts, next, owner, batch, db, failures, pc, flusher, phase,
                   tries, crashes>>

\* The process is killed and started again on the same database.
Crash ==
    /\ crashes < MaxCrashes
    /\ crashes' = crashes + 1
    /\ phase # "closed"
    /\ fate' = Doom(In(buf) \cup In(batch), "lost")
    /\ buf' = Nothing /\ batch' = Nothing
    /\ failures' = 0
    /\ pc' = "waiting" /\ flusher' = "writer" /\ phase' = "open"
    /\ UNCHANGED <<hosts, next, owner, db, tries>>

-----------------------------------------------------------------------------
FlushStep == FlushTakes \/ InsertCommits \/ InsertViolates \/ FallbackCommits
                \/ FlushFails

Next ==
    \/ \E h \in Hosts, k \in Kinds : Enqueue(h, k)
    \/ FlushStep
    \/ \E h \in Hosts : DeleteHost(h)
    \/ Close
    \/ ProcessExits
    \/ Crash

Spec == Init /\ [][Next]_vars

(* The writer's timed wait ends and SQLite answers, one way or the other,  *)
(* within its busy timeout.  Nothing says that it answers well.  The       *)
(* process ends once close() has returned.                                 *)
FairSpec == Spec /\ WF_vars(FlushStep) /\ WF_vars(ProcessExits)

-----------------------------------------------------------------------------
Enqueued == 1..(next - 1)

Occurrences(n, lists) ==
    {o \in Kinds \X Rows :
        o[2] \in DOMAIN lists[o[1]] /\ lists[o[1]][o[2]] = n}

\* Every row is in exactly one place exactly once: waiting, in the flush in
\* progress, in the database, or accounted for by the one reason it left.  A
\* re-queue after a failed transaction duplicates nothing, and nothing
\* vanishes silently between the buffer swap and the commit.
ExactlyOnePlace ==
    \A n \in Enqueued :
        \E place \in {"buf", "batch", "db", "gone"} :
            /\ place = "gone" <=> fate[n] # "none"
            /\ \A p \in {<<"buf", buf>>, <<"batch", batch>>, <<"db", db>>} :
                 \E one \in Kinds \X Rows :
                    Occurrences(n, p[2]) = IF place = p[1] THEN {one} ELSE {}

\* Rows reach the database in the order they were enqueued, across re-queues
\* that merge an old batch with rows enqueued while it was being tried.
OrderPreserved ==
    \A k \in Kinds :
        LET all == db[k] \o batch[k] \o buf[k]
        IN \A i, j \in DOMAIN all : i < j => all[i] < all[j]

\* Across the kinds too: no event is in the database before an older sample
\* that still waits, nor the other way round.
NewerWait == \A n \in In(db), m \in In(batch) \cup In(buf) : n < m

\* No row, lost or doubled, is anywhere but in its place in the order.
RowsInPlace == ExactlyOnePlace /\ OrderPreserved /\ NewerWait

\* The buffers, the batch and the retries hide a log that takes all rows up to
\* some instant, of both kinds, at once: a row that waits in memory, wherever it
\* is, has no newer row before it in the database.
Log == INSTANCE RowLog WITH
          waiting <- [k \in Kinds |-> Range(batch[k]) \cup Range(buf[k])],
          stored <- [k \in Kinds |-> Range(db[k])]

ImplementsRowLog == Log!Spec

\* A host deleted while its rows are buffered costs no other host a row
\* (store.py:622-626).
OnlyGhostsSkipped ==
    \A n \in Enqueued : fate[n] = "skipped" => owner[n] \notin hosts

\* A batch is given up only once some row of it has failed three times, with
\* no success in between.
DropNeedsThreeFailures ==
    [][LET dropped == {n \in Rows : fate[n] = "none" /\ fate'[n] = "dropped"}
       IN dropped # {} => \E n \in dropped : tries'[n] = 3]_vars

\* close() loses a row only by a flush that failed after _stop was set: the
\* loop leaves no row behind that was enqueued while the writer was finishing.
CloseFlushes ==
    [][phase' = "closed" /\ phase # "closed" =>
         buf' = Nothing \/ (tries' # tries)]_vars

\* A row is lost for one of these reasons and no other: its host is gone, its
\* batch failed three times running, or the last flush of all failed.
LossesJustified == []OnlyGhostsSkipped /\ DropNeedsThreeFailures /\ CloseFlushes

\* Every row leaves memory, stored or given up, even if no flush succeeds: with
\* MaxRows rows to come at most, the buffers are empty again and again.
WriterNeverStuck == []<>(In(buf) \cup In(batch) = {})

\* close() returns, also when the database is unusable.
CloseReturns == (phase = "closing") ~> (phase \in {"closed", "open"})

\* No batch, however bad, keeps the writer or close() from getting done with it.
WriterGetsDone == WriterNeverStuck /\ CloseReturns
=============================================================================
