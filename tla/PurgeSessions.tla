---------------------------- MODULE PurgeSessions ----------------------------
(***************************************************************************)
(* The Dramatiq actor that deletes expired refresh sessions, in committed  *)
(* batches: one locking selection that skips locked rows, oldest first,    *)
(* then the deletion, whose ON DELETE SET NULL cascade locks the rows that *)
(* point at a deleted one and waits for them, for at most lock_timeout.    *)
(***************************************************************************)
EXTENDS SessionTables

CONSTANTS
    BatchSizes,   \* batch_size arguments the actor may be sent
    MaxBatches,   \* _MAX_BATCHES
    MaxRetries,   \* max_retries of the actor
    MaxCrashes    \* bound: worker crashes in a behaviour

ASSUME PurgeAssumption ==
    /\ BatchSizes \subseteq Nat \ {0}
    /\ MaxBatches \in Nat \ {0}
    /\ MaxRetries \in Nat
    /\ MaxCrashes \in Nat

VARIABLES
    wpc,        \* where each worker is
    run,        \* the message it works on and the counters of this attempt
    scan,       \* candidates of the selection not tried yet
    picked,     \* rows selected, locked and deleted by the open transaction
    cascade,    \* rows whose replaced_by_id the deletion still has to clear
    crashes

workerVars == <<wpc, run, scan, picked, cascade, crashes>>

WorkerPoints == {"idle", "select", "cascade", "retry"}
Run == [size : BatchSizes \cup {0}, cutoff : Int, batches : 0..MaxBatches,
        attempt : 0..MaxRetries]
NoRun == [size |-> 0, cutoff |-> 0, batches |-> 0, attempt |-> 0]

WorkersTypeOK ==
    /\ wpc \in [Workers -> WorkerPoints]
    /\ run \in [Workers -> Run]
    /\ scan \in [Workers -> SUBSET Ids]
    /\ picked \in [Workers -> SUBSET Ids]
    /\ cascade \in [Workers -> SUBSET Ids]
    /\ crashes \in 0..MaxCrashes

WorkersInit ==
    /\ wpc = [w \in Workers |-> "idle"]
    /\ run = [w \in Workers |-> NoRun]
    /\ scan = [w \in Workers |-> {}]
    /\ picked = [w \in Workers |-> {}]
    /\ cascade = [w \in Workers |-> {}]
    /\ crashes = 0

WorkerGoto(w, point) == wpc' = [wpc EXCEPT ![w] = point]
Drop(f, w) == [f EXCEPT ![w] = {}]

-----------------------------------------------------------------------------

Expired_OffByOne(cutoff) == {i \in Stored : session[i].expires <= cutoff}    \* mutant
Expired(cutoff) == {i \in Stored : session[i].expires < cutoff}

\* A batch size the actor refuses (not an integer in 1..2^53-1) makes it
\* return at once: BatchSizes holds the others.  The cutoff is computed once
\* for all batches; the snapshot of each statement fixes its candidates.
Start(w, size, attempt) ==
    LET cutoff == clock - Retention IN
    /\ WorkerGoto(w, "select")
    /\ run' = [run EXCEPT ![w] = [size |-> size, cutoff |-> cutoff,
                                  batches |-> 0, attempt |-> attempt]]
    /\ scan' = [scan EXCEPT ![w] = Expired(cutoff)]
    /\ UNCHANGED <<tableVars, picked, cascade, crashes>>

Deliver(w, size) == wpc[w] = "idle" /\ Start(w, size, 0)
Redeliver(w) == wpc[w] = "retry" /\ Start(w, run[w].size, run[w].attempt)

Oldest(S) == {i \in S : \A j \in S : token[i].exp <= token[j].exp}
Selecting(w) == scan[w] # {} /\ Cardinality(picked[w]) < run[w].size

\* FOR UPDATE SKIP LOCKED, in the order of expires_at: lock the next candidate,
\* or skip it when it is locked or deleted meanwhile.
TryRow(w, i) ==
    /\ wpc[w] = "select"
    /\ Selecting(w)
    /\ i \in Oldest(scan[w])
    /\ scan' = [scan EXCEPT ![w] = @ \ {i}]
    /\ IF rowLock[i] = None /\ session[i] # None
         THEN AcquireRow(w, i) /\ picked' = [picked EXCEPT ![w] = @ \cup {i}]
         ELSE UNCHANGED <<rowLock, picked>>
    /\ UNCHANGED <<clock, account, token, session, userLock, wpc, run, cascade, crashes>>

\* The rows ON DELETE SET NULL touches when the rows of S are deleted.
Predecessors_WholeChain(S) == {j \in Stored \ S : session[j].next # None}    \* mutant
Predecessors(S) == {j \in Stored \ S : session[j].next \in S}

\* DELETE of the rows selected; the cascade concerns the rows left behind.
DeleteRows(w) ==
    /\ wpc[w] = "select"
    /\ ~Selecting(w)
    /\ WorkerGoto(w, "cascade")
    /\ scan' = Drop(scan, w)
    /\ cascade' = [cascade EXCEPT ![w] = Predecessors(picked[w])]
    /\ UNCHANGED <<tableVars, run, picked, crashes>>

\* The cascade waits for each row that points at a deleted one.
CascadeRow(w, j) ==
    /\ wpc[w] = "cascade"
    /\ j \in cascade[w]
    /\ cascade' = [cascade EXCEPT ![w] = @ \ {j}]
    /\ IF session[j] = None THEN UNCHANGED rowLock ELSE AcquireRow(w, j)
    /\ UNCHANGED <<clock, account, token, session, userLock, wpc, run, scan, picked, crashes>>

\* What the committed batch leaves: its rows are gone, nothing points at them.
Purged(w) ==
    [j \in Ids |-> CASE j \in picked[w] -> None
                     [] j \in LockedBy(w) \ picked[w] -> [session[j] EXCEPT !.next = None]
                     [] OTHER -> session[j]]

\* Commit; a short batch, or the batch cap, ends the run.
CommitBatch(w) ==
    LET batches == run[w].batches + 1
        more == Cardinality(picked[w]) >= run[w].size /\ batches < MaxBatches
    IN
    /\ wpc[w] = "cascade"
    /\ cascade[w] = {}
    /\ session' = Purged(w)
    /\ ReleaseRows(w)
    /\ picked' = Drop(picked, w)
    /\ WorkerGoto(w, IF more THEN "select" ELSE "idle")
    /\ scan' = [scan EXCEPT ![w] = IF more THEN Expired(run[w].cutoff) \ picked[w] ELSE {}]
    /\ run' = [run EXCEPT ![w] = IF more THEN [@ EXCEPT !.batches = batches] ELSE NoRun]
    /\ UNCHANGED <<clock, account, token, userLock, cascade, crashes>>

\* The open batch is rolled back; earlier batches stay deleted.
Abort(w) ==
    /\ ReleaseRows(w)
    /\ scan' = Drop(scan, w)
    /\ picked' = Drop(picked, w)
    /\ cascade' = Drop(cascade, w)
    /\ UNCHANGED <<clock, account, token, session, userLock>>

Blocked_NoTimeout(w) == FALSE    \* mutant
Blocked(w) ==
    /\ wpc[w] = "cascade"
    /\ cascade[w] # {}
    /\ \A j \in cascade[w] : session[j] # None /\ rowLock[j] # None

MayRetry(w) == run[w].attempt < MaxRetries

\* lock_timeout, or the deadlock detector: the actor raises, and Dramatiq
\* retries the message until max_retries is used up.
LockTimeout(w) ==
    /\ Blocked(w)
    /\ Abort(w)
    /\ IF MayRetry(w)
         THEN /\ WorkerGoto(w, "retry")
              /\ run' = [run EXCEPT ![w].attempt = @ + 1]
         ELSE /\ WorkerGoto(w, "idle")
              /\ run' = [run EXCEPT ![w] = NoRun]
    /\ UNCHANGED crashes

\* The worker process dies; the unacknowledged message is delivered again.
Crash(w) ==
    /\ wpc[w] \in {"select", "cascade"}
    /\ crashes < MaxCrashes
    /\ crashes' = crashes + 1
    /\ Abort(w)
    /\ WorkerGoto(w, "retry")
    /\ UNCHANGED run

WorkerAcquire(w) == \E j \in Ids : CascadeRow(w, j)
WorkerProceed(w) ==
    \/ Redeliver(w)
    \/ \E i \in Ids : TryRow(w, i)
    \/ DeleteRows(w)
    \/ CommitBatch(w)

WorkerStep(w) ==
    \/ \E size \in BatchSizes : Deliver(w, size)
    \/ WorkerAcquire(w)
    \/ WorkerProceed(w)
    \/ LockTimeout(w)
    \/ Crash(w)
=============================================================================
