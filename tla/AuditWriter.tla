---------------------------- MODULE AuditWriter ----------------------------
(***************************************************************************)
(* The audit writer (internal/audit): Record enqueues without blocking, one *)
(* goroutine writes row by row, Flush waits for what is queued, Close       *)
(* drains and stops.  Events are numbered in the order they are recorded.   *)
(* Receiving from the closed and empty channel yields the zero row, No,     *)
(* without blocking.                                                        *)
(***************************************************************************)
EXTENDS Naturals, Sequences, Functions

CONSTANTS
    Flushers,       \* callers of Flush
    Capacity,       \* of the queue (10000 in NewWriter)
    No,             \* the zero row; also: the goroutine holds none
    MaxEvents, MaxFaults

ASSUME AuditConstants == Capacity \in Nat \ {0} /\ No \notin Nat

VARIABLES
    queue,          \* Writer.ch
    closed,         \* Writer.closed; the channel is closed with it
    worker,         \* the goroutine: "select", "flush" or "stopped"
    row,            \* the row it is writing
    asker,          \* whose Flush it serves
    stored,         \* dns_audit, in the order of insertion
    dropped,        \* auxiliary: the events counted in Writer.dropped
    lost,           \* auxiliary: the events handed to onError
    recorded,       \* events recorded so far
    flush,          \* each Flush: "idle", "send", "wait" or "done"
    before,         \* auxiliary: events recorded when it was called
    closer,         \* Close: "idle", "wait" or "done"
    faults

writerVars == <<queue, closed, worker, row, asker, stored, dropped, lost, recorded,
          flush, before, closer, faults>>

Events == 1..recorded

WriterTypeOK ==
    /\ queue \in Seq(Events) /\ Len(queue) <= Capacity
    /\ closed \in BOOLEAN
    /\ worker \in {"select", "flush", "stopped"}
    /\ row \in Events \cup {No}
    /\ asker \in Flushers \cup {No}
    /\ stored \in Seq(Events)
    /\ dropped \subseteq Events /\ lost \subseteq Events
    /\ flush \in [Flushers -> {"idle", "send", "wait", "done"}]
    /\ before \in [Flushers -> 0..recorded]
    /\ closer \in {"idle", "wait", "done"}

WriterInit ==
    /\ queue = <<>> /\ closed = FALSE
    /\ worker = "select" /\ row = No /\ asker = No
    /\ stored = <<>> /\ dropped = {} /\ lost = {} /\ recorded = 0
    /\ flush = [f \in Flushers |-> "idle"]
    /\ before = [f \in Flushers |-> 0]
    /\ closer = "idle"
    /\ faults = 0

-----------------------------------------------------------------------------
\* Mutant of Record: a full queue makes room by discarding its oldest row.
RecordEvicting ==
    /\ recorded < MaxEvents
    /\ recorded' = recorded + 1
    /\ IF closed
       THEN dropped' = dropped \cup {recorded + 1} /\ UNCHANGED queue
       ELSE /\ queue' = Append(IF Len(queue) = Capacity THEN Tail(queue) ELSE queue,
                               recorded + 1)
            /\ dropped' = IF Len(queue) = Capacity THEN dropped \cup {recorded + 1}
                          ELSE dropped
    /\ UNCHANGED <<closed, worker, row, asker, stored, lost, flush, before,
                   closer, faults>>

\* Record (the event is valid): dropped when closed or full.
Record ==
    /\ recorded < MaxEvents
    /\ recorded' = recorded + 1
    /\ IF closed \/ Len(queue) = Capacity
       THEN dropped' = dropped \cup {recorded + 1} /\ UNCHANGED queue
       ELSE queue' = Append(queue, recorded + 1) /\ UNCHANGED dropped
    /\ UNCHANGED <<closed, worker, row, asker, stored, lost, flush, before,
                   closer, faults>>

\* The goroutine receives a row, in its main select or in a flush.
Receive ==
    /\ worker # "stopped" /\ row = No /\ queue # <<>>
    /\ row' = Head(queue)
    /\ queue' = Tail(queue)
    /\ UNCHANGED <<closed, worker, asker, stored, dropped, lost, recorded, flush,
                   before, closer, faults>>

\* One INSERT in a transaction of its own.
AppendAudit == stored' = Append(stored, row)

\* writeRow: a failed insertion is handed to onError and not repeated.  The
\* transaction of one that failed may have been committed all the same.
WriteRow ==
    /\ row # No
    /\ \/ AppendAudit /\ UNCHANGED <<lost, faults>>
       \/ /\ faults < MaxFaults
          /\ faults' = faults + 1
          /\ lost' = lost \cup {row}
          /\ AppendAudit \/ UNCHANGED stored
    /\ row' = No
    /\ UNCHANGED <<queue, closed, worker, asker, dropped, recorded, flush, before,
                   closer>>

\* Mutant of Stop: only while nothing was dropped.
StopWhenWhole ==
    /\ worker = "select" /\ row = No /\ closed /\ queue = <<>>
    /\ dropped = {}
    /\ worker' = "stopped"
    /\ UNCHANGED <<queue, closed, row, asker, stored, dropped, lost, recorded,
                   flush, before, closer, faults>>

\* The main select finds the channel closed and drained.
Stop ==
    /\ worker = "select" /\ row = No /\ closed /\ queue = <<>>
    /\ worker' = "stopped"
    /\ UNCHANGED <<queue, closed, row, asker, stored, dropped, lost, recorded,
                   flush, before, closer, faults>>

\* The main select takes a Flush.
TakeFlush(f) ==
    /\ worker = "select" /\ row = No /\ flush[f] = "send"
    /\ worker' = "flush" /\ asker' = f
    /\ flush' = [flush EXCEPT ![f] = "wait"]
    /\ UNCHANGED <<queue, closed, row, stored, dropped, lost, recorded, before,
                   closer, faults>>

\* Mutant of EndFlush: one row is written, not all.
EndFlushEarly ==
    /\ worker = "flush" /\ row = No /\ ~closed
    /\ worker' = "select" /\ asker' = No
    /\ flush' = IF flush[asker] = "wait" THEN [flush EXCEPT ![asker] = "done"]
                ELSE flush
    /\ UNCHANGED <<queue, closed, row, stored, dropped, lost, recorded, before,
                   closer, faults>>

\* The flush finds the open channel empty and answers.
EndFlush ==
    /\ worker = "flush" /\ row = No /\ queue = <<>> /\ ~closed
    /\ worker' = "select" /\ asker' = No
    /\ flush' = IF flush[asker] = "wait" THEN [flush EXCEPT ![asker] = "done"]
                ELSE flush
    /\ UNCHANGED <<queue, closed, row, stored, dropped, lost, recorded, before,
                   closer, faults>>

\* The flush finds the channel closed and empty: it receives the zero row,
\* whose insertion fails, and goes round again.
SpinFlush ==
    /\ worker = "flush" /\ row = No /\ queue = <<>> /\ closed
    /\ UNCHANGED writerVars

-----------------------------------------------------------------------------
\* Flush on an open writer (on a closed one it returns at once).
CallFlush(f) ==
    /\ flush[f] = "idle" /\ ~closed
    /\ flush' = [flush EXCEPT ![f] = "send"]
    /\ before' = [before EXCEPT ![f] = recorded]
    /\ UNCHANGED <<queue, closed, worker, row, asker, stored, dropped, lost,
                   recorded, closer, faults>>

\* Its context ends first.
CancelFlush(f) ==
    /\ flush[f] \in {"send", "wait"}
    /\ flush' = [flush EXCEPT ![f] = "idle"]
    /\ UNCHANGED <<queue, closed, worker, row, asker, stored, dropped, lost,
                   recorded, before, closer, faults>>

\* Close marks the writer closed, closes the channel and waits; a second call
\* returns at once.
CallClose ==
    /\ closer = "idle"
    /\ closed' = TRUE
    /\ closer' = "wait"
    /\ UNCHANGED <<queue, worker, row, asker, stored, dropped, lost, recorded,
                   flush, before, faults>>

ReturnClose ==
    /\ closer = "wait" /\ worker = "stopped"
    /\ closer' = "done"
    /\ UNCHANGED <<queue, closed, worker, row, asker, stored, dropped, lost,
                   recorded, flush, before, faults>>

WriterNext ==
    \/ Record \/ Receive \/ WriteRow \/ Stop \/ EndFlush \/ SpinFlush
    \/ CallClose \/ ReturnClose
    \/ \E f \in Flushers : TakeFlush(f) \/ CallFlush(f) \/ CancelFlush(f)

WriterSpec == WriterInit /\ [][WriterNext]_writerVars

\* The goroutine runs, and the select's random choice gives the closed channel
\* its turn.
FairSpec ==
    /\ WriterSpec
    /\ WF_writerVars(Receive \/ WriteRow)
    /\ WF_writerVars(EndFlush)
    /\ SF_writerVars(Stop)
    /\ WF_writerVars(ReturnClose)

-----------------------------------------------------------------------------
(* Properties.                                                             *)

Rising(s) == \A i, j \in DOMAIN s : i < j => s[i] < s[j]

\* Where an event may be: on its way, or at its end.
Pending == Range(queue) \cup ({row} \ {No})
Settled == Range(stored) \cup dropped \cup lost

\* Every recorded event is accounted for: it is queued, being written, in the
\* table, counted as dropped, or reported through onError, and in one of these
\* places only (but for a row that was reported and is in the table after all);
\* the queue and the table have their rows in the order the events were
\* recorded, each once.
Conserved ==
    /\ Pending \cup Settled = Events
    /\ Pending \cap Settled = {}
    /\ row \notin Range(queue)
    /\ dropped \cap (Range(stored) \cup lost) = {}
    /\ Rising(queue) /\ Rising(stored)

\* "Flush writes everything queued so far and returns when it is stored": when
\* it returns by itself, no event recorded before the call is still pending; and
\* once Close has returned nothing is.
Flushed ==
    /\ \A f \in Flushers : flush[f] = "done" => 1..before[f] \subseteq Settled
    /\ closer = "done" => Pending = {}

\* Close returns, unless it overtook a Flush that the goroutine is serving.
CloseReturns == closer = "wait" ~> closer = "done" \/ (closed /\ worker = "flush")

\* "Close drains and stops the writer", whatever else goes on.
CloseAlwaysReturns == closer = "wait" ~> closer = "done"
=============================================================================
