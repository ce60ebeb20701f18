--------------------------- MODULE ProgressProps ---------------------------
(* The correctness properties of progress/progress.go.                     *)
EXTENDS Progress

\* Every variable keeps its type.
TypeOK ==
    /\ mu \in Threads \cup {Free}
    /\ children \in Nat
    /\ gen \in Nat
    /\ statusClosed \subseteq Nat /\ doneClosed \subseteq Nat /\ raced \in BOOLEAN
    /\ displays \in Seq(DisplayRecords)
    /\ pc \in [Users -> UserPCs] /\ op \in [Users -> Calls \cup {"none"}]
    /\ syncs \in Nat
    /\ prod \in [Channels -> {"new", "open", "closed"}]
    /\ fw \in [Channels -> FwStates]
    /\ fwKeys \in [Channels -> SUBSET Keys] /\ seen \subseteq Keys
    /\ sent \in [Channels -> Nat] /\ shown \in [Channels -> Nat]
    /\ logged \in [Keys -> Nat]

\* What the hub promises below holds until one of two things has happened: a
\* display could not be created, or the goroutine that received from p.done
\* replaced the channels before the display's close(p.done), which reads the
\* field again (progress.go:162, :193-195).
Disturbed == raced \/ TtyMissing

\* Nothing but that race or a failed display makes the hub send on a closed Go
\* channel or close one twice: no interleaving of Sync, Pause, Close, the
\* forwarders and the display goroutines does so before it.
PanicOnlyDisturbed == Panics => Disturbed

\* "ensures all in-flight messages have been handled" (progress.go:33): when
\* Close has returned, every message any producer managed to send is on the
\* output.
CloseHandlesInFlight ==
    (\E u \in Users : pc[u] = "closed") => shown = sent

\* Until then Close returns to a caller that owns the output again: all is
\* written, and no display goroutine is left that could write.
CloseFlushes ==
    (\E u \in Users : pc[u] = "closed") =>
        \/ Disturbed
        \/ /\ shown = sent
           /\ \A d \in DOMAIN displays : displays[d].st \in {"closing", "exited"}

\* While a Pause is in effect the terminal belongs to an interactive
\* container (progress.go:27, container.go:260): p.mu stays with the pausing
\* user whatever happens, and until then no display goroutine is alive and all
\* that ever reached one is written, so nothing more can appear before Resume.
\* A message still with its forwarder is not covered.
PauseExclusive ==
    \A u \in Users : pc[u] = "paused" =>
        /\ mu = u
        /\ \/ Disturbed
           \/ /\ \A d \in DOMAIN displays : displays[d].st = "exited"
              /\ \A c \in Channels : fw[c] \notin {"dedup", "lock"} =>
                                       shown[c] = sent[c]

\* A log record reaches a display at most once, whichever channels carry it
\* and however the forwarders interleave; once Close has returned, each one
\* received has reached it exactly once.
LogOnce ==
    /\ \A k \in Keys : logged[k] <= 1
    /\ (\E u \in Users : pc[u] = "closed") => \A k \in seen : logged[k] = 1

-----------------------------------------------------------------------------
\* Until it is disturbed the hub implements the interface's promise: it starts
\* as ProgressLog does and each of its steps is one of ProgressLog's.
Log == INSTANCE ProgressLog
       WITH quiet <- \E u \in Users : pc[u] = "paused",
            closed <- \E u \in Users : pc[u] = "closed"

Implements == Log!Init /\ [][Log!Next \/ Disturbed']_Log!vars

\* Every call of Close returns, or a panic ends the process: no forwarder's
\* childCond.Signal is missed and no forwarder is left blocked on statusCh with
\* p.mu held.
CloseReturns ==
    CloseCalled ~> (Panics \/ \E u \in Users : pc[u] = "closed")

\* Every message a producer has sent is eventually written, across however
\* many Syncs and Pauses, unless the race gets in between.
MessagesShown ==
    \A c \in Channels, n \in 1..MaxMsgs : sent[c] >= n ~> (shown[c] >= n \/ raced)
=============================================================================
