--------------------------- MODULE ContainerProps ---------------------------
(* The correctness properties of container.go and container_unix.go.       *)
EXTENDS ContainerRun

\* Every variable keeps its type.
TypeOK ==
    /\ locking \in BOOLEAN /\ lock \in Runs \cup {Free} /\ paused \in Runs \cup {Free}
    /\ pc \in [Runs -> PCs] /\ result \in [Runs -> {"none", "ok", "error", "left"}]
    /\ done \in [Runs -> BOOLEAN]
    /\ proc \in [Runs -> {"none", "running", "exited", "failed", "killed"}]
    /\ tty \in Modes /\ saved \in [Runs -> Modes] /\ reading \in [Runs -> BOOLEAN]
    /\ tear \in [Runs -> {"none", "restore", "stop", "join", "gone"}]
    /\ resizer \in [Runs -> {"none", "select", "sending"} \cup Ended]
    /\ winch \in [Runs -> {"none", "select", "push", "gone"}]
    /\ chan \in [Runs -> {"empty", "signal", "closed"}]
    /\ notified \in [Runs -> BOOLEAN] /\ resize \in [Runs -> 0..Capacity]
    /\ winches \in Nat

\* runContainer has returned nil.
Clean(r) == result[r] = "ok"

\* Runs that left without waiting for their goroutines: a Setup failed after
\* the terminal was taken, or proc.Wait returned an error.
Left(r) == result[r] = "left"

\* The display and a raw terminal exclude each other: as long as no run has
\* left its goroutines behind, the terminal is raw only while a run holds the
\* Pause, and every run that takes the terminal finds it cooked.
RawOnlyWhilePaused ==
    (\A r \in Runs : ~Left(r)) =>
        /\ tty = "raw" => paused # Free
        /\ \A r \in Runs : paused = r /\ pc[r] # "raw" => saved[r] = "cooked"

\* A run that returns nil leaves nothing behind: its goroutines have ended,
\* no SIGWINCH can reach the channel its loop closed (container_unix.go:30),
\* pid 1 is gone and its reader takes no more of the user's input.
CleanReturn ==
    \A r \in Runs : Clean(r) =>
        /\ tear[r] = "gone" /\ resizer[r] = "gone"
        /\ winch[r] = "gone" /\ ~notified[r] /\ ~reading[r]
        /\ proc[r] # "running"

\* The loop closes ch and only a later Teardown calls signal.Stop
\* (container_unix.go:30, :44), so a SIGWINCH may panic.  It may not before the
\* run's context has ended, nor once that Teardown has run.
SignalWindow ==
    \A r \in Runs : notified[r] /\ chan[r] = "closed" =>
        done[r] /\ tear[r] \in {"none", "restore", "stop"}

\* "only one is ever running at at time" (container.go:163): with WithLock no
\* two containers have a live pid 1, whatever fails and whenever.
OneRunning ==
    locking => \A r, q \in Runs :
        proc[r] = "running" /\ proc[q] = "running" => r = q

\* "Teardown are callbacks that are executed after the pid 1 has exited"
\* (container.go:51).
TeardownAfterExit ==
    \A r \in Runs : tear[r] \in {"stop", "join", "gone"} => proc[r] # "running"

-----------------------------------------------------------------------------
\* The SIGWINCH loop is blocked on its full channel and nobody will read it.
Stuck(r) == winch[r] = "push" /\ resize[r] = Capacity /\ resizer[r] \in Ended

\* Once pid 1 has exited, runContainer returns, whichever of its goroutines
\* fail, unless a SIGWINCH loop is stuck.  The other runs may hold the Pause and
\* the lock before it: each of their pid 1s must end too, which nothing forces.
Returns ==
    (\A q \in Runs : []<>(proc[q] # "running")) =>
        \A r \in Runs :
            proc[r] \in {"exited", "failed"} ~>
                pc[r] = "returned" \/ \E q \in Runs : Stuck(q)

\* A run that has left its goroutines behind - proc.Wait reported an exit code
\* (container.go:314) - is still torn down: late, but to the last callback, for
\* the deferred cancel ends their context.  A stuck SIGWINCH loop holds it up.
TornDownLate ==
    \A r \in Runs :
        pc[r] = "returned" /\ tear[r] # "none" ~> tear[r] = "gone" \/ Stuck(r)

\* "Resume MUST be called after Pause" (progress.go:28): a run whose pid 1 has
\* exited gives the display back.
ResumeFollows ==
    \A r \in Runs : paused = r /\ proc[r] # "running" ~> paused # r

\* A run never takes the terminal away from another one: between a Pause and
\* its Resume only the run that paused changes the terminal's mode, as long as
\* no run has left its goroutines behind.
OwnTerminal ==
    [][(\A r \in Runs : ~Left(r)) /\ tty' # tty =>
          \E r \in Runs : paused = r /\ (pc[r] = "raw" \/ tear[r] = "restore")]_vars
=============================================================================
