---------------------------- MODULE ContainerRun ----------------------------
(* container.go and container_unix.go: ad-hoc containers on one terminal.  *)
(* Each run is a build callback of Container or OnError with WithTTY: it   *)
(* starts pid 1, pauses the progress display, puts the terminal in raw     *)
(* mode, forwards window sizes and cleans up in a goroutine of its own.    *)
EXTENDS Naturals

CONSTANTS
    Runs,         \* runs of containers that share a terminal and a Progress
    Free,         \* the value of lock and paused when nobody holds them
    MaxWinches,   \* bound: SIGWINCH signals the process receives
    Interrupts    \* bound: runs whose context may end from outside

ASSUME ContainerAssumption ==
    Free \notin Runs /\ MaxWinches \in Nat /\ Interrupts \subseteq Runs

VARIABLES
    locking,      \* the runs were given a common WithLock, or none
    lock,         \* holder of that lock
    paused,       \* the run between its Pause and its Resume
    pc, result,   \* per run: where runContainer is, and what it will return
    done,         \* per run: the errgroup's context is done
    proc,         \* per run: pid 1 of the container
    tty,          \* mode of the terminal
    saved,        \* per run: oldState of MakeRaw
    reading,      \* per run: its cancelreader may take input from the terminal
    tear,         \* per run: the next Teardown of the teardown goroutine
    resizer,      \* per run: the loop over co.Resize
    winch,        \* per run: the SIGWINCH loop of handleResize
    chan,         \* per run: content of its channel ch, of capacity 1
    notified,     \* per run: signal.Notify is in effect for ch
    resize,       \* per run: messages in its channel resize
    winches       \* SIGWINCH signals so far

mainVars == <<pc, result>>
holdVars == <<locking, lock, paused>>
ttyVars  == <<tty, saved, reading>>
loopVars == <<tear, resizer>>
winVars  == <<winch, chan, notified, resize, winches>>
vars == <<locking, lock, paused, pc, result, done, proc, tty, saved, reading, tear,
          resizer, winch, chan, notified, resize, winches>>

PCs == {"idle", "create", "pause", "raw", "winsize", "setup", "wait", "join",
        "resume", "release", "returned"}
Modes == {"cooked", "raw"}
Ended == {"gone", "failed"}
Capacity == 1       \* of the channels ch and resize of handleResize

Init ==
    /\ locking \in BOOLEAN
    /\ lock = Free /\ paused = Free
    /\ pc = [r \in Runs |-> "idle"] /\ result = [r \in Runs |-> "none"]
    /\ done = [r \in Runs |-> FALSE]
    /\ proc = [r \in Runs |-> "none"]
    /\ tty = "cooked" /\ saved = [r \in Runs |-> "cooked"]
    /\ reading = [r \in Runs |-> FALSE]
    /\ tear = [r \in Runs |-> "none"]
    /\ resizer = [r \in Runs |-> "none"]
    /\ winch = [r \in Runs |-> "none"]
    /\ chan = [r \in Runs |-> "empty"]
    /\ notified = [r \in Runs |-> FALSE]
    /\ resize = [r \in Runs |-> 0]
    /\ winches = 0

Goto(r, from, to) == pc[r] = from /\ pc' = [pc EXCEPT ![r] = to]
Fail(r, from, to) == Goto(r, from, to) /\ result' = [result EXCEPT ![r] = "error"]
Leave(r, from, to) == Goto(r, from, to) /\ result' = [result EXCEPT ![r] = "left"]
Moves(f, r, from, to) == f[r] = from /\ f' = [f EXCEPT ![r] = to]

-----------------------------------------------------------------------------
(* The callback and runContainer.                                          *)

\* Mutant: lock.Unlock() is called where it should be deferred.
EnterUndeferred(r) ==
    /\ Goto(r, "idle", "create")
    /\ locking => lock = Free
    /\ UNCHANGED <<holdVars, result, done, proc, ttyVars, loopVars, winVars>>

\* The callback is called and takes the lock it was given.
Enter(r) ==
    /\ Goto(r, "idle", "create")
    /\ locking => lock = Free
    /\ lock' = IF locking THEN r ELSE lock
    /\ UNCHANGED <<locking, paused, result, done, proc, ttyVars, loopVars, winVars>>

\* The mounts are solved, NewContainer and Start are called.  Start hands the
\* terminal's input to the container.  Any of them may fail: no Pause then.
Start(r) ==
    /\ \/ /\ Goto(r, "create", "pause")
          /\ proc' = [proc EXCEPT ![r] = "running"]
          /\ reading' = [reading EXCEPT ![r] = TRUE]
          /\ UNCHANGED result
       \/ Fail(r, "create", "release") /\ UNCHANGED <<proc, reading>>
    /\ UNCHANGED <<holdVars, done, tty, saved, loopVars, winVars>>

\* Mutant: the display is not paused.
PauseSkipped(r) ==
    /\ Goto(r, "pause", "raw")
    /\ UNCHANGED <<holdVars, result, done, proc, ttyVars, loopVars, winVars>>

\* Pause returns with the progress mutex held; its error is not looked at.
Pause(r) ==
    /\ paused = Free
    /\ Goto(r, "pause", "raw")
    /\ paused' = r
    /\ UNCHANGED <<locking, lock, result, done, proc, ttyVars, loopVars, winVars>>

\* The first Setup of WithTTY.
MakeRaw(r) ==
    /\ \/ /\ Goto(r, "raw", "winsize")
          /\ saved' = [saved EXCEPT ![r] = tty]
          /\ tty' = "raw"
          /\ UNCHANGED result
       \/ Fail(r, "raw", "resume") /\ UNCHANGED <<saved, tty>>
    /\ UNCHANGED <<holdVars, done, proc, reading, loopVars, winVars>>

\* The second: handleResize queues an initial SIGWINCH and starts its loop.
WatchSize(r) ==
    /\ Goto(r, "winsize", "setup")
    /\ winch' = [winch EXCEPT ![r] = "select"]
    /\ chan' = [chan EXCEPT ![r] = "signal"]
    /\ notified' = [notified EXCEPT ![r] = TRUE]
    /\ UNCHANGED <<holdVars, result, done, proc, ttyVars, loopVars, resize, winches>>

\* The user's own Setup, then the goroutines of the errgroup.  A failure
\* returns before there is one that would run the Teardown registered so far.
Setup(r) ==
    /\ \/ /\ Goto(r, "setup", "wait")
          /\ tear' = [tear EXCEPT ![r] = "restore"]
          /\ resizer' = [resizer EXCEPT ![r] = "select"]
          /\ UNCHANGED result
       \/ Leave(r, "setup", "resume") /\ UNCHANGED loopVars
    /\ UNCHANGED <<holdVars, done, proc, ttyVars, winVars>>

\* Mutant: cancel is left to the deferred call.
WaitWithoutCancel(r) ==
    /\ \/ proc[r] = "exited" /\ Goto(r, "wait", "join") /\ UNCHANGED result
       \/ proc[r] = "failed" /\ Leave(r, "wait", "resume")
       \/ done[r] /\ Leave(r, "wait", "resume")
    /\ UNCHANGED <<holdVars, done, proc, ttyVars, loopVars, winVars>>

\* proc.Wait returns nil, and cancel is called; or an exit code or a context
\* error, and runContainer returns without eg.Wait.
Wait(r) ==
    /\ \/ /\ proc[r] = "exited"
          /\ Goto(r, "wait", "join")
          /\ done' = [done EXCEPT ![r] = TRUE]
          /\ UNCHANGED result
       \/ /\ proc[r] = "failed" \/ done[r]
          /\ Leave(r, "wait", "resume")
          /\ UNCHANGED done
    /\ UNCHANGED <<holdVars, proc, ttyVars, loopVars, winVars>>

\* Mutant: runContainer does not wait for its goroutines.
JoinNothing(r) ==
    /\ Goto(r, "join", "resume")
    /\ result' = [result EXCEPT ![r] = "ok"]
    /\ UNCHANGED <<holdVars, done, proc, ttyVars, loopVars, winVars>>

\* eg.Wait.  No Teardown can fail it: container.go:273 drops their errors.
Join(r) ==
    /\ Goto(r, "join", "resume")
    /\ tear[r] = "gone" /\ resizer[r] \in Ended
    /\ result' = [result EXCEPT ![r] = IF resizer[r] = "failed" THEN "error" ELSE "ok"]
    /\ UNCHANGED <<holdVars, done, proc, ttyVars, loopVars, winVars>>

\* Mutant: the context is not cancelled on the way out.
ResumeOnly(r) ==
    /\ Goto(r, "resume", "release")
    /\ paused' = Free
    /\ UNCHANGED <<locking, lock, result, done, proc, ttyVars, loopVars, winVars>>

\* The deferred calls: Resume and cancel ...
Resume(r) ==
    /\ Goto(r, "resume", "release")
    /\ paused' = Free
    /\ done' = [done EXCEPT ![r] = TRUE]
    /\ UNCHANGED <<locking, lock, result, proc, ttyVars, loopVars, winVars>>

\* ... then ctr.Release and lock.Unlock.  BuildKit kills what still runs in a
\* container that is released.
Release(r) ==
    /\ Goto(r, "release", "returned")
    /\ proc' = [proc EXCEPT ![r] = IF @ = "running" THEN "killed" ELSE @]
    /\ lock' = IF locking THEN Free ELSE lock
    /\ UNCHANGED <<locking, paused, result, done, ttyVars, loopVars, winVars>>

-----------------------------------------------------------------------------
(* The goroutines of the errgroup.                                         *)

\* <-ctx.Done(), then the Teardown callbacks in the order they were added:
\* WithTTY's restore the terminal and cancel its reader, handleResize's call
\* signal.Stop and wait for the SIGWINCH loop.
Restore(r) ==
    /\ done[r]
    /\ Moves(tear, r, "restore", "stop")
    /\ tty' = saved[r]
    /\ reading' = [reading EXCEPT ![r] = FALSE]
    /\ UNCHANGED <<holdVars, mainVars, done, proc, saved, resizer, winVars>>

\* Mutant: signal.Stop is forgotten.
StopNothing(r) ==
    /\ Moves(tear, r, "stop", "join")
    /\ UNCHANGED <<holdVars, mainVars, done, proc, ttyVars, resizer, winVars>>

StopNotify(r) ==
    /\ Moves(tear, r, "stop", "join")
    /\ notified' = [notified EXCEPT ![r] = FALSE]
    /\ UNCHANGED <<holdVars, mainVars, done, proc, ttyVars, resizer, winch,
                   chan, resize, winches>>

\* Mutant: the last Teardown does not wait for the SIGWINCH loop.
JoinWinchAtOnce(r) ==
    /\ Moves(tear, r, "join", "gone")
    /\ UNCHANGED <<holdVars, mainVars, done, proc, ttyVars, resizer, winVars>>

JoinWinch(r) ==
    /\ winch[r] = "gone"
    /\ Moves(tear, r, "join", "gone")
    /\ UNCHANGED <<holdVars, mainVars, done, proc, ttyVars, resizer, winVars>>

ResizeRecv(r) ==
    /\ resize[r] > 0
    /\ Moves(resizer, r, "select", "sending")
    /\ resize' = [resize EXCEPT ![r] = @ - 1]
    /\ UNCHANGED <<holdVars, mainVars, done, proc, ttyVars, tear, winch, chan,
                   notified, winches>>

\* proc.Resize; its error ends the loop and the errgroup's context.
ResizeSent(r) ==
    /\ \/ Moves(resizer, r, "sending", "select") /\ UNCHANGED done
       \/ Moves(resizer, r, "sending", "failed") /\ done' = [done EXCEPT ![r] = TRUE]
    /\ UNCHANGED <<holdVars, mainVars, proc, ttyVars, tear, winVars>>

ResizeStop(r) ==
    /\ done[r]
    /\ Moves(resizer, r, "select", "gone")
    /\ UNCHANGED <<holdVars, mainVars, done, proc, ttyVars, tear, winVars>>

-----------------------------------------------------------------------------
(* The SIGWINCH loop of handleResize.                                      *)

WinchStop(r) ==
    /\ done[r]
    /\ Moves(winch, r, "select", "gone")
    /\ chan' = [chan EXCEPT ![r] = "closed"]
    /\ UNCHANGED <<holdVars, mainVars, done, proc, ttyVars, loopVars, notified, resize,
                   winches>>

\* A signal is taken; IoctlGetWinsize succeeds, or fails and ends the loop.
WinchTake(r) ==
    /\ Moves(chan, r, "signal", "empty")
    /\ \E to \in {"push", "gone"} : Moves(winch, r, "select", to)
    /\ UNCHANGED <<holdVars, mainVars, done, proc, ttyVars, loopVars, notified, resize,
                   winches>>

\* Mutant: the send goes through whatever the channel holds.
WinchPushUnbounded(r) ==
    /\ Moves(winch, r, "push", "select")
    /\ resize' = [resize EXCEPT ![r] = @ + 1]
    /\ UNCHANGED <<holdVars, mainVars, done, proc, ttyVars, loopVars, chan, notified,
                   winches>>

\* resize <- WinSize: a bare send, which looks at no context.
WinchPush(r) ==
    /\ resize[r] < Capacity
    /\ Moves(winch, r, "push", "select")
    /\ resize' = [resize EXCEPT ![r] = @ + 1]
    /\ UNCHANGED <<holdVars, mainVars, done, proc, ttyVars, loopVars, chan, notified,
                   winches>>

-----------------------------------------------------------------------------
(* The outside world.                                                      *)

\* The runtime's next delivery of a SIGWINCH would send on a closed channel.
\* That send ends the process: no action below takes it.
Panics == \E r \in Runs : notified[r] /\ chan[r] = "closed"

\* The user resizes the terminal; a channel that is full drops the signal.
Sigwinch ==
    /\ winches < MaxWinches /\ ~Panics
    /\ winches' = winches + 1
    /\ chan' = [r \in Runs |-> IF notified[r] THEN "signal" ELSE chan[r]]
    /\ UNCHANGED <<holdVars, mainVars, done, proc, ttyVars, loopVars, winch, notified,
                   resize>>

\* Pid 1 exits, with code 0 or another.
Exit(r) ==
    /\ proc[r] = "running"
    /\ \E how \in {"exited", "failed"} : proc' = [proc EXCEPT ![r] = how]
    /\ UNCHANGED <<holdVars, mainVars, done, ttyVars, loopVars, winVars>>

\* The context of the build ends: another request failed, or the user gave up.
Interrupt(r) ==
    /\ r \in Interrupts /\ pc[r] \notin {"idle", "returned"} /\ ~done[r]
    /\ done' = [done EXCEPT ![r] = TRUE]
    /\ UNCHANGED <<holdVars, mainVars, proc, ttyVars, loopVars, winVars>>

Main(r) ==
    \/ Enter(r) \/ Start(r) \/ Pause(r) \/ MakeRaw(r) \/ WatchSize(r) \/ Setup(r)
    \/ Wait(r) \/ Join(r) \/ Resume(r) \/ Release(r)

Tear(r) == Restore(r) \/ StopNotify(r) \/ JoinWinch(r)
Resizer(r) == ResizeRecv(r) \/ ResizeSent(r) \/ ResizeStop(r)
Winch(r) == WinchStop(r) \/ WinchTake(r) \/ WinchPush(r)

Next ==
    \/ \E r \in Runs : Main(r) \/ Tear(r) \/ Resizer(r) \/ Winch(r)
    \/ \E r \in Runs : Exit(r) \/ Interrupt(r)
    \/ Sigwinch

Spec == Init /\ [][Next]_vars

(* Fairness.  Goroutines that can run do, and a mutex is handed over to a  *)
(* starved waiter.  Calls of the gateway return.  Nothing makes pid 1 exit *)
(* or the user resize or give up.                                          *)
Fairness ==
    \A r \in Runs :
        /\ SF_vars(Enter(r)) /\ SF_vars(Pause(r)) /\ WF_vars(Main(r))
        /\ WF_vars(Tear(r)) /\ WF_vars(Resizer(r)) /\ WF_vars(Winch(r))

FairSpec == Spec /\ Fairness
=============================================================================
