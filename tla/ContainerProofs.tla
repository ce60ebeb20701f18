-------------------------- MODULE ContainerProofs ---------------------------
(* The safety properties of ContainerRun, for every set of runs, every     *)
(* number of signals and whichever contexts end from outside.              *)
EXTENDS ContainerProps, TLAPS

Early == {"idle", "create", "pause", "raw", "winsize", "setup", "wait", "join"}
Setting == {"idle", "create", "pause", "raw", "winsize", "setup"}
Holding == {"raw", "winsize", "setup", "wait", "join", "resume"}

\* The run between its Pause and its Resume holds the display, and with
\* WithLock the run between its Lock and its Unlock holds the lock.
Holders ==
    /\ \A r \in Runs : paused = r <=> pc[r] \in Holding
    /\ locking => \A r \in Runs : lock = r <=> pc[r] \notin {"idle", "returned"}

\* Pid 1 lives from Start to Release at most, and is gone before eg.Wait.
Pid1 ==
    \A r \in Runs :
        /\ proc[r] = "running" => pc[r] \notin {"idle", "create", "returned"}
        /\ pc[r] = "join" \/ result[r] = "ok" => proc[r] = "exited"
        /\ pc[r] \in Early => result[r] = "none"

\* How far the Teardown callbacks have come, and what that means.
Torn ==
    \A r \in Runs :
        /\ pc[r] \in Setting => tear[r] = "none"
        /\ pc[r] \in {"wait", "join"} => tear[r] # "none"
        /\ pc[r] \in {"resume", "release", "returned"} /\ result[r] # "left"
              => tear[r] \in {"none", "gone"}
        /\ result[r] = "ok" => tear[r] = "gone" /\ resizer[r] = "gone"
        /\ tear[r] \in {"stop", "join", "gone"} => ~reading[r]
        /\ tear[r] \in {"join", "gone"} => ~notified[r]
        /\ tear[r] = "gone" => winch[r] = "gone"

\* The SIGWINCH loop closes its channel at the end of the context only.
Closing == \A r \in Runs : chan[r] = "closed" => done[r]

\* r has the terminal in raw mode and will restore it.
Taken(r) == pc[r] \in {"winsize", "setup"} \/ tear[r] = "restore"

\* As long as no run has left its goroutines behind, the terminal is raw
\* exactly while a run has it, and all of them found it cooked.
Terminal ==
    (\A r \in Runs : ~Left(r)) =>
        /\ \A r \in Runs : saved[r] = "cooked"
        /\ tty = "raw" <=> \E r \in Runs : Taken(r)

Inv == TypeOK /\ Holders /\ Pid1 /\ Torn /\ Closing /\ Terminal

-----------------------------------------------------------------------------
\* The initial state satisfies the invariant.
LEMMA InitInv == Init => Inv
<1> SUFFICES ASSUME Init PROVE Inv
    OBVIOUS
<1> USE ContainerAssumption DEF Init
<1>1. TypeOK
    BY DEF TypeOK, PCs, Modes, Ended, Capacity
<1>2. Holders
    BY DEF Holders, Holding
<1>3. Pid1
    BY DEF Pid1, Early
<1>4. Torn
    BY DEF Torn, Setting
<1>5. Closing
    BY DEF Closing
<1>6. Terminal
    BY DEF Terminal, Taken
<1> QED BY <1>1, <1>2, <1>3, <1>4, <1>5, <1>6 DEF Inv

\* Every step preserves the types.
LEMMA StepTypes == Inv /\ [Next]_vars => TypeOK'
<1> SUFFICES ASSUME Inv, [Next]_vars PROVE TypeOK'
    OBVIOUS
<1> USE DEF Inv, TypeOK, PCs, Modes, Ended, Capacity, Moves, Goto, Fail, Leave, holdVars, mainVars, ttyVars, loopVars, winVars
<1>1. ASSUME NEW r \in Runs, Enter(r) PROVE TypeOK'
    BY <1>1 DEF Enter
<1>2. ASSUME NEW r \in Runs, Start(r) PROVE TypeOK'
    <2>1. CASE Fail(r, "create", "release") /\ UNCHANGED <<proc, reading>>
        BY <1>2, <2>1 DEF Start
    <2>2. CASE /\ Goto(r, "create", "pause")
               /\ proc' = [proc EXCEPT ![r] = "running"]
               /\ reading' = [reading EXCEPT ![r] = TRUE]
               /\ UNCHANGED result
        BY <1>2, <2>2 DEF Start
    <2> QED BY <1>2, <2>1, <2>2 DEF Start
<1>3. ASSUME NEW r \in Runs, Pause(r) PROVE TypeOK'
    BY <1>3 DEF Pause
<1>4. ASSUME NEW r \in Runs, MakeRaw(r) PROVE TypeOK'
    BY <1>4 DEF MakeRaw
<1>5. ASSUME NEW r \in Runs, WatchSize(r) PROVE TypeOK'
    BY <1>5 DEF WatchSize
<1>6. ASSUME NEW r \in Runs, Setup(r) PROVE TypeOK'
    BY <1>6 DEF Setup
<1>7. ASSUME NEW r \in Runs, Wait(r) PROVE TypeOK'
    <2>1. CASE done' = [done EXCEPT ![r] = TRUE] /\ UNCHANGED result
        BY <1>7, <2>1 DEF Wait
    <2>2. CASE UNCHANGED done
        BY <1>7, <2>2 DEF Wait
    <2> QED BY <1>7, <2>1, <2>2 DEF Wait
<1>8. ASSUME NEW r \in Runs, Join(r) PROVE TypeOK'
    BY <1>8 DEF Join
<1>9. ASSUME NEW r \in Runs, Resume(r) PROVE TypeOK'
    BY <1>9 DEF Resume
<1>10. ASSUME NEW r \in Runs, Release(r) PROVE TypeOK'
    BY <1>10 DEF Release
<1>11. ASSUME NEW r \in Runs, Restore(r) PROVE TypeOK'
    BY <1>11 DEF Restore
<1>12. ASSUME NEW r \in Runs, StopNotify(r) PROVE TypeOK'
    BY <1>12 DEF StopNotify
<1>13. ASSUME NEW r \in Runs, JoinWinch(r) PROVE TypeOK'
    BY <1>13 DEF JoinWinch
<1>14. ASSUME NEW r \in Runs, ResizeRecv(r) PROVE TypeOK'
    BY <1>14 DEF ResizeRecv
<1>15. ASSUME NEW r \in Runs, ResizeSent(r) PROVE TypeOK'
    <2>1. CASE UNCHANGED done
        BY <1>15, <2>1 DEF ResizeSent
    <2>2. CASE done' = [done EXCEPT ![r] = TRUE]
        BY <1>15, <2>2 DEF ResizeSent
    <2> QED BY <1>15, <2>1, <2>2 DEF ResizeSent
<1>16. ASSUME NEW r \in Runs, ResizeStop(r) PROVE TypeOK'
    BY <1>16 DEF ResizeStop
<1>17. ASSUME NEW r \in Runs, WinchStop(r) PROVE TypeOK'
    BY <1>17 DEF WinchStop
<1>18. ASSUME NEW r \in Runs, WinchTake(r) PROVE TypeOK'
    BY <1>18 DEF WinchTake
<1>19. ASSUME NEW r \in Runs, WinchPush(r) PROVE TypeOK'
    BY <1>19 DEF WinchPush
<1>20. ASSUME NEW r \in Runs, Exit(r) PROVE TypeOK'
    BY <1>20 DEF Exit
<1>21. ASSUME NEW r \in Runs, Interrupt(r) PROVE TypeOK'
    BY <1>21 DEF Interrupt
<1>22. CASE Sigwinch
    BY <1>22 DEF Sigwinch
<1>23. CASE UNCHANGED vars
    BY <1>23 DEF vars
<1> QED BY <1>1, <1>2, <1>3, <1>4, <1>5, <1>6, <1>7, <1>8, <1>9, <1>10, <1>11,
       <1>12, <1>13, <1>14, <1>15, <1>16, <1>17, <1>18, <1>19, <1>20, <1>21,
       <1>22, <1>23 DEF Next, Main, Tear, Resizer, Winch

\* Every step preserves Holders.
LEMMA StepHolders == Inv /\ [Next]_vars => Holders'
<1> SUFFICES ASSUME Inv, [Next]_vars PROVE Holders'
    OBVIOUS
<1> USE DEF Inv, TypeOK, PCs, Holders, Holding, Moves, Goto, Fail, Leave, holdVars, mainVars, ttyVars, loopVars, winVars
<1>1. ASSUME NEW r \in Runs, Enter(r) PROVE Holders'
    BY <1>1, ContainerAssumption DEF Enter
<1>2. ASSUME NEW r \in Runs, Start(r) PROVE Holders'
    BY <1>2 DEF Start
<1>3. ASSUME NEW r \in Runs, Pause(r) PROVE Holders'
    BY <1>3, ContainerAssumption DEF Pause
<1>4. ASSUME NEW r \in Runs, MakeRaw(r) PROVE Holders'
    BY <1>4 DEF MakeRaw
<1>5. ASSUME NEW r \in Runs, WatchSize(r) PROVE Holders'
    BY <1>5 DEF WatchSize
<1>6. ASSUME NEW r \in Runs, Setup(r) PROVE Holders'
    BY <1>6 DEF Setup
<1>7. ASSUME NEW r \in Runs, Wait(r) PROVE Holders'
    BY <1>7 DEF Wait
<1>8. ASSUME NEW r \in Runs, Join(r) PROVE Holders'
    BY <1>8 DEF Join
<1>9. ASSUME NEW r \in Runs, Resume(r) PROVE Holders'
    BY <1>9, ContainerAssumption DEF Resume
<1>10. ASSUME NEW r \in Runs, Release(r) PROVE Holders'
    BY <1>10, ContainerAssumption DEF Release
<1>11. ASSUME NEW r \in Runs, Restore(r) PROVE Holders'
    BY <1>11 DEF Restore
<1>12. ASSUME NEW r \in Runs, StopNotify(r) PROVE Holders'
    BY <1>12 DEF StopNotify
<1>13. ASSUME NEW r \in Runs, JoinWinch(r) PROVE Holders'
    BY <1>13 DEF JoinWinch
<1>14. ASSUME NEW r \in Runs, ResizeRecv(r) PROVE Holders'
    BY <1>14 DEF ResizeRecv
<1>15. ASSUME NEW r \in Runs, ResizeSent(r) PROVE Holders'
    BY <1>15 DEF ResizeSent
<1>16. ASSUME NEW r \in Runs, ResizeStop(r) PROVE Holders'
    BY <1>16 DEF ResizeStop
<1>17. ASSUME NEW r \in Runs, WinchStop(r) PROVE Holders'
    BY <1>17 DEF WinchStop
<1>18. ASSUME NEW r \in Runs, WinchTake(r) PROVE Holders'
    BY <1>18 DEF WinchTake
<1>19. ASSUME NEW r \in Runs, WinchPush(r) PROVE Holders'
    BY <1>19 DEF WinchPush
<1>20. ASSUME NEW r \in Runs, Exit(r) PROVE Holders'
    BY <1>20 DEF Exit
<1>21. ASSUME NEW r \in Runs, Interrupt(r) PROVE Holders'
    BY <1>21 DEF Interrupt
<1>22. CASE Sigwinch
    BY <1>22 DEF Sigwinch
<1>23. CASE UNCHANGED vars
    BY <1>23 DEF vars
<1> QED BY <1>1, <1>2, <1>3, <1>4, <1>5, <1>6, <1>7, <1>8, <1>9, <1>10, <1>11,
       <1>12, <1>13, <1>14, <1>15, <1>16, <1>17, <1>18, <1>19, <1>20, <1>21,
       <1>22, <1>23 DEF Next, Main, Tear, Resizer, Winch

\* Every step preserves Pid1.
LEMMA StepPid1 == Inv /\ [Next]_vars => Pid1'
<1> SUFFICES ASSUME Inv, [Next]_vars PROVE Pid1'
    OBVIOUS
<1> USE DEF Inv, TypeOK, Pid1, Early, Moves, Goto, Fail, Leave, holdVars, mainVars, ttyVars, loopVars, winVars
<1>1. ASSUME NEW r \in Runs, Enter(r) PROVE Pid1'
    BY <1>1 DEF Enter
<1>2. ASSUME NEW r \in Runs, Start(r) PROVE Pid1'
    BY <1>2 DEF Start
<1>3. ASSUME NEW r \in Runs, Pause(r) PROVE Pid1'
    BY <1>3 DEF Pause
<1>4. ASSUME NEW r \in Runs, MakeRaw(r) PROVE Pid1'
    BY <1>4 DEF MakeRaw
<1>5. ASSUME NEW r \in Runs, WatchSize(r) PROVE Pid1'
    BY <1>5 DEF WatchSize
<1>6. ASSUME NEW r \in Runs, Setup(r) PROVE Pid1'
    BY <1>6 DEF Setup
<1>7. ASSUME NEW r \in Runs, Wait(r) PROVE Pid1'
    BY <1>7 DEF Wait
<1>8. ASSUME NEW r \in Runs, Join(r) PROVE Pid1'
    BY <1>8 DEF Join
<1>9. ASSUME NEW r \in Runs, Resume(r) PROVE Pid1'
    BY <1>9 DEF Resume
<1>10. ASSUME NEW r \in Runs, Release(r) PROVE Pid1'
    BY <1>10 DEF Release
<1>11. ASSUME NEW r \in Runs, Restore(r) PROVE Pid1'
    BY <1>11 DEF Restore
<1>12. ASSUME NEW r \in Runs, StopNotify(r) PROVE Pid1'
    BY <1>12 DEF StopNotify
<1>13. ASSUME NEW r \in Runs, JoinWinch(r) PROVE Pid1'
    BY <1>13 DEF JoinWinch
<1>14. ASSUME NEW r \in Runs, ResizeRecv(r) PROVE Pid1'
    BY <1>14 DEF ResizeRecv
<1>15. ASSUME NEW r \in Runs, ResizeSent(r) PROVE Pid1'
    BY <1>15 DEF ResizeSent
<1>16. ASSUME NEW r \in Runs, ResizeStop(r) PROVE Pid1'
    BY <1>16 DEF ResizeStop
<1>17. ASSUME NEW r \in Runs, WinchStop(r) PROVE Pid1'
    BY <1>17 DEF WinchStop
<1>18. ASSUME NEW r \in Runs, WinchTake(r) PROVE Pid1'
    BY <1>18 DEF WinchTake
<1>19. ASSUME NEW r \in Runs, WinchPush(r) PROVE Pid1'
    BY <1>19 DEF WinchPush
<1>20. ASSUME NEW r \in Runs, Exit(r) PROVE Pid1'
    BY <1>20 DEF Exit
<1>21. ASSUME NEW r \in Runs, Interrupt(r) PROVE Pid1'
    BY <1>21 DEF Interrupt
<1>22. CASE Sigwinch
    BY <1>22 DEF Sigwinch
<1>23. CASE UNCHANGED vars
    BY <1>23 DEF vars
<1> QED BY <1>1, <1>2, <1>3, <1>4, <1>5, <1>6, <1>7, <1>8, <1>9, <1>10, <1>11,
       <1>12, <1>13, <1>14, <1>15, <1>16, <1>17, <1>18, <1>19, <1>20, <1>21,
       <1>22, <1>23 DEF Next, Main, Tear, Resizer, Winch

\* Every step preserves Torn.
LEMMA StepTorn == Inv /\ [Next]_vars => Torn'
<1> SUFFICES ASSUME Inv, [Next]_vars PROVE Torn'
    OBVIOUS
<1> USE DEF Inv, TypeOK, Pid1, Early, Torn, Setting, Ended, Moves, Goto, Fail, Leave, holdVars, mainVars, ttyVars, loopVars, winVars
<1>1. ASSUME NEW r \in Runs, Enter(r) PROVE Torn'
    BY <1>1 DEF Enter
<1>2. ASSUME NEW r \in Runs, Start(r) PROVE Torn'
    BY <1>2 DEF Start
<1>3. ASSUME NEW r \in Runs, Pause(r) PROVE Torn'
    BY <1>3 DEF Pause
<1>4. ASSUME NEW r \in Runs, MakeRaw(r) PROVE Torn'
    BY <1>4 DEF MakeRaw
<1>5. ASSUME NEW r \in Runs, WatchSize(r) PROVE Torn'
    BY <1>5 DEF WatchSize
<1>6. ASSUME NEW r \in Runs, Setup(r) PROVE Torn'
    BY <1>6 DEF Setup
<1>7. ASSUME NEW r \in Runs, Wait(r) PROVE Torn'
    BY <1>7 DEF Wait
<1>8. ASSUME NEW r \in Runs, Join(r) PROVE Torn'
    BY <1>8 DEF Join
<1>9. ASSUME NEW r \in Runs, Resume(r) PROVE Torn'
    BY <1>9 DEF Resume
<1>10. ASSUME NEW r \in Runs, Release(r) PROVE Torn'
    BY <1>10 DEF Release
<1>11. ASSUME NEW r \in Runs, Restore(r) PROVE Torn'
    BY <1>11 DEF Restore
<1>12. ASSUME NEW r \in Runs, StopNotify(r) PROVE Torn'
    BY <1>12 DEF StopNotify
<1>13. ASSUME NEW r \in Runs, JoinWinch(r) PROVE Torn'
    BY <1>13 DEF JoinWinch
<1>14. ASSUME NEW r \in Runs, ResizeRecv(r) PROVE Torn'
    BY <1>14 DEF ResizeRecv
<1>15. ASSUME NEW r \in Runs, ResizeSent(r) PROVE Torn'
    BY <1>15 DEF ResizeSent
<1>16. ASSUME NEW r \in Runs, ResizeStop(r) PROVE Torn'
    BY <1>16 DEF ResizeStop
<1>17. ASSUME NEW r \in Runs, WinchStop(r) PROVE Torn'
    BY <1>17 DEF WinchStop
<1>18. ASSUME NEW r \in Runs, WinchTake(r) PROVE Torn'
    BY <1>18 DEF WinchTake
<1>19. ASSUME NEW r \in Runs, WinchPush(r) PROVE Torn'
    BY <1>19 DEF WinchPush
<1>20. ASSUME NEW r \in Runs, Exit(r) PROVE Torn'
    BY <1>20 DEF Exit
<1>21. ASSUME NEW r \in Runs, Interrupt(r) PROVE Torn'
    BY <1>21 DEF Interrupt
<1>22. CASE Sigwinch
    BY <1>22 DEF Sigwinch
<1>23. CASE UNCHANGED vars
    BY <1>23 DEF vars
<1> QED BY <1>1, <1>2, <1>3, <1>4, <1>5, <1>6, <1>7, <1>8, <1>9, <1>10, <1>11,
       <1>12, <1>13, <1>14, <1>15, <1>16, <1>17, <1>18, <1>19, <1>20, <1>21,
       <1>22, <1>23 DEF Next, Main, Tear, Resizer, Winch

\* Every step preserves Closing.
LEMMA StepClosing == Inv /\ [Next]_vars => Closing'
<1> SUFFICES ASSUME Inv, [Next]_vars, NEW q \in Runs, chan'[q] = "closed"
             PROVE done'[q]
    BY DEF Closing
<1> USE DEF Inv, TypeOK, Closing, Moves, Goto, Fail, Leave, mainVars, loopVars, winVars
<1>1. ASSUME NEW r \in Runs, Main(r) PROVE done'[q]
    BY <1>1 DEF Main, Enter, Start, Pause, MakeRaw, WatchSize, Setup, Wait, Join,
                Resume, Release
<1>2. ASSUME NEW r \in Runs, Tear(r) \/ Resizer(r) PROVE done'[q]
    BY <1>2 DEF Tear, Resizer, Restore, StopNotify, JoinWinch, ResizeRecv, ResizeSent,
                ResizeStop
<1>3. ASSUME NEW r \in Runs, Winch(r) PROVE done'[q]
    BY <1>3 DEF Winch, WinchStop, WinchTake, WinchPush
<1>4. ASSUME NEW r \in Runs, Exit(r) \/ Interrupt(r) PROVE done'[q]
    BY <1>4 DEF Exit, Interrupt
<1>5. CASE Sigwinch
    BY <1>5 DEF Sigwinch
<1>6. CASE UNCHANGED vars
    BY <1>6 DEF vars
<1> QED BY <1>1, <1>2, <1>3, <1>4, <1>5, <1>6 DEF Next

\* A run that has left its goroutines behind stays so.
LEMMA StaysLeft ==
    Inv /\ [Next]_vars => \A q \in Runs : Left(q) => Left(q)'
<1> SUFFICES ASSUME Inv, [Next]_vars, NEW q \in Runs, result[q] = "left"
             PROVE result'[q] = "left"
    BY DEF Left
<1> USE DEF Inv, TypeOK, Pid1, Early, Moves, Goto, Fail, Leave, mainVars
<1>1. ASSUME NEW r \in Runs, Main(r) PROVE result'[q] = "left"
    BY <1>1 DEF Main, Enter, Start, Pause, MakeRaw, WatchSize, Setup, Wait, Join,
                Resume, Release
<1>2. ASSUME NEW r \in Runs, Tear(r) \/ Resizer(r) \/ Winch(r)
      PROVE result'[q] = "left"
    BY <1>2 DEF Tear, Resizer, Winch, Restore, StopNotify, JoinWinch, ResizeRecv,
                ResizeSent, ResizeStop, WinchStop, WinchTake, WinchPush
<1>3. ASSUME NEW r \in Runs, Exit(r) \/ Interrupt(r) PROVE result'[q] = "left"
    BY <1>3 DEF Exit, Interrupt
<1>4. CASE Sigwinch
    BY <1>4 DEF Sigwinch
<1>5. CASE UNCHANGED vars
    BY <1>5 DEF vars
<1> QED BY <1>1, <1>2, <1>3, <1>4, <1>5 DEF Next

\* A run that has the terminal holds the Pause.
LEMMA TakenHolds ==
    ASSUME Inv, \A r \in Runs : ~Left(r), NEW q \in Runs, Taken(q)
    PROVE  paused = q /\ pc[q] # "raw"
BY DEF Inv, TypeOK, PCs, Holders, Holding, Torn, Setting, Taken, Left

\* The steps that neither take the terminal nor give it back.
LEMMA OtherSteps ==
    ASSUME Inv, [Next]_vars, \A q \in Runs : ~Left(q)',
           \A r \in Runs : ~MakeRaw(r) /\ ~Restore(r)
    PROVE  UNCHANGED <<tty, saved>> /\ \A q \in Runs : Taken(q)' <=> Taken(q)
<1> DEFINE Goal == UNCHANGED <<tty, saved>> /\ \A q \in Runs : Taken(q)' <=> Taken(q)
<1> USE DEF Inv, TypeOK, Taken, Left, Moves, Goto, Fail, Leave, mainVars, ttyVars,
            loopVars
<1>1. ASSUME NEW r \in Runs, Main(r) PROVE Goal
    <2>1. CASE Setup(r)
        BY <2>1 DEF Setup, Torn, Setting
    <2>2. CASE Wait(r) \/ Join(r) \/ Resume(r) \/ Release(r)
        BY <2>2 DEF Wait, Join, Resume, Release
    <2>3. CASE Enter(r) \/ Start(r) \/ Pause(r) \/ WatchSize(r)
        BY <2>3 DEF Enter, Start, Pause, WatchSize
    <2> QED BY <1>1, <2>1, <2>2, <2>3 DEF Main
<1>2. ASSUME NEW r \in Runs, Tear(r) \/ Resizer(r) \/ Winch(r) PROVE Goal
    <2>1. CASE StopNotify(r) \/ JoinWinch(r)
        BY <2>1 DEF StopNotify, JoinWinch
    <2>2. CASE Resizer(r)
        BY <2>2 DEF Resizer, ResizeRecv, ResizeSent, ResizeStop
    <2>3. CASE Winch(r)
        BY <2>3 DEF Winch, WinchStop, WinchTake, WinchPush
    <2> QED BY <1>2, <2>1, <2>2, <2>3 DEF Tear
<1>3. ASSUME NEW r \in Runs, Exit(r) \/ Interrupt(r) PROVE Goal
    BY <1>3 DEF Exit, Interrupt
<1>4. CASE Sigwinch
    BY <1>4 DEF Sigwinch
<1>5. CASE UNCHANGED vars
    BY <1>5 DEF vars
<1> QED BY <1>1, <1>2, <1>3, <1>4, <1>5 DEF Next

\* Every step preserves Terminal.
LEMMA StepTerminal == Inv /\ [Next]_vars => Terminal'
<1> SUFFICES ASSUME Inv, [Next]_vars, \A r \in Runs : ~Left(r)'
             PROVE /\ \A r \in Runs : saved'[r] = "cooked"
                   /\ tty' = "raw" <=> \E r \in Runs : Taken(r)'
    BY DEF Terminal
<1>1. \A r \in Runs : ~Left(r)
    BY StaysLeft
<1>2. /\ \A r \in Runs : saved[r] = "cooked"
      /\ tty = "raw" <=> \E r \in Runs : Taken(r)
    BY <1>1 DEF Inv, Terminal
<1>3. \A q, r \in Runs : Taken(q) /\ paused = r => q = r /\ pc[r] # "raw"
    BY <1>1, TakenHolds
<1>4. ASSUME NEW r \in Runs, MakeRaw(r)
      PROVE /\ \A q \in Runs : saved'[q] = "cooked"
            /\ tty' = "raw" <=> \E q \in Runs : Taken(q)'
    <2>1. pc[r] = "raw" /\ paused = r
        BY <1>4 DEF MakeRaw, Fail, Goto, Inv, Holders, Holding
    <2>2. tty = "cooked" /\ \A q \in Runs : ~Taken(q)
        BY <1>2, <1>3, <2>1 DEF Inv, TypeOK, Modes
    <2>3. CASE Goto(r, "raw", "winsize") /\ saved' = [saved EXCEPT ![r] = tty]
               /\ tty' = "raw"
        <3>1. Taken(r)'
            BY <2>3 DEF Goto, Taken, Inv, TypeOK
        <3> QED BY <1>2, <2>2, <2>3, <3>1 DEF Inv, TypeOK
    <2>4. CASE Fail(r, "raw", "resume") /\ UNCHANGED <<saved, tty>>
        <3>1. \A q \in Runs : ~Taken(q)'
            BY <1>4, <2>2, <2>4 DEF MakeRaw, Fail, Goto, Taken, loopVars, Inv, TypeOK
        <3> QED BY <1>2, <2>2, <2>4, <3>1
    <2> QED BY <1>4, <2>3, <2>4 DEF MakeRaw
<1>5. ASSUME NEW r \in Runs, Restore(r)
      PROVE /\ \A q \in Runs : saved'[q] = "cooked"
            /\ tty' = "raw" <=> \E q \in Runs : Taken(q)'
    <2>1. Taken(r) /\ pc[r] \notin {"winsize", "setup"}
        BY <1>5 DEF Restore, Moves, Taken, Inv, Torn, Setting
    <2>2. \A q \in Runs : Taken(q) => q = r
        BY <1>1, <2>1, TakenHolds
    <2>3. \A q \in Runs : ~Taken(q)'
        BY <1>5, <2>1, <2>2 DEF Restore, Moves, Taken, mainVars, Inv, TypeOK
    <2>4. tty' = "cooked" /\ saved' = saved
        BY <1>2, <1>5 DEF Restore
    <2> QED BY <1>2, <2>3, <2>4
<1>6. CASE \A r \in Runs : ~MakeRaw(r) /\ ~Restore(r)
    <2>1. UNCHANGED <<tty, saved>> /\ \A q \in Runs : Taken(q)' <=> Taken(q)
        BY <1>6, OtherSteps
    <2> QED BY <1>2, <2>1
<1> QED BY <1>4, <1>5, <1>6

-----------------------------------------------------------------------------
\* The inductive invariant holds in every reachable state.
THEOREM Invariance == Spec => []Inv
<1>1. Init => Inv
    BY InitInv
<1>2. Inv /\ [Next]_vars => Inv'
    BY StepTypes, StepHolders, StepPid1, StepTorn, StepClosing, StepTerminal DEF Inv
<1> QED BY <1>1, <1>2, PTL DEF Spec

\* The variables keep their types, and the Go channels their capacity.
THEOREM TypeCorrect == Spec => []TypeOK
BY Invariance, PTL DEF Inv

\* The display and a raw terminal exclude each other, for any number of runs,
\* until one leaves without waiting for its Teardown.
THEOREM RawOnlyWhilePausedAlways == Spec => []RawOnlyWhilePaused
<1>1. Inv => RawOnlyWhilePaused
    <2> SUFFICES ASSUME Inv, \A r \in Runs : ~Left(r)
                 PROVE /\ tty = "raw" => paused # Free
                       /\ \A r \in Runs : paused = r /\ pc[r] # "raw" => saved[r] = "cooked"
        BY DEF RawOnlyWhilePaused
    <2>1. /\ \A r \in Runs : saved[r] = "cooked"
          /\ tty = "raw" <=> \E r \in Runs : Taken(r)
        BY DEF Inv, Terminal
    <2>2. ASSUME NEW r \in Runs, Taken(r) PROVE paused # Free
        BY <2>2, TakenHolds, ContainerAssumption
    <2> QED BY <2>1, <2>2
<1> QED BY <1>1, Invariance, PTL

\* A run that returns nil leaves nothing behind.
THEOREM CleanReturnAlways == Spec => []CleanReturn
<1>1. Inv => CleanReturn
    BY DEF Inv, TypeOK, Torn, Pid1, CleanReturn, Clean
<1> QED BY <1>1, Invariance, PTL

\* A SIGWINCH may meet a closed channel between the end of the run's context
\* and the Teardown that calls signal.Stop, and at no other time.
THEOREM SignalWindowAlways == Spec => []SignalWindow
<1>1. Inv => SignalWindow
    BY DEF Inv, TypeOK, Torn, Closing, SignalWindow
<1> QED BY <1>1, Invariance, PTL

\* WithLock keeps any number of runs from having a live pid 1 together.
THEOREM OneRunningAlways == Spec => []OneRunning
<1>1. Inv => OneRunning
    BY DEF Inv, Holders, Pid1, OneRunning
<1> QED BY <1>1, Invariance, PTL

\* Only the run that holds the Pause changes the mode of the terminal.
THEOREM OwnTerminalAlways == Spec => OwnTerminal
<1> DEFINE Owned ==
        (\A r \in Runs : ~Left(r)) /\ tty' # tty =>
            \E r \in Runs : paused = r /\ (pc[r] = "raw" \/ tear[r] = "restore")
<1>1. Inv /\ [Next]_vars => [Owned]_vars
    <2> SUFFICES ASSUME Inv, [Next]_vars, \A r \in Runs : ~Left(r), tty' # tty
                 PROVE \E r \in Runs : paused = r /\ (pc[r] = "raw" \/ tear[r] = "restore")
        OBVIOUS
    <2>1. PICK r \in Runs : MakeRaw(r) \/ Restore(r)
        BY DEF Next, Main, Tear, Resizer, Winch, Enter, Start, Pause, WatchSize, Setup,
               Wait, Join, Resume, Release, StopNotify, JoinWinch, ResizeRecv, ResizeSent,
               ResizeStop, WinchStop, WinchTake, WinchPush, Exit, Interrupt, Sigwinch,
               ttyVars, vars
    <2>2. CASE MakeRaw(r)
        BY <2>2 DEF MakeRaw, Goto, Fail, Inv, Holders, Holding
    <2>3. CASE Restore(r)
        <3>1. Taken(r) /\ tear[r] = "restore"
            BY <2>3 DEF Restore, Moves, Taken
        <3> QED BY <3>1, TakenHolds
    <2> QED BY <2>1, <2>2, <2>3
<1>2. Spec => [][Owned]_vars
    BY <1>1, Invariance, PTL DEF Spec
<1> QED BY <1>2 DEF OwnTerminal
=============================================================================
