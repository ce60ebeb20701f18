---------------------------- MODULE ProgressSync ----------------------------
(* What a completed Sync or Pause says about the messages sent before it.  *)
(* `mark` is a history variable: mark[u] is the value of sent when u made  *)
(* its current or last call.  It never constrains a step of Progress.      *)
EXTENDS ProgressProps

VARIABLE mark

SyncInit == Init /\ mark = [u \in Users |-> None]

Marks ==
    mark' = [u \in Users |-> IF pc[u] = "idle" /\ pc'[u] = "lock" THEN sent
                                                                  ELSE mark[u]]

SyncSpec == SyncInit /\ [][Next /\ Marks]_<<vars, mark>>

\* "Sync will ensure all in-flight messages have been handled"
\* (progress.go:36; Pause "will sync the Progress", :27): once a Pause has
\* returned, every message a producer had sent before the call is written.
\* The code flushes what the display has received; a message that a forwarder
\* took from its channel and has not yet put on statusCh waits for p.mu until
\* after the Resume.
PauseHandlesInFlight ==
    \A u \in Users : pc[u] = "paused" =>
        \A c \in Channels : shown[c] >= mark[u][c]
=============================================================================
