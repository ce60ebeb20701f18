---------------------------- MODULE ProgressLog ----------------------------
(* What the Progress interface promises to whoever sends status messages   *)
(* and to whoever pauses or closes the display, with no mutex, goroutine   *)
(* or Go channel in sight (src/progress/progress.go:18-38).                *)
EXTENDS Naturals

CONSTANT Channels      \* the status channels handed out by Progress.Channel

VARIABLES
    sent,              \* sent[c]: messages the producer of c has handed over
    shown,             \* shown[c]: messages of c written to the output
    quiet,             \* a Pause has returned and Resume has not been called
    closed             \* Close has returned

vars == <<sent, shown, quiet, closed>>

Init ==
    /\ sent = [c \in Channels |-> 0]
    /\ shown = [c \in Channels |-> 0]
    /\ quiet = FALSE
    /\ closed = FALSE

\* A producer's send on its channel completes.
Send(c) ==
    /\ ~closed
    /\ sent' = [sent EXCEPT ![c] = @ + 1]
    /\ UNCHANGED <<shown, quiet, closed>>

\* The display writes some of the messages it was sent, each channel's in
\* order and none twice: the counts only grow, up to what was sent.
Show ==
    /\ ~quiet /\ ~closed
    /\ shown' \in [Channels -> Nat]
    /\ \A c \in Channels : shown[c] <= shown'[c] /\ shown'[c] <= sent[c]
    /\ UNCHANGED <<sent, quiet, closed>>

Pause ==
    /\ ~quiet /\ ~closed
    /\ quiet' = TRUE
    /\ UNCHANGED <<sent, shown, closed>>

Resume ==
    /\ quiet
    /\ quiet' = FALSE
    /\ UNCHANGED <<sent, shown, closed>>

\* Close returns only once everything sent has been shown.
Close ==
    /\ ~quiet /\ ~closed
    /\ shown = sent
    /\ closed' = TRUE
    /\ UNCHANGED <<sent, shown, quiet>>

Next ==
    \/ \E c \in Channels : Send(c)
    \/ Show
    \/ Pause
    \/ Resume
    \/ Close

Spec == Init /\ [][Next]_vars
=============================================================================
