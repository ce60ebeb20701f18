----------------------------- MODULE SolverProps -----------------------------
(* What callers may rely on when several goroutines share one solver.      *)
EXTENDS SolverSession

PhaseOK(c) ==
    /\ pc[c] \in {"add", "helper"} => item[c] \in tried \ failed
    /\ pc[c] \in {"solve", "handler", "panic"} => item[c] \in Requests

TypeOK ==
    /\ mu \in Callers \cup {Free}
    /\ err \in BOOLEAN
    /\ reg \in SUBSET Items
    /\ pc \in [Callers -> PCs]
    /\ item \in [Callers -> Items \cup {Plain}]
    /\ sess \in [Callers -> Sessions]
    /\ slot \in [Callers -> Slots]
    /\ state \in [Sessions -> {"none", "opening", "failed", "ready", "releasing", "released"}]
    /\ got \in [Sessions -> SUBSET Items]
    /\ bk \in [Sessions -> [Slots -> {"none", "dial", "up", "ended"}]]
    /\ alive \in [Sessions -> SUBSET Slots]
    /\ ctx \in [Sessions -> {"live", "over"}]
    /\ sent \in SUBSET Requests
    /\ tried \in SUBSET Items /\ reg \cup failed \subseteq tried /\ reg \cap failed = {}
    /\ before \in [Sessions -> SUBSET Items]
    /\ broken \in [Sessions -> SUBSET Items]
    /\ \A c \in Callers : PhaseOK(c)

\* NewSession has returned a session.
Opened(s) == state[s] \in {"ready", "releasing", "released"}

\* A session has every directory, secret, socket and download whose
\* registering call had returned when NewSession was called (solver.go:46-48:
\* "all requests should be generated with `Build` BEFORE calling NewSession"),
\* or what was registered later under the same name, and each of its downloads
\* has a BuildKit session of its own.
Complete ==
    \A s \in Sessions : Opened(s) =>
        /\ \A i \in before[s] : \E j \in got[s] : Entry[j] = Entry[i]
        /\ Started(s) = IF got[s] \cap Downloads = {} THEN {Plain}
                        ELSE got[s] \cap Downloads

\* A NewSession that is called when a Local or a Forward of any goroutine has
\* failed returns no session, whatever calls succeed meanwhile: the Scratch
\* state or no-op option would be solved as if nothing had happened.  A Local
\* that fails once NewSession has looked at err (solver.go:403), be it before
\* its Lock (:407), is too late: a session is returned.
NoFailed ==
    \A s \in Sessions : Opened(s) => broken[s] = {}

\* A request that was built before NewSession is solved through the BuildKit
\* session of its own download, and only requests built after it may meet the
\* nil session.
OwnSession ==
    \A c \in Callers :
        /\ (pc[c] \in {"solve", "handler"} /\ item[c] \in Downloads) => slot[c] = item[c]
        /\ pc[c] = "panic" => item[c] \notin before[sess[c]]

\* Release leaves no BuildKit session running.
ReleaseCloses ==
    \A s \in Sessions : state[s] = "released" => \A d \in Slots : bk[s][d] \in {"none", "ended"}

\* While NewSession works nobody else has the lock, so what a session is
\* given is what is registered at one moment.
Abstract == INSTANCE SolverRegistry WITH
    registered <- reg,
    snapshot <- [s \in Sessions |-> IF Started(s) = {} THEN {Items} ELSE got[s]]

Implements == Abstract!Spec

-----------------------------------------------------------------------------
\* The one thing that keeps a caller waiting: a NewSession whose dial failed
\* never sees its alive channel closed and holds the lock until its own
\* context ends.
DeadDial ==
    \E s \in Sessions :
        /\ state[s] = "opening" /\ ctx[s] = "live"
        /\ \E d \in Slots : bk[s][d] = "ended" /\ d \notin alive[s]

\* The other one: NewSession is in a tcp helper, see CancelledReturns.
InHelper == \E c \in Callers : pc[c] = "helper"

\* Local, Forward, AddSecretFile, Build, NewSession and Release return,
\* unless somewhere a dial failed while its context lives or a tcp helper runs.
Returns ==
    \A c \in Callers :
        pc[c] \in {"add", "check", "lock", "release"} \cup Opening ~> pc[c] = "idle" \/ DeadDial \/ InHelper

\* A NewSession that failed leaves no BuildKit session running for good,
\* though it returns without closing the ones it started.
FailedEnds ==
    \A s \in Sessions, d \in Slots :
        state[s] = "failed" /\ bk[s][d] \in {"dial", "up"} ~> bk[s][d] = "ended"

\* A NewSession that has the lock returns once its context is over.
CancelledReturns ==
    \A c \in Callers :
        pc[c] \in Opening /\ ctx[sess[c]] = "over" ~> pc[c] \notin Opening
=============================================================================
