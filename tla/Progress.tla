------------------------------ MODULE Progress ------------------------------
(* progress/progress.go: the hub through which every solve of a session    *)
(* writes its status.  One display goroutine at a time drains p.statusCh;  *)
(* one forwarder goroutine per status channel copies messages into it      *)
(* under p.mu; Sync and Pause end the display and replace both Go channels *)
(* (statusCh, done); Close waits for the forwarders, then for the display. *)
EXTENDS Naturals, Sequences, FiniteSets

CONSTANTS
    Users,        \* goroutines that call Sync, Pause/Resume and Close
    Channels,     \* status channels, each opened at most once
    Keys,         \* identities of log records (seenKey)
    Free,         \* the value of mu when nobody holds it
    MaxMsgs,      \* bound: messages a producer sends on one channel
    MaxSyncs,     \* bound: calls of Sync and Pause
    TtyMissing    \* TRUE: NewDisplay fails (TtyMode without a tty)

ASSUME ProgressAssumption ==
    /\ IsFiniteSet(Channels)
    /\ Users \cap Channels = {}
    /\ Free \notin Users \cup Channels
    /\ MaxMsgs \in Nat /\ MaxSyncs \in Nat
    /\ TtyMissing \in BOOLEAN

VARIABLES
    mu,           \* holder of p.mu
    children,     \* p.children
    gen,          \* which statusCh/done pair the fields of p hold now
    statusClosed, \* generations whose statusCh has been closed
    doneClosed,   \* generations whose done has been closed
    raced,        \* history, read by no step of the code: some sync() has replaced
                  \* the channels before the display it received from had
                  \* executed close(p.done)
    displays,     \* the display goroutines, in the order of their start()
    pc, op,       \* per user: where it is, and in which call
    syncs,        \* calls of Sync and Pause so far
    prod,         \* per channel: its producer has not opened / opened / closed it
    fw, fwKeys,   \* per channel: its forwarder, and the log records it keeps
    seen,         \* p.seen
    sent,         \* per channel: messages received from the producer
    shown,        \* per channel: messages a display has written
    logged        \* per log key: how often it reached a display

lockVars == <<mu, children>>
chanVars == <<gen, statusClosed, doneClosed, raced>>
userVars == <<pc, op, syncs>>
fwVars   == <<prod, fw, fwKeys, seen, sent, logged>>
vars == <<mu, children, gen, statusClosed, doneClosed, raced, displays, pc, op, syncs,
          prod, fw, fwKeys, seen, sent, shown, logged>>

Threads == Users \cup Channels
Starts == 1..(MaxSyncs + 1)     \* bounds the display goroutines ever started
Calls == {"sync", "pause", "close"}     \* "none" between calls
UserPCs == {"idle", "lock", "cond", "wait", "reset", "paused", "closed"}
FwStates == {"none", "recv", "dedup", "lock", "send", "exit", "gone"}
DisplayStates ==
    {"starting", "updating", "finishing", "sending", "closing", "exited"}
\* ch and done are the generations whose statusCh and done the goroutine
\* captured; held counts the messages received and not yet written.
DisplayRecords == [st : DisplayStates, ch : Nat, done : Nat,
                   held : [Channels -> Nat]]

None == [c \in Channels |-> 0]
NewDisplay ==
    [st |-> "starting", ch |-> 0, done |-> 0, held |-> None]
At(d, st) == d \in DOMAIN displays /\ displays[d].st = st
Becomes(d, r) == displays' = [displays EXCEPT ![d] = r]

Init ==
    /\ mu = Free
    /\ children = 0
    /\ gen = 1
    /\ statusClosed = {}
    /\ doneClosed = {}
    /\ raced = FALSE
    /\ displays = <<NewDisplay>>
    /\ pc = [u \in Users |-> "idle"]
    /\ op = [u \in Users |-> "none"]
    /\ syncs = 0
    /\ prod = [c \in Channels |-> "new"]
    /\ fw = [c \in Channels |-> "none"]
    /\ fwKeys = [c \in Channels |-> {}]
    /\ seen = {}
    /\ sent = None
    /\ shown = None
    /\ logged = [k \in Keys |-> 0]

CloseCalled == \E u \in Users : op[u] = "close"

\* Some goroutine's next step is a send on, or a second close of, a closed
\* channel.  That step ends the process: no action below takes it.
Panics ==
    \/ \E c \in Channels : fw[c] = "send" /\ gen \in statusClosed
    \/ \E u \in Users :
          /\ pc[u] = "lock" /\ mu = Free /\ gen \in statusClosed
          /\ op[u] = "close" => children = 0
    \/ \E d \in DOMAIN displays :
          \/ At(d, "sending") /\ displays[d].done \in doneClosed
          \/ At(d, "closing") /\ gen \in doneClosed

-----------------------------------------------------------------------------
(* Sync, Pause, Resume and Close.                                          *)

\* A user calls Sync, Pause or Close.  Close is the last call anybody makes.
Call(u, o) ==
    /\ pc[u] = "idle" /\ ~CloseCalled
    /\ o = "close" => \A w \in Users : pc[w] = "idle"
    /\ o # "close" => syncs < MaxSyncs
    /\ pc' = [pc EXCEPT ![u] = "lock"]
    /\ op' = [op EXCEPT ![u] = o]
    /\ syncs' = IF o = "close" THEN syncs ELSE syncs + 1
    /\ UNCHANGED <<lockVars, chanVars, displays, fwVars, shown>>

\* Mutants: close(p.statusCh) without p.mu; Close without the childCond loop.
LockUnheld(u) ==
    /\ pc[u] = "lock" /\ mu = Free
    /\ op[u] = "close" => children = 0
    /\ gen \notin statusClosed
    /\ pc' = [pc EXCEPT ![u] = "wait"]
    /\ statusClosed' = statusClosed \cup {gen}
    /\ UNCHANGED <<mu, children, gen, doneClosed, raced, displays, op, syncs, fwVars,
                   shown>>

LockIgnoringChildren(u) ==
    /\ pc[u] = "lock" /\ mu = Free
    /\ gen \notin statusClosed
    /\ mu' = u
    /\ pc' = [pc EXCEPT ![u] = "wait"]
    /\ statusClosed' = statusClosed \cup {gen}
    /\ UNCHANGED <<children, gen, doneClosed, raced, displays, op, syncs, fwVars, shown>>

\* p.mu is taken; the call goes on to close(p.statusCh), except that Close
\* waits on childCond (and so gives p.mu up) while there are children.
Lock(u) ==
    /\ pc[u] = "lock" /\ mu = Free
    /\ op[u] = "close" => children = 0
    /\ gen \notin statusClosed
    /\ mu' = u
    /\ pc' = [pc EXCEPT ![u] = "wait"]
    /\ statusClosed' = statusClosed \cup {gen}
    /\ UNCHANGED <<children, gen, doneClosed, raced, displays, op, syncs, fwVars, shown>>

CondWait(u) ==
    /\ pc[u] = "lock" /\ mu = Free
    /\ op[u] = "close" /\ children > 0
    /\ pc' = [pc EXCEPT ![u] = "cond"]
    /\ UNCHANGED <<lockVars, chanVars, displays, op, syncs, fwVars, shown>>

\* What a user does with the value received from done: Close returns it; an
\* error makes Sync return and unlock, and Pause return with p.mu held; nil
\* lets sync() go on to the reset.
Returned(u, err) ==
    /\ pc' = [pc EXCEPT ![u] = CASE op[u] = "close" -> "closed"
                                 [] op[u] = "sync" /\ err -> "idle"
                                 [] op[u] = "pause" /\ err -> "paused"
                                 [] OTHER -> "reset"]
    /\ op' = [op EXCEPT ![u] = IF @ = "sync" /\ err THEN "none" ELSE @]
    /\ mu' = IF op[u] = "close" \/ (op[u] = "sync" /\ err) THEN Free ELSE mu

\* <-p.done yields the display goroutine's error, or nil from a closed done.
ReceiveDone(u) ==
    /\ pc[u] = "wait"
    /\ \/ /\ gen \in doneClosed
          /\ Returned(u, FALSE)
          /\ UNCHANGED displays
       \/ \E d \in DOMAIN displays :
             /\ At(d, "sending") /\ displays[d].done = gen
             /\ gen \notin doneClosed
             /\ Becomes(d, [displays[d] EXCEPT !.st = "closing"])
             /\ Returned(u, TtyMissing)
    /\ UNCHANGED <<children, chanVars, syncs, fwVars, shown>>

\* u's call is over and p.mu is free.
Idle(u) ==
    /\ pc' = [pc EXCEPT ![u] = "idle"]
    /\ op' = [op EXCEPT ![u] = "none"]
    /\ mu' = Free

Overtakes == raced' = (raced \/ \E d \in DOMAIN displays : At(d, "closing"))

\* Mutant: sync() itself restarts the display, for Pause too.
ResetAlwaysStarts(u) ==
    /\ pc[u] = "reset"
    /\ gen' = gen + 1
    /\ Overtakes
    /\ displays' = Append(displays, NewDisplay)
    /\ pc' = [pc EXCEPT ![u] = IF op[u] = "sync" THEN "idle" ELSE "paused"]
    /\ op' = [op EXCEPT ![u] = IF @ = "sync" THEN "none" ELSE @]
    /\ mu' = IF op[u] = "sync" THEN Free ELSE mu
    /\ UNCHANGED <<children, statusClosed, doneClosed, syncs, fwVars, shown>>

\* sync() installs new channels; Sync then starts a display and unlocks,
\* Pause returns with p.mu held.
Reset(u) ==
    /\ pc[u] = "reset"
    /\ gen' = gen + 1
    /\ Overtakes
    /\ IF op[u] = "sync"
       THEN /\ displays' = Append(displays, NewDisplay)
            /\ Idle(u)
       ELSE /\ pc' = [pc EXCEPT ![u] = "paused"]
            /\ UNCHANGED <<displays, op, mu>>
    /\ UNCHANGED <<children, statusClosed, doneClosed, syncs, fwVars, shown>>

\* Mutant: Resume only unlocks.
ResumeWithoutStart(u) ==
    /\ pc[u] = "paused"
    /\ Idle(u)
    /\ UNCHANGED <<children, chanVars, displays, syncs, fwVars, shown>>

Resume(u) ==
    /\ pc[u] = "paused"
    /\ displays' = Append(displays, NewDisplay)
    /\ Idle(u)
    /\ UNCHANGED <<children, chanVars, syncs, fwVars, shown>>

-----------------------------------------------------------------------------
(* The display goroutine of start().                                       *)

\* NewDisplay succeeds and UpdateFrom is called with p.statusCh, or fails.
DisplayStart(d) ==
    /\ At(d, "starting")
    /\ Becomes(d, [displays[d] EXCEPT
                      !.st = IF TtyMissing THEN "finishing" ELSE "updating",
                      !.ch = gen])
    /\ UNCHANGED <<lockVars, chanVars, userVars, fwVars, shown>>

Flush(d) == shown' = [c \in Channels |-> shown[c] + displays[d].held[c]]

\* UpdateFrom's ticker writes what has been received.
DisplayTick(d) ==
    /\ At(d, "updating") /\ displays[d].held # None
    /\ Flush(d)
    /\ Becomes(d, [displays[d] EXCEPT !.held = None])
    /\ UNCHANGED <<lockVars, chanVars, userVars, fwVars>>

\* Mutant: the last update is dropped when the channel closes.
DisplayEndWithoutFlush(d) ==
    /\ At(d, "updating") /\ displays[d].ch \in statusClosed
    /\ Becomes(d, [displays[d] EXCEPT !.st = "finishing", !.held = None])
    /\ UNCHANGED <<lockVars, chanVars, userVars, fwVars, shown>>

\* UpdateFrom sees its channel closed, writes the rest and returns.
DisplayEnd(d) ==
    /\ At(d, "updating") /\ displays[d].ch \in statusClosed
    /\ Flush(d)
    /\ Becomes(d, [displays[d] EXCEPT !.st = "finishing", !.held = None])
    /\ UNCHANGED <<lockVars, chanVars, userVars, fwVars>>

\* p.done is read, then sent on; the send waits for ReceiveDone.
DisplaySend(d) ==
    /\ At(d, "finishing")
    /\ Becomes(d, [displays[d] EXCEPT !.st = "sending", !.done = gen])
    /\ UNCHANGED <<lockVars, chanVars, userVars, fwVars, shown>>

\* close(p.done) reads the field again.
DisplayCloseDone(d) ==
    /\ At(d, "closing") /\ gen \notin doneClosed
    /\ Becomes(d, [displays[d] EXCEPT !.st = "exited"])
    /\ doneClosed' = doneClosed \cup {gen}
    /\ UNCHANGED <<lockVars, gen, statusClosed, raced, userVars, fwVars, shown>>

-----------------------------------------------------------------------------
(* Channel: its producer and its forwarder goroutine.                      *)

FwStep(c, from, to) == fw[c] = from /\ fw' = [fw EXCEPT ![c] = to]

\* Mutant: the forwarder is started without counting it.
OpenUncounted(c) ==
    /\ prod[c] = "new" /\ ~CloseCalled
    /\ mu = Free
    /\ prod' = [prod EXCEPT ![c] = "open"]
    /\ FwStep(c, "none", "recv")
    /\ UNCHANGED <<lockVars, chanVars, displays, userVars, fwKeys, seen, sent, shown,
                   logged>>

Open(c) ==
    /\ prod[c] = "new" /\ ~CloseCalled
    /\ mu = Free
    /\ children' = children + 1
    /\ prod' = [prod EXCEPT ![c] = "open"]
    /\ FwStep(c, "none", "recv")
    /\ UNCHANGED <<mu, chanVars, displays, userVars, fwKeys, seen, sent, shown, logged>>

\* The producer's send meets the forwarder's receive.
Accept(c) ==
    /\ prod[c] = "open" /\ sent[c] < MaxMsgs
    /\ FwStep(c, "recv", "dedup")
    /\ sent' = [sent EXCEPT ![c] = @ + 1]
    /\ UNCHANGED <<lockVars, chanVars, displays, userVars, prod, fwKeys, seen, shown,
                   logged>>

CloseChan(c) ==
    /\ prod[c] = "open"
    /\ fw[c] = "recv"   \* the forwarder sees the close when it is back there
    /\ prod' = [prod EXCEPT ![c] = "closed"]
    /\ UNCHANGED <<lockVars, chanVars, displays, userVars, fw, fwKeys, seen, sent,
                   shown, logged>>

\* Mutant: p.seen is only written once the message has been delivered.
DedupLate(c, ks) ==
    /\ FwStep(c, "dedup", "lock")
    /\ fwKeys' = [fwKeys EXCEPT ![c] = ks \ {k \in Keys : logged[k] > 0}]
    /\ UNCHANGED <<lockVars, chanVars, displays, userVars, prod, seen, sent, shown, logged>>

\* Under seenMu: of the log records ks of the message those seen before, on
\* whatever channel, are dropped.
Dedup(c, ks) ==
    /\ FwStep(c, "dedup", "lock")
    /\ fwKeys' = [fwKeys EXCEPT ![c] = ks \ seen]
    /\ seen' = seen \cup ks
    /\ UNCHANGED <<lockVars, chanVars, displays, userVars, prod, sent, shown, logged>>

FwLock(c) ==
    /\ mu = Free
    /\ FwStep(c, "lock", "send")
    /\ mu' = c
    /\ UNCHANGED <<children, chanVars, displays, userVars, prod, fwKeys, seen, sent,
                   shown, logged>>

\* p.statusCh <- msg meets the receive of a display reading that channel.
Deliver(c, d) ==
    /\ At(d, "updating") /\ displays[d].ch = gen
    /\ gen \notin statusClosed
    /\ FwStep(c, "send", "recv")
    /\ Becomes(d, [displays[d] EXCEPT !.held[c] = @ + 1])
    /\ logged' = [k \in Keys |-> IF k \in fwKeys[c] THEN logged[k] + 1 ELSE logged[k]]
    /\ fwKeys' = [fwKeys EXCEPT ![c] = {}]
    /\ mu' = Free
    /\ UNCHANGED <<children, chanVars, userVars, prod, seen, sent, shown>>

\* The range over ch ends.
FwEnd(c) ==
    /\ prod[c] = "closed"
    /\ FwStep(c, "recv", "exit")
    /\ UNCHANGED <<lockVars, chanVars, displays, userVars, prod, fwKeys, seen, sent,
                   shown, logged>>

\* Mutant: children-- without childCond.Signal().
FwExitSilently(c) ==
    /\ mu = Free
    /\ FwStep(c, "exit", "gone")
    /\ children' = children - 1
    /\ UNCHANGED <<mu, chanVars, displays, userVars, prod, fwKeys, seen, sent, shown, logged>>

\* children-- and childCond.Signal() under p.mu: one waiter is woken and
\* competes for p.mu again.
FwExit(c) ==
    /\ mu = Free
    /\ FwStep(c, "exit", "gone")
    /\ children' = children - 1
    /\ IF \E u \in Users : pc[u] = "cond"
       THEN \E u \in Users : /\ pc[u] = "cond"
                             /\ pc' = [pc EXCEPT ![u] = "lock"]
       ELSE UNCHANGED pc
    /\ UNCHANGED <<mu, chanVars, displays, op, syncs, prod, fwKeys, seen, sent,
                   shown, logged>>

-----------------------------------------------------------------------------
UserNext(u) ==
    \/ \E o \in Calls : Call(u, o)
    \/ Lock(u) \/ CondWait(u) \/ ReceiveDone(u) \/ Reset(u) \/ Resume(u)

DisplayNext(d) ==
    \/ DisplayStart(d) \/ DisplayTick(d) \/ DisplayEnd(d)
    \/ DisplaySend(d) \/ DisplayCloseDone(d)

ChannelNext(c) ==
    \/ Open(c) \/ Accept(c) \/ CloseChan(c) \/ FwLock(c) \/ FwEnd(c) \/ FwExit(c)
    \/ \E ks \in SUBSET Keys : Dedup(c, ks)
    \/ \E d \in Starts : Deliver(c, d)

\* Close has returned, or a panic has ended the process.  Only after a race may
\* a display be left that nobody receives from.
Terminated ==
    /\ \/ /\ \E u \in Users : pc[u] = "closed"
          /\ raced \/ \A d \in DOMAIN displays : displays[d].st = "exited"
       \/ Panics
    /\ UNCHANGED vars

Next ==
    \/ \E u \in Users : UserNext(u)
    \/ \E d \in Starts : DisplayNext(d)
    \/ \E c \in Channels : ChannelNext(c)
    \/ Terminated

Spec == Init /\ [][Next]_vars

(* Fairness.  Goroutines that can run do run (WF); Go's mutex hands over   *)
(* to a waiter that has been starved (SF on taking p.mu); a producer       *)
(* closes its channel and a pausing user calls Resume, as the comments of  *)
(* Channel and Pause oblige them to.  Nobody has to make a call.           *)
TakesMu(u) == Lock(u) \/ CondWait(u)
GoesOn(u) == ReceiveDone(u) \/ Reset(u) \/ Resume(u)
FwTakesMu(c) == FwLock(c) \/ FwExit(c)
FwGoesOn(c) ==
    \/ CloseChan(c) \/ FwEnd(c)
    \/ \E ks \in SUBSET Keys : Dedup(c, ks)
    \/ \E d \in Starts : Deliver(c, d)

Fairness ==
    /\ \A u \in Users : WF_vars(GoesOn(u)) /\ SF_vars(TakesMu(u))
    /\ \A c \in Channels : WF_vars(FwGoesOn(c)) /\ SF_vars(FwTakesMu(c))
    /\ \A d \in Starts : WF_vars(DisplayNext(d))

FairSpec == Spec /\ Fairness
=============================================================================
