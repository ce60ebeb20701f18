---------------------------- MODULE SolverSession ----------------------------
(* solver.go, session.go and Forward of forward.go: goroutines register    *)
(* local directories, secrets, forwards and downloads with one solver,     *)
(* open sessions, send requests and release the sessions.                  *)
CONSTANTS
    Callers,       \* goroutines that share the solver
    Sessions,      \* calls of NewSession
    Locals,        \* names given to Local
    Secrets,       \* files given to AddSecretFile
    Sockets,       \* unix:// sources given to Forward
    Tcps,          \* tcp:// sources given to Forward
    Downloads,     \* Build calls with a Download or DockerSave option
    Entry,         \* per item: the map key or slice index it is registered at
    Plain,         \* the request without a download, and its nil attachable
    Free           \* nobody

Items == Locals \cup Secrets \cup Sockets \cup Tcps \cup Downloads
Slots == Downloads \cup {Plain}

ASSUME SolverAssumption ==
    /\ Plain \notin Items /\ Free \notin Callers
    /\ Sessions # {}
    /\ Downloads \cap (Locals \cup Secrets \cup Sockets \cup Tcps) = {}
    /\ Tcps \cap (Locals \cup Secrets \cup Sockets) = {}
    /\ Locals \cap (Secrets \cup Sockets) = {} /\ Secrets \cap Sockets = {}
    /\ \A i, j \in Items : Entry[i] = Entry[j] =>
          i = j \/ \E A \in {Locals, Secrets, Sockets} : {i, j} \subseteq A

VARIABLES
    mu,            \* holder of solver.mu
    err,           \* solver.err # nil
    reg,           \* localDirs, secrets, agentConfigs, helpers and downloads
    pc, item, sess, slot,   \* per caller: where it is and its arguments
    state,         \* per session: how NewSession and Release went
    got,           \* per session: localMounts, attachables and downloads so far
    bk,            \* per session: its BuildKit session for each attachable
    alive,         \* per session: attachables whose alive channel is closed
    ctx,           \* per session: the context of NewSession
    sent,          \* requests already sent: each is sent once
    tried, failed,         \* items: Local, Forward ... was called, has failed
    before, broken         \* per session: reg and failed when NewSession was called

solverVars == <<mu, err, reg>>
callVars == <<item, sess, slot>>
sessVars == <<state, got, bk, alive, ctx>>
pastVars == <<tried, failed, before, broken>>
vars == <<solverVars, pc, callVars, sessVars, sent, pastVars>>

Requests == Slots

\* NewSession from Lock to the deferred Unlock.
Opening == {"helpers", "helper", "mounts", "secrets", "agents", "connect", "wait"}
PCs == {"idle", "add", "check", "lock", "solve", "handler", "release", "panic"} \cup Opening

AnySession == CHOOSE s \in Sessions : TRUE

Init ==
    /\ mu = Free /\ err = FALSE /\ reg = {}
    /\ pc = [c \in Callers |-> "idle"]
    /\ item = [c \in Callers |-> Plain]
    /\ sess = [c \in Callers |-> AnySession]
    /\ slot = [c \in Callers |-> Plain]
    /\ state = [s \in Sessions |-> "none"]
    /\ got = [s \in Sessions |-> {}]
    /\ bk = [s \in Sessions |-> [d \in Slots |-> "none"]]
    /\ alive = [s \in Sessions |-> {}]
    /\ ctx = [s \in Sessions |-> "live"]
    /\ sent = {}
    /\ tried = {} /\ failed = {}
    /\ before = [s \in Sessions |-> {}]
    /\ broken = [s \in Sessions |-> {}]

Goto(c, p) == pc' = [pc EXCEPT ![c] = p]

\* The caller's call returns; its arguments are forgotten.
Returned(c) ==
    /\ Goto(c, "idle")
    /\ item' = [item EXCEPT ![c] = Plain]
    /\ sess' = [sess EXCEPT ![c] = AnySession]
    /\ slot' = [slot EXCEPT ![c] = Plain]

-----------------------------------------------------------------------------
(* Registration.  Only the map or slice write is under mu; err is read and *)
(* written without it.                                                     *)

\* Local and Forward return a no-op once err is set; AddSecretFile and Build
\* do not look at it and cannot fail.
ChecksErr(i) == i \notin Secrets \cup Downloads

\* The part of Local, Forward, AddSecretFile and Build before the lock.
Call(c, i) ==
    /\ pc[c] = "idle" /\ i \notin tried
    /\ ChecksErr(i) => ~err
    /\ tried' = tried \cup {i}
    /\ item' = [item EXCEPT ![c] = i]
    /\ Goto(c, "add")
    /\ UNCHANGED <<solverVars, sess, slot, sessVars, sent, failed, before, broken>>

\* Mutant: the call registers before it looks whether the source is there.
CallFailsLate(c, i) ==
    /\ pc[c] = "idle" /\ i \notin tried /\ ChecksErr(i)
    /\ err' = TRUE /\ reg' = reg \cup {i}
    /\ tried' = tried \cup {i} /\ failed' = failed \cup {i}
    /\ UNCHANGED <<mu, pc, callVars, sessVars, sent, before, broken>>

\* The directory cannot be read or the source cannot be parsed (which sets
\* err), or err was set before: the caller gets Scratch or a no-op option.
CallFails(c, i) ==
    /\ pc[c] = "idle" /\ i \notin tried /\ ChecksErr(i)
    /\ err' = TRUE
    /\ tried' = tried \cup {i} /\ failed' = failed \cup {i}
    /\ UNCHANGED <<mu, reg, pc, callVars, sessVars, sent, before, broken>>

\* A map has one item for a name or id, the last one written.
With(i) == {j \in reg : Entry[j] # Entry[i]} \cup {i}

\* Mutant: the maps are written without the lock.
AddUnlocked(c) ==
    /\ pc[c] = "add"
    /\ reg' = With(item[c])
    /\ Returned(c)
    /\ UNCHANGED <<mu, err, sessVars, sent, tried, failed, before, broken>>

\* Mutant: err is assigned the outcome of every call, so that one that succeeds
\* takes the error of another away.
AddClears(c) ==
    /\ pc[c] \in {"add", "helper"} /\ mu = Free
    /\ reg' = With(item[c]) /\ err' = FALSE
    /\ IF pc[c] = "add" THEN Returned(c) ELSE Goto(c, "mounts") /\ UNCHANGED callVars
    /\ UNCHANGED <<mu, sessVars, sent, tried, failed, before, broken>>

\* Lock, the write, Unlock; then the call returns, and a helper goes on in
\* NewSession.  A helper never gets here: its NewSession holds mu.
Add(c) ==
    /\ pc[c] \in {"add", "helper"} /\ mu = Free
    /\ reg' = With(item[c])
    /\ IF pc[c] = "add" THEN Returned(c) ELSE Goto(c, "mounts") /\ UNCHANGED callVars
    /\ UNCHANGED <<mu, err, sessVars, sent, tried, failed, before, broken>>

-----------------------------------------------------------------------------
(* NewSession.                                                             *)

\* NewSession is called: what is registered and what has failed by then.
Open(c, s) ==
    /\ pc[c] = "idle" /\ state[s] = "none"
    /\ before' = [before EXCEPT ![s] = reg] /\ broken' = [broken EXCEPT ![s] = failed]
    /\ state' = [state EXCEPT ![s] = "opening"]
    /\ sess' = [sess EXCEPT ![c] = s]
    /\ Goto(c, "check")
    /\ UNCHANGED <<solverVars, item, slot, got, bk, alive, ctx, sent, tried, failed>>

\* The look at err, without the lock: a Local or Forward that fails after it
\* no longer stops this NewSession.
Check(c) ==
    /\ pc[c] = "check"
    /\ IF err
       THEN /\ state' = [state EXCEPT ![sess[c]] = "failed"]
            /\ Returned(c)
       ELSE Goto(c, "lock") /\ UNCHANGED <<callVars, state>>
    /\ UNCHANGED <<solverVars, got, bk, alive, ctx, sent, pastVars>>

Lock(c) ==
    /\ pc[c] = "lock" /\ mu = Free
    /\ mu' = c
    /\ Goto(c, "helpers")
    /\ UNCHANGED <<err, reg, callVars, sessVars, sent, pastVars>>

\* Mutant: an error return that does not unlock.
ReturnLocked(c, st) ==
    /\ state' = [state EXCEPT ![sess[c]] = st]
    /\ mu' = IF st = "failed" THEN c ELSE Free
    /\ Returned(c)
    /\ UNCHANGED <<err, reg, got, bk, alive, ctx, sent, pastVars>>

\* An error return: the deferred Unlock, and nothing else.  Releasers of
\* helpers and BuildKit sessions are left as they are.
Return(c, st) ==
    /\ state' = [state EXCEPT ![sess[c]] = st]
    /\ mu' = Free
    /\ Returned(c)
    /\ UNCHANGED <<err, reg, got, bk, alive, ctx, sent, pastVars>>

\* The loop over s.helpers.  A tcp helper first makes a directory, then locks
\* s.mu to add its socket (see Add).
Helpers(c) ==
    /\ pc[c] = "helpers"
    /\ \/ reg \cap Tcps = {} /\ Goto(c, "mounts") /\ UNCHANGED item
       \/ \E t \in reg \cap Tcps : Goto(c, "helper") /\ item' = [item EXCEPT ![c] = t]
    /\ UNCHANGED <<solverVars, sess, slot, sessVars, sent, pastVars>>

\* Adds the registered items of a kind to the session's.
Collect(c, from, kind, to) ==
    /\ pc[c] = from
    /\ got' = [got EXCEPT ![sess[c]] = @ \cup (reg \cap kind)]
    /\ Goto(c, to)
    /\ UNCHANGED <<solverVars, callVars, state, bk, alive, ctx, sent, pastVars>>

\* localMounts; the secret store; NewProvider, whose map has one source per
\* socket and which fails for none of them, the ids being map keys.
Mounts(c) == Collect(c, "mounts", Locals, "secrets")
AttachSecrets(c) == Collect(c, "secrets", Secrets, "agents")
AttachAgents(c) == Collect(c, "agents", Sockets, "connect")

\* No directory for a helper, a local directory that is gone, a secret that
\* cannot be read, no BuildKit session.
OpenFails(c) ==
    /\ \/ \E kind \in {<<"helpers", Tcps>>, <<"mounts", Locals>>, <<"secrets", Secrets>>} :
             pc[c] = kind[1] /\ reg \cap kind[2] # {}
       \/ pc[c] = "connect"
    /\ Return(c, "failed")

\* sessionPerDownload.
Attach == IF reg \cap Downloads = {} THEN {Plain} ELSE reg \cap Downloads

\* Mutant: the session without attachable is there as well.
ConnectWithPlain(c) ==
    LET s == sess[c] IN
    /\ pc[c] = "connect"
    /\ got' = [got EXCEPT ![s] = @ \cup (reg \cap Downloads)]
    /\ bk' = [bk EXCEPT ![s] = [d \in Slots |-> IF d = Plain THEN "dial" ELSE "none"]]
    /\ Goto(c, "wait")
    /\ UNCHANGED <<solverVars, callVars, state, alive, ctx, sent, pastVars>>

\* One BuildKit session per download, each started in a goroutine.
Connect(c) ==
    LET s == sess[c] IN
    /\ pc[c] = "connect"
    /\ got' = [got EXCEPT ![s] = @ \cup (reg \cap Downloads)]
    /\ bk' = [bk EXCEPT ![s] = [d \in Slots |-> IF d \in Attach THEN "dial" ELSE "none"]]
    /\ Goto(c, "wait")
    /\ UNCHANGED <<solverVars, callVars, state, alive, ctx, sent, pastVars>>

\* The attachables for which a session has a BuildKit session.
Started(s) == {d \in Slots : bk[s][d] # "none"}

\* Mutant: the loop does not wait for the channels.
ReadyAtOnce(c) ==
    /\ pc[c] = "wait"
    /\ Return(c, "ready")

\* The loop over waiters, to its end or to the first that meets ctx.Done().
Ready(c) ==
    /\ pc[c] = "wait" /\ Started(sess[c]) \subseteq alive[sess[c]]
    /\ Return(c, "ready")

\* Mutant: NewSession has a time limit of its own.
GiveUpInTime(c) ==
    /\ pc[c] = "wait"
    /\ Return(c, "failed")

GiveUp(c) ==
    /\ pc[c] = "wait" /\ ctx[sess[c]] = "over"
    /\ Return(c, "failed")

-----------------------------------------------------------------------------
(* The goroutine that runs a BuildKit session, and BuildKit itself.        *)

Becomes(s, d, st) == bk' = [bk EXCEPT ![s][d] = st]

\* The context of NewSession ends: its caller's, and the sessions' too.
Cancel(s) ==
    /\ ctx[s] = "live" /\ state[s] \notin {"none", "released"}
    /\ ctx' = [ctx EXCEPT ![s] = "over"]
    /\ UNCHANGED <<solverVars, pc, callVars, state, got, bk, alive, sent, pastVars>>

\* The dialer returns a connection, or an error that ends Run before any Read.
Dial(s, d) ==
    /\ bk[s][d] = "dial"
    /\ \E st \in {"up", "ended"} : Becomes(s, d, st)
    /\ UNCHANGED <<solverVars, pc, callVars, state, got, alive, ctx, sent, pastVars>>

\* The first Read of aliveConnWaiter returns.
FirstRead(s, d) ==
    /\ bk[s][d] = "up" /\ d \notin alive[s]
    /\ alive' = [alive EXCEPT ![s] = @ \cup {d}]
    /\ UNCHANGED <<solverVars, pc, callVars, state, got, bk, ctx, sent, pastVars>>

\* A session's connection ends; a Read that waits returns the error.
Ends(s, d) ==
    /\ bk[s][d] = "up"
    /\ Becomes(s, d, "ended")
    /\ alive' = [alive EXCEPT ![s] = @ \cup {d}]
    /\ UNCHANGED <<solverVars, pc, callVars, state, got, ctx, sent, pastVars>>

-----------------------------------------------------------------------------
(* Do and Release.                                                         *)

\* Mutant: a random session for every request.
ChooseAny(c, s, r, d) ==
    /\ d \in Started(s)
    /\ slot' = [slot EXCEPT ![c] = d]
    /\ Goto(c, "solve")

\* anyValue(allSessions), or the session of the request's download; without
\* one the nil session panics in sess.ID().
Choose(c, s, r, d) ==
    /\ IF r \in Downloads THEN d = r ELSE d \in Started(s)
    /\ slot' = [slot EXCEPT ![c] = d]
    /\ Goto(c, IF d \in Started(s) THEN "solve" ELSE "panic")

\* Do up to client.Build; each request is sent once.
Do(c, s, r, d) ==
    /\ pc[c] = "idle" /\ state[s] = "ready" /\ r \notin sent
    /\ r \in reg \cup {Plain}
    /\ Choose(c, s, r, d)
    /\ item' = [item EXCEPT ![c] = r]
    /\ sess' = [sess EXCEPT ![c] = s]
    /\ sent' = sent \cup {r}
    /\ UNCHANGED <<solverVars, sessVars, pastVars>>

DoReturns(c) ==
    /\ Returned(c)
    /\ UNCHANGED <<solverVars, sessVars, sent, pastVars>>

\* The solve ends well, for which its session must be up.
Solved(c) ==
    /\ pc[c] = "solve" /\ bk[sess[c]][slot[c]] = "up"
    /\ DoReturns(c)

\* Marshal, the solve, a result handler or LoadImageConfig fails, and Do
\* returns the error.
SolveFails(c) ==
    /\ pc[c] = "solve"
    /\ DoReturns(c)

\* The solve fails and the request has a handler.
OnError(c) ==
    /\ pc[c] = "solve"
    /\ Goto(c, "handler")
    /\ UNCHANGED <<solverVars, callVars, sessVars, sent, pastVars>>

\* The handler returns.  The build's error stays unless the request drops it,
\* and the handler's own error is always returned.
Handled(c) ==
    /\ pc[c] = "handler"
    /\ DoReturns(c)

\* Release: no helper ever returned a releaser (see Helpers).
Release(c, s) ==
    /\ pc[c] = "idle" /\ state[s] = "ready"
    /\ sess' = [sess EXCEPT ![c] = s]
    /\ state' = [state EXCEPT ![s] = "releasing"]
    /\ Goto(c, "release")
    /\ UNCHANGED <<solverVars, item, slot, got, bk, alive, ctx, sent, pastVars>>

\* sess.Close() for each; it waits until Run has returned.
Close(c, d) ==
    /\ pc[c] = "release" /\ bk[sess[c]][d] = "up"
    /\ Becomes(sess[c], d, "ended")
    /\ UNCHANGED <<solverVars, pc, callVars, state, got, alive, ctx, sent, pastVars>>

CloseLoopEnds(c) ==
    /\ pc[c] = "release" /\ \A d \in Slots : bk[sess[c]][d] # "up"
    /\ state' = [state EXCEPT ![sess[c]] = "released"]
    /\ Returned(c)
    /\ UNCHANGED <<solverVars, got, bk, alive, ctx, sent, pastVars>>

-----------------------------------------------------------------------------
Steps(c) ==
    \/ Check(c) \/ Helpers(c) \/ Mounts(c) \/ AttachSecrets(c) \/ AttachAgents(c)
    \/ OpenFails(c) \/ Connect(c) \/ Ready(c) \/ GiveUp(c)
    \/ Solved(c) \/ SolveFails(c) \/ OnError(c) \/ Handled(c)
    \/ (\E d \in Slots : Close(c, d)) \/ CloseLoopEnds(c)

Calls(c) ==
    \/ \E i \in Items : Call(c, i) \/ CallFails(c, i)
    \/ \E s \in Sessions : Open(c, s) \/ Release(c, s)
    \/ \E s \in Sessions, r \in Requests, d \in Slots : Do(c, s, r, d)

Next ==
    \/ \E c \in Callers : Calls(c) \/ Add(c) \/ Lock(c) \/ Steps(c)
    \/ \E s \in Sessions : Cancel(s)
    \/ \E s \in Sessions, d \in Slots : Dial(s, d) \/ FirstRead(s, d) \/ Ends(s, d)

Spec == Init /\ [][Next]_vars

(* Fairness.  Goroutines that can run do, and a starved waiter gets mu;    *)
(* a dial ends, BuildKit sends a first message on a connection that holds, *)
(* and a connection ends once its context is over.  No call has to be made *)
(* and no connection has to hold.                                          *)
Fairness ==
    /\ \A c \in Callers : WF_vars(Steps(c)) /\ SF_vars(Add(c) \/ Lock(c))
    /\ \A s \in Sessions, d \in Slots :
          /\ WF_vars(Dial(s, d) \/ FirstRead(s, d))
          /\ WF_vars(ctx[s] = "over" /\ Ends(s, d))

FairSpec == Spec /\ Fairness
=============================================================================
