---------------------------- MODULE SolverProofs ----------------------------
(* The safety properties of the solver, for all callers, sessions and      *)
(* items.                                                                  *)
EXTENDS SolverProps, TLAPS

\* A caller in one of these places is the only one that works on its session.
Working == {"check", "lock", "release"} \cup Opening

\* NewSession before it starts BuildKit sessions.
Early == {"check", "lock"} \cup (Opening \ {"wait"})

\* mu is held from Lock to the return, so reg stands still meanwhile.
Mutex ==
    \A c \in Callers :
        /\ pc[c] \in Opening <=> mu = c
        /\ pc[c] \in Opening \ {"helpers", "helper"} => reg \cap Tcps = {}

Alone ==
    \A c, d \in Callers :
        pc[c] \in Working /\ pc[d] \in Working /\ sess[c] = sess[d] => c = d

\* A caller and the session it works on.
Work ==
    \A c \in Callers :
        /\ pc[c] \in Working \ {"release"} => state[sess[c]] = "opening"
        /\ pc[c] \in Early => \A d \in Slots : bk[sess[c]][d] = "none"
        /\ pc[c] = "wait" => Started(sess[c]) = Attach
        /\ pc[c] = "release" => state[sess[c]] = "releasing"
        /\ pc[c] \in {"lock"} \cup Opening => broken[sess[c]] = {}

\* What NewSession has given its session when it gets to a place.
Collected ==
    \A c \in Callers :
        /\ pc[c] \in {"check", "lock", "helpers", "helper", "mounts"} => got[sess[c]] = {}
        /\ pc[c] = "secrets" => got[sess[c]] = reg \cap Locals
        /\ pc[c] = "agents" => got[sess[c]] = reg \cap (Locals \cup Secrets)
        /\ pc[c] = "connect" => got[sess[c]] = reg \cap (Locals \cup Secrets \cup Sockets)
        /\ pc[c] = "wait" => got[sess[c]] = reg

\* A caller in Do.
Requesting ==
    \A c \in Callers :
        /\ pc[c] \in {"solve", "handler", "panic"} => Opened(sess[c])
        /\ pc[c] \in {"solve", "handler"} /\ item[c] \in Downloads => slot[c] = item[c]
        /\ pc[c] = "panic" => item[c] \in Downloads \ Started(sess[c])

\* A session, whoever works on it.
Standing ==
    \A s \in Sessions :
        /\ state[s] = "none" => got[s] = {} /\ \A d \in Slots : bk[s][d] = "none"
        /\ \A i \in before[s] : \E j \in reg : Entry[j] = Entry[i]
        /\ broken[s] \subseteq failed
        /\ \A d \in Slots : bk[s][d] \in {"none", "dial"} => d \notin alive[s]
        /\ Opened(s) => \A d \in Slots : bk[s][d] # "dial"

ErrSet == failed # {} => err

Inv ==
    /\ TypeOK /\ Mutex /\ Alone /\ Work /\ Collected /\ Requesting /\ Standing /\ ErrSet
    /\ Complete /\ NoFailed /\ ReleaseCloses

LEMMA InitInv == ASSUME SolverAssumption PROVE Init => Inv
<1> SUFFICES ASSUME Init PROVE Inv
    OBVIOUS
<1>1. AnySession \in Sessions
    BY DEF AnySession, SolverAssumption
<1>2. TypeOK
    BY <1>1 DEF TypeOK, PhaseOK, Init, Slots, PCs, Opening
<1> QED
    BY <1>1, <1>2 DEF Inv, Mutex, Alone, Work, Collected, Requesting, Standing, ErrSet,
       Complete, NoFailed, ReleaseCloses, Opened, Working, Early, Opening, Init,
       SolverAssumption

-----------------------------------------------------------------------------
(* Every step keeps the types.                                             *)

LEMMA StepType ==
    ASSUME SolverAssumption, TypeOK, [Next]_vars
    PROVE  TypeOK'
<1> USE DEF solverVars, callVars, sessVars, pastVars, TypeOK, PhaseOK, Goto,
    PCs, Opening
<1>0. /\ AnySession \in Sessions /\ Plain \in Slots
      /\ reg \in SUBSET Items /\ failed \in SUBSET Items
    BY DEF AnySession, SolverAssumption, Slots
<1>1. ASSUME NEW c \in Callers, NEW i \in Items, Call(c, i) PROVE TypeOK'
    BY <1>1, <1>0 DEF Call
<1>2. ASSUME NEW c \in Callers, NEW i \in Items, CallFails(c, i) PROVE TypeOK'
    BY <1>2, <1>0 DEF CallFails
<1>3. ASSUME NEW c \in Callers, Add(c) PROVE TypeOK'
    <2>1. reg' \cup failed' \subseteq tried' /\ reg' \cap failed' = {} /\ reg' \in SUBSET Items
        BY <1>3 DEF Add, With
    <2>2. CASE pc[c] = "add"
        <3>1. Returned(c)
            BY <1>3, <2>2 DEF Add
        <3> QED
            BY <1>3, <1>0, <2>1, <3>1 DEF Add, Returned
    <2>3. CASE pc[c] = "helper"
        <3>1. /\ pc' = [pc EXCEPT ![c] = "mounts"]
              /\ UNCHANGED <<item, sess, slot>>
            BY <1>3, <2>3 DEF Add
        <3> QED
            BY <1>3, <2>1, <2>3, <3>1 DEF Add
    <2> QED
        BY <1>3, <2>2, <2>3 DEF Add
<1>4. ASSUME NEW c \in Callers, NEW s \in Sessions, Open(c, s) PROVE TypeOK'
    <2>1. before' \in [Sessions -> SUBSET Items] /\ broken' \in [Sessions -> SUBSET Items]
        BY <1>4, <1>0 DEF Open
    <2> QED
        BY <1>4, <2>1 DEF Open
<1>5. ASSUME NEW c \in Callers, Lock(c) PROVE TypeOK'
    BY <1>5, <1>0 DEF Lock
<1>6. ASSUME NEW c \in Callers, Helpers(c) PROVE TypeOK'
    <2>1. CASE Goto(c, "mounts") /\ UNCHANGED item
        BY <1>6, <2>1 DEF Helpers
    <2>2. ASSUME NEW t \in reg \cap Tcps, Goto(c, "helper"), item' = [item EXCEPT ![c] = t]
          PROVE  TypeOK'
        <3>1. t \in tried \ failed /\ t \in Items
            OBVIOUS
        <3> QED
            BY <1>6, <2>2, <3>1 DEF Helpers
    <2> QED
        BY <1>6, <2>1, <2>2 DEF Helpers
<1>7. ASSUME NEW c \in Callers, Mounts(c) PROVE TypeOK'
    BY <1>7, <1>0 DEF Mounts, Collect
<1>8. ASSUME NEW c \in Callers, AttachSecrets(c) PROVE TypeOK'
    BY <1>8, <1>0 DEF AttachSecrets, Collect
<1>9. ASSUME NEW c \in Callers, AttachAgents(c) PROVE TypeOK'
    BY <1>9, <1>0 DEF AttachAgents, Collect
<1>10. ASSUME NEW c \in Callers, OpenFails(c) PROVE TypeOK'
    BY <1>10, <1>0 DEF OpenFails, Return, Returned
<1>11. ASSUME NEW c \in Callers, Connect(c) PROVE TypeOK'
    BY <1>11, <1>0 DEF Connect
<1>12. ASSUME NEW c \in Callers, Ready(c) PROVE TypeOK'
    BY <1>12, <1>0 DEF Ready, Return, Returned
<1>13. ASSUME NEW c \in Callers, GiveUp(c) PROVE TypeOK'
    BY <1>13, <1>0 DEF GiveUp, Return, Returned
<1>14. ASSUME NEW c \in Callers, NEW s \in Sessions, NEW r \in Requests, NEW d \in Slots,
              Do(c, s, r, d)
       PROVE  TypeOK'
    BY <1>14, <1>0 DEF Do, Choose, Slots, Requests
<1>15. ASSUME NEW c \in Callers, Solved(c) PROVE TypeOK'
    BY <1>15, <1>0 DEF Solved, DoReturns, Returned
<1>16. ASSUME NEW c \in Callers, SolveFails(c) PROVE TypeOK'
    BY <1>16, <1>0 DEF SolveFails, DoReturns, Returned
<1>17. ASSUME NEW c \in Callers, OnError(c) PROVE TypeOK'
    BY <1>17, <1>0 DEF OnError
<1>18. ASSUME NEW c \in Callers, Handled(c) PROVE TypeOK'
    BY <1>18, <1>0 DEF Handled, DoReturns, Returned
<1>19. ASSUME NEW c \in Callers, NEW s \in Sessions, Release(c, s)
       PROVE  TypeOK'
    BY <1>19, <1>0 DEF Release
<1>20. ASSUME NEW c \in Callers, NEW d \in Slots, Close(c, d) PROVE TypeOK'
    BY <1>20, <1>0 DEF Close, Becomes
<1>21. ASSUME NEW c \in Callers, CloseLoopEnds(c) PROVE TypeOK'
    BY <1>21, <1>0 DEF CloseLoopEnds, Returned
<1>22. ASSUME NEW s \in Sessions, Cancel(s) PROVE TypeOK'
    BY <1>22, <1>0 DEF Cancel
<1>23. ASSUME NEW s \in Sessions, NEW d \in Slots, Dial(s, d) PROVE TypeOK'
    BY <1>23, <1>0 DEF Dial, Becomes
<1>24. ASSUME NEW s \in Sessions, NEW d \in Slots, FirstRead(s, d)
       PROVE  TypeOK'
    BY <1>24, <1>0 DEF FirstRead
<1>25. ASSUME NEW s \in Sessions, NEW d \in Slots, Ends(s, d) PROVE TypeOK'
    BY <1>25, <1>0 DEF Ends, Becomes
<1>26. CASE UNCHANGED vars
    BY <1>26 DEF vars
<1>27. ASSUME NEW c \in Callers, Check(c) PROVE TypeOK'
    <2>1. CASE err
        <3>1. /\ state' = [state EXCEPT ![sess[c]] = "failed"] /\ Returned(c)
              /\ UNCHANGED <<solverVars, got, bk, alive, ctx, sent, pastVars>>
            BY <1>27, <2>1 DEF Check
        <3> QED
            BY <1>0, <3>1 DEF Returned
    <2>2. CASE ~err
        BY <1>27, <1>0, <2>2 DEF Check
    <2> QED
        BY <2>1, <2>2
<1> QED
    BY <1>1, <1>2, <1>3, <1>4, <1>5, <1>6, <1>7, <1>8, <1>9, <1>10, <1>11,
       <1>12, <1>13, <1>14, <1>15, <1>16, <1>17, <1>18, <1>19, <1>20, <1>21,
       <1>22, <1>23, <1>24, <1>25, <1>26, <1>27 DEF Next, Calls, Steps

-----------------------------------------------------------------------------
(* What the invariant says where an action starts.                         *)

\* A registering call gets the lock while no NewSession has it.
LEMMA AddAlone ==
    ASSUME SolverAssumption, Inv, NEW c \in Callers, Add(c)
    PROVE  /\ pc[c] = "add" /\ Returned(c)
           /\ \A e \in Callers : pc[e] \notin Opening
<1>1. pc[c] = "add" /\ \A e \in Callers : pc[e] \notin Opening
    BY DEF Add, Inv, Mutex, TypeOK, SolverAssumption, Opening
<1> QED
    BY <1>1 DEF Add

\* Nobody else works on the session of a caller that does.
LEMMA WorksAlone ==
    ASSUME Inv, NEW c \in Callers, pc[c] \in Working
    PROVE  \A e \in Callers : e # c /\ pc[e] \in Working => sess[e] # sess[c]
BY DEF Inv, Alone

\* A session that was not opened yet is nobody's.
LEMMA OpenAlone ==
    ASSUME Inv, NEW c \in Callers, NEW s \in Sessions, Open(c, s)
    PROVE  \A e \in Callers :
              pc[e] \in Working \cup {"solve", "handler", "panic"} => sess[e] # s
BY DEF Open, Inv, Work, Requesting, Opened, Working, Opening, TypeOK

\* A session that is ready is not worked on.
LEMMA ReleaseAlone ==
    ASSUME Inv, NEW c \in Callers, NEW s \in Sessions, Release(c, s)
    PROVE  \A e \in Callers : pc[e] \in Working => sess[e] # s
BY DEF Release, Inv, Work, Working, Opening

\* With the downloads a session has got all that is registered, and each
\* download is about to get its BuildKit session.
LEMMA ConnectGives ==
    ASSUME Inv, NEW c \in Callers, Connect(c)
    PROVE  /\ got' = [got EXCEPT ![sess[c]] = reg]
           /\ \A d \in Slots : bk'[sess[c]][d] = IF d \in Attach THEN "dial" ELSE "none"
           /\ \A d \in Slots : bk[sess[c]][d] = "none" /\ d \notin alive[sess[c]]
           /\ Attach' = Attach /\ Attach \subseteq Slots
<1> USE DEF Opening
<1>1. (reg \cap (Locals \cup Secrets \cup Sockets)) \cup (reg \cap Downloads) = reg
    BY DEF Connect, Inv, Mutex, TypeOK, Items
<1>2. got' = [got EXCEPT ![sess[c]] = reg]
    BY <1>1 DEF Connect, Inv, Collected
<1>3. \A d \in Slots : bk'[sess[c]][d] = IF d \in Attach THEN "dial" ELSE "none"
    BY DEF Connect, Inv, TypeOK
<1>4. \A d \in Slots : bk[sess[c]][d] = "none" /\ d \notin alive[sess[c]]
    <2>1. sess[c] \in Sessions /\ \A d \in Slots : bk[sess[c]][d] = "none"
        BY DEF Connect, Inv, Work, Early, TypeOK
    <2> QED
        BY <2>1 DEF Inv, Standing
<1>5. Attach' = Attach /\ Attach \subseteq Slots
    BY DEF Connect, Attach, Slots, solverVars
<1> QED
    BY <1>2, <1>3, <1>4, <1>5

\* What the session has that NewSession is about to return.
LEMMA ReadyHas ==
    ASSUME Inv, NEW c \in Callers, Ready(c)
    PROVE  /\ got[sess[c]] = reg /\ Started(sess[c]) = Attach
           /\ broken[sess[c]] = {}
<1>1. state[sess[c]] = "opening"
    BY DEF Ready, Inv, Work, Working, Opening
<1> QED
    BY <1>1 DEF Ready, Inv, Work, Collected, Opening

-----------------------------------------------------------------------------
(* The parts of the invariant, one by one.                                 *)

LEMMA StepMutex ==
    ASSUME SolverAssumption, Inv, TypeOK', [Next]_vars
    PROVE  Mutex'
<1> USE DEF solverVars, callVars, sessVars, pastVars, Goto, Opening, Inv,
    TypeOK, Mutex
<1>1. CASE UNCHANGED <<pc, mu, reg>>
    BY <1>1
<1>2. ASSUME NEW c \in Callers, NEW i \in Items, Call(c, i) PROVE Mutex'
    BY <1>2 DEF Call
<1>3. ASSUME NEW c \in Callers, Add(c) PROVE Mutex'
    <2>1. /\ pc[c] = "add" /\ Returned(c)
          /\ \A e \in Callers : pc[e] \notin Opening
        BY <1>3, AddAlone
    <2> QED
        BY <1>3, <2>1 DEF Add, Returned
<1>4. ASSUME NEW c \in Callers, NEW s \in Sessions, Open(c, s) PROVE Mutex'
    BY <1>4 DEF Open
<1>5. ASSUME NEW c \in Callers, Lock(c) PROVE Mutex'
    BY <1>5 DEF Lock
<1>6. ASSUME NEW c \in Callers, Helpers(c) PROVE Mutex'
    BY <1>6 DEF Helpers
<1>7. ASSUME NEW c \in Callers, Mounts(c) PROVE Mutex'
    BY <1>7 DEF Mounts, Collect
<1>8. ASSUME NEW c \in Callers, AttachSecrets(c) PROVE Mutex'
    BY <1>8 DEF AttachSecrets, Collect
<1>9. ASSUME NEW c \in Callers, AttachAgents(c) PROVE Mutex'
    BY <1>9 DEF AttachAgents, Collect
<1>10. ASSUME NEW c \in Callers, OpenFails(c) PROVE Mutex'
    BY <1>10 DEF OpenFails, Return, Returned
<1>11. ASSUME NEW c \in Callers, Connect(c) PROVE Mutex'
    BY <1>11 DEF Connect
<1>12. ASSUME NEW c \in Callers, Ready(c) PROVE Mutex'
    BY <1>12 DEF Ready, Return, Returned
<1>13. ASSUME NEW c \in Callers, GiveUp(c) PROVE Mutex'
    BY <1>13 DEF GiveUp, Return, Returned
<1>14. ASSUME NEW c \in Callers, NEW s \in Sessions, NEW r \in Requests, NEW d \in Slots,
              Do(c, s, r, d)
       PROVE  Mutex'
    BY <1>14 DEF Do, Choose, Slots
<1>15. ASSUME NEW c \in Callers, Solved(c) PROVE Mutex'
    BY <1>15 DEF Solved, DoReturns, Returned
<1>16. ASSUME NEW c \in Callers, SolveFails(c) PROVE Mutex'
    BY <1>16 DEF SolveFails, DoReturns, Returned
<1>17. ASSUME NEW c \in Callers, OnError(c) PROVE Mutex'
    BY <1>17 DEF OnError
<1>18. ASSUME NEW c \in Callers, Handled(c) PROVE Mutex'
    BY <1>18 DEF Handled, DoReturns, Returned
<1>19. ASSUME NEW c \in Callers, NEW s \in Sessions, Release(c, s)
       PROVE  Mutex'
    BY <1>19 DEF Release
<1>20. ASSUME NEW c \in Callers, CloseLoopEnds(c) PROVE Mutex'
    BY <1>20 DEF CloseLoopEnds, Returned
<1>21. ASSUME NEW c \in Callers, Check(c) PROVE Mutex'
    <2>1. \A e \in Callers : e # c /\ pc[e] \in Working => sess[e] # sess[c]
        BY <1>21, WorksAlone DEF Check, Working
    <2>2. state[sess[c]] = "opening"
        BY <1>21 DEF Check, Work, Working
    <2>3. CASE err
        <3>1. /\ state' = [state EXCEPT ![sess[c]] = "failed"] /\ Returned(c)
            BY <1>21, <2>3 DEF Check
        <3> QED
            BY <1>21, <2>1, <2>2, <3>1 DEF Check, Returned
    <2>4. CASE ~err
        <3>1. pc' = [pc EXCEPT ![c] = "lock"] /\ UNCHANGED <<callVars, state>>
            BY <1>21, <2>4 DEF Check
        <3> QED
            BY <1>21, <2>1, <2>2, <2>4, <3>1 DEF Check
    <2> QED
        BY <2>3, <2>4
<1> HIDE DEF Opening, Inv, TypeOK, Mutex
<1> QED
    BY <1>1, <1>2, <1>3, <1>4, <1>5, <1>6, <1>7, <1>8, <1>9, <1>10, <1>11,
       <1>12, <1>13, <1>14, <1>15, <1>16, <1>17, <1>18, <1>19, <1>20, <1>21
    DEF Next, Calls, Steps, vars, CallFails, Close, Becomes, Cancel, Dial,
       FirstRead, Ends

LEMMA StepAlone ==
    ASSUME SolverAssumption, Inv, TypeOK', [Next]_vars
    PROVE  Alone'
<1> USE DEF solverVars, callVars, sessVars, pastVars, Goto, Opening, Inv,
    TypeOK, Alone, Working
<1>1. CASE UNCHANGED <<pc, sess>>
    BY <1>1
<1>2. ASSUME NEW c \in Callers, NEW i \in Items, Call(c, i) PROVE Alone'
    BY <1>2 DEF Call
<1>3. ASSUME NEW c \in Callers, Add(c) PROVE Alone'
    <2>1. /\ pc[c] = "add" /\ Returned(c)
          /\ \A e \in Callers : pc[e] \notin Opening
        BY <1>3, AddAlone
    <2> QED
        BY <1>3, <2>1 DEF Add, Returned
<1>4. ASSUME NEW c \in Callers, NEW s \in Sessions, Open(c, s) PROVE Alone'
    <2>1. \A e \in Callers :
              pc[e] \in Working \cup {"solve", "handler", "panic"} => sess[e] # s
        BY <1>4, OpenAlone
    <2> QED
        BY <1>4, <2>1 DEF Open
<1>5. ASSUME NEW c \in Callers, Lock(c) PROVE Alone'
    BY <1>5 DEF Lock
<1>6. ASSUME NEW c \in Callers, Helpers(c) PROVE Alone'
    <2>1. /\ pc[c] \in Working /\ sess' = sess
          /\ pc' = [pc EXCEPT ![c] = "mounts"] \/ pc' = [pc EXCEPT ![c] = "helper"]
        BY <1>6 DEF Helpers
    <2>2. \A e \in Callers : pc'[e] \in Working => pc[e] \in Working
        BY <2>1
    <2> QED
        BY <2>1, <2>2
<1>7. ASSUME NEW c \in Callers, Mounts(c) PROVE Alone'
    BY <1>7 DEF Mounts, Collect
<1>8. ASSUME NEW c \in Callers, AttachSecrets(c) PROVE Alone'
    BY <1>8 DEF AttachSecrets, Collect
<1>9. ASSUME NEW c \in Callers, AttachAgents(c) PROVE Alone'
    BY <1>9 DEF AttachAgents, Collect
<1>10. ASSUME NEW c \in Callers, OpenFails(c) PROVE Alone'
    BY <1>10 DEF OpenFails, Return, Returned
<1>11. ASSUME NEW c \in Callers, Connect(c) PROVE Alone'
    BY <1>11 DEF Connect
<1>12. ASSUME NEW c \in Callers, Ready(c) PROVE Alone'
    BY <1>12 DEF Ready, Return, Returned
<1>13. ASSUME NEW c \in Callers, GiveUp(c) PROVE Alone'
    BY <1>13 DEF GiveUp, Return, Returned
<1>14. ASSUME NEW c \in Callers, NEW s \in Sessions, NEW r \in Requests, NEW d \in Slots,
              Do(c, s, r, d)
       PROVE  Alone'
    BY <1>14 DEF Do, Choose, Slots
<1>15. ASSUME NEW c \in Callers, Solved(c) PROVE Alone'
    BY <1>15 DEF Solved, DoReturns, Returned
<1>16. ASSUME NEW c \in Callers, SolveFails(c) PROVE Alone'
    BY <1>16 DEF SolveFails, DoReturns, Returned
<1>17. ASSUME NEW c \in Callers, OnError(c) PROVE Alone'
    BY <1>17 DEF OnError
<1>18. ASSUME NEW c \in Callers, Handled(c) PROVE Alone'
    BY <1>18 DEF Handled, DoReturns, Returned
<1>19. ASSUME NEW c \in Callers, NEW s \in Sessions, Release(c, s)
       PROVE  Alone'
    <2>1. \A e \in Callers : pc[e] \in Working => sess[e] # s
        BY <1>19, ReleaseAlone
    <2> QED
        BY <1>19, <2>1 DEF Release
<1>20. ASSUME NEW c \in Callers, CloseLoopEnds(c) PROVE Alone'
    BY <1>20 DEF CloseLoopEnds, Returned
<1>21. ASSUME NEW c \in Callers, Check(c) PROVE Alone'
    <2>1. \A e \in Callers : e # c /\ pc[e] \in Working => sess[e] # sess[c]
        BY <1>21, WorksAlone DEF Check
    <2>2. state[sess[c]] = "opening"
        BY <1>21 DEF Check, Work
    <2>3. CASE err
        <3>1. /\ state' = [state EXCEPT ![sess[c]] = "failed"] /\ Returned(c)
            BY <1>21, <2>3 DEF Check
        <3> QED
            BY <1>21, <2>1, <2>2, <3>1 DEF Check, Returned
    <2>4. CASE ~err
        <3>1. pc' = [pc EXCEPT ![c] = "lock"] /\ UNCHANGED <<callVars, state>>
            BY <1>21, <2>4 DEF Check
        <3> QED
            BY <1>21, <2>1, <2>2, <2>4, <3>1 DEF Check
    <2> QED
        BY <2>3, <2>4
<1> HIDE DEF Opening, Inv, TypeOK, Alone, Working
<1> QED
    BY <1>1, <1>2, <1>3, <1>4, <1>5, <1>6, <1>7, <1>8, <1>9, <1>10, <1>11,
       <1>12, <1>13, <1>14, <1>15, <1>16, <1>17, <1>18, <1>19, <1>20, <1>21
    DEF Next, Calls, Steps, vars, CallFails, Close, Becomes, Cancel, Dial,
       FirstRead, Ends

LEMMA StepWork ==
    ASSUME SolverAssumption, Inv, TypeOK', [Next]_vars
    PROVE  Work'
<1> USE DEF solverVars, callVars, sessVars, pastVars, Goto, Opening, Inv,
    TypeOK, Work, Working, Early, Attach, Started, Mutex, Standing
<1>1. CASE UNCHANGED <<pc, sess, state, bk, reg, broken>>
    BY <1>1
<1>2. ASSUME NEW c \in Callers, NEW i \in Items, Call(c, i) PROVE Work'
    BY <1>2 DEF Call
<1>3. ASSUME NEW c \in Callers, Add(c) PROVE Work'
    <2>1. /\ pc[c] = "add" /\ Returned(c)
          /\ \A e \in Callers : pc[e] \notin Opening
        BY <1>3, AddAlone
    <2> QED
        BY <1>3, <2>1 DEF Add, Returned
<1>4. ASSUME NEW c \in Callers, NEW s \in Sessions, Open(c, s) PROVE Work'
    <2>1. \A e \in Callers :
              pc[e] \in Working \cup {"solve", "handler", "panic"} => sess[e] # s
        BY <1>4, OpenAlone
    <2> QED
        BY <1>4, <2>1 DEF Open
<1>5. ASSUME NEW c \in Callers, Lock(c) PROVE Work'
    BY <1>5 DEF Lock
<1>6. ASSUME NEW c \in Callers, Helpers(c) PROVE Work'
    BY <1>6 DEF Helpers
<1>7. ASSUME NEW c \in Callers, Mounts(c) PROVE Work'
    <2>1. \A e \in Callers : e # c /\ pc[e] \in Working => sess[e] # sess[c]
        BY <1>7, WorksAlone DEF Mounts, Collect
    <2>2. state[sess[c]] = "opening"
        BY <1>7 DEF Mounts, Collect
    <2> QED
        BY <1>7, <2>1, <2>2 DEF Mounts, Collect
<1>8. ASSUME NEW c \in Callers, AttachSecrets(c) PROVE Work'
    <2>1. \A e \in Callers : e # c /\ pc[e] \in Working => sess[e] # sess[c]
        BY <1>8, WorksAlone DEF AttachSecrets, Collect
    <2>2. state[sess[c]] = "opening"
        BY <1>8 DEF AttachSecrets, Collect
    <2> QED
        BY <1>8, <2>1, <2>2 DEF AttachSecrets, Collect
<1>9. ASSUME NEW c \in Callers, AttachAgents(c) PROVE Work'
    <2>1. \A e \in Callers : e # c /\ pc[e] \in Working => sess[e] # sess[c]
        BY <1>9, WorksAlone DEF AttachAgents, Collect
    <2>2. state[sess[c]] = "opening"
        BY <1>9 DEF AttachAgents, Collect
    <2> QED
        BY <1>9, <2>1, <2>2 DEF AttachAgents, Collect
<1>10. ASSUME NEW c \in Callers, OpenFails(c) PROVE Work'
    <2>1. \A e \in Callers : e # c /\ pc[e] \in Working => sess[e] # sess[c]
        BY <1>10, WorksAlone DEF OpenFails
    <2>2. state[sess[c]] = "opening"
        BY <1>10 DEF OpenFails
    <2> QED
        BY <1>10, <2>1, <2>2 DEF OpenFails, Return, Returned
<1>11. ASSUME NEW c \in Callers, Connect(c) PROVE Work'
    <2>1. \A e \in Callers : e # c /\ pc[e] \in Working => sess[e] # sess[c]
        BY <1>11, WorksAlone DEF Connect
    <2>2. state[sess[c]] = "opening"
        BY <1>11 DEF Connect
    <2>3. /\ got' = [got EXCEPT ![sess[c]] = reg]
          /\ \A d \in Slots : bk'[sess[c]][d] = IF d \in Attach THEN "dial" ELSE "none"
          /\ \A d \in Slots : bk[sess[c]][d] = "none" /\ d \notin alive[sess[c]]
          /\ Attach' = Attach /\ Attach \subseteq Slots
        BY <1>11, ConnectGives
    <2> QED
        BY <1>11, <2>1, <2>2, <2>3 DEF Connect
<1>12. ASSUME NEW c \in Callers, Ready(c) PROVE Work'
    <2>1. \A e \in Callers : e # c /\ pc[e] \in Working => sess[e] # sess[c]
        BY <1>12, WorksAlone DEF Ready
    <2>2. state[sess[c]] = "opening"
        BY <1>12 DEF Ready
    <2>3. /\ got[sess[c]] = reg /\ Started(sess[c]) = Attach
          /\ broken[sess[c]] = {}
        BY <1>12, ReadyHas
    <2> QED
        BY <1>12, <2>1, <2>2, <2>3 DEF Ready, Return, Returned
<1>13. ASSUME NEW c \in Callers, GiveUp(c) PROVE Work'
    <2>1. \A e \in Callers : e # c /\ pc[e] \in Working => sess[e] # sess[c]
        BY <1>13, WorksAlone DEF GiveUp
    <2>2. state[sess[c]] = "opening"
        BY <1>13 DEF GiveUp
    <2> QED
        BY <1>13, <2>1, <2>2 DEF GiveUp, Return, Returned
<1>14. ASSUME NEW c \in Callers, NEW s \in Sessions, NEW r \in Requests, NEW d \in Slots,
              Do(c, s, r, d)
       PROVE  Work'
    BY <1>14 DEF Do, Choose, Slots
<1>15. ASSUME NEW c \in Callers, Solved(c) PROVE Work'
    BY <1>15 DEF Solved, DoReturns, Returned
<1>16. ASSUME NEW c \in Callers, SolveFails(c) PROVE Work'
    BY <1>16 DEF SolveFails, DoReturns, Returned
<1>17. ASSUME NEW c \in Callers, OnError(c) PROVE Work'
    BY <1>17 DEF OnError
<1>18. ASSUME NEW c \in Callers, Handled(c) PROVE Work'
    BY <1>18 DEF Handled, DoReturns, Returned
<1>19. ASSUME NEW c \in Callers, NEW s \in Sessions, Release(c, s) PROVE Work'
    <2>1. \A e \in Callers : pc[e] \in Working => sess[e] # s
        BY <1>19, ReleaseAlone
    <2> QED
        BY <1>19, <2>1 DEF Release
<1>20. ASSUME NEW c \in Callers, NEW d \in Slots, Close(c, d) PROVE Work'
    BY <1>20 DEF Close, Becomes
<1>21. ASSUME NEW c \in Callers, CloseLoopEnds(c) PROVE Work'
    <2>1. \A e \in Callers : e # c /\ pc[e] \in Working => sess[e] # sess[c]
        BY <1>21, WorksAlone DEF CloseLoopEnds
    <2>2. state[sess[c]] = "releasing"
        BY <1>21 DEF CloseLoopEnds
    <2> QED
        BY <1>21, <2>1, <2>2 DEF CloseLoopEnds, Returned
<1>22. ASSUME NEW s \in Sessions, NEW d \in Slots, Dial(s, d) PROVE Work'
    BY <1>22 DEF Dial, Becomes
<1>23. ASSUME NEW s \in Sessions, NEW d \in Slots, Ends(s, d) PROVE Work'
    BY <1>23 DEF Ends, Becomes
<1>24. ASSUME NEW c \in Callers, Check(c) PROVE Work'
    <2>1. \A e \in Callers : e # c /\ pc[e] \in Working => sess[e] # sess[c]
        BY <1>24, WorksAlone DEF Check
    <2>2. state[sess[c]] = "opening"
        BY <1>24 DEF Check, Work
    <2>3. CASE err
        <3>1. /\ state' = [state EXCEPT ![sess[c]] = "failed"] /\ Returned(c)
            BY <1>24, <2>3 DEF Check
        <3> QED
            BY <1>24, <2>1, <2>2, <3>1 DEF Check, Returned
    <2>4. CASE ~err
        <3>1. pc' = [pc EXCEPT ![c] = "lock"] /\ UNCHANGED <<callVars, state>>
            BY <1>24, <2>4 DEF Check
        <3> QED
            BY <1>24, <2>1, <2>2, <2>4, <3>1 DEF Check, ErrSet
    <2> QED
        BY <2>3, <2>4
<1> HIDE DEF Opening, Inv, TypeOK, Work, Working, Early, Attach, Started, Mutex, Standing
<1> QED
    BY <1>1, <1>2, <1>3, <1>4, <1>5, <1>6, <1>7, <1>8, <1>9, <1>10, <1>11,
       <1>12, <1>13, <1>14, <1>15, <1>16, <1>17, <1>18, <1>19, <1>20, <1>21,
       <1>22, <1>23, <1>24 DEF Next, Calls, Steps, vars, CallFails, Cancel, FirstRead

LEMMA StepCollected ==
    ASSUME SolverAssumption, Inv, TypeOK', [Next]_vars
    PROVE  Collected'
<1> USE DEF solverVars, callVars, sessVars, pastVars, Goto, Opening, Inv,
    TypeOK, Collected, Working, Mutex, Standing
<1>1. CASE UNCHANGED <<pc, sess, got, reg>>
    BY <1>1
<1>2. ASSUME NEW c \in Callers, NEW i \in Items, Call(c, i) PROVE Collected'
    BY <1>2 DEF Call
<1>3. ASSUME NEW c \in Callers, Add(c) PROVE Collected'
    <2>1. /\ pc[c] = "add" /\ Returned(c)
          /\ \A e \in Callers : pc[e] \notin Opening
        BY <1>3, AddAlone
    <2> QED
        BY <1>3, <2>1 DEF Add, Returned
<1>4. ASSUME NEW c \in Callers, NEW s \in Sessions, Open(c, s)
      PROVE  Collected'
    <2>1. \A e \in Callers :
              pc[e] \in Working \cup {"solve", "handler", "panic"} => sess[e] # s
        BY <1>4, OpenAlone
    <2> QED
        BY <1>4, <2>1 DEF Open
<1>5. ASSUME NEW c \in Callers, Lock(c) PROVE Collected'
    BY <1>5 DEF Lock
<1>6. ASSUME NEW c \in Callers, Helpers(c) PROVE Collected'
    BY <1>6 DEF Helpers
<1>7. ASSUME NEW c \in Callers, Mounts(c) PROVE Collected'
    <2>1. \A e \in Callers : e # c /\ pc[e] \in Working => sess[e] # sess[c]
        BY <1>7, WorksAlone DEF Mounts, Collect
    <2>2. state[sess[c]] = "opening"
        BY <1>7 DEF Mounts, Collect, Work
    <2> QED
        BY <1>7, <2>1, <2>2 DEF Mounts, Collect
<1>8. ASSUME NEW c \in Callers, AttachSecrets(c) PROVE Collected'
    <2>1. \A e \in Callers : e # c /\ pc[e] \in Working => sess[e] # sess[c]
        BY <1>8, WorksAlone DEF AttachSecrets, Collect
    <2>2. state[sess[c]] = "opening"
        BY <1>8 DEF AttachSecrets, Collect, Work
    <2> QED
        BY <1>8, <2>1, <2>2 DEF AttachSecrets, Collect
<1>9. ASSUME NEW c \in Callers, AttachAgents(c) PROVE Collected'
    <2>1. \A e \in Callers : e # c /\ pc[e] \in Working => sess[e] # sess[c]
        BY <1>9, WorksAlone DEF AttachAgents, Collect
    <2>2. state[sess[c]] = "opening"
        BY <1>9 DEF AttachAgents, Collect, Work
    <2> QED
        BY <1>9, <2>1, <2>2 DEF AttachAgents, Collect
<1>10. ASSUME NEW c \in Callers, OpenFails(c) PROVE Collected'
    <2>1. \A e \in Callers : e # c /\ pc[e] \in Working => sess[e] # sess[c]
        BY <1>10, WorksAlone DEF OpenFails
    <2>2. state[sess[c]] = "opening"
        BY <1>10 DEF OpenFails, Work
    <2> QED
        BY <1>10, <2>1, <2>2 DEF OpenFails, Return, Returned
<1>11. ASSUME NEW c \in Callers, Connect(c) PROVE Collected'
    <2>1. \A e \in Callers : e # c /\ pc[e] \in Working => sess[e] # sess[c]
        BY <1>11, WorksAlone DEF Connect
    <2>2. state[sess[c]] = "opening"
        BY <1>11 DEF Connect, Work
    <2>3. /\ got' = [got EXCEPT ![sess[c]] = reg]
          /\ \A d \in Slots : bk'[sess[c]][d] = IF d \in Attach THEN "dial" ELSE "none"
          /\ \A d \in Slots : bk[sess[c]][d] = "none" /\ d \notin alive[sess[c]]
          /\ Attach' = Attach /\ Attach \subseteq Slots
        BY <1>11, ConnectGives
    <2> QED
        BY <1>11, <2>1, <2>2, <2>3 DEF Connect
<1>12. ASSUME NEW c \in Callers, Ready(c) PROVE Collected'
    <2>1. \A e \in Callers : e # c /\ pc[e] \in Working => sess[e] # sess[c]
        BY <1>12, WorksAlone DEF Ready
    <2>2. state[sess[c]] = "opening"
        BY <1>12 DEF Ready, Work
    <2>3. /\ got[sess[c]] = reg /\ Started(sess[c]) = Attach
          /\ broken[sess[c]] = {}
        BY <1>12, ReadyHas
    <2> QED
        BY <1>12, <2>1, <2>2, <2>3 DEF Ready, Return, Returned
<1>13. ASSUME NEW c \in Callers, GiveUp(c) PROVE Collected'
    <2>1. \A e \in Callers : e # c /\ pc[e] \in Working => sess[e] # sess[c]
        BY <1>13, WorksAlone DEF GiveUp
    <2>2. state[sess[c]] = "opening"
        BY <1>13 DEF GiveUp, Work
    <2> QED
        BY <1>13, <2>1, <2>2 DEF GiveUp, Return, Returned
<1>14. ASSUME NEW c \in Callers, NEW s \in Sessions, NEW r \in Requests, NEW d \in Slots,
              Do(c, s, r, d)
       PROVE  Collected'
    BY <1>14 DEF Do, Choose, Slots
<1>15. ASSUME NEW c \in Callers, Solved(c) PROVE Collected'
    BY <1>15 DEF Solved, DoReturns, Returned
<1>16. ASSUME NEW c \in Callers, SolveFails(c) PROVE Collected'
    BY <1>16 DEF SolveFails, DoReturns, Returned
<1>17. ASSUME NEW c \in Callers, OnError(c) PROVE Collected'
    BY <1>17 DEF OnError
<1>18. ASSUME NEW c \in Callers, Handled(c) PROVE Collected'
    BY <1>18 DEF Handled, DoReturns, Returned
<1>19. ASSUME NEW c \in Callers, NEW s \in Sessions, Release(c, s)
       PROVE  Collected'
    <2>1. \A e \in Callers : pc[e] \in Working => sess[e] # s
        BY <1>19, ReleaseAlone
    <2> QED
        BY <1>19, <2>1 DEF Release
<1>20. ASSUME NEW c \in Callers, CloseLoopEnds(c) PROVE Collected'
    <2>1. \A e \in Callers : e # c /\ pc[e] \in Working => sess[e] # sess[c]
        BY <1>20, WorksAlone DEF CloseLoopEnds
    <2>2. state[sess[c]] = "releasing"
        BY <1>20 DEF CloseLoopEnds, Work
    <2> QED
        BY <1>20, <2>1, <2>2 DEF CloseLoopEnds, Returned
<1>21. ASSUME NEW c \in Callers, Check(c) PROVE Collected'
    <2>1. \A e \in Callers : e # c /\ pc[e] \in Working => sess[e] # sess[c]
        BY <1>21, WorksAlone DEF Check
    <2>2. state[sess[c]] = "opening"
        BY <1>21 DEF Check, Work
    <2>3. CASE err
        <3>1. /\ state' = [state EXCEPT ![sess[c]] = "failed"] /\ Returned(c)
            BY <1>21, <2>3 DEF Check
        <3> QED
            BY <1>21, <2>1, <2>2, <3>1 DEF Check, Returned
    <2>4. CASE ~err
        <3>1. pc' = [pc EXCEPT ![c] = "lock"] /\ UNCHANGED <<callVars, state>>
            BY <1>21, <2>4 DEF Check
        <3> QED
            BY <1>21, <2>1, <2>2, <2>4, <3>1 DEF Check
    <2> QED
        BY <2>3, <2>4
<1> HIDE DEF Opening, Inv, TypeOK, Collected, Working, Mutex, Standing
<1> QED
    BY <1>1, <1>2, <1>3, <1>4, <1>5, <1>6, <1>7, <1>8, <1>9, <1>10, <1>11,
       <1>12, <1>13, <1>14, <1>15, <1>16, <1>17, <1>18, <1>19, <1>20, <1>21
    DEF Next, Calls, Steps, vars, CallFails, Close, Becomes, Cancel, Dial,
       FirstRead, Ends

LEMMA StepRequesting ==
    ASSUME SolverAssumption, Inv, TypeOK', [Next]_vars
    PROVE  Requesting'
<1> USE DEF solverVars, callVars, sessVars, pastVars, Goto, Opening, Inv,
    TypeOK, Requesting, Opened, Started, Attach, Work, Working
<1>1. CASE UNCHANGED <<pc, sess, item, slot, state, bk>>
    BY <1>1
<1>2. ASSUME NEW c \in Callers, NEW i \in Items, Call(c, i) PROVE Requesting'
    BY <1>2 DEF Call
<1>3. ASSUME NEW c \in Callers, Add(c) PROVE Requesting'
    <2>1. /\ pc[c] = "add" /\ Returned(c)
          /\ \A e \in Callers : pc[e] \notin Opening
        BY <1>3, AddAlone
    <2> QED
        BY <1>3, <2>1 DEF Add, Returned
<1>4. ASSUME NEW c \in Callers, NEW s \in Sessions, Open(c, s)
      PROVE  Requesting'
    <2>1. \A e \in Callers :
              pc[e] \in Working \cup {"solve", "handler", "panic"} => sess[e] # s
        BY <1>4, OpenAlone
    <2> QED
        BY <1>4, <2>1 DEF Open
<1>5. ASSUME NEW c \in Callers, Lock(c) PROVE Requesting'
    BY <1>5 DEF Lock
<1>6. ASSUME NEW c \in Callers, Helpers(c) PROVE Requesting'
    BY <1>6 DEF Helpers
<1>7. ASSUME NEW c \in Callers, Mounts(c) PROVE Requesting'
    <2>1. \A e \in Callers : e # c /\ pc[e] \in Working => sess[e] # sess[c]
        BY <1>7, WorksAlone DEF Mounts, Collect
    <2>2. state[sess[c]] = "opening"
        BY <1>7 DEF Mounts, Collect
    <2> QED
        BY <1>7, <2>1, <2>2 DEF Mounts, Collect
<1>8. ASSUME NEW c \in Callers, AttachSecrets(c) PROVE Requesting'
    <2>1. \A e \in Callers : e # c /\ pc[e] \in Working => sess[e] # sess[c]
        BY <1>8, WorksAlone DEF AttachSecrets, Collect
    <2>2. state[sess[c]] = "opening"
        BY <1>8 DEF AttachSecrets, Collect
    <2> QED
        BY <1>8, <2>1, <2>2 DEF AttachSecrets, Collect
<1>9. ASSUME NEW c \in Callers, AttachAgents(c) PROVE Requesting'
    <2>1. \A e \in Callers : e # c /\ pc[e] \in Working => sess[e] # sess[c]
        BY <1>9, WorksAlone DEF AttachAgents, Collect
    <2>2. state[sess[c]] = "opening"
        BY <1>9 DEF AttachAgents, Collect
    <2> QED
        BY <1>9, <2>1, <2>2 DEF AttachAgents, Collect
<1>10. ASSUME NEW c \in Callers, OpenFails(c) PROVE Requesting'
    <2>1. \A e \in Callers : e # c /\ pc[e] \in Working => sess[e] # sess[c]
        BY <1>10, WorksAlone DEF OpenFails
    <2>2. state[sess[c]] = "opening"
        BY <1>10 DEF OpenFails
    <2> QED
        BY <1>10, <2>1, <2>2 DEF OpenFails, Return, Returned
<1>11. ASSUME NEW c \in Callers, Connect(c) PROVE Requesting'
    <2>1. \A e \in Callers : e # c /\ pc[e] \in Working => sess[e] # sess[c]
        BY <1>11, WorksAlone DEF Connect
    <2>2. state[sess[c]] = "opening"
        BY <1>11 DEF Connect
    <2>3. /\ got' = [got EXCEPT ![sess[c]] = reg]
          /\ \A d \in Slots : bk'[sess[c]][d] = IF d \in Attach THEN "dial" ELSE "none"
          /\ \A d \in Slots : bk[sess[c]][d] = "none" /\ d \notin alive[sess[c]]
          /\ Attach' = Attach /\ Attach \subseteq Slots
        BY <1>11, ConnectGives
    <2> QED
        BY <1>11, <2>1, <2>2, <2>3 DEF Connect
<1>12. ASSUME NEW c \in Callers, Ready(c) PROVE Requesting'
    <2>1. \A e \in Callers : e # c /\ pc[e] \in Working => sess[e] # sess[c]
        BY <1>12, WorksAlone DEF Ready
    <2>2. state[sess[c]] = "opening"
        BY <1>12 DEF Ready
    <2>3. /\ got[sess[c]] = reg /\ Started(sess[c]) = Attach
          /\ broken[sess[c]] = {}
        BY <1>12, ReadyHas
    <2> QED
        BY <1>12, <2>1, <2>2, <2>3 DEF Ready, Return, Returned
<1>13. ASSUME NEW c \in Callers, GiveUp(c) PROVE Requesting'
    <2>1. \A e \in Callers : e # c /\ pc[e] \in Working => sess[e] # sess[c]
        BY <1>13, WorksAlone DEF GiveUp
    <2>2. state[sess[c]] = "opening"
        BY <1>13 DEF GiveUp
    <2> QED
        BY <1>13, <2>1, <2>2 DEF GiveUp, Return, Returned
<1>14. ASSUME NEW c \in Callers, NEW s \in Sessions, NEW r \in Requests, NEW d \in Slots,
              Do(c, s, r, d)
       PROVE  Requesting'
    BY <1>14 DEF Do, Choose, Slots
<1>15. ASSUME NEW c \in Callers, Solved(c) PROVE Requesting'
    BY <1>15 DEF Solved, DoReturns, Returned
<1>16. ASSUME NEW c \in Callers, SolveFails(c) PROVE Requesting'
    BY <1>16 DEF SolveFails, DoReturns, Returned
<1>17. ASSUME NEW c \in Callers, OnError(c) PROVE Requesting'
    BY <1>17 DEF OnError
<1>18. ASSUME NEW c \in Callers, Handled(c) PROVE Requesting'
    BY <1>18 DEF Handled, DoReturns, Returned
<1>19. ASSUME NEW c \in Callers, NEW s \in Sessions, Release(c, s)
       PROVE  Requesting'
    BY <1>19 DEF Release
<1>20. ASSUME NEW c \in Callers, NEW d \in Slots, Close(c, d)
       PROVE  Requesting'
    BY <1>20 DEF Close, Becomes
<1>21. ASSUME NEW c \in Callers, CloseLoopEnds(c) PROVE Requesting'
    <2>1. \A e \in Callers : e # c /\ pc[e] \in Working => sess[e] # sess[c]
        BY <1>21, WorksAlone DEF CloseLoopEnds
    <2>2. state[sess[c]] = "releasing"
        BY <1>21 DEF CloseLoopEnds
    <2> QED
        BY <1>21, <2>1, <2>2 DEF CloseLoopEnds, Returned
<1>22. ASSUME NEW s \in Sessions, NEW d \in Slots, Dial(s, d)
       PROVE  Requesting'
    BY <1>22 DEF Dial, Becomes
<1>23. ASSUME NEW s \in Sessions, NEW d \in Slots, Ends(s, d)
       PROVE  Requesting'
    BY <1>23 DEF Ends, Becomes
<1>24. ASSUME NEW c \in Callers, Check(c) PROVE Requesting'
    <2>1. \A e \in Callers : e # c /\ pc[e] \in Working => sess[e] # sess[c]
        BY <1>24, WorksAlone DEF Check
    <2>2. state[sess[c]] = "opening"
        BY <1>24 DEF Check, Work
    <2>3. CASE err
        <3>1. /\ state' = [state EXCEPT ![sess[c]] = "failed"] /\ Returned(c)
            BY <1>24, <2>3 DEF Check
        <3> QED
            BY <1>24, <2>1, <2>2, <3>1 DEF Check, Returned
    <2>4. CASE ~err
        <3>1. pc' = [pc EXCEPT ![c] = "lock"] /\ UNCHANGED <<callVars, state>>
            BY <1>24, <2>4 DEF Check
        <3> QED
            BY <1>24, <2>1, <2>2, <2>4, <3>1 DEF Check
    <2> QED
        BY <2>3, <2>4
<1> HIDE DEF Opening, Inv, TypeOK, Requesting, Opened, Started, Attach, Work, Working
<1> QED
    BY <1>1, <1>2, <1>3, <1>4, <1>5, <1>6, <1>7, <1>8, <1>9, <1>10, <1>11,
       <1>12, <1>13, <1>14, <1>15, <1>16, <1>17, <1>18, <1>19, <1>20, <1>21,
       <1>22, <1>23, <1>24 DEF Next, Calls, Steps, vars, CallFails, Cancel, FirstRead

LEMMA StepStanding ==
    ASSUME SolverAssumption, Inv, TypeOK', [Next]_vars
    PROVE  Standing'
<1> USE DEF solverVars, callVars, sessVars, pastVars, Goto, Opening, Inv,
    TypeOK, Standing, Opened, Work, Working, Early, ErrSet
<1>1. CASE UNCHANGED <<state, got, bk, alive, before, broken, failed, reg>>
    BY <1>1
<1>2. ASSUME NEW c \in Callers, Add(c) PROVE Standing'
    <2>1. item[c] \in reg' /\ \A j \in reg : j \in reg' \/ Entry[j] = Entry[item[c]]
        BY <1>2 DEF Add, With
    <2>2. \A s \in Sessions : \A i \in before[s] : \E j \in reg' : Entry[j] = Entry[i]
        BY <2>1
    <2> QED
        BY <1>2, <2>2 DEF Add
<1>3. ASSUME NEW c \in Callers, NEW s \in Sessions, Open(c, s) PROVE Standing'
    <2>1. \A e \in Callers :
              pc[e] \in Working \cup {"solve", "handler", "panic"} => sess[e] # s
        BY <1>3, OpenAlone
    <2> QED
        BY <1>3, <2>1 DEF Open
<1>4. ASSUME NEW c \in Callers, Mounts(c) PROVE Standing'
    <2>1. \A e \in Callers : e # c /\ pc[e] \in Working => sess[e] # sess[c]
        BY <1>4, WorksAlone DEF Mounts, Collect
    <2>2. state[sess[c]] = "opening"
        BY <1>4 DEF Mounts, Collect
    <2> QED
        BY <1>4, <2>1, <2>2 DEF Mounts, Collect
<1>5. ASSUME NEW c \in Callers, AttachSecrets(c) PROVE Standing'
    <2>1. \A e \in Callers : e # c /\ pc[e] \in Working => sess[e] # sess[c]
        BY <1>5, WorksAlone DEF AttachSecrets, Collect
    <2>2. state[sess[c]] = "opening"
        BY <1>5 DEF AttachSecrets, Collect
    <2> QED
        BY <1>5, <2>1, <2>2 DEF AttachSecrets, Collect
<1>6. ASSUME NEW c \in Callers, AttachAgents(c) PROVE Standing'
    <2>1. \A e \in Callers : e # c /\ pc[e] \in Working => sess[e] # sess[c]
        BY <1>6, WorksAlone DEF AttachAgents, Collect
    <2>2. state[sess[c]] = "opening"
        BY <1>6 DEF AttachAgents, Collect
    <2> QED
        BY <1>6, <2>1, <2>2 DEF AttachAgents, Collect
<1>7. ASSUME NEW c \in Callers, OpenFails(c) PROVE Standing'
    <2>1. \A e \in Callers : e # c /\ pc[e] \in Working => sess[e] # sess[c]
        BY <1>7, WorksAlone DEF OpenFails
    <2>2. state[sess[c]] = "opening"
        BY <1>7 DEF OpenFails
    <2> QED
        BY <1>7, <2>1, <2>2 DEF OpenFails, Return, Returned
<1>8. ASSUME NEW c \in Callers, Connect(c) PROVE Standing'
    <2>1. \A e \in Callers : e # c /\ pc[e] \in Working => sess[e] # sess[c]
        BY <1>8, WorksAlone DEF Connect
    <2>2. state[sess[c]] = "opening"
        BY <1>8 DEF Connect
    <2>3. /\ got' = [got EXCEPT ![sess[c]] = reg]
          /\ \A d \in Slots : bk'[sess[c]][d] = IF d \in Attach THEN "dial" ELSE "none"
          /\ \A d \in Slots : bk[sess[c]][d] = "none" /\ d \notin alive[sess[c]]
          /\ Attach' = Attach /\ Attach \subseteq Slots
        BY <1>8, ConnectGives
    <2> QED
        BY <1>8, <2>1, <2>2, <2>3 DEF Connect
<1>9. ASSUME NEW c \in Callers, Ready(c) PROVE Standing'
    <2>1. \A e \in Callers : e # c /\ pc[e] \in Working => sess[e] # sess[c]
        BY <1>9, WorksAlone DEF Ready
    <2>2. state[sess[c]] = "opening"
        BY <1>9 DEF Ready
    <2>3. /\ got[sess[c]] = reg /\ Started(sess[c]) = Attach
          /\ broken[sess[c]] = {}
        BY <1>9, ReadyHas
    <2>4. \A d \in Slots : bk[sess[c]][d] # "dial"
        BY <1>9 DEF Ready, Started
    <2> QED
        BY <1>9, <2>1, <2>2, <2>3, <2>4 DEF Ready, Return, Returned
<1>10. ASSUME NEW c \in Callers, GiveUp(c) PROVE Standing'
    <2>1. \A e \in Callers : e # c /\ pc[e] \in Working => sess[e] # sess[c]
        BY <1>10, WorksAlone DEF GiveUp
    <2>2. state[sess[c]] = "opening"
        BY <1>10 DEF GiveUp
    <2> QED
        BY <1>10, <2>1, <2>2 DEF GiveUp, Return, Returned
<1>11. ASSUME NEW c \in Callers, NEW s \in Sessions, Release(c, s)
       PROVE  Standing'
    BY <1>11 DEF Release
<1>12. ASSUME NEW c \in Callers, NEW d \in Slots, Close(c, d) PROVE Standing'
    BY <1>12 DEF Close, Becomes
<1>13. ASSUME NEW c \in Callers, CloseLoopEnds(c) PROVE Standing'
    <2>1. \A e \in Callers : e # c /\ pc[e] \in Working => sess[e] # sess[c]
        BY <1>13, WorksAlone DEF CloseLoopEnds
    <2>2. state[sess[c]] = "releasing"
        BY <1>13 DEF CloseLoopEnds
    <2> QED
        BY <1>13, <2>1, <2>2 DEF CloseLoopEnds, Returned
<1>14. ASSUME NEW s \in Sessions, NEW d \in Slots, Dial(s, d) PROVE Standing'
    BY <1>14 DEF Dial, Becomes
<1>15. ASSUME NEW s \in Sessions, NEW d \in Slots, FirstRead(s, d)
       PROVE  Standing'
    BY <1>15 DEF FirstRead
<1>16. ASSUME NEW s \in Sessions, NEW d \in Slots, Ends(s, d) PROVE Standing'
    BY <1>16 DEF Ends, Becomes
<1>17. ASSUME NEW c \in Callers, Check(c) PROVE Standing'
    <2>1. \A e \in Callers : e # c /\ pc[e] \in Working => sess[e] # sess[c]
        BY <1>17, WorksAlone DEF Check
    <2>2. state[sess[c]] = "opening"
        BY <1>17 DEF Check, Work
    <2>3. CASE err
        <3>1. /\ state' = [state EXCEPT ![sess[c]] = "failed"] /\ Returned(c)
            BY <1>17, <2>3 DEF Check
        <3> QED
            BY <1>17, <2>1, <2>2, <3>1 DEF Check, Returned
    <2>4. CASE ~err
        <3>1. pc' = [pc EXCEPT ![c] = "lock"] /\ UNCHANGED <<callVars, state>>
            BY <1>17, <2>4 DEF Check
        <3> QED
            BY <1>17, <2>1, <2>2, <2>4, <3>1 DEF Check
    <2> QED
        BY <2>3, <2>4
<1>18. ASSUME NEW c \in Callers, NEW i \in Items, CallFails(c, i) PROVE Standing'
    BY <1>18 DEF CallFails
<1>19. ASSUME NEW c \in Callers, Lock(c) \/ Helpers(c) \/ Solved(c) \/ SolveFails(c)
                                 \/ OnError(c) \/ Handled(c)
       PROVE  UNCHANGED <<state, got, bk, alive, before, broken, failed, reg>>
    BY <1>19 DEF Lock, Helpers, Solved, SolveFails, OnError, Handled, DoReturns
<1>20. ASSUME NEW c \in Callers, NEW i \in Items, Call(c, i)
       PROVE  UNCHANGED <<state, got, bk, alive, before, broken, failed, reg>>
    BY <1>20 DEF Call
<1>21. ASSUME NEW c \in Callers, NEW s \in Sessions, NEW r \in Requests, NEW d \in Slots,
              Do(c, s, r, d)
       PROVE  UNCHANGED <<state, got, bk, alive, before, broken, failed, reg>>
    BY <1>21 DEF Do
<1>22. CASE (\E s \in Sessions : Cancel(s)) \/ UNCHANGED vars
    BY <1>1, <1>22 DEF Cancel, vars
<1> HIDE DEF Opening, Inv, TypeOK, Standing, Opened, Work, Working, Early, ErrSet
<1> QED
    BY <1>1, <1>2, <1>3, <1>4, <1>5, <1>6, <1>7, <1>8, <1>9, <1>10, <1>11,
       <1>12, <1>13, <1>14, <1>15, <1>16, <1>17, <1>18, <1>19, <1>20, <1>21,
       <1>22 DEF Next, Calls, Steps

LEMMA StepErrSet ==
    ASSUME SolverAssumption, Inv, TypeOK', [Next]_vars
    PROVE  ErrSet'
<1> USE DEF solverVars, callVars, sessVars, pastVars, Goto, Opening, Inv,
    TypeOK, ErrSet
<1>1. CASE UNCHANGED <<err, failed>>
    BY <1>1
<1>2. ASSUME NEW c \in Callers, NEW i \in Items, CallFails(c, i) PROVE ErrSet'
    BY <1>2 DEF CallFails
<1>3. ASSUME NEW c \in Callers, NEW i \in Items, Call(c, i) PROVE ErrSet'
    BY <1>1, <1>3 DEF Call
<1>4. ASSUME NEW c \in Callers, Add(c) PROVE ErrSet'
    BY <1>1, <1>4 DEF Add, Returned
<1>5. ASSUME NEW c \in Callers, NEW s \in Sessions, Open(c, s) PROVE ErrSet'
    BY <1>1, <1>5 DEF Open
<1>6. ASSUME NEW c \in Callers, Lock(c) PROVE ErrSet'
    BY <1>1, <1>6 DEF Lock
<1>7. ASSUME NEW c \in Callers, Helpers(c) PROVE ErrSet'
    BY <1>1, <1>7 DEF Helpers
<1>8. ASSUME NEW c \in Callers, Mounts(c) PROVE ErrSet'
    BY <1>1, <1>8 DEF Mounts, Collect
<1>9. ASSUME NEW c \in Callers, AttachSecrets(c) PROVE ErrSet'
    BY <1>1, <1>9 DEF AttachSecrets, Collect
<1>10. ASSUME NEW c \in Callers, AttachAgents(c) PROVE ErrSet'
    BY <1>1, <1>10 DEF AttachAgents, Collect
<1>11. ASSUME NEW c \in Callers, OpenFails(c) PROVE ErrSet'
    BY <1>1, <1>11 DEF OpenFails, Return, Returned
<1>12. ASSUME NEW c \in Callers, Connect(c) PROVE ErrSet'
    BY <1>1, <1>12 DEF Connect
<1>13. ASSUME NEW c \in Callers, Ready(c) PROVE ErrSet'
    BY <1>1, <1>13 DEF Ready, Return, Returned
<1>14. ASSUME NEW c \in Callers, GiveUp(c) PROVE ErrSet'
    BY <1>1, <1>14 DEF GiveUp, Return, Returned
<1>15. ASSUME NEW c \in Callers, NEW s \in Sessions, NEW r \in Requests, NEW d \in Slots,
              Do(c, s, r, d)
       PROVE  ErrSet'
    BY <1>1, <1>15 DEF Do, Choose, Slots
<1>16. ASSUME NEW c \in Callers, Solved(c) PROVE ErrSet'
    BY <1>1, <1>16 DEF Solved, DoReturns, Returned
<1>17. ASSUME NEW c \in Callers, SolveFails(c) PROVE ErrSet'
    BY <1>1, <1>17 DEF SolveFails, DoReturns, Returned
<1>18. ASSUME NEW c \in Callers, OnError(c) PROVE ErrSet'
    BY <1>1, <1>18 DEF OnError
<1>19. ASSUME NEW c \in Callers, Handled(c) PROVE ErrSet'
    BY <1>1, <1>19 DEF Handled, DoReturns, Returned
<1>20. ASSUME NEW c \in Callers, NEW s \in Sessions, Release(c, s)
       PROVE  ErrSet'
    BY <1>1, <1>20 DEF Release
<1>21. ASSUME NEW c \in Callers, NEW d \in Slots, Close(c, d) PROVE ErrSet'
    BY <1>1, <1>21 DEF Close, Becomes
<1>22. ASSUME NEW c \in Callers, CloseLoopEnds(c) PROVE ErrSet'
    BY <1>1, <1>22 DEF CloseLoopEnds, Returned
<1>23. ASSUME NEW s \in Sessions, Cancel(s) PROVE ErrSet'
    BY <1>1, <1>23 DEF Cancel
<1>24. ASSUME NEW s \in Sessions, NEW d \in Slots, Dial(s, d) PROVE ErrSet'
    BY <1>1, <1>24 DEF Dial, Becomes
<1>25. ASSUME NEW s \in Sessions, NEW d \in Slots, FirstRead(s, d)
       PROVE  ErrSet'
    BY <1>1, <1>25 DEF FirstRead
<1>26. ASSUME NEW s \in Sessions, NEW d \in Slots, Ends(s, d) PROVE ErrSet'
    BY <1>1, <1>26 DEF Ends, Becomes
<1>27. CASE UNCHANGED vars
    BY <1>1, <1>27 DEF vars
<1>28. ASSUME NEW c \in Callers, Check(c) PROVE ErrSet'
    BY <1>1, <1>28 DEF Check, Returned
<1> HIDE DEF Opening, Inv, TypeOK, ErrSet
<1> QED
    BY <1>1, <1>2, <1>3, <1>4, <1>5, <1>6, <1>7, <1>8, <1>9, <1>10, <1>11,
       <1>12, <1>13, <1>14, <1>15, <1>16, <1>17, <1>18, <1>19, <1>20, <1>21,
       <1>22, <1>23, <1>24, <1>25, <1>26, <1>27, <1>28 DEF Next, Calls, Steps

LEMMA StepComplete ==
    ASSUME SolverAssumption, Inv, TypeOK', [Next]_vars
    PROVE  Complete'
<1> USE DEF solverVars, callVars, sessVars, pastVars, Goto, Opening, Inv,
    TypeOK, Complete, Opened, Started, Attach, Work, Standing, Working
<1>1. CASE UNCHANGED <<state, got, bk, before>>
    BY <1>1
<1>2. ASSUME NEW c \in Callers, NEW s \in Sessions, Open(c, s) PROVE Complete'
    BY <1>2 DEF Open
<1>3. ASSUME NEW c \in Callers, Mounts(c) PROVE Complete'
    <2>1. \A e \in Callers : e # c /\ pc[e] \in Working => sess[e] # sess[c]
        BY <1>3, WorksAlone DEF Mounts, Collect
    <2>2. state[sess[c]] = "opening"
        BY <1>3 DEF Mounts, Collect
    <2> QED
        BY <1>3, <2>1, <2>2 DEF Mounts, Collect
<1>4. ASSUME NEW c \in Callers, AttachSecrets(c) PROVE Complete'
    <2>1. \A e \in Callers : e # c /\ pc[e] \in Working => sess[e] # sess[c]
        BY <1>4, WorksAlone DEF AttachSecrets, Collect
    <2>2. state[sess[c]] = "opening"
        BY <1>4 DEF AttachSecrets, Collect
    <2> QED
        BY <1>4, <2>1, <2>2 DEF AttachSecrets, Collect
<1>5. ASSUME NEW c \in Callers, AttachAgents(c) PROVE Complete'
    <2>1. \A e \in Callers : e # c /\ pc[e] \in Working => sess[e] # sess[c]
        BY <1>5, WorksAlone DEF AttachAgents, Collect
    <2>2. state[sess[c]] = "opening"
        BY <1>5 DEF AttachAgents, Collect
    <2> QED
        BY <1>5, <2>1, <2>2 DEF AttachAgents, Collect
<1>6. ASSUME NEW c \in Callers, OpenFails(c) PROVE Complete'
    <2>1. \A e \in Callers : e # c /\ pc[e] \in Working => sess[e] # sess[c]
        BY <1>6, WorksAlone DEF OpenFails
    <2>2. state[sess[c]] = "opening"
        BY <1>6 DEF OpenFails
    <2> QED
        BY <1>6, <2>1, <2>2 DEF OpenFails, Return, Returned
<1>7. ASSUME NEW c \in Callers, Connect(c) PROVE Complete'
    <2>1. \A e \in Callers : e # c /\ pc[e] \in Working => sess[e] # sess[c]
        BY <1>7, WorksAlone DEF Connect
    <2>2. state[sess[c]] = "opening"
        BY <1>7 DEF Connect
    <2>3. /\ got' = [got EXCEPT ![sess[c]] = reg]
          /\ \A d \in Slots : bk'[sess[c]][d] = IF d \in Attach THEN "dial" ELSE "none"
          /\ \A d \in Slots : bk[sess[c]][d] = "none" /\ d \notin alive[sess[c]]
          /\ Attach' = Attach /\ Attach \subseteq Slots
        BY <1>7, ConnectGives
    <2> QED
        BY <1>7, <2>1, <2>2, <2>3 DEF Connect
<1>8. ASSUME NEW c \in Callers, Ready(c) PROVE Complete'
    <2>1. \A e \in Callers : e # c /\ pc[e] \in Working => sess[e] # sess[c]
        BY <1>8, WorksAlone DEF Ready
    <2>2. state[sess[c]] = "opening"
        BY <1>8 DEF Ready
    <2>3. /\ got[sess[c]] = reg /\ Started(sess[c]) = Attach
          /\ broken[sess[c]] = {}
        BY <1>8, ReadyHas
    <2> QED
        BY <1>8, <2>1, <2>2, <2>3 DEF Ready, Return, Returned
<1>9. ASSUME NEW c \in Callers, GiveUp(c) PROVE Complete'
    <2>1. \A e \in Callers : e # c /\ pc[e] \in Working => sess[e] # sess[c]
        BY <1>9, WorksAlone DEF GiveUp
    <2>2. state[sess[c]] = "opening"
        BY <1>9 DEF GiveUp
    <2> QED
        BY <1>9, <2>1, <2>2 DEF GiveUp, Return, Returned
<1>10. ASSUME NEW c \in Callers, NEW s \in Sessions, Release(c, s)
       PROVE  Complete'
    BY <1>10 DEF Release
<1>11. ASSUME NEW c \in Callers, NEW d \in Slots, Close(c, d) PROVE Complete'
    BY <1>11 DEF Close, Becomes
<1>12. ASSUME NEW c \in Callers, CloseLoopEnds(c) PROVE Complete'
    <2>1. \A e \in Callers : e # c /\ pc[e] \in Working => sess[e] # sess[c]
        BY <1>12, WorksAlone DEF CloseLoopEnds
    <2>2. state[sess[c]] = "releasing"
        BY <1>12 DEF CloseLoopEnds
    <2> QED
        BY <1>12, <2>1, <2>2 DEF CloseLoopEnds, Returned
<1>13. ASSUME NEW s \in Sessions, NEW d \in Slots, Dial(s, d) PROVE Complete'
    BY <1>13 DEF Dial, Becomes
<1>14. ASSUME NEW s \in Sessions, NEW d \in Slots, Ends(s, d) PROVE Complete'
    BY <1>14 DEF Ends, Becomes
<1>15. ASSUME NEW c \in Callers, Check(c) PROVE Complete'
    <2>1. \A e \in Callers : e # c /\ pc[e] \in Working => sess[e] # sess[c]
        BY <1>15, WorksAlone DEF Check
    <2>2. state[sess[c]] = "opening"
        BY <1>15 DEF Check, Work
    <2>3. CASE err
        <3>1. /\ state' = [state EXCEPT ![sess[c]] = "failed"] /\ Returned(c)
            BY <1>15, <2>3 DEF Check
        <3> QED
            BY <1>15, <2>1, <2>2, <3>1 DEF Check, Returned
    <2>4. CASE ~err
        <3>1. pc' = [pc EXCEPT ![c] = "lock"] /\ UNCHANGED <<callVars, state>>
            BY <1>15, <2>4 DEF Check
        <3> QED
            BY <1>15, <2>1, <2>2, <2>4, <3>1 DEF Check
    <2> QED
        BY <2>3, <2>4
<1> HIDE DEF Opening, Inv, TypeOK, Complete, Opened, Started, Attach, Work, Standing,
    Working
<1> QED
    BY SMTT(60), <1>1, <1>2, <1>3, <1>4, <1>5, <1>6, <1>7, <1>8, <1>9, <1>10,
       <1>11, <1>12, <1>13, <1>14, <1>15
    DEF Next, Calls, Steps, vars, Call, CallFails, Add, Returned, Lock, Helpers,
       Do, Choose, Slots, Solved, DoReturns, SolveFails, OnError, Handled,
       Cancel, FirstRead

LEMMA StepNoFailed ==
    ASSUME SolverAssumption, Inv, TypeOK', [Next]_vars
    PROVE  NoFailed'
<1> USE DEF solverVars, callVars, sessVars, pastVars, Goto, Opening, Inv,
    TypeOK, NoFailed, Opened, Work, Working, Standing
<1>1. CASE UNCHANGED <<state, broken>>
    BY <1>1
<1>2. ASSUME NEW c \in Callers, NEW s \in Sessions, Open(c, s) PROVE NoFailed'
    BY <1>2 DEF Open
<1>3. ASSUME NEW c \in Callers, OpenFails(c) PROVE NoFailed'
    <2>1. \A e \in Callers : e # c /\ pc[e] \in Working => sess[e] # sess[c]
        BY <1>3, WorksAlone DEF OpenFails
    <2>2. state[sess[c]] = "opening"
        BY <1>3 DEF OpenFails
    <2> QED
        BY <1>3, <2>1, <2>2 DEF OpenFails, Return, Returned
<1>4. ASSUME NEW c \in Callers, Ready(c) PROVE NoFailed'
    <2>1. \A e \in Callers : e # c /\ pc[e] \in Working => sess[e] # sess[c]
        BY <1>4, WorksAlone DEF Ready
    <2>2. state[sess[c]] = "opening"
        BY <1>4 DEF Ready
    <2>3. /\ got[sess[c]] = reg /\ Started(sess[c]) = Attach
          /\ broken[sess[c]] = {}
        BY <1>4, ReadyHas
    <2> QED
        BY <1>4, <2>1, <2>2, <2>3 DEF Ready, Return, Returned
<1>5. ASSUME NEW c \in Callers, GiveUp(c) PROVE NoFailed'
    <2>1. \A e \in Callers : e # c /\ pc[e] \in Working => sess[e] # sess[c]
        BY <1>5, WorksAlone DEF GiveUp
    <2>2. state[sess[c]] = "opening"
        BY <1>5 DEF GiveUp
    <2> QED
        BY <1>5, <2>1, <2>2 DEF GiveUp, Return, Returned
<1>6. ASSUME NEW c \in Callers, NEW s \in Sessions, Release(c, s)
      PROVE  NoFailed'
    BY <1>6 DEF Release
<1>7. ASSUME NEW c \in Callers, CloseLoopEnds(c) PROVE NoFailed'
    <2>1. \A e \in Callers : e # c /\ pc[e] \in Working => sess[e] # sess[c]
        BY <1>7, WorksAlone DEF CloseLoopEnds
    <2>2. state[sess[c]] = "releasing"
        BY <1>7 DEF CloseLoopEnds
    <2> QED
        BY <1>7, <2>1, <2>2 DEF CloseLoopEnds, Returned
<1>8. ASSUME NEW c \in Callers, NEW i \in Items, Call(c, i) PROVE NoFailed'
    BY <1>1, <1>8 DEF Call
<1>9. ASSUME NEW c \in Callers, NEW i \in Items, CallFails(c, i)
      PROVE  NoFailed'
    BY <1>1, <1>9 DEF CallFails
<1>10. ASSUME NEW c \in Callers, Add(c) PROVE NoFailed'
    BY <1>1, <1>10 DEF Add, Returned
<1>11. ASSUME NEW c \in Callers, Lock(c) PROVE NoFailed'
    BY <1>1, <1>11 DEF Lock
<1>12. ASSUME NEW c \in Callers, Helpers(c) PROVE NoFailed'
    BY <1>1, <1>12 DEF Helpers
<1>13. ASSUME NEW c \in Callers, Mounts(c) PROVE NoFailed'
    BY <1>1, <1>13 DEF Mounts, Collect
<1>14. ASSUME NEW c \in Callers, AttachSecrets(c) PROVE NoFailed'
    BY <1>1, <1>14 DEF AttachSecrets, Collect
<1>15. ASSUME NEW c \in Callers, AttachAgents(c) PROVE NoFailed'
    BY <1>1, <1>15 DEF AttachAgents, Collect
<1>16. ASSUME NEW c \in Callers, Connect(c) PROVE NoFailed'
    BY <1>1, <1>16 DEF Connect
<1>17. ASSUME NEW c \in Callers, NEW s \in Sessions, NEW r \in Requests, NEW d \in Slots,
              Do(c, s, r, d)
       PROVE  NoFailed'
    BY <1>1, <1>17 DEF Do, Choose, Slots
<1>18. ASSUME NEW c \in Callers, Solved(c) PROVE NoFailed'
    BY <1>1, <1>18 DEF Solved, DoReturns, Returned
<1>19. ASSUME NEW c \in Callers, SolveFails(c) PROVE NoFailed'
    BY <1>1, <1>19 DEF SolveFails, DoReturns, Returned
<1>20. ASSUME NEW c \in Callers, OnError(c) PROVE NoFailed'
    BY <1>1, <1>20 DEF OnError
<1>21. ASSUME NEW c \in Callers, Handled(c) PROVE NoFailed'
    BY <1>1, <1>21 DEF Handled, DoReturns, Returned
<1>22. ASSUME NEW c \in Callers, NEW d \in Slots, Close(c, d) PROVE NoFailed'
    BY <1>1, <1>22 DEF Close, Becomes
<1>23. ASSUME NEW s \in Sessions, Cancel(s) PROVE NoFailed'
    BY <1>1, <1>23 DEF Cancel
<1>24. ASSUME NEW s \in Sessions, NEW d \in Slots, Dial(s, d) PROVE NoFailed'
    BY <1>1, <1>24 DEF Dial, Becomes
<1>25. ASSUME NEW s \in Sessions, NEW d \in Slots, FirstRead(s, d)
       PROVE  NoFailed'
    BY <1>1, <1>25 DEF FirstRead
<1>26. ASSUME NEW s \in Sessions, NEW d \in Slots, Ends(s, d) PROVE NoFailed'
    BY <1>1, <1>26 DEF Ends, Becomes
<1>27. CASE UNCHANGED vars
    BY <1>1, <1>27 DEF vars
<1>28. ASSUME NEW c \in Callers, Check(c) PROVE NoFailed'
    <2>1. \A e \in Callers : e # c /\ pc[e] \in Working => sess[e] # sess[c]
        BY <1>28, WorksAlone DEF Check
    <2>2. state[sess[c]] = "opening"
        BY <1>28 DEF Check, Work
    <2>3. CASE err
        <3>1. /\ state' = [state EXCEPT ![sess[c]] = "failed"] /\ Returned(c)
            BY <1>28, <2>3 DEF Check
        <3> QED
            BY <1>28, <2>1, <2>2, <3>1 DEF Check, Returned
    <2>4. CASE ~err
        <3>1. pc' = [pc EXCEPT ![c] = "lock"] /\ UNCHANGED <<callVars, state>>
            BY <1>28, <2>4 DEF Check
        <3> QED
            BY <1>28, <2>1, <2>2, <2>4, <3>1 DEF Check
    <2> QED
        BY <2>3, <2>4
<1> HIDE DEF Opening, Inv, TypeOK, NoFailed, Opened, Work, Working, Standing
<1> QED
    BY <1>1, <1>2, <1>3, <1>4, <1>5, <1>6, <1>7, <1>8, <1>9, <1>10, <1>11,
       <1>12, <1>13, <1>14, <1>15, <1>16, <1>17, <1>18, <1>19, <1>20, <1>21,
       <1>22, <1>23, <1>24, <1>25, <1>26, <1>27, <1>28 DEF Next, Calls, Steps

LEMMA StepReleaseCloses ==
    ASSUME SolverAssumption, Inv, TypeOK', [Next]_vars
    PROVE  ReleaseCloses'
<1> USE DEF solverVars, callVars, sessVars, pastVars, Goto, Opening, Inv,
    TypeOK, ReleaseCloses, Opened, Work, Working, Standing
<1>1. CASE UNCHANGED <<state, bk>>
    BY <1>1
<1>2. ASSUME NEW c \in Callers, NEW s \in Sessions, Open(c, s)
      PROVE  ReleaseCloses'
    BY <1>2 DEF Open
<1>3. ASSUME NEW c \in Callers, OpenFails(c) PROVE ReleaseCloses'
    <2>1. \A e \in Callers : e # c /\ pc[e] \in Working => sess[e] # sess[c]
        BY <1>3, WorksAlone DEF OpenFails
    <2>2. state[sess[c]] = "opening"
        BY <1>3 DEF OpenFails
    <2> QED
        BY <1>3, <2>1, <2>2 DEF OpenFails, Return, Returned
<1>4. ASSUME NEW c \in Callers, Connect(c) PROVE ReleaseCloses'
    <2>1. \A e \in Callers : e # c /\ pc[e] \in Working => sess[e] # sess[c]
        BY <1>4, WorksAlone DEF Connect
    <2>2. state[sess[c]] = "opening"
        BY <1>4 DEF Connect
    <2>3. /\ got' = [got EXCEPT ![sess[c]] = reg]
          /\ \A d \in Slots : bk'[sess[c]][d] = IF d \in Attach THEN "dial" ELSE "none"
          /\ \A d \in Slots : bk[sess[c]][d] = "none" /\ d \notin alive[sess[c]]
          /\ Attach' = Attach /\ Attach \subseteq Slots
        BY <1>4, ConnectGives
    <2> QED
        BY <1>4, <2>1, <2>2, <2>3 DEF Connect
<1>5. ASSUME NEW c \in Callers, Ready(c) PROVE ReleaseCloses'
    <2>1. \A e \in Callers : e # c /\ pc[e] \in Working => sess[e] # sess[c]
        BY <1>5, WorksAlone DEF Ready
    <2>2. state[sess[c]] = "opening"
        BY <1>5 DEF Ready
    <2>3. /\ got[sess[c]] = reg /\ Started(sess[c]) = Attach
          /\ broken[sess[c]] = {}
        BY <1>5, ReadyHas
    <2> QED
        BY <1>5, <2>1, <2>2, <2>3 DEF Ready, Return, Returned
<1>6. ASSUME NEW c \in Callers, GiveUp(c) PROVE ReleaseCloses'
    <2>1. \A e \in Callers : e # c /\ pc[e] \in Working => sess[e] # sess[c]
        BY <1>6, WorksAlone DEF GiveUp
    <2>2. state[sess[c]] = "opening"
        BY <1>6 DEF GiveUp
    <2> QED
        BY <1>6, <2>1, <2>2 DEF GiveUp, Return, Returned
<1>7. ASSUME NEW c \in Callers, NEW s \in Sessions, Release(c, s)
      PROVE  ReleaseCloses'
    BY <1>7 DEF Release
<1>8. ASSUME NEW c \in Callers, NEW d \in Slots, Close(c, d)
      PROVE  ReleaseCloses'
    BY <1>8 DEF Close, Becomes
<1>9. ASSUME NEW c \in Callers, CloseLoopEnds(c) PROVE ReleaseCloses'
    <2>1. \A e \in Callers : e # c /\ pc[e] \in Working => sess[e] # sess[c]
        BY <1>9, WorksAlone DEF CloseLoopEnds
    <2>2. state[sess[c]] = "releasing"
        BY <1>9 DEF CloseLoopEnds
    <2> QED
        BY <1>9, <2>1, <2>2 DEF CloseLoopEnds, Returned
<1>10. ASSUME NEW s \in Sessions, NEW d \in Slots, Dial(s, d)
       PROVE  ReleaseCloses'
    BY <1>10 DEF Dial, Becomes
<1>11. ASSUME NEW s \in Sessions, NEW d \in Slots, Ends(s, d)
       PROVE  ReleaseCloses'
    BY <1>11 DEF Ends, Becomes
<1>12. ASSUME NEW c \in Callers, Check(c) PROVE ReleaseCloses'
    <2>1. \A e \in Callers : e # c /\ pc[e] \in Working => sess[e] # sess[c]
        BY <1>12, WorksAlone DEF Check
    <2>2. state[sess[c]] = "opening"
        BY <1>12 DEF Check, Work
    <2>3. CASE err
        <3>1. /\ state' = [state EXCEPT ![sess[c]] = "failed"] /\ Returned(c)
            BY <1>12, <2>3 DEF Check
        <3> QED
            BY <1>12, <2>1, <2>2, <3>1 DEF Check, Returned
    <2>4. CASE ~err
        <3>1. pc' = [pc EXCEPT ![c] = "lock"] /\ UNCHANGED <<callVars, state>>
            BY <1>12, <2>4 DEF Check
        <3> QED
            BY <1>12, <2>1, <2>2, <2>4, <3>1 DEF Check
    <2> QED
        BY <2>3, <2>4
<1> HIDE DEF Opening, Inv, TypeOK, ReleaseCloses, Opened, Work, Working, Standing
<1> QED
    BY SMTT(60), <1>1, <1>2, <1>3, <1>4, <1>5, <1>6, <1>7, <1>8, <1>9, <1>10,
       <1>11, <1>12 DEF Next, Calls, Steps, vars, Call, CallFails, Add, Returned, Lock, Helpers,
       Mounts, Collect, AttachSecrets, AttachAgents, Do, Choose, Slots,
       Solved, DoReturns, SolveFails, OnError, Handled, Cancel, FirstRead

LEMMA StepInv ==
    ASSUME SolverAssumption, Inv, [Next]_vars
    PROVE  Inv'
<1>1. TypeOK'
    BY StepType DEF Inv
<1> QED
    BY <1>1, StepMutex, StepAlone, StepWork, StepCollected, StepRequesting, StepStanding,
       StepErrSet, StepComplete, StepNoFailed, StepReleaseCloses DEF Inv

LEMMA Invariance == ASSUME SolverAssumption PROVE Spec => []Inv
<1>1. Init => Inv
    BY InitInv
<1>2. Inv /\ [Next]_vars => Inv'
    BY StepInv
<1> QED
    BY <1>1, <1>2, PTL DEF Spec

-----------------------------------------------------------------------------
\* The values of all variables stay in their types, and no item is both
\* registered and failed.
THEOREM TypeCorrect == ASSUME SolverAssumption PROVE Spec => []TypeOK
<1>1. Inv => TypeOK
    BY DEF Inv
<1> QED
    BY <1>1, Invariance, PTL

\* A session has all that was registered before NewSession was called, or what
\* took its place since, and a BuildKit session for each of its downloads.
THEOREM SessionsComplete == ASSUME SolverAssumption PROVE Spec => []Complete
<1>1. Inv => Complete
    BY DEF Inv
<1> QED
    BY <1>1, Invariance, PTL

\* A NewSession that is called after a registering call has failed returns no
\* session; one that was called before may.
THEOREM NoSessionAfterFailure == ASSUME SolverAssumption PROVE Spec => []NoFailed
<1>1. Inv => NoFailed
    BY DEF Inv
<1> QED
    BY <1>1, Invariance, PTL

\* A download that was built before the session is solved through its own
\* BuildKit session.
THEOREM DownloadsUseTheirSession == ASSUME SolverAssumption PROVE Spec => []OwnSession
<1>1. ASSUME Inv PROVE OwnSession
    <2>1. \A c \in Callers : pc[c] = "panic" => item[c] \notin got[sess[c]]
        BY <1>1 DEF Inv, Requesting, Complete, TypeOK, Slots
    <2>2. \A c \in Callers : pc[c] = "panic" => item[c] \notin before[sess[c]]
        <3> SUFFICES ASSUME NEW c \in Callers, pc[c] = "panic", item[c] \in before[sess[c]]
                     PROVE  FALSE
            OBVIOUS
        <3>1. /\ item[c] \in Downloads /\ Opened(sess[c])
              /\ sess[c] \in Sessions /\ got[sess[c]] \subseteq Items
            BY <1>1 DEF Inv, Requesting, TypeOK
        <3>2. PICK j \in got[sess[c]] : Entry[j] = Entry[item[c]]
            BY <1>1, <3>1 DEF Inv, Complete
        <3>3. j = item[c]
            BY <3>1, <3>2 DEF SolverAssumption, Items
        <3> QED
            BY <2>1, <3>2, <3>3
    <2> QED
        BY <1>1, <2>2 DEF Inv, OwnSession, Requesting
<1> QED
    BY <1>1, Invariance, PTL

\* Release leaves no BuildKit session running.
THEOREM ReleaseClosesAll == ASSUME SolverAssumption PROVE Spec => []ReleaseCloses
<1>1. Inv => ReleaseCloses
    BY DEF Inv
<1> QED
    BY <1>1, Invariance, PTL

-----------------------------------------------------------------------------
(* The solver implements SolverRegistry: Add registers, Connect gives a    *)
(* session its snapshot, and everything else stutters.                     *)

Snapshot == [s \in Sessions |-> IF Started(s) = {} THEN {Items} ELSE got[s]]

\* A step that registers nothing and gives nothing to a session that has its
\* BuildKit sessions stutters.
LEMMA Stutter ==
    ASSUME reg' = reg,
           \A s \in Sessions : \/ Started(s) = {} /\ Started(s)' = {}
                               \/ Started(s) # {} /\ Started(s)' # {} /\ got'[s] = got[s]
    PROVE  UNCHANGED Abstract!vars
<1>1. Snapshot' = Snapshot
    BY DEF Snapshot
<1> QED
    BY <1>1 DEF Abstract!vars, Snapshot

LEMMA StepAbstract ==
    ASSUME SolverAssumption, Inv, [Next]_vars
    PROVE  [Abstract!Next]_(Abstract!vars)
<1> USE DEF solverVars, callVars, sessVars, pastVars
<1>0. TypeOK
    BY DEF Inv
<1>1. CASE UNCHANGED <<reg, got, bk>>
    BY <1>1, Stutter DEF Started
<1>2. ASSUME NEW c \in Callers, Add(c)
      PROVE  [Abstract!Next]_(Abstract!vars)
    <2>1. item[c] \in Items /\ reg' = {j \in reg : Entry[j] # Entry[item[c]]} \cup {item[c]}
        BY <1>0, <1>2, AddAlone DEF Add, With, TypeOK, PhaseOK
    <2>2. Snapshot' = Snapshot
        BY <1>2 DEF Add, Snapshot, Started
    <2>3. Abstract!Register(item[c])
        BY <2>1, <2>2 DEF Abstract!Register, Snapshot
    <2> QED
        BY <2>1, <2>3 DEF Abstract!Next
<1>3. ASSUME NEW c \in Callers, Mounts(c) \/ AttachSecrets(c) \/ AttachAgents(c)
      PROVE  [Abstract!Next]_(Abstract!vars)
    <2>1. reg' = reg /\ bk' = bk /\ \A s \in Sessions : s # sess[c] => got'[s] = got[s]
        BY <1>0, <1>3 DEF Mounts, AttachSecrets, AttachAgents, Collect, TypeOK
    <2>2. Started(sess[c]) = {}
        BY <1>3 DEF Mounts, AttachSecrets, AttachAgents, Collect, Inv, Work, Early,
           Opening, Started
    <2> QED
        BY <2>1, <2>2, Stutter DEF Started
<1>4. ASSUME NEW c \in Callers, Connect(c)
      PROVE  [Abstract!Next]_(Abstract!vars)
    <2>1. PICK s \in Sessions : s = sess[c]
        BY <1>0 DEF TypeOK
    <2>2. /\ got' = [got EXCEPT ![s] = reg] /\ Attach # {} /\ Attach \subseteq Slots
          /\ \A d \in Slots : bk'[s][d] = IF d \in Attach THEN "dial" ELSE "none"
          /\ \A d \in Slots : bk[s][d] = "none"
        BY <1>4, <2>1, ConnectGives DEF Attach
    <2>3. Started(s) = {} /\ Started(s)' # {}
        BY <2>2 DEF Started
    <2>4. \A r \in Sessions : r # s => Started(r)' = Started(r) /\ got'[r] = got[r]
        BY <1>0, <1>4, <2>1, <2>2 DEF Started, Connect, TypeOK
    <2>5. Snapshot[s] = {Items} /\ Snapshot' = [Snapshot EXCEPT ![s] = reg]
        <3>1. got'[s] = reg
            BY <1>0, <2>2 DEF TypeOK
        <3>2. \A r \in Sessions : Snapshot'[r] = IF r = s THEN reg ELSE Snapshot[r]
            BY <2>3, <2>4, <3>1 DEF Snapshot
        <3> QED
            BY <2>3, <3>2 DEF Snapshot
    <2>6. Abstract!Open(s)
        BY <1>4, <2>5 DEF Connect, Abstract!Open, Abstract!Nothing, Snapshot
    <2> QED
        BY <2>6 DEF Abstract!Next
<1>5. ASSUME NEW s \in Sessions, NEW d \in Slots, bk[s][d] # "none",
             NEW st \in {"up", "ended"}, bk' = [bk EXCEPT ![s][d] = st],
             reg' = reg, got' = got
      PROVE  [Abstract!Next]_(Abstract!vars)
    <2>1. \A r \in Sessions, e \in Slots : bk'[r][e] = "none" <=> bk[r][e] = "none"
        BY <1>0, <1>5 DEF TypeOK
    <2> QED
        BY <1>5, <2>1, Stutter DEF Started
<1>6. ASSUME NEW c \in Callers, NEW d \in Slots, Close(c, d)
      PROVE  [Abstract!Next]_(Abstract!vars)
    <2>1. sess[c] \in Sessions
        BY <1>0 DEF TypeOK
    <2> QED
        BY <1>5, <1>6, <2>1 DEF Close, Becomes
<1>7. ASSUME NEW s \in Sessions, NEW d \in Slots, Dial(s, d) \/ Ends(s, d)
      PROVE  [Abstract!Next]_(Abstract!vars)
    BY <1>5, <1>7 DEF Dial, Ends, Becomes
<1>8. ASSUME NEW c \in Callers, Calls(c) \/ Lock(c)
      PROVE  UNCHANGED <<reg, got, bk>>
    BY <1>8 DEF Calls, Call, CallFails, Open, Release, Do, Lock
<1>9. ASSUME NEW c \in Callers, Steps(c)
      PROVE  \/ UNCHANGED <<reg, got, bk>>
             \/ Mounts(c) \/ AttachSecrets(c) \/ AttachAgents(c) \/ Connect(c)
             \/ \E d \in Slots : Close(c, d)
    BY <1>9 DEF Steps, Check, Helpers, OpenFails, Ready, GiveUp, Return, Solved, SolveFails,
       OnError, Handled, DoReturns, CloseLoopEnds
<1>10. ASSUME NEW s \in Sessions, Cancel(s) \/ \E d \in Slots : FirstRead(s, d)
       PROVE  UNCHANGED <<reg, got, bk>>
    BY <1>10 DEF Cancel, FirstRead
<1>11. CASE UNCHANGED vars
    BY <1>1, <1>11 DEF vars
<1> QED
    BY <1>1, <1>2, <1>3, <1>4, <1>6, <1>7, <1>8, <1>9, <1>10, <1>11 DEF Next

\* What a session is given is what is registered at one moment.
THEOREM ImplementsRegistry == ASSUME SolverAssumption PROVE Spec => Implements
<1>1. Init => Abstract!Init
    BY DEF Init, Abstract!Init, Abstract!Nothing, Started
<1>2. Inv /\ [Next]_vars => [Abstract!Next]_(Abstract!vars)
    BY StepAbstract
<1> QED
    BY <1>1, <1>2, Invariance, PTL DEF Spec, Implements, Abstract!Spec
=============================================================================
