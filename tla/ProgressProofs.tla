--------------------------- MODULE ProgressProofs ---------------------------
(* The safety properties of Progress, for every set of users, channels and *)
(* log keys and every schedule.  Types, mutex, children and log records    *)
(* are never disturbed; where the displays are and what they hold is known *)
(* until a race on p.done or a display that cannot be created (Disturbed). *)
EXTENDS ProgressProps, TLAPS, FiniteSetTheorems, SequenceTheorems

Holding == {"wait", "reset", "paused"}
Carrying == {"lock", "send"}

Last == displays[Len(displays)]
Somebody(S) == \E u \in Users : pc[u] \in S
Live == {c \in Channels : fw[c] \notin {"none", "gone"}}
InFlight(c) == IF fw[c] \in {"dedup"} \cup Carrying THEN 1 ELSE 0
Carries(c, k) == fw[c] \in Carrying /\ k \in fwKeys[c]

\* p.mu is held across close(statusCh) .. start and across Pause .. Resume by
\* users, and around the send on statusCh by forwarders.
Mutex ==
    /\ \A u \in Users : mu = u <=> pc[u] \in Holding
    /\ \A c \in Channels : mu = c <=> fw[c] = "send"

\* Close is alone, and gets past childCond only when no forwarder is left.
Closing ==
    \A u \in Users :
        /\ op[u] = "close" => pc[u] \in {"lock", "cond", "wait", "closed"}
        /\ op[u] = "close" => \A w \in Users \ {u} : pc[w] = "idle"
        /\ pc[u] \in {"cond", "closed"} => op[u] = "close"
        /\ op[u] = "close" /\ pc[u] \in {"wait", "closed"} => Live = {}

\* p.children counts the forwarders.
Children ==
    /\ children = Cardinality(Live)
    /\ \A c \in Channels : prod[c] = "new" <=> fw[c] = "none"

\* Where the newest display goroutine is follows from where the user is that
\* holds p.mu; the goroutines before it have exited.
Displays ==
    /\ Len(displays) > 0
    /\ \A d \in 1..(Len(displays) - 1) : displays[d].st = "exited"
    /\ gen = IF Somebody({"paused"}) THEN Len(displays) + 1 ELSE Len(displays)
    /\ \A g \in statusClosed \cup doneClosed : g <= gen
    /\ gen \in statusClosed <=> Somebody({"wait", "reset", "closed"})
    /\ gen \in doneClosed <=> Last.st = "exited" /\ ~Somebody({"paused"})
    /\ Last.st = "updating" => Last.ch = gen
    /\ Last.st = "sending" => Last.done = gen
    /\ Last.st \in {"finishing", "sending"} => Somebody({"wait"})
    /\ Last.st \in {"closing", "exited"} <=> Somebody({"reset", "paused", "closed"})
    /\ Somebody({"paused"}) => Last.st = "exited"
    /\ Last.st # "updating" => Last.held = None

\* No message is lost between its producer and the output.
Counts ==
    \A c \in Channels : sent[c] = shown[c] + Last.held[c] + InFlight(c)

\* A log record that has been seen is with one forwarder or has been logged.
LogOf(k) ==
    /\ k \notin seen => logged[k] = 0 /\ \A c \in Channels : ~Carries(c, k)
    /\ k \in seen => logged[k] = 1 \/ \E c \in Channels : Carries(c, k)
    /\ \A c, d \in Channels : Carries(c, k) /\ Carries(d, k) => c = d
    /\ logged[k] # 0 => logged[k] = 1 /\ \A c \in Channels : ~Carries(c, k)

Logs == \A k \in Keys : LogOf(k)

\* What holds whatever happens; what holds until the hub is disturbed; and the
\* inductive invariant.
Core == TypeOK /\ Mutex /\ Closing /\ Children /\ Logs
Inv == Core /\ Displays /\ Counts
Kept == Core /\ (Disturbed \/ Inv)

-----------------------------------------------------------------------------
(* The display goroutines as a sequence.                                   *)

\* A step of goroutine d replaces its record and leaves the others alone.
LEMMA UpdateDisplay ==
    ASSUME displays \in Seq(DisplayRecords), NEW d \in DOMAIN displays,
           NEW r \in DisplayRecords, Becomes(d, r)
    PROVE  /\ displays' \in Seq(DisplayRecords)
           /\ Len(displays') = Len(displays)
           /\ \A e \in 1..Len(displays) :
                 displays'[e] = IF e = d THEN r ELSE displays[e]
BY ExceptSeq, LenProperties DEF Becomes

\* Each step of a display goroutine, and a receive from it or a delivery to it,
\* leaves a sequence of well-formed records.
LEMMA DisplaysTyped ==
    ASSUME TypeOK, NEW d, NEW st, At(d, st), NEW r \in DisplayRecords, Becomes(d, r)
    PROVE  displays' \in Seq(DisplayRecords)
BY UpdateDisplay DEF TypeOK, At

\* The record of a goroutine that is somewhere.
LEMMA RecordTyped ==
    ASSUME TypeOK, NEW d, NEW st, At(d, st)
    PROVE  /\ displays[d] \in DisplayRecords /\ displays[d].held \in [Channels -> Nat]
           /\ gen \in Nat
<1>1. displays \in Seq(DisplayRecords) /\ d \in DOMAIN displays
    BY DEF TypeOK, At
<1>2. displays[d] \in DisplayRecords
    BY <1>1, ElementOfSeq, LenProperties
<1> QED BY <1>2 DEF DisplayRecords, TypeOK

\* start() adds a goroutine after the others.
LEMMA StartDisplay ==
    ASSUME displays \in Seq(DisplayRecords), displays' = Append(displays, NewDisplay)
    PROVE  /\ displays' \in Seq(DisplayRecords)
           /\ Len(displays') = Len(displays) + 1
           /\ displays'[Len(displays')] = NewDisplay
           /\ \A e \in 1..Len(displays) : displays'[e] = displays[e]
<1>1. NewDisplay \in DisplayRecords
    BY DEF NewDisplay, DisplayRecords, DisplayStates, None
<1> QED BY <1>1

\* The newest display goroutine has a well-formed record.
LEMMA LastType ==
    ASSUME Inv
    PROVE  /\ Len(displays) \in Nat \ {0} /\ DOMAIN displays = 1..Len(displays)
           /\ Len(displays) \in DOMAIN displays
           /\ Last \in DisplayRecords
<1>1. displays \in Seq(DisplayRecords) /\ Len(displays) > 0
    BY DEF Inv, Core, TypeOK, Displays
<1>2. Len(displays) \in Nat \ {0} /\ DOMAIN displays = 1..Len(displays)
    BY <1>1, LenProperties
<1>3. Len(displays) \in 1..Len(displays)
    BY <1>2
<1>4. Last \in DisplayRecords
    BY <1>1, <1>3, ElementOfSeq DEF Last
<1> QED BY <1>2, <1>3, <1>4

\* Only the last number of 1..n is outside 1..n-1.
LEMMA LastOf == ASSUME NEW n \in Nat \ {0}, NEW i \in 1..n, i \notin 1..(n - 1) PROVE i = n
OBVIOUS

\* A goroutine that has not exited is the newest one.
LEMMA Current ==
    ASSUME Inv, NEW d, NEW st \in DisplayStates, st # "exited", At(d, st)
    PROVE  d = Len(displays) /\ displays[d] = Last /\ d \in DOMAIN displays
<1>1. /\ Len(displays) \in Nat \ {0} /\ DOMAIN displays = 1..Len(displays)
    BY LastType
<1>2. d \in 1..Len(displays) /\ displays[d].st # "exited"
    BY <1>1 DEF At
<1>3. d \notin 1..(Len(displays) - 1)
    BY <1>2 DEF Inv, Displays
<1>4. d = Len(displays)
    BY <1>1, <1>2, <1>3, LastOf
<1> QED BY <1>1, <1>2, <1>4 DEF Last

\* When the newest display goroutine moves, only its record changes.
LEMMA LastMoves ==
    ASSUME Inv, NEW d, d = Len(displays), NEW r \in DisplayRecords, Becomes(d, r)
    PROVE  /\ displays' \in Seq(DisplayRecords)
           /\ Len(displays') = Len(displays) /\ Last' = r
           /\ \A e \in 1..(Len(displays) - 1) : displays'[e] = displays[e]
<1>1. /\ displays \in Seq(DisplayRecords) /\ d \in DOMAIN displays
      /\ Len(displays) \in Nat \ {0}
    BY LastType DEF Inv, Core, TypeOK
<1>2. /\ displays' \in Seq(DisplayRecords) /\ Len(displays') = Len(displays)
      /\ \A e \in 1..Len(displays) : displays'[e] = IF e = d THEN r ELSE displays[e]
    BY <1>1, UpdateDisplay
<1> QED BY <1>1, <1>2 DEF Last

\* Sync and Resume start a goroutine after the last one.
LEMMA LastStarts ==
    ASSUME Core, displays' = Append(displays, NewDisplay)
    PROVE  /\ displays' \in Seq(DisplayRecords)
           /\ Len(displays') = Len(displays) + 1 /\ Last' = NewDisplay
           /\ \A e \in 1..Len(displays) : displays'[e] = displays[e]
BY StartDisplay DEF Core, TypeOK, Last

\* The newest goroutine's record becomes r, the older ones are untouched.
Moved(r) ==
    /\ displays' \in Seq(DisplayRecords)
    /\ Len(displays') = Len(displays)
    /\ Last' = r
    /\ \A e \in 1..(Len(displays) - 1) : displays'[e] = displays[e]

\* NewDisplay returns and UpdateFrom starts on the current statusCh.
LEMMA StartMoves ==
    ASSUME Inv, ~TtyMissing, NEW d, DisplayStart(d)
    PROVE  /\ Last.st = "starting"
           /\ Moved([Last EXCEPT !.st = "updating", !.ch = gen])
<1>1. d = Len(displays) /\ displays[d] = Last /\ Last.st = "starting"
    BY Current DEF DisplayStart, At, DisplayStates
<1>2. [Last EXCEPT !.st = "updating", !.ch = gen] \in DisplayRecords
    BY LastType DEF DisplayRecords, DisplayStates, Inv, Core, TypeOK
<1>3. Becomes(d, [Last EXCEPT !.st = "updating", !.ch = gen])
    BY <1>1 DEF DisplayStart, Becomes
<1> QED BY <1>1, <1>2, <1>3, LastMoves DEF Moved

\* A tick writes what is held.
LEMMA TickMoves ==
    ASSUME Inv, NEW d, DisplayTick(d)
    PROVE  /\ Last.st = "updating" /\ Moved([Last EXCEPT !.held = None])
           /\ shown' = [c \in Channels |-> shown[c] + Last.held[c]]
<1>1. d = Len(displays) /\ displays[d] = Last /\ Last.st = "updating"
    BY Current DEF DisplayTick, At, DisplayStates
<1>2. [Last EXCEPT !.held = None] \in DisplayRecords
    BY LastType DEF DisplayRecords, None
<1>3. Becomes(d, [Last EXCEPT !.held = None])
    BY <1>1 DEF DisplayTick, Becomes
<1>4. shown' = [c \in Channels |-> shown[c] + Last.held[c]]
    BY <1>1 DEF DisplayTick, Flush
<1> QED BY <1>1, <1>2, <1>3, <1>4, LastMoves DEF Moved

\* The end of UpdateFrom writes what is held; its channel is the current one.
LEMMA EndMoves ==
    ASSUME Inv, NEW d, DisplayEnd(d)
    PROVE  /\ Last.st = "updating" /\ gen \in statusClosed
           /\ Moved([Last EXCEPT !.st = "finishing", !.held = None])
           /\ shown' = [c \in Channels |-> shown[c] + Last.held[c]]
<1>1. d = Len(displays) /\ displays[d] = Last /\ Last.st = "updating"
    BY Current DEF DisplayEnd, At, DisplayStates
<1>2. [Last EXCEPT !.st = "finishing", !.held = None] \in DisplayRecords
    BY LastType DEF DisplayRecords, DisplayStates, None
<1>3. Becomes(d, [Last EXCEPT !.st = "finishing", !.held = None])
    BY <1>1 DEF DisplayEnd, Becomes
<1>4. shown' = [c \in Channels |-> shown[c] + Last.held[c]]
    BY <1>1 DEF DisplayEnd, Flush
<1>5. gen \in statusClosed
    BY <1>1 DEF DisplayEnd, Inv, Displays
<1> QED BY <1>1, <1>2, <1>3, <1>4, <1>5, LastMoves DEF Moved

\* The goroutine reads p.done before it sends.
LEMMA SendMoves ==
    ASSUME Inv, NEW d, DisplaySend(d)
    PROVE  /\ Last.st = "finishing"
           /\ Moved([Last EXCEPT !.st = "sending", !.done = gen])
<1>1. d = Len(displays) /\ displays[d] = Last /\ Last.st = "finishing"
    BY Current DEF DisplaySend, At, DisplayStates
<1>2. [Last EXCEPT !.st = "sending", !.done = gen] \in DisplayRecords
    BY LastType DEF DisplayRecords, DisplayStates, Inv, Core, TypeOK
<1>3. Becomes(d, [Last EXCEPT !.st = "sending", !.done = gen])
    BY <1>1 DEF DisplaySend, Becomes
<1> QED BY <1>1, <1>2, <1>3, LastMoves DEF Moved

\* The goroutine exits by closing p.done.
LEMMA CloseDoneMoves ==
    ASSUME Inv, NEW d, DisplayCloseDone(d)
    PROVE  Last.st = "closing" /\ Moved([Last EXCEPT !.st = "exited"])
<1>1. d = Len(displays) /\ displays[d] = Last /\ Last.st = "closing"
    BY Current DEF DisplayCloseDone, At, DisplayStates
<1>2. [Last EXCEPT !.st = "exited"] \in DisplayRecords
    BY LastType DEF DisplayRecords, DisplayStates
<1>3. Becomes(d, [Last EXCEPT !.st = "exited"])
    BY <1>1 DEF DisplayCloseDone, Becomes
<1> QED BY <1>1, <1>2, <1>3, LastMoves DEF Moved

\* A forwarder's message reaches the newest goroutine.
LEMMA DeliverMoves ==
    ASSUME Inv, NEW c \in Channels, NEW d, Deliver(c, d)
    PROVE  /\ Last.st = "updating" /\ Moved([Last EXCEPT !.held[c] = @ + 1])
<1>1. d = Len(displays) /\ displays[d] = Last /\ Last.st = "updating"
    BY Current DEF Deliver, At, DisplayStates
<1>2. [Last EXCEPT !.held[c] = @ + 1] \in DisplayRecords
    <2>1. Last \in DisplayRecords
        BY LastType
    <2>2. Last.held \in [Channels -> Nat]
        BY <2>1 DEF DisplayRecords
    <2>3. [Last.held EXCEPT ![c] = @ + 1] \in [Channels -> Nat]
        BY <2>2
    <2>4. [Last EXCEPT !.held = [Last.held EXCEPT ![c] = @ + 1]] \in DisplayRecords
        BY <2>1, <2>3 DEF DisplayRecords
    <2> QED BY <2>4
<1>3. Becomes(d, [Last EXCEPT !.held[c] = @ + 1])
    BY <1>1 DEF Deliver, Becomes
<1> QED BY <1>1, <1>2, <1>3, LastMoves DEF Moved

\* At most one user is past p.mu.Lock, and none is once Close has returned.
LEMMA OneHolder ==
    ASSUME Core, NEW u \in Users, pc[u] \in Holding
    PROVE  /\ mu = u /\ \A w \in Users : pc[w] \in Holding => w = u
           /\ \A w \in Users : pc[w] # "closed"
BY DEF Core, Mutex, Closing, Holding

\* The value that ends a wait on p.done comes from the newest goroutine, never
\* from a done channel that was closed already.
LEMMA ReceiveMoves ==
    ASSUME Inv, ~TtyMissing, NEW u \in Users, ReceiveDone(u)
    PROVE  /\ pc[u] = "wait" /\ Last.st = "sending" /\ Returned(u, FALSE)
           /\ Moved([Last EXCEPT !.st = "closing"])
<1>1. pc[u] = "wait"
    BY DEF ReceiveDone
<1>2. \A w \in Users : pc[w] \notin {"reset", "paused", "closed"}
    BY <1>1, OneHolder DEF Inv, Holding
<1>3. gen \notin doneClosed
    BY <1>2 DEF Inv, Displays, Somebody
<1>4. PICK d \in DOMAIN displays :
          /\ At(d, "sending") /\ Becomes(d, [displays[d] EXCEPT !.st = "closing"])
          /\ Returned(u, TtyMissing)
    BY <1>3 DEF ReceiveDone
<1>5. d = Len(displays) /\ displays[d] = Last /\ Last.st = "sending"
    BY <1>4, Current DEF At, DisplayStates
<1>6. [Last EXCEPT !.st = "closing"] \in DisplayRecords
    BY LastType DEF DisplayRecords, DisplayStates
<1>7. Becomes(d, [Last EXCEPT !.st = "closing"])
    BY <1>4, <1>5
<1>8. Returned(u, FALSE)
    BY <1>4 DEF Returned
<1> QED BY <1>1, <1>5, <1>6, <1>7, <1>8, LastMoves DEF Moved

\* NewDisplay leaves well-formed records, whether it fails or not.
LEMMA StartTyped ==
    ASSUME TypeOK, NEW d, DisplayStart(d) PROVE displays' \in Seq(DisplayRecords)
<1> DEFINE r == [displays[d] EXCEPT !.st = IF TtyMissing THEN "finishing" ELSE "updating",
                                    !.ch = gen]
<1>1. At(d, "starting") /\ Becomes(d, r)
    BY DEF DisplayStart
<1>2. r \in DisplayRecords
    BY <1>1, RecordTyped DEF DisplayRecords, DisplayStates
<1> QED BY <1>1, <1>2, DisplaysTyped

\* A tick leaves well-formed records.
LEMMA TickTyped ==
    ASSUME TypeOK, NEW d, DisplayTick(d) PROVE displays' \in Seq(DisplayRecords)
<1> DEFINE r == [displays[d] EXCEPT !.held = None]
<1>1. At(d, "updating") /\ Becomes(d, r)
    BY DEF DisplayTick
<1>2. r \in DisplayRecords
    BY <1>1, RecordTyped DEF DisplayRecords, None
<1> QED BY <1>1, <1>2, DisplaysTyped

\* So does the end of UpdateFrom,
LEMMA EndTyped ==
    ASSUME TypeOK, NEW d, DisplayEnd(d) PROVE displays' \in Seq(DisplayRecords)
<1> DEFINE r == [displays[d] EXCEPT !.st = "finishing", !.held = None]
<1>1. At(d, "updating") /\ Becomes(d, r)
    BY DEF DisplayEnd
<1>2. r \in DisplayRecords
    BY <1>1, RecordTyped DEF DisplayRecords, DisplayStates, None
<1> QED BY <1>1, <1>2, DisplaysTyped

\* the read of p.done,
LEMMA SendTyped ==
    ASSUME TypeOK, NEW d, DisplaySend(d) PROVE displays' \in Seq(DisplayRecords)
<1> DEFINE r == [displays[d] EXCEPT !.st = "sending", !.done = gen]
<1>1. At(d, "finishing") /\ Becomes(d, r)
    BY DEF DisplaySend
<1>2. r \in DisplayRecords
    BY <1>1, RecordTyped DEF DisplayRecords, DisplayStates
<1> QED BY <1>1, <1>2, DisplaysTyped

\* the close of p.done,
LEMMA CloseDoneTyped ==
    ASSUME TypeOK, NEW d, DisplayCloseDone(d) PROVE displays' \in Seq(DisplayRecords)
<1> DEFINE r == [displays[d] EXCEPT !.st = "exited"]
<1>1. At(d, "closing") /\ Becomes(d, r)
    BY DEF DisplayCloseDone
<1>2. r \in DisplayRecords
    BY <1>1, RecordTyped DEF DisplayRecords, DisplayStates
<1> QED BY <1>1, <1>2, DisplaysTyped

\* a delivery,
LEMMA DeliverTyped ==
    ASSUME TypeOK, NEW c \in Channels, NEW d, Deliver(c, d)
    PROVE  displays' \in Seq(DisplayRecords)
<1> DEFINE r == [displays[d] EXCEPT !.held[c] = @ + 1]
<1>1. At(d, "updating") /\ Becomes(d, r)
    BY DEF Deliver
<1>2. displays[d] \in DisplayRecords /\ displays[d].held \in [Channels -> Nat]
    BY <1>1, RecordTyped
<1>3. [displays[d].held EXCEPT ![c] = @ + 1] \in [Channels -> Nat]
    BY <1>2
<1>4. r \in DisplayRecords
    BY <1>2, <1>3 DEF DisplayRecords
<1> QED BY <1>1, <1>4, DisplaysTyped

\* and a receive from p.done.
LEMMA ReceiveTyped ==
    ASSUME TypeOK, NEW u \in Users, ReceiveDone(u)
    PROVE  displays' \in Seq(DisplayRecords)
<1>1. CASE UNCHANGED displays
    BY <1>1 DEF TypeOK
<1>2. ASSUME NEW d, At(d, "sending"),
             Becomes(d, [displays[d] EXCEPT !.st = "closing"])
      PROVE  displays' \in Seq(DisplayRecords)
    <2>1. [displays[d] EXCEPT !.st = "closing"] \in DisplayRecords
        BY <1>2, RecordTyped DEF DisplayRecords, DisplayStates
    <2> QED BY <1>2, <2>1, DisplaysTyped
<1> QED BY <1>1, <1>2 DEF ReceiveDone

-----------------------------------------------------------------------------
(* Every step preserves every part of the invariant.                       *)

LEMMA StepTypes == Core /\ [Next]_vars => TypeOK'
<1> SUFFICES ASSUME Core, [Next]_vars PROVE TypeOK'
    OBVIOUS
<1> USE DEF Core, TypeOK, Threads, lockVars, chanVars, userVars, fwVars, FwStep
<1>1. ASSUME NEW u \in Users, NEW o \in Calls, Call(u, o) PROVE TypeOK'
    BY <1>1 DEF Call, UserPCs
<1>2. ASSUME NEW u \in Users, Lock(u) PROVE TypeOK'
    BY <1>2 DEF Lock, UserPCs
<1>3. ASSUME NEW u \in Users, CondWait(u) PROVE TypeOK'
    BY <1>3 DEF CondWait, UserPCs
<1>4. ASSUME NEW u \in Users, ReceiveDone(u) PROVE TypeOK'
    <2>1. PICK err \in BOOLEAN : Returned(u, err)
        BY <1>4, ProgressAssumption DEF ReceiveDone
    <2>2. displays' \in Seq(DisplayRecords)
        BY <1>4, ReceiveTyped
    <2>3. pc' \in [Users -> UserPCs] /\ op' \in [Users -> Calls \cup {"none"}]
        BY <2>1 DEF Returned, UserPCs
    <2>4. mu' \in Threads \cup {Free}
        BY <2>1 DEF Returned
    <2> QED BY <1>4, <2>2, <2>3, <2>4 DEF ReceiveDone
<1>5. ASSUME NEW u \in Users, Reset(u) PROVE TypeOK'
    <2>1. displays' \in Seq(DisplayRecords)
        BY <1>5, LastStarts DEF Reset
    <2>2. /\ pc' \in [Users -> UserPCs] /\ op' \in [Users -> Calls \cup {"none"}]
          /\ mu' \in Threads \cup {Free}
        <3>1. CASE op[u] = "sync"
            BY <1>5, <3>1 DEF Reset, Idle, UserPCs
        <3>2. CASE op[u] # "sync"
            BY <1>5, <3>2 DEF Reset, UserPCs
        <3> QED BY <3>1, <3>2
    <2>3. raced' \in BOOLEAN
        BY <1>5 DEF Reset, Overtakes
    <2> QED BY <1>5, <2>1, <2>2, <2>3 DEF Reset
<1>6. ASSUME NEW u \in Users, Resume(u) PROVE TypeOK'
    <2>1. displays' \in Seq(DisplayRecords)
        BY <1>6, LastStarts DEF Resume
    <2> QED BY <1>6, <2>1 DEF Resume, Idle, UserPCs
<1>7. ASSUME NEW d, DisplayStart(d) PROVE TypeOK'
    BY <1>7, StartTyped DEF DisplayStart
<1>8. ASSUME NEW d, DisplayTick(d) PROVE TypeOK'
    <2>1. displays[d].held \in [Channels -> Nat]
        BY <1>8, RecordTyped DEF DisplayTick
    <2>2. shown' \in [Channels -> Nat]
        BY <1>8, <2>1 DEF DisplayTick, Flush
    <2> QED BY <1>8, <2>2, TickTyped DEF DisplayTick
<1>9. ASSUME NEW d, DisplayEnd(d) PROVE TypeOK'
    <2>1. displays[d].held \in [Channels -> Nat]
        BY <1>9, RecordTyped DEF DisplayEnd
    <2>2. shown' \in [Channels -> Nat]
        BY <1>9, <2>1 DEF DisplayEnd, Flush
    <2> QED BY <1>9, <2>2, EndTyped DEF DisplayEnd
<1>10. ASSUME NEW d, DisplaySend(d) PROVE TypeOK'
    BY <1>10, SendTyped DEF DisplaySend
<1>11. ASSUME NEW d, DisplayCloseDone(d) PROVE TypeOK'
    BY <1>11, CloseDoneTyped DEF DisplayCloseDone
<1>12. ASSUME NEW c \in Channels, Open(c) PROVE TypeOK'
    BY <1>12 DEF Open, FwStates
<1>13. ASSUME NEW c \in Channels, Accept(c) PROVE TypeOK'
    BY <1>13 DEF Accept, FwStates
<1>14. ASSUME NEW c \in Channels, CloseChan(c) PROVE TypeOK'
    BY <1>14 DEF CloseChan
<1>15. ASSUME NEW c \in Channels, NEW ks \in SUBSET Keys, Dedup(c, ks) PROVE TypeOK'
    BY <1>15 DEF Dedup, FwStates
<1>16. ASSUME NEW c \in Channels, FwLock(c) PROVE TypeOK'
    BY <1>16 DEF FwLock, FwStates
<1>17. ASSUME NEW c \in Channels, NEW d, Deliver(c, d) PROVE TypeOK'
    <2>1. displays' \in Seq(DisplayRecords)
        BY <1>17, DeliverTyped
    <2>2. logged' \in [Keys -> Nat]
        BY <1>17 DEF Deliver
    <2> QED BY <1>17, <2>1, <2>2 DEF Deliver, FwStates
<1>18. ASSUME NEW c \in Channels, FwEnd(c) PROVE TypeOK'
    BY <1>18 DEF FwEnd, FwStates
<1>19. ASSUME NEW c \in Channels, FwExit(c) PROVE TypeOK'
    <2>1. children' \in Nat
        <3>1. IsFiniteSet(Live) /\ c \in Live
            BY <1>19, ProgressAssumption, FS_Subset DEF Live, FwExit
        <3>2. Cardinality(Live) \in Nat /\ Cardinality(Live) # 0
            BY <3>1, FS_CardinalityType, FS_EmptySet
        <3> QED BY <1>19, <3>2 DEF FwExit, Children
    <2> QED BY <1>19, <2>1 DEF FwExit, FwStates, UserPCs
<1>20. CASE UNCHANGED vars
    BY <1>20 DEF vars
<1> QED
    BY <1>1, <1>2, <1>3, <1>4, <1>5, <1>6, <1>7, <1>8, <1>9, <1>10, <1>11, <1>12,
       <1>13, <1>14, <1>15, <1>16, <1>17, <1>18, <1>19, <1>20
       DEF Next, UserNext, DisplayNext, ChannelNext, Terminated

\* The mutex has one holder, the thread whose position says so.
LEMMA StepMutex == Core /\ [Next]_vars => Mutex'
<1> SUFFICES ASSUME Core, [Next]_vars PROVE Mutex'
    OBVIOUS
<1>0. Users \cap Channels = {} /\ Free \notin Users \cup Channels
    BY ProgressAssumption
<1> USE DEF Core, TypeOK, Mutex, Holding, Threads, lockVars, chanVars, userVars, fwVars, FwStep
<1>1. ASSUME NEW u \in Users, NEW o \in Calls, Call(u, o) PROVE Mutex'
    BY <1>0, <1>1 DEF Call
<1>2. ASSUME NEW u \in Users, Lock(u) PROVE Mutex'
    BY <1>0, <1>2 DEF Lock
<1>3. ASSUME NEW u \in Users, CondWait(u) PROVE Mutex'
    BY <1>0, <1>3 DEF CondWait
<1>4. ASSUME NEW u \in Users, ReceiveDone(u) PROVE Mutex'
    <2>1. /\ pc[u] = "wait" /\ \E err \in BOOLEAN : Returned(u, err)
          /\ UNCHANGED fw
        BY <1>4, ProgressAssumption DEF ReceiveDone
    <2>2. CASE /\ pc' = [pc EXCEPT ![u] = "closed"] \/ pc' = [pc EXCEPT ![u] = "idle"]
               /\ mu' = Free
        BY <1>0, <2>1, <2>2
    <2>3. CASE /\ pc' = [pc EXCEPT ![u] = "paused"] \/ pc' = [pc EXCEPT ![u] = "reset"]
               /\ mu' = mu
        BY <1>0, <2>1, <2>3
    <2> QED BY <2>1, <2>2, <2>3 DEF Returned
<1>5. ASSUME NEW u \in Users, Reset(u) PROVE Mutex'
    <2>1. CASE op[u] = "sync"
        BY <1>0, <1>5, <2>1 DEF Reset, Idle
    <2>2. CASE op[u] # "sync"
        BY <1>0, <1>5, <2>2 DEF Reset
    <2> QED BY <2>1, <2>2
<1>6. ASSUME NEW u \in Users, Resume(u) PROVE Mutex'
    BY <1>0, <1>6 DEF Resume, Idle
<1>7. ASSUME NEW d, DisplayStart(d) PROVE Mutex'
    BY <1>0, <1>7 DEF DisplayStart
<1>8. ASSUME NEW d, DisplayTick(d) PROVE Mutex'
    BY <1>0, <1>8 DEF DisplayTick
<1>9. ASSUME NEW d, DisplayEnd(d) PROVE Mutex'
    BY <1>0, <1>9 DEF DisplayEnd
<1>10. ASSUME NEW d, DisplaySend(d) PROVE Mutex'
    BY <1>0, <1>10 DEF DisplaySend
<1>11. ASSUME NEW d, DisplayCloseDone(d) PROVE Mutex'
    BY <1>0, <1>11 DEF DisplayCloseDone
<1>12. ASSUME NEW c \in Channels, Open(c) PROVE Mutex'
    BY <1>0, <1>12 DEF Open
<1>13. ASSUME NEW c \in Channels, Accept(c) PROVE Mutex'
    BY <1>0, <1>13 DEF Accept
<1>14. ASSUME NEW c \in Channels, CloseChan(c) PROVE Mutex'
    BY <1>0, <1>14 DEF CloseChan
<1>15. ASSUME NEW c \in Channels, NEW ks \in SUBSET Keys, Dedup(c, ks) PROVE Mutex'
    BY <1>0, <1>15 DEF Dedup
<1>16. ASSUME NEW c \in Channels, FwLock(c) PROVE Mutex'
    BY <1>0, <1>16 DEF FwLock
<1>17. ASSUME NEW c \in Channels, NEW d, Deliver(c, d) PROVE Mutex'
    BY <1>0, <1>17 DEF Deliver
<1>18. ASSUME NEW c \in Channels, FwEnd(c) PROVE Mutex'
    BY <1>0, <1>18 DEF FwEnd
<1>19. ASSUME NEW c \in Channels, FwExit(c) PROVE Mutex'
    BY <1>0, <1>19 DEF FwExit
<1>20. CASE UNCHANGED vars
    BY <1>20 DEF vars
<1> QED
    BY <1>1, <1>2, <1>3, <1>4, <1>5, <1>6, <1>7, <1>8, <1>9, <1>10, <1>11,
       <1>12, <1>13, <1>14, <1>15, <1>16, <1>17, <1>18, <1>19, <1>20
       DEF Next, UserNext, DisplayNext, ChannelNext, Terminated

\* No child is left exactly when no forwarder is alive.
LEMMA NoChildren == Core => (children = 0 <=> Live = {})
<1>1. IsFiniteSet(Live)
    BY ProgressAssumption, FS_Subset DEF Live
<1> QED BY <1>1, FS_EmptySet DEF Core, Children

\* Close stays alone, and is past childCond only without forwarders.
LEMMA StepClosing == Core /\ [Next]_vars => Closing'
<1> SUFFICES ASSUME Core, [Next]_vars PROVE Closing'
    OBVIOUS
<1> USE DEF Core, TypeOK, Closing, lockVars, chanVars, userVars, fwVars, FwStep
<1>1. ASSUME NEW u \in Users, NEW o \in Calls, Call(u, o) PROVE Closing'
    <2>1. \A w \in Users : op[w] # "close"
        BY <1>1 DEF Call, CloseCalled
    <2>2. \A w \in Users \ {u} : op'[w] # "close" /\ pc'[w] = pc[w]
        BY <1>1, <2>1 DEF Call
    <2>3. pc'[u] = "lock" /\ (op'[u] = "close" => \A w \in Users : pc[w] = "idle")
        BY <1>1 DEF Call
    <2> QED BY <2>1, <2>2, <2>3
<1>2. ASSUME NEW u \in Users, Lock(u) PROVE Closing'
    <2>1. op[u] = "close" => Live = {}
        BY <1>2, NoChildren DEF Lock
    <2>2. fw' = fw
        BY <1>2 DEF Lock
    <2> QED BY <1>2, <2>1, <2>2 DEF Lock, Live
<1>3. ASSUME NEW u \in Users, CondWait(u) PROVE Closing'
    BY <1>3 DEF CondWait, Live
<1>4. ASSUME NEW u \in Users, ReceiveDone(u) PROVE Closing'
    <2>1. pc[u] = "wait" /\ \E err \in BOOLEAN : Returned(u, err)
        BY <1>4, ProgressAssumption DEF ReceiveDone
    <2>2. Live' = Live
        BY <1>4 DEF ReceiveDone, Live
    <2>3. CASE op[u] = "close"
        <3>1. op' = op /\ pc' = [pc EXCEPT ![u] = "closed"]
            BY <2>1, <2>3 DEF Returned
        <3> QED BY <2>1, <2>2, <2>3, <3>1
    <2>4. CASE op[u] # "close"
        <3>1. /\ \A w \in Users \ {u} : op'[w] = op[w] /\ pc'[w] = pc[w]
              /\ op'[u] # "close" /\ pc'[u] \in {"idle", "paused", "reset"}
            BY <2>1, <2>4 DEF Returned
        <3>2. \A w \in Users : op[w] # "close"
            BY <2>1, <2>4
        <3> QED BY <2>2, <3>1, <3>2
    <2> QED BY <2>3, <2>4
<1>5. ASSUME NEW u \in Users, Reset(u) PROVE Closing'
    <2>1. CASE op[u] = "sync"
        BY <1>5, <2>1 DEF Reset, Idle, Live
    <2>2. CASE op[u] # "sync"
        BY <1>5, <2>2 DEF Reset, Live
    <2> QED BY <2>1, <2>2
<1>6. ASSUME NEW u \in Users, Resume(u) PROVE Closing'
    BY <1>6 DEF Resume, Idle, Live
<1>7. ASSUME NEW d, DisplayStart(d) PROVE Closing'
    BY <1>7 DEF DisplayStart, Live
<1>8. ASSUME NEW d, DisplayTick(d) PROVE Closing'
    BY <1>8 DEF DisplayTick, Live
<1>9. ASSUME NEW d, DisplayEnd(d) PROVE Closing'
    BY <1>9 DEF DisplayEnd, Live
<1>10. ASSUME NEW d, DisplaySend(d) PROVE Closing'
    BY <1>10 DEF DisplaySend, Live
<1>11. ASSUME NEW d, DisplayCloseDone(d) PROVE Closing'
    BY <1>11 DEF DisplayCloseDone, Live
<1>12. ASSUME NEW c \in Channels, Open(c) PROVE Closing'
    BY <1>12 DEF Open, CloseCalled
<1>13. ASSUME NEW c \in Channels, Accept(c) PROVE Closing'
    <2>1. Live' = Live
        BY <1>13 DEF Accept, Live
    <2> QED BY <1>13, <2>1 DEF Accept
<1>14. ASSUME NEW c \in Channels, CloseChan(c) PROVE Closing'
    BY <1>14 DEF CloseChan, Live
<1>15. ASSUME NEW c \in Channels, NEW ks \in SUBSET Keys, Dedup(c, ks) PROVE Closing'
    <2>1. Live' = Live
        BY <1>15 DEF Dedup, Live
    <2> QED BY <1>15, <2>1 DEF Dedup
<1>16. ASSUME NEW c \in Channels, FwLock(c) PROVE Closing'
    <2>1. Live' = Live
        BY <1>16 DEF FwLock, Live
    <2> QED BY <1>16, <2>1 DEF FwLock
<1>17. ASSUME NEW c \in Channels, NEW d, Deliver(c, d) PROVE Closing'
    <2>1. Live' = Live
        BY <1>17 DEF Deliver, Live
    <2> QED BY <1>17, <2>1 DEF Deliver
<1>18. ASSUME NEW c \in Channels, FwEnd(c) PROVE Closing'
    <2>1. Live' = Live
        BY <1>18 DEF FwEnd, Live
    <2> QED BY <1>18, <2>1 DEF FwEnd
<1>19. ASSUME NEW c \in Channels, FwExit(c) PROVE Closing'
    <2>1. Live' \subseteq Live
        BY <1>19 DEF FwExit, Live
    <2>2. op' = op /\ \A w \in Users :
             \/ pc'[w] = pc[w]
             \/ pc[w] = "cond" /\ pc'[w] = "lock"
        BY <1>19 DEF FwExit
    <2> QED BY <2>1, <2>2
<1>20. CASE UNCHANGED vars
    BY <1>20 DEF vars, Live
<1> QED
    BY <1>1, <1>2, <1>3, <1>4, <1>5, <1>6, <1>7, <1>8, <1>9, <1>10, <1>11, <1>12,
       <1>13, <1>14, <1>15, <1>16, <1>17, <1>18, <1>19, <1>20
       DEF Next, UserNext, DisplayNext, ChannelNext, Terminated

\* p.children keeps counting the forwarders that have not exited.
LEMMA StepChildren == Core /\ [Next]_vars => Children'
<1> SUFFICES ASSUME Core, [Next]_vars PROVE Children'
    OBVIOUS
<1>0. IsFiniteSet(Live)
    BY ProgressAssumption, FS_Subset DEF Live
<1> USE DEF Core, TypeOK, Children, lockVars, chanVars, userVars, fwVars, FwStep
<1>1. ASSUME NEW u \in Users, NEW o \in Calls, Call(u, o) PROVE Children'
    BY <1>1 DEF Call, Live
<1>2. ASSUME NEW u \in Users, Lock(u) PROVE Children'
    BY <1>2 DEF Lock, Live
<1>3. ASSUME NEW u \in Users, CondWait(u) PROVE Children'
    BY <1>3 DEF CondWait, Live
<1>4. ASSUME NEW u \in Users, ReceiveDone(u) PROVE Children'
    BY <1>4 DEF ReceiveDone, Live
<1>5. ASSUME NEW u \in Users, Reset(u) PROVE Children'
    BY <1>5 DEF Reset, Live
<1>6. ASSUME NEW u \in Users, Resume(u) PROVE Children'
    BY <1>6 DEF Resume, Live
<1>7. ASSUME NEW d, DisplayStart(d) PROVE Children'
    BY <1>7 DEF DisplayStart, Live
<1>8. ASSUME NEW d, DisplayTick(d) PROVE Children'
    BY <1>8 DEF DisplayTick, Live
<1>9. ASSUME NEW d, DisplayEnd(d) PROVE Children'
    BY <1>9 DEF DisplayEnd, Live
<1>10. ASSUME NEW d, DisplaySend(d) PROVE Children'
    BY <1>10 DEF DisplaySend, Live
<1>11. ASSUME NEW d, DisplayCloseDone(d) PROVE Children'
    BY <1>11 DEF DisplayCloseDone, Live
<1>12. ASSUME NEW c \in Channels, Open(c) PROVE Children'
    <2>1. Live' = Live \cup {c} /\ c \notin Live
        BY <1>12 DEF Open, Live
    <2>2. Cardinality(Live') = Cardinality(Live) + 1
        BY <1>0, <2>1, FS_AddElement
    <2> QED BY <1>12, <2>2 DEF Open
<1>13. ASSUME NEW c \in Channels, Accept(c) PROVE Children'
    <2>1. Live' = Live
        BY <1>13 DEF Accept, Live
    <2> QED BY <1>13, <2>1 DEF Accept
<1>14. ASSUME NEW c \in Channels, CloseChan(c) PROVE Children'
    BY <1>14 DEF CloseChan, Live
<1>15. ASSUME NEW c \in Channels, NEW ks \in SUBSET Keys, Dedup(c, ks) PROVE Children'
    <2>1. Live' = Live
        BY <1>15 DEF Dedup, Live
    <2> QED BY <1>15, <2>1 DEF Dedup
<1>16. ASSUME NEW c \in Channels, FwLock(c) PROVE Children'
    <2>1. Live' = Live
        BY <1>16 DEF FwLock, Live
    <2> QED BY <1>16, <2>1 DEF FwLock
<1>17. ASSUME NEW c \in Channels, NEW d, Deliver(c, d) PROVE Children'
    <2>1. Live' = Live
        BY <1>17 DEF Deliver, Live
    <2> QED BY <1>17, <2>1 DEF Deliver
<1>18. ASSUME NEW c \in Channels, FwEnd(c) PROVE Children'
    <2>1. Live' = Live
        BY <1>18 DEF FwEnd, Live
    <2> QED BY <1>18, <2>1 DEF FwEnd
<1>19. ASSUME NEW c \in Channels, FwExit(c) PROVE Children'
    <2>1. Live' = Live \ {c} /\ c \in Live
        BY <1>19 DEF FwExit, Live
    <2>2. Cardinality(Live') = Cardinality(Live) - 1
        BY <1>0, <2>1, FS_RemoveElement
    <2> QED BY <1>19, <2>2 DEF FwExit
<1>20. CASE UNCHANGED vars
    BY <1>20 DEF vars, Live
<1> QED
    BY <1>1, <1>2, <1>3, <1>4, <1>5, <1>6, <1>7, <1>8, <1>9, <1>10, <1>11, <1>12,
       <1>13, <1>14, <1>15, <1>16, <1>17, <1>18, <1>19, <1>20
       DEF Next, UserNext, DisplayNext, ChannelNext, Terminated

\* Every message stays accounted for: in flight, held, or shown.
LEMMA StepCounts == Inv /\ ~Disturbed' /\ [Next]_vars => Counts'
<1> SUFFICES ASSUME Inv, ~Disturbed', [Next]_vars PROVE Counts'
    OBVIOUS
<1> Core /\ ~TtyMissing /\ ~raced'
    BY DEF Inv, Disturbed
<1>0. Last \in DisplayRecords /\ Last.held \in [Channels -> Nat]
    BY LastType DEF DisplayRecords
<1> USE DEF Inv, Core, TypeOK, Counts, lockVars, chanVars, userVars, fwVars, FwStep
<1>1. ASSUME NEW u \in Users, NEW o \in Calls, Call(u, o) PROVE Counts'
    BY <1>1 DEF Call, Last, InFlight
<1>2. ASSUME NEW u \in Users, Lock(u) PROVE Counts'
    BY <1>2 DEF Lock, Last, InFlight
<1>3. ASSUME NEW u \in Users, CondWait(u) PROVE Counts'
    BY <1>3 DEF CondWait, Last, InFlight
<1>4. ASSUME NEW u \in Users, ReceiveDone(u) PROVE Counts'
    <2>1. Last'.held = Last.held
        BY <1>0, <1>4, ReceiveMoves DEF Moved, DisplayRecords
    <2> QED BY <1>4, <2>1 DEF ReceiveDone, InFlight
<1>5. ASSUME NEW u \in Users, Reset(u) PROVE Counts'
    <2>1. Last'.held = Last.held
        <3>1. CASE op[u] = "sync"
            <4>1. Last.held = None
                BY <1>5, OneHolder DEF Reset, Displays, Somebody, Holding
            <4>2. Last' = NewDisplay
                BY <1>5, <3>1, LastStarts DEF Reset
            <4> QED BY <4>1, <4>2 DEF NewDisplay
        <3>2. CASE op[u] # "sync"
            BY <1>5, <3>2 DEF Reset, Last
        <3> QED BY <3>1, <3>2
    <2> QED BY <1>5, <2>1 DEF Reset, InFlight
<1>6. ASSUME NEW u \in Users, Resume(u) PROVE Counts'
    <2>1. Last.held = None
        BY <1>6, OneHolder DEF Resume, Displays, Somebody, Holding
    <2>2. Last' = NewDisplay
        BY <1>6, LastStarts DEF Resume
    <2> QED BY <1>6, <2>1, <2>2 DEF Resume, InFlight, NewDisplay
<1>7. ASSUME NEW d, DisplayStart(d) PROVE Counts'
    <2>1. Last'.held = Last.held
        BY <1>0, <1>7, StartMoves DEF Moved, DisplayRecords
    <2> QED BY <1>7, <2>1 DEF DisplayStart, InFlight
<1>8. ASSUME NEW d, DisplayTick(d) PROVE Counts'
    <2>1. Last'.held = None
        BY <1>0, <1>8, TickMoves DEF Moved, DisplayRecords
    <2>2. shown' = [c \in Channels |-> shown[c] + Last.held[c]]
        BY <1>8, TickMoves
    <2>3. sent' = sent /\ fw' = fw
        BY <1>8 DEF DisplayTick
    <2> QED BY <1>0, <2>1, <2>2, <2>3 DEF InFlight, None
<1>9. ASSUME NEW d, DisplayEnd(d) PROVE Counts'
    <2>1. Last'.held = None
        BY <1>0, <1>9, EndMoves DEF Moved, DisplayRecords
    <2>2. shown' = [c \in Channels |-> shown[c] + Last.held[c]]
        BY <1>9, EndMoves
    <2>3. sent' = sent /\ fw' = fw
        BY <1>9 DEF DisplayEnd
    <2> QED BY <1>0, <2>1, <2>2, <2>3 DEF InFlight, None
<1>10. ASSUME NEW d, DisplaySend(d) PROVE Counts'
    <2>1. Last'.held = Last.held
        BY <1>0, <1>10, SendMoves DEF Moved, DisplayRecords
    <2> QED BY <1>10, <2>1 DEF DisplaySend, InFlight
<1>11. ASSUME NEW d, DisplayCloseDone(d) PROVE Counts'
    <2>1. Last'.held = Last.held
        BY <1>0, <1>11, CloseDoneMoves DEF Moved, DisplayRecords
    <2> QED BY <1>11, <2>1 DEF DisplayCloseDone, InFlight
<1>12. ASSUME NEW c \in Channels, Open(c) PROVE Counts'
    BY <1>12 DEF Open, Last, InFlight, Carrying
<1>13. ASSUME NEW c \in Channels, Accept(c) PROVE Counts'
    <2>1. Last' = Last /\ shown' = shown
        BY <1>13 DEF Accept, Last
    <2>2. InFlight(c) = 0 /\ InFlight(c)' = 1
        BY <1>13 DEF Accept, InFlight, Carrying
    <2>3. sent'[c] = sent[c] + 1 /\ \A b \in Channels \ {c} :
             sent'[b] = sent[b] /\ InFlight(b)' = InFlight(b)
        BY <1>13 DEF Accept, InFlight
    <2>4. sent'[c] = shown'[c] + Last'.held[c] + InFlight(c)'
        BY <1>0, <2>1, <2>2, <2>3
    <2>5. \A b \in Channels \ {c} : sent'[b] = shown'[b] + Last'.held[b] + InFlight(b)'
        BY <1>0, <2>1, <2>3
    <2> QED BY <2>4, <2>5
<1>14. ASSUME NEW c \in Channels, CloseChan(c) PROVE Counts'
    BY <1>14 DEF CloseChan, Last, InFlight
<1>15. ASSUME NEW c \in Channels, NEW ks \in SUBSET Keys, Dedup(c, ks) PROVE Counts'
    <2>1. \A b \in Channels : InFlight(b)' = InFlight(b)
        BY <1>15 DEF Dedup, InFlight, Carrying
    <2> QED BY <1>15, <2>1 DEF Dedup, Last
<1>16. ASSUME NEW c \in Channels, FwLock(c) PROVE Counts'
    <2>1. \A b \in Channels : InFlight(b)' = InFlight(b)
        BY <1>16 DEF FwLock, InFlight, Carrying
    <2> QED BY <1>16, <2>1 DEF FwLock, Last
<1>17. ASSUME NEW c \in Channels, NEW d, Deliver(c, d) PROVE Counts'
    <2>1. Last'.held = [Last.held EXCEPT ![c] = @ + 1]
        <3>1. Last' = [Last EXCEPT !.held[c] = @ + 1]
            BY <1>17, DeliverMoves DEF Moved
        <3>2. "held" \in DOMAIN Last
            BY <1>0 DEF DisplayRecords
        <3> QED BY <3>1, <3>2
    <2>2. sent' = sent /\ shown' = shown
        BY <1>17 DEF Deliver
    <2>3. InFlight(c) = 1 /\ InFlight(c)' = 0
        BY <1>17 DEF Deliver, InFlight, Carrying
    <2>4. \A b \in Channels \ {c} : InFlight(b)' = InFlight(b)
        BY <1>17 DEF Deliver, InFlight
    <2>5. sent'[c] = shown'[c] + Last'.held[c] + InFlight(c)'
        BY <1>0, <2>1, <2>2, <2>3
    <2>6. \A b \in Channels \ {c} : sent'[b] = shown'[b] + Last'.held[b] + InFlight(b)'
        BY <1>0, <2>1, <2>2, <2>4
    <2> QED BY <2>5, <2>6
<1>18. ASSUME NEW c \in Channels, FwEnd(c) PROVE Counts'
    <2>1. \A b \in Channels : InFlight(b)' = InFlight(b)
        BY <1>18 DEF FwEnd, InFlight, Carrying
    <2> QED BY <1>18, <2>1 DEF FwEnd, Last
<1>19. ASSUME NEW c \in Channels, FwExit(c) PROVE Counts'
    <2>1. \A b \in Channels : InFlight(b)' = InFlight(b)
        BY <1>19 DEF FwExit, InFlight, Carrying
    <2> QED BY <1>19, <2>1 DEF FwExit, Last
<1>20. CASE UNCHANGED vars
    BY <1>20 DEF vars, Last, InFlight
<1> QED
    BY <1>1, <1>2, <1>3, <1>4, <1>5, <1>6, <1>7, <1>8, <1>9, <1>10, <1>11, <1>12,
       <1>13, <1>14, <1>15, <1>16, <1>17, <1>18, <1>19, <1>20
       DEF Next, UserNext, DisplayNext, ChannelNext, Terminated

\* A log record that has been seen stays with one forwarder until it is logged.
LEMMA StepLogs == Core /\ [Next]_vars => Logs'
<1> SUFFICES ASSUME Core, [Next]_vars PROVE Logs'
    OBVIOUS
<1> USE DEF Core, TypeOK, Logs, LogOf, lockVars, chanVars, userVars, fwVars, FwStep
<1>1. ASSUME NEW u \in Users, NEW o \in Calls, Call(u, o) PROVE Logs'
    BY <1>1 DEF Call, Carries
<1>2. ASSUME NEW u \in Users, Lock(u) PROVE Logs'
    BY <1>2 DEF Lock, Carries
<1>3. ASSUME NEW u \in Users, CondWait(u) PROVE Logs'
    BY <1>3 DEF CondWait, Carries
<1>4. ASSUME NEW u \in Users, ReceiveDone(u) PROVE Logs'
    BY <1>4 DEF ReceiveDone, Carries
<1>5. ASSUME NEW u \in Users, Reset(u) PROVE Logs'
    BY <1>5 DEF Reset, Carries
<1>6. ASSUME NEW u \in Users, Resume(u) PROVE Logs'
    BY <1>6 DEF Resume, Carries
<1>7. ASSUME NEW d, DisplayStart(d) PROVE Logs'
    BY <1>7 DEF DisplayStart, Carries
<1>8. ASSUME NEW d, DisplayTick(d) PROVE Logs'
    BY <1>8 DEF DisplayTick, Carries
<1>9. ASSUME NEW d, DisplayEnd(d) PROVE Logs'
    BY <1>9 DEF DisplayEnd, Carries
<1>10. ASSUME NEW d, DisplaySend(d) PROVE Logs'
    BY <1>10 DEF DisplaySend, Carries
<1>11. ASSUME NEW d, DisplayCloseDone(d) PROVE Logs'
    BY <1>11 DEF DisplayCloseDone, Carries
<1>12. ASSUME NEW c \in Channels, Open(c) PROVE Logs'
    <2>1. \A b \in Channels, k \in Keys : Carries(b, k)' <=> Carries(b, k)
        BY <1>12 DEF Open, Carries, Carrying
    <2> QED BY <1>12, <2>1 DEF Open
<1>13. ASSUME NEW c \in Channels, Accept(c) PROVE Logs'
    <2>1. \A b \in Channels, k \in Keys : Carries(b, k)' <=> Carries(b, k)
        BY <1>13 DEF Accept, Carries, Carrying
    <2> QED BY <1>13, <2>1 DEF Accept
<1>14. ASSUME NEW c \in Channels, CloseChan(c) PROVE Logs'
    BY <1>14 DEF CloseChan, Carries
<1>15. ASSUME NEW c \in Channels, NEW ks \in SUBSET Keys, Dedup(c, ks) PROVE Logs'
    <2>1. \A b \in Channels \ {c}, k \in Keys : Carries(b, k)' <=> Carries(b, k)
        BY <1>15 DEF Dedup, Carries
    <2>2. \A k \in Keys : ~Carries(c, k) /\ (Carries(c, k)' <=> k \in ks \ seen)
        BY <1>15 DEF Dedup, Carries, Carrying
    <2>3. seen' = seen \cup ks /\ logged' = logged
        BY <1>15 DEF Dedup
    <2>4. ASSUME NEW k \in Keys PROVE LogOf(k)'
        <3>1. CASE k \in ks \ seen
            <4>1. /\ logged'[k] = 0 /\ k \in seen' /\ Carries(c, k)'
                  /\ \A b \in Channels : Carries(b, k)' => b = c
                BY <2>1, <2>2, <2>3, <3>1 DEF Carries
            <4> QED BY <4>1
        <3>2. CASE k \notin ks \ seen
            <4>1. /\ k \in seen' <=> k \in seen
                  /\ \A b \in Channels : Carries(b, k)' <=> Carries(b, k)
                BY <2>1, <2>2, <2>3, <3>2 DEF Carries
            <4> QED BY <2>3, <4>1
        <3> QED BY <3>1, <3>2
    <2> QED BY <2>4
<1>16. ASSUME NEW c \in Channels, FwLock(c) PROVE Logs'
    <2>1. \A b \in Channels, k \in Keys : Carries(b, k)' <=> Carries(b, k)
        BY <1>16 DEF FwLock, Carries, Carrying
    <2> QED BY <1>16, <2>1 DEF FwLock
<1>17. ASSUME NEW c \in Channels, NEW d, Deliver(c, d) PROVE Logs'
    <2>1. \A b \in Channels \ {c}, k \in Keys : Carries(b, k)' <=> Carries(b, k)
        BY <1>17 DEF Deliver, Carries
    <2>2. \A k \in Keys : (Carries(c, k) <=> k \in fwKeys[c]) /\ ~Carries(c, k)'
        BY <1>17 DEF Deliver, Carries, Carrying
    <2>3. \A k \in Keys :
             logged'[k] = IF k \in fwKeys[c] THEN logged[k] + 1 ELSE logged[k]
        BY <1>17 DEF Deliver
    <2>4. seen' = seen
        BY <1>17 DEF Deliver
    <2>5. ASSUME NEW k \in Keys PROVE LogOf(k)'
        <3>1. CASE k \in fwKeys[c]
            <4>1. Carries(c, k) /\ logged[k] = 0 /\ k \in seen
                BY <2>2, <3>1
            <4>2. logged'[k] = 1 /\ k \in seen'
                BY <2>3, <2>4, <3>1, <4>1
            <4>3. \A b \in Channels \ {c} : ~Carries(b, k)
                BY <4>1
            <4>4. \A b \in Channels : ~Carries(b, k)'
                BY <2>1, <2>2, <4>3 DEF Carries
            <4> QED BY <4>2, <4>4
        <3>2. CASE k \notin fwKeys[c]
            <4>1. \A b \in Channels : Carries(b, k)' <=> Carries(b, k)
                BY <2>1, <2>2, <3>2 DEF Carries
            <4> QED BY <2>3, <2>4, <3>2, <4>1
        <3> QED BY <3>1, <3>2
    <2> QED BY <2>5
<1>18. ASSUME NEW c \in Channels, FwEnd(c) PROVE Logs'
    <2>1. \A b \in Channels, k \in Keys : Carries(b, k)' <=> Carries(b, k)
        BY <1>18 DEF FwEnd, Carries, Carrying
    <2> QED BY <1>18, <2>1 DEF FwEnd
<1>19. ASSUME NEW c \in Channels, FwExit(c) PROVE Logs'
    <2>1. \A b \in Channels, k \in Keys : Carries(b, k)' <=> Carries(b, k)
        BY <1>19 DEF FwExit, Carries, Carrying
    <2> QED BY <1>19, <2>1 DEF FwExit
<1>20. CASE UNCHANGED vars
    BY <1>20 DEF vars, Carries
<1> QED
    BY <1>1, <1>2, <1>3, <1>4, <1>5, <1>6, <1>7, <1>8, <1>9, <1>10, <1>11, <1>12,
       <1>13, <1>14, <1>15, <1>16, <1>17, <1>18, <1>19, <1>20
       DEF Next, UserNext, DisplayNext, ChannelNext, Terminated

\* Once the newest display goroutine has exited, all have.
LEMMA AllExited ==
    ASSUME Inv, Last.st = "exited"
    PROVE  \A e \in 1..Len(displays) : displays[e].st = "exited"
<1>1. Len(displays) \in Nat \ {0}
    BY LastType
<1>2. \A e \in 1..(Len(displays) - 1) : displays[e].st = "exited"
    BY DEF Inv, Displays
<1>3. \A e \in 1..Len(displays) : e \in 1..(Len(displays) - 1) \/ e = Len(displays)
    BY <1>1
<1> QED BY <1>2, <1>3 DEF Last

\* A step that only moves users among the places outside p.mu, or nobody,
\* leaves the relation between users, channels and displays alone.
LEMMA OutsideMutex ==
    ASSUME Inv, UNCHANGED <<chanVars, displays>>,
           \A u \in Users : \/ pc'[u] = pc[u]
                            \/ /\ pc[u] \in {"idle", "lock", "cond"}
                               /\ pc'[u] \in {"idle", "lock", "cond"}
    PROVE  Displays'
<1>1. /\ Somebody({"paused"})' <=> Somebody({"paused"})
      /\ Somebody({"wait"})' <=> Somebody({"wait"})
      /\ Somebody({"wait", "reset", "closed"})' <=> Somebody({"wait", "reset", "closed"})
      /\ Somebody({"reset", "paused", "closed"})'
            <=> Somebody({"reset", "paused", "closed"})
    BY DEF Somebody
<1>2. Last' = Last /\ UNCHANGED <<gen, statusClosed, doneClosed, displays>>
    BY DEF Last, chanVars
<1> QED BY <1>1, <1>2 DEF Inv, Displays

\* A step of the newest display goroutine, or a delivery to it, while users
\* and channels stay where they are, and the goroutine neither starts nor
\* stops being past its receiver.
LEMMA DisplayOnly ==
    ASSUME Inv, NEW r \in DisplayRecords, Moved(r), UNCHANGED <<pc, chanVars>>,
           Last.st \notin {"closing", "exited"}, r.st \notin {"closing", "exited"},
           r.st = "updating" => r.ch = gen,
           r.st = "sending" => r.done = gen,
           r.st \in {"finishing", "sending"} => Somebody({"wait"}),
           r.st # "updating" => r.held = None
    PROVE  Displays'
<1>1. /\ Somebody({"paused"})' <=> Somebody({"paused"})
      /\ Somebody({"wait"})' <=> Somebody({"wait"})
      /\ Somebody({"wait", "reset", "closed"})' <=> Somebody({"wait", "reset", "closed"})
      /\ Somebody({"reset", "paused", "closed"})'
            <=> Somebody({"reset", "paused", "closed"})
    BY DEF Somebody
<1>2. /\ Last' = r /\ Len(displays') = Len(displays)
      /\ \A e \in 1..(Len(displays) - 1) : displays'[e] = displays[e]
      /\ UNCHANGED <<gen, statusClosed, doneClosed>>
    BY DEF Moved, chanVars
<1> QED BY <1>1, <1>2 DEF Inv, Displays

\* The newest display goroutine stays where the holder of p.mu expects it.
LEMMA StepDisplays == Inv /\ ~Disturbed' /\ [Next]_vars => Displays'
<1> SUFFICES ASSUME Inv, ~Disturbed', [Next]_vars PROVE Displays'
    OBVIOUS
<1> Core /\ ~TtyMissing /\ ~raced'
    BY DEF Inv, Disturbed
<1>0. /\ Last \in DisplayRecords /\ Len(displays) \in Nat \ {0}
      /\ DOMAIN displays = 1..Len(displays) /\ gen \in Nat
      /\ statusClosed \subseteq Nat /\ doneClosed \subseteq Nat
    BY LastType DEF Inv, Core, TypeOK
<1> Displays /\ pc \in [Users -> UserPCs]
    BY DEF Inv, Core, TypeOK
<1> USE DEF lockVars, chanVars, userVars, fwVars
<1>1. ASSUME NEW u \in Users, NEW o \in Calls, Call(u, o) PROVE Displays'
    BY <1>1, OutsideMutex DEF Call
<1>2. ASSUME NEW u \in Users, Lock(u) PROVE Displays'
    <2>1. \A w \in Users : pc[w] \notin {"wait", "reset", "paused", "closed"}
        BY <1>2, ProgressAssumption DEF Lock, Mutex, Holding, Closing, Core, Inv
    <2>2. /\ ~Somebody({"paused"})' /\ Somebody({"wait"})'
          /\ Somebody({"wait", "reset", "closed"})'
          /\ ~Somebody({"reset", "paused", "closed"})'
        BY <1>2, <2>1 DEF Lock, Somebody
    <2>3. /\ ~Somebody({"paused"}) /\ ~Somebody({"wait"})
          /\ ~Somebody({"reset", "paused", "closed"})
        BY <2>1 DEF Somebody
    <2>4. /\ Last' = Last /\ UNCHANGED <<gen, doneClosed, displays>>
          /\ statusClosed' = statusClosed \cup {gen}
        BY <1>2 DEF Lock, Last
    <2> QED BY <2>2, <2>3, <2>4 DEF Displays
<1>3. ASSUME NEW u \in Users, CondWait(u) PROVE Displays'
    BY <1>3, OutsideMutex DEF CondWait
<1>4. ASSUME NEW u \in Users, ReceiveDone(u) PROVE Displays'
    <2>1. /\ pc[u] = "wait" /\ Last.st = "sending" /\ Returned(u, FALSE)
          /\ Moved([Last EXCEPT !.st = "closing"])
        BY <1>4, ReceiveMoves
    <2>2. \A w \in Users \ {u} : pc[w] \notin {"wait", "reset", "paused", "closed"}
        BY <2>1, OneHolder DEF Holding
    <2>3. pc'[u] \in {"reset", "closed"} /\ \A w \in Users \ {u} : pc'[w] = pc[w]
        <3>1. CASE op[u] = "close"
            BY <2>1, <3>1 DEF Returned
        <3>2. CASE op[u] # "close"
            BY <2>1, <3>2 DEF Returned
        <3> QED BY <3>1, <3>2
    <2>4. /\ ~Somebody({"paused"})' /\ ~Somebody({"wait"})'
          /\ Somebody({"wait", "reset", "closed"})'
          /\ Somebody({"reset", "paused", "closed"})'
        BY <2>2, <2>3 DEF Somebody
    <2>5. /\ ~Somebody({"paused"}) /\ Somebody({"wait", "reset", "closed"})
        BY <2>1, <2>2 DEF Somebody
    <2>6. /\ Last'.st = "closing" /\ Last'.held = Last.held
          /\ Len(displays') = Len(displays)
          /\ \A e \in 1..(Len(displays) - 1) : displays'[e] = displays[e]
        BY <1>0, <2>1 DEF Moved, DisplayRecords
    <2>7. UNCHANGED <<gen, statusClosed, doneClosed>>
        BY <1>4 DEF ReceiveDone
    <2> QED BY <2>1, <2>4, <2>5, <2>6, <2>7 DEF Displays
<1>5. ASSUME NEW u \in Users, Reset(u) PROVE Displays'
    <2>1. pc[u] = "reset" /\ \A w \in Users \ {u} :
             pc[w] \notin {"wait", "reset", "paused", "closed"}
        BY <1>5, OneHolder DEF Reset, Holding
    <2>2. ~Somebody({"paused"}) /\ Somebody({"reset", "paused", "closed"})
        BY <2>1 DEF Somebody
    <2>3. Last.st = "exited" /\ gen = Len(displays) /\ Last.held = None
        <3>0. \A d \in DOMAIN displays : ~At(d, "closing")
            BY <1>5, Zenon DEF Reset, Overtakes
        <3>1. ~At(Len(displays), "closing")
            BY <3>0 DEF At
        <3> QED BY <1>0, <2>2, <3>1 DEF Displays, Last, At
    <2>4. gen' = Len(displays) + 1 /\ UNCHANGED <<statusClosed, doneClosed>>
        BY <1>5, <2>3 DEF Reset
    <2>5. \A g \in statusClosed' \cup doneClosed' : g \in Nat /\ g < gen'
        <3>1. \A g \in statusClosed \cup doneClosed : g \in Nat /\ g <= gen
            BY <1>0 DEF Displays
        <3>2. \A g \in statusClosed \cup doneClosed : g \in Nat /\ g < gen + 1
            BY <1>0, <3>1
        <3> QED BY <2>3, <2>4, <3>2
    <2>6. gen' \notin statusClosed' \cup doneClosed'
        BY <1>0, <2>4, <2>5
    <2>7. CASE op[u] = "sync"
        <3>1. /\ Len(displays') = Len(displays) + 1 /\ Last' = NewDisplay
              /\ \A e \in 1..Len(displays) : displays'[e] = displays[e]
            BY <1>5, <2>7, LastStarts DEF Reset, Idle
        <3>2. \A e \in 1..(Len(displays') - 1) : displays'[e].st = "exited"
            <4>1. \A e \in 1..Len(displays) : displays[e].st = "exited"
                BY <1>0, <2>3, AllExited
            <4> QED BY <1>0, <3>1, <4>1
        <3>3. \A w \in Users : pc'[w] \notin {"wait", "reset", "paused", "closed"}
            BY <1>5, <2>1, <2>7 DEF Reset, Idle
        <3>4. /\ ~Somebody({"paused"})' /\ ~Somebody({"wait"})'
              /\ ~Somebody({"wait", "reset", "closed"})'
              /\ ~Somebody({"reset", "paused", "closed"})'
            BY <3>3 DEF Somebody
        <3>5. /\ Last'.st = "starting" /\ Last'.held = None
              /\ gen' = Len(displays') /\ Len(displays') > 0
            BY <1>0, <2>4, <3>1 DEF NewDisplay
        <3>6. /\ \A g \in statusClosed' \cup doneClosed' : g <= gen'
              /\ gen' \notin statusClosed' /\ gen' \notin doneClosed'
            BY <1>0, <2>4, <2>5, <2>6
        <3> QED BY <3>2, <3>4, <3>5, <3>6 DEF Displays
    <2>8. CASE op[u] # "sync"
        <3>1. UNCHANGED displays /\ Last' = Last
            BY <1>5, <2>8 DEF Reset, Last
        <3>2. pc'[u] = "paused" /\ \A w \in Users \ {u} : pc'[w] = pc[w]
            BY <1>5, <2>8 DEF Reset
        <3>3. /\ Somebody({"paused"})' /\ ~Somebody({"wait"})'
              /\ ~Somebody({"wait", "reset", "closed"})'
              /\ Somebody({"reset", "paused", "closed"})'
            BY <2>1, <3>2 DEF Somebody
        <3>4. /\ Last'.st = "exited" /\ Last'.held = None
              /\ gen' = Len(displays') + 1 /\ Len(displays') > 0
            BY <1>0, <2>3, <2>4, <3>1
        <3>5. /\ \A g \in statusClosed' \cup doneClosed' : g <= gen'
              /\ gen' \notin statusClosed' /\ gen' \notin doneClosed'
            BY <1>0, <2>4, <2>5, <2>6
        <3>6. \A e \in 1..(Len(displays') - 1) : displays'[e].st = "exited"
            BY <3>1 DEF Displays
        <3> QED BY <3>3, <3>4, <3>5, <3>6 DEF Displays
    <2> QED BY <2>7, <2>8
<1>6. ASSUME NEW u \in Users, Resume(u) PROVE Displays'
    <2>1. pc[u] = "paused" /\ \A w \in Users \ {u} :
             pc[w] \notin {"wait", "reset", "paused", "closed"}
        BY <1>6, OneHolder DEF Resume, Holding
    <2>2. Somebody({"paused"}) /\ ~Somebody({"wait", "reset", "closed"})
        BY <2>1 DEF Somebody
    <2>3. /\ Last.st = "exited" /\ gen = Len(displays) + 1
          /\ gen \notin statusClosed \cup doneClosed
        BY <2>2 DEF Displays
    <2>4. UNCHANGED <<gen, statusClosed, doneClosed>>
        BY <1>6 DEF Resume
    <2>5. /\ Len(displays') = Len(displays) + 1 /\ Last' = NewDisplay
          /\ \A e \in 1..Len(displays) : displays'[e] = displays[e]
        BY <1>6, LastStarts DEF Resume
    <2>6. \A e \in 1..(Len(displays') - 1) : displays'[e].st = "exited"
        <3>1. \A e \in 1..Len(displays) : displays[e].st = "exited"
            BY <2>3, AllExited
        <3> QED BY <1>0, <2>5, <3>1
    <2>7. \A w \in Users : pc'[w] \notin {"wait", "reset", "paused", "closed"}
        BY <1>6, <2>1 DEF Resume, Idle
    <2>8. /\ ~Somebody({"paused"})' /\ ~Somebody({"wait"})'
          /\ ~Somebody({"wait", "reset", "closed"})'
          /\ ~Somebody({"reset", "paused", "closed"})'
        BY <2>7 DEF Somebody
    <2>9. /\ Last'.st = "starting" /\ Last'.held = None
          /\ gen' = Len(displays') /\ Len(displays') > 0
        BY <1>0, <2>3, <2>4, <2>5 DEF NewDisplay
    <2>10. /\ \A g \in statusClosed' \cup doneClosed' : g <= gen'
           /\ gen' \notin statusClosed' /\ gen' \notin doneClosed'
        BY <2>3, <2>4 DEF Displays
    <2> QED BY <2>6, <2>8, <2>9, <2>10 DEF Displays
<1>7. ASSUME NEW d, DisplayStart(d) PROVE Displays'
    <2> DEFINE r == [Last EXCEPT !.st = "updating", !.ch = gen]
    <2>1. Last.st = "starting" /\ Moved(r)
        BY <1>7, StartMoves
    <2>2. r \in DisplayRecords /\ r.st = "updating" /\ r.ch = gen
        BY <1>0 DEF DisplayRecords, DisplayStates
    <2>3. UNCHANGED <<pc, chanVars>>
        BY <1>7 DEF DisplayStart
    <2> QED BY <2>1, <2>2, <2>3, DisplayOnly
<1>8. ASSUME NEW d, DisplayTick(d) PROVE Displays'
    <2> DEFINE r == [Last EXCEPT !.held = None]
    <2>1. Last.st = "updating" /\ Moved(r)
        BY <1>8, TickMoves
    <2>2. r \in DisplayRecords /\ r.st = "updating" /\ r.ch = gen
        BY <1>0, <2>1 DEF DisplayRecords, None, Displays
    <2>3. UNCHANGED <<pc, chanVars>>
        BY <1>8 DEF DisplayTick
    <2> QED BY <2>1, <2>2, <2>3, DisplayOnly
<1>9. ASSUME NEW d, DisplayEnd(d) PROVE Displays'
    <2> DEFINE r == [Last EXCEPT !.st = "finishing", !.held = None]
    <2>1. Last.st = "updating" /\ Moved(r) /\ gen \in statusClosed
        BY <1>9, EndMoves
    <2>2. r \in DisplayRecords /\ r.st = "finishing" /\ r.held = None
        BY <1>0 DEF DisplayRecords, DisplayStates, None
    <2>3. Somebody({"wait"})
        BY <2>1 DEF Displays, Somebody
    <2>4. UNCHANGED <<pc, chanVars>>
        BY <1>9 DEF DisplayEnd
    <2> QED BY <2>1, <2>2, <2>3, <2>4, DisplayOnly
<1>10. ASSUME NEW d, DisplaySend(d) PROVE Displays'
    <2> DEFINE r == [Last EXCEPT !.st = "sending", !.done = gen]
    <2>1. Last.st = "finishing" /\ Moved(r)
        BY <1>10, SendMoves
    <2>2. r \in DisplayRecords /\ r.st = "sending" /\ r.done = gen /\ r.held = None
        BY <1>0, <2>1 DEF DisplayRecords, DisplayStates, Displays
    <2>3. Somebody({"wait"})
        BY <2>1 DEF Displays
    <2>4. UNCHANGED <<pc, chanVars>>
        BY <1>10 DEF DisplaySend
    <2> QED BY <2>1, <2>2, <2>3, <2>4, DisplayOnly
<1>11. ASSUME NEW d, DisplayCloseDone(d) PROVE Displays'
    <2>1. Last.st = "closing" /\ Moved([Last EXCEPT !.st = "exited"])
        BY <1>11, CloseDoneMoves
    <2>2. ~Somebody({"paused"}) /\ Somebody({"reset", "paused", "closed"})
        BY <2>1 DEF Displays
    <2>3. /\ Last'.st = "exited" /\ Last'.held = None
          /\ Len(displays') = Len(displays)
          /\ \A e \in 1..(Len(displays) - 1) : displays'[e] = displays[e]
        BY <1>0, <2>1 DEF Moved, DisplayRecords, Displays
    <2>4. /\ UNCHANGED <<pc, gen, statusClosed>> /\ doneClosed' = doneClosed \cup {gen}
        BY <1>11 DEF DisplayCloseDone
    <2>5. /\ ~Somebody({"paused"})'
          /\ Somebody({"reset", "paused", "closed"})'
          /\ Somebody({"wait", "reset", "closed"})'
                <=> Somebody({"wait", "reset", "closed"})
        BY <2>2, <2>4 DEF Somebody
    <2> QED BY <2>2, <2>3, <2>4, <2>5 DEF Displays
<1>12. ASSUME NEW c \in Channels, Open(c) PROVE Displays'
    BY <1>12, OutsideMutex DEF Open
<1>13. ASSUME NEW c \in Channels, Accept(c) PROVE Displays'
    BY <1>13, OutsideMutex DEF Accept
<1>14. ASSUME NEW c \in Channels, CloseChan(c) PROVE Displays'
    BY <1>14, OutsideMutex DEF CloseChan
<1>15. ASSUME NEW c \in Channels, NEW ks \in SUBSET Keys, Dedup(c, ks) PROVE Displays'
    BY <1>15, OutsideMutex DEF Dedup
<1>16. ASSUME NEW c \in Channels, FwLock(c) PROVE Displays'
    BY <1>16, OutsideMutex DEF FwLock
<1>17. ASSUME NEW c \in Channels, NEW d, Deliver(c, d) PROVE Displays'
    <2> DEFINE r == [Last EXCEPT !.held[c] = @ + 1]
    <2>1. Last.st = "updating" /\ Moved(r)
        BY <1>17, DeliverMoves
    <2>2. r \in DisplayRecords
        <3>1. Last.held \in [Channels -> Nat]
            BY <1>0 DEF DisplayRecords
        <3>2. [Last.held EXCEPT ![c] = @ + 1] \in [Channels -> Nat]
            BY <3>1
        <3> QED BY <1>0, <3>2 DEF DisplayRecords
    <2>3. r.st = "updating" /\ r.ch = gen
        BY <1>0, <2>1 DEF DisplayRecords, Displays
    <2>4. UNCHANGED <<pc, chanVars>>
        BY <1>17 DEF Deliver
    <2> QED BY <2>1, <2>2, <2>3, <2>4, DisplayOnly
<1>18. ASSUME NEW c \in Channels, FwEnd(c) PROVE Displays'
    BY <1>18, OutsideMutex DEF FwEnd
<1>19. ASSUME NEW c \in Channels, FwExit(c) PROVE Displays'
    <2>1. UNCHANGED <<chanVars, displays>>
        BY <1>19 DEF FwExit
    <2>2. \A w \in Users : pc'[w] = pc[w] \/ (pc[w] = "cond" /\ pc'[w] = "lock")
        BY <1>19 DEF FwExit
    <2> QED BY <2>1, <2>2, OutsideMutex
<1>20. CASE UNCHANGED vars
    BY <1>20, OutsideMutex DEF vars
<1> QED
    BY <1>1, <1>2, <1>3, <1>4, <1>5, <1>6, <1>7, <1>8, <1>9, <1>10, <1>11, <1>12,
       <1>13, <1>14, <1>15, <1>16, <1>17, <1>18, <1>19, <1>20
       DEF Next, UserNext, DisplayNext, ChannelNext, Terminated

-----------------------------------------------------------------------------
\* The state NewProgress leaves behind satisfies the invariant.
LEMMA InitInv == Init => Inv
<1> SUFFICES ASSUME Init PROVE Inv
    OBVIOUS
<1> USE DEF Init
<1>0. NewDisplay \in DisplayRecords
    BY DEF NewDisplay, DisplayRecords, DisplayStates, None
<1>1. /\ displays \in Seq(DisplayRecords) /\ Len(displays) = 1 /\ Last = NewDisplay
    BY <1>0 DEF Last
<1>2. Live = {}
    BY DEF Live
<1>3. TypeOK
    BY <1>1 DEF TypeOK, Threads, Calls, UserPCs, FwStates, None
<1>4. Mutex
    BY ProgressAssumption DEF Mutex, Holding
<1>5. Closing
    BY DEF Closing
<1>6. Children
    BY <1>2, FS_EmptySet DEF Children
<1>7. Displays
    <2>1. \A S : S \in {{"paused"}, {"wait", "reset", "closed"}, {"wait"},
                        {"reset", "paused", "closed"}} => ~Somebody(S)
        BY DEF Somebody
    <2>2. 1..(Len(displays) - 1) = {} /\ gen = 1 /\ statusClosed = {} /\ doneClosed = {}
        BY <1>1
    <2>3. Last.st = "starting" /\ Last.held = None
        BY <1>1 DEF NewDisplay
    <2> QED BY <1>1, <2>1, <2>2, <2>3 DEF Displays
<1>8. Counts
    BY <1>1 DEF Counts, None, NewDisplay, InFlight, Carrying
<1>9. Logs
    BY DEF Logs, LogOf, Carries, Carrying
<1> QED BY <1>3, <1>4, <1>5, <1>6, <1>7, <1>8, <1>9 DEF Inv, Core

\* Once the hub is disturbed it stays so.
LEMMA StaysDisturbed == Disturbed /\ [Next]_vars => Disturbed'
<1> SUFFICES ASSUME raced, [Next]_vars PROVE raced'
    BY DEF Disturbed
<1> USE DEF chanVars
<1>1. ASSUME NEW u \in Users, UserNext(u) PROVE raced'
    BY <1>1 DEF UserNext, Call, Lock, CondWait, ReceiveDone, Reset, Overtakes, Resume
<1>2. ASSUME NEW d, DisplayNext(d) PROVE raced'
    BY <1>2 DEF DisplayNext, DisplayStart, DisplayTick, DisplayEnd, DisplaySend,
                DisplayCloseDone
<1>3. ASSUME NEW c \in Channels, ChannelNext(c) PROVE raced'
    BY <1>3 DEF ChannelNext, Open, Accept, CloseChan, Dedup, FwLock, Deliver, FwEnd, FwExit
<1>4. CASE UNCHANGED vars
    BY <1>4 DEF vars
<1> QED BY <1>1, <1>2, <1>3, <1>4 DEF Next, Terminated

\* Every step keeps the invariant: all of it, or its core and the disturbance.
LEMMA StepKept == Kept /\ [Next]_vars => Kept'
<1> SUFFICES ASSUME Kept, [Next]_vars PROVE Kept'
    OBVIOUS
<1>1. Core'
    BY StepTypes, StepMutex, StepClosing, StepChildren, StepLogs DEF Kept, Core
<1>2. CASE Disturbed'
    BY <1>1, <1>2 DEF Kept
<1>3. CASE ~Disturbed'
    <2>1. Inv
        BY <1>3, StaysDisturbed DEF Kept
    <2>2. Displays' /\ Counts'
        BY <1>3, <2>1, StepDisplays, StepCounts
    <2> QED BY <1>1, <2>2 DEF Kept, Inv
<1> QED BY <1>2, <1>3

\* Every reachable state satisfies the invariant.
THEOREM Invariance == Spec => []Kept
<1>1. Init => Kept
    BY InitInv DEF Kept, Inv
<1> QED BY <1>1, StepKept, PTL DEF Spec

\* The variables of Progress keep their types, in every schedule.
THEOREM TypeCorrect == Spec => []TypeOK
<1>1. Kept => TypeOK
    BY DEF Kept, Core
<1> QED BY <1>1, Invariance, PTL

\* No send on a closed Go channel and no second close, whatever the number of
\* users and forwarders, but after a race on p.done or a failed display.
THEOREM PanicOnlyDisturbedAlways == Spec => []PanicOnlyDisturbed
<1>1. Kept => PanicOnlyDisturbed
    <2>0. Kept => Disturbed \/ Inv
        BY DEF Kept
    <2> SUFFICES ASSUME Inv PROVE ~Panics
        BY <2>0 DEF PanicOnlyDisturbed
    <2>1. ASSUME NEW c \in Channels, fw[c] = "send", gen \in statusClosed PROVE FALSE
        <3>1. PICK u \in Users : pc[u] \in {"wait", "reset", "closed"}
            BY <2>1 DEF Inv, Displays, Somebody
        <3>2. c \in Live /\ mu = c
            BY <2>1 DEF Live, Inv, Core, Mutex
        <3>3. pc[u] # "closed"
            BY <3>2 DEF Inv, Core, Closing
        <3>4. mu = u
            BY <3>1, <3>3 DEF Inv, Core, Mutex, Holding
        <3> QED BY <3>2, <3>4, ProgressAssumption
    <2>2. ASSUME NEW u \in Users, pc[u] = "lock", mu = Free, gen \in statusClosed
          PROVE  FALSE
        <3>1. PICK w \in Users : pc[w] \in {"wait", "reset", "closed"}
            BY <2>2 DEF Inv, Displays, Somebody
        <3>2. pc[w] # "closed"
            BY <2>2, <3>1 DEF Inv, Core, Closing
        <3>3. mu = w
            BY <3>1, <3>2 DEF Inv, Core, Mutex, Holding
        <3> QED BY <2>2, <3>3, ProgressAssumption
    <2>3. ASSUME NEW d, At(d, "sending"), displays[d].done \in doneClosed PROVE FALSE
        <3>1. Last.st = "sending" /\ Last.done \in doneClosed
            BY <2>3, Current DEF At, DisplayStates
        <3> QED BY <3>1 DEF Inv, Displays
    <2>4. ASSUME NEW d, At(d, "closing"), gen \in doneClosed PROVE FALSE
        <3>1. Last.st = "closing"
            BY <2>4, Current DEF At, DisplayStates
        <3> QED BY <2>4, <3>1 DEF Inv, Displays
    <2> QED BY <2>1, <2>2, <2>3, <2>4 DEF Panics
<1> QED BY <1>1, Invariance, PTL

\* Once Close has returned everything sent is shown and no display is left.
LEMMA ClosedState ==
    ASSUME Inv, NEW u \in Users, pc[u] = "closed"
    PROVE  /\ shown = sent /\ Live = {}
           /\ \A d \in DOMAIN displays : displays[d].st \in {"closing", "exited"}
<1>1. Live = {}
    BY DEF Inv, Core, Closing
<1>2. Last.st \in {"closing", "exited"} /\ Last.held = None
    BY DEF Inv, Displays, Somebody
<1>3. \A c \in Channels : InFlight(c) = 0
    BY <1>1 DEF InFlight, Live, Carrying
<1>4. \A c \in Channels : sent[c] = shown[c]
    BY <1>2, <1>3 DEF Inv, Counts, Core, TypeOK, None
<1>5. shown = sent
    BY <1>4 DEF Inv, Core, TypeOK
<1>6. \A d \in DOMAIN displays : d \in 1..(Len(displays) - 1) \/ d = Len(displays)
    BY LastType
<1>7. \A d \in DOMAIN displays : displays[d].st \in {"closing", "exited"}
    BY <1>2, <1>6 DEF Inv, Displays, Last
<1> QED BY <1>1, <1>5, <1>7

\* When Close returns, every message of every channel is on the output and
\* nobody is left who could write to it, unless the hub was disturbed.
THEOREM CloseFlushesAlways == Spec => []CloseFlushes
<1>1. Kept => CloseFlushes
    BY ClosedState DEF Kept, CloseFlushes
<1> QED BY <1>1, Invariance, PTL

\* A Pause holds p.mu until its Resume, and owns the output alone unless the hub
\* was disturbed.
THEOREM PauseExclusiveAlways == Spec => []PauseExclusive
<1>1. ASSUME Core, NEW u \in Users, pc[u] = "paused" PROVE mu = u
    BY <1>1 DEF Core, Mutex, Holding
<1>2. ASSUME Inv, NEW u \in Users, pc[u] = "paused"
      PROVE  /\ \A d \in DOMAIN displays : displays[d].st = "exited"
             /\ \A c \in Channels :
                   fw[c] \notin {"dedup", "lock"} => shown[c] = sent[c]
    <2> USE <1>2
    <2>1. mu = u
        BY <1>1 DEF Inv
    <2>2. Last.st = "exited" /\ Last.held = None
        BY DEF Inv, Displays, Somebody
    <2>3. \A d \in DOMAIN displays : displays[d].st = "exited"
        BY <2>2, AllExited, LastType
    <2>4. ASSUME NEW c \in Channels, fw[c] \notin {"dedup", "lock"}
          PROVE  shown[c] = sent[c]
        <3>1. fw[c] # "send"
            BY <2>1, ProgressAssumption DEF Inv, Core, Mutex
        <3>2. InFlight(c) = 0
            BY <2>4, <3>1 DEF InFlight, Carrying
        <3> QED BY <2>2, <3>2 DEF Inv, Counts, Core, TypeOK, None
    <2> QED BY <2>3, <2>4
<1>3. Kept => PauseExclusive
    <2> SUFFICES ASSUME Kept, NEW u \in Users, pc[u] = "paused"
                 PROVE  /\ mu = u
                        /\ \/ Disturbed
                           \/ /\ \A d \in DOMAIN displays : displays[d].st = "exited"
                              /\ \A c \in Channels : fw[c] \notin {"dedup", "lock"} =>
                                                       shown[c] = sent[c]
        BY DEF PauseExclusive
    <2>1. mu = u
        BY <1>1 DEF Kept
    <2>2. CASE Disturbed
        BY <2>1, <2>2
    <2>3. CASE Inv
        BY <1>2, <2>1, <2>3
    <2> QED BY <2>2, <2>3 DEF Kept
<1> QED BY <1>3, Invariance, PTL

\* A log record is displayed at most once, and by the time Close has returned
\* exactly once, in every schedule.
THEOREM LogOnceAlways == Spec => []LogOnce
<1>1. Kept => LogOnce
    <2> SUFFICES ASSUME Core PROVE LogOnce
        BY DEF Kept
    <2>1. ASSUME NEW k \in Keys PROVE logged[k] <= 1
        <3>1. logged[k] = 0 \/ logged[k] = 1
            BY DEF Core, Logs, LogOf
        <3> QED BY <3>1
    <2>2. ASSUME NEW u \in Users, pc[u] = "closed", NEW k \in seen PROVE logged[k] = 1
        <3>1. Live = {}
            BY <2>2 DEF Core, Closing
        <3>2. \A c \in Channels : ~Carries(c, k)
            BY <3>1 DEF Live, Carries, Carrying
        <3> QED BY <2>2, <3>2 DEF Core, TypeOK, Logs, LogOf
    <2> QED BY <2>1, <2>2 DEF LogOnce
<1> QED BY <1>1, Invariance, PTL

-----------------------------------------------------------------------------
\* The initial state is one of ProgressLog.
LEMMA LogInit == Init => Log!Init
BY DEF Init, Log!Init, None

\* A step that changes neither the counts nor who is paused or closed is a
\* stutter of ProgressLog.
LEMMA LogStutter ==
    ASSUME UNCHANGED <<sent, shown>>,
           \A u \in Users : /\ (pc'[u] = "paused") <=> (pc[u] = "paused")
                            /\ (pc'[u] = "closed") <=> (pc[u] = "closed")
    PROVE  UNCHANGED Log!vars
BY DEF Log!vars

\* What a display writes is a Show.
LEMMA LogShow ==
    ASSUME Inv, Last.st = "updating", UNCHANGED <<sent, pc>>,
           shown' = [c \in Channels |-> shown[c] + Last.held[c]]
    PROVE  Log!Show
<1>1. \A u \in Users : pc[u] \notin {"paused", "closed"}
    BY DEF Inv, Displays, Somebody
<1>2. Last.held \in [Channels -> Nat]
    BY LastType DEF DisplayRecords
<1>3. \A c \in Channels : shown[c] \in Nat /\ InFlight(c) \in Nat
    BY DEF Inv, Core, TypeOK, InFlight
<1>4. shown' \in [Channels -> Nat]
    BY <1>2, <1>3
<1>5. \A c \in Channels : shown[c] <= shown'[c] /\ shown'[c] <= sent[c]
    BY <1>2, <1>3 DEF Inv, Counts
<1> QED BY <1>1, <1>4, <1>5 DEF Log!Show

\* Every step of Progress is a step of ProgressLog or a stutter.
LEMMA LogStep == Inv /\ ~Disturbed' /\ [Next]_vars => [Log!Next]_Log!vars
<1> SUFFICES ASSUME Inv, ~Disturbed', [Next]_vars PROVE [Log!Next]_Log!vars
    OBVIOUS
<1> Core /\ ~TtyMissing /\ ~raced'
    BY DEF Inv, Disturbed
<1>0. pc \in [Users -> UserPCs]
    BY DEF Inv, Core, TypeOK
<1> USE DEF chanVars, lockVars, userVars, fwVars, FwStep
<1>1. ASSUME NEW u \in Users, NEW o \in Calls, Call(u, o) PROVE UNCHANGED Log!vars
    BY <1>0, <1>1, LogStutter DEF Call
<1>2. ASSUME NEW u \in Users, Lock(u) PROVE UNCHANGED Log!vars
    BY <1>0, <1>2, LogStutter DEF Lock
<1>3. ASSUME NEW u \in Users, CondWait(u) PROVE UNCHANGED Log!vars
    BY <1>0, <1>3, LogStutter DEF CondWait
<1>4. ASSUME NEW u \in Users, ReceiveDone(u) PROVE [Log!Next]_Log!vars
    <2>1. pc[u] = "wait" /\ Returned(u, FALSE) /\ Last.st = "sending"
        BY <1>4, ReceiveMoves
    <2>2. UNCHANGED <<sent, shown>>
        BY <1>4 DEF ReceiveDone
    <2>3. CASE op[u] = "close"
        <3>1. pc' = [pc EXCEPT ![u] = "closed"]
            BY <2>1, <2>3 DEF Returned
        <3>2. \A w \in Users : pc[w] \notin {"paused", "closed"}
            BY <2>1 DEF Inv, Displays, Somebody
        <3>3. \A c \in Channels : InFlight(c) = 0 /\ Last.held[c] = 0
            <4>1. Live = {}
                BY <2>1, <2>3 DEF Inv, Core, Closing
            <4>2. Last.held = None
                BY <2>1 DEF Inv, Displays
            <4> QED BY <4>1, <4>2 DEF InFlight, Live, Carrying, None
        <3>4. \A c \in Channels : shown[c] = sent[c]
            <4>1. \A c \in Channels : /\ sent[c] = shown[c] + Last.held[c] + InFlight(c)
                                      /\ shown[c] \in Nat
                BY DEF Inv, Counts, Core, TypeOK
            <4> QED BY <3>3, <4>1
        <3>5. shown = sent
            BY <3>4 DEF Inv, Core, TypeOK
        <3>6. /\ ~(\E w \in Users : pc'[w] = "paused")
              /\ \E w \in Users : pc'[w] = "closed"
            BY <1>0, <3>1, <3>2
        <3>7. Log!Close
            BY <2>2, <3>2, <3>5, <3>6 DEF Log!Close
        <3> QED BY <3>7 DEF Log!Next
    <2>4. CASE op[u] # "close"
        <3>1. pc' = [pc EXCEPT ![u] = "reset"]
            BY <2>1, <2>4 DEF Returned
        <3> QED BY <1>0, <2>1, <2>2, <3>1, LogStutter
    <2> QED BY <2>3, <2>4
<1>5. ASSUME NEW u \in Users, Reset(u) PROVE [Log!Next]_Log!vars
    <2>1. pc[u] = "reset" /\ UNCHANGED <<sent, shown>>
        BY <1>5 DEF Reset
    <2>2. \A w \in Users : pc[w] \notin {"paused", "closed"}
        BY <2>1, OneHolder DEF Holding
    <2>3. CASE op[u] = "sync"
        BY <1>0, <1>5, <2>1, <2>3, LogStutter DEF Reset, Idle
    <2>4. CASE op[u] # "sync"
        <3>1. pc' = [pc EXCEPT ![u] = "paused"]
            BY <1>5, <2>4 DEF Reset
        <3>2. /\ \E w \in Users : pc'[w] = "paused"
              /\ ~(\E w \in Users : pc'[w] = "closed")
            BY <1>0, <2>2, <3>1
        <3>3. Log!Pause
            BY <2>1, <2>2, <3>2 DEF Log!Pause
        <3> QED BY <3>3 DEF Log!Next
    <2> QED BY <2>3, <2>4
<1>6. ASSUME NEW u \in Users, Resume(u) PROVE [Log!Next]_Log!vars
    <2>1. /\ pc[u] = "paused" /\ pc' = [pc EXCEPT ![u] = "idle"]
          /\ UNCHANGED <<sent, shown>>
        BY <1>6 DEF Resume, Idle
    <2>2. \A w \in Users : pc[w] # "closed" /\ (pc[w] = "paused" => w = u)
        BY <2>1, OneHolder DEF Holding
    <2>3. /\ ~(\E w \in Users : pc'[w] = "paused")
          /\ ~(\E w \in Users : pc'[w] = "closed")
        BY <1>0, <2>1, <2>2
    <2>4. Log!Resume
        BY <2>1, <2>2, <2>3 DEF Log!Resume
    <2> QED BY <2>4 DEF Log!Next
<1>7. ASSUME NEW d, DisplayStart(d) PROVE UNCHANGED Log!vars
    BY <1>7, LogStutter DEF DisplayStart
<1>8. ASSUME NEW d, DisplayTick(d) PROVE Log!Next
    <2>1. Log!Show
        BY <1>8, TickMoves, LogShow DEF DisplayTick
    <2> QED BY <2>1 DEF Log!Next
<1>9. ASSUME NEW d, DisplayEnd(d) PROVE Log!Next
    <2>1. Log!Show
        BY <1>9, EndMoves, LogShow DEF DisplayEnd
    <2> QED BY <2>1 DEF Log!Next
<1>10. ASSUME NEW d, DisplaySend(d) PROVE UNCHANGED Log!vars
    BY <1>10, LogStutter DEF DisplaySend
<1>11. ASSUME NEW d, DisplayCloseDone(d) PROVE UNCHANGED Log!vars
    BY <1>11, LogStutter DEF DisplayCloseDone
<1>12. ASSUME NEW c \in Channels, Open(c) PROVE UNCHANGED Log!vars
    BY <1>12, LogStutter DEF Open
<1>13. ASSUME NEW c \in Channels, Accept(c) PROVE Log!Next
    <2>1. c \in Live
        BY <1>13 DEF Accept, Live
    <2>2. ~(\E u \in Users : pc[u] = "closed")
        BY <2>1, ClosedState
    <2>3. Log!Send(c)
        BY <1>13, <2>2 DEF Accept, Log!Send
    <2> QED BY <2>3 DEF Log!Next
<1>14. ASSUME NEW c \in Channels, CloseChan(c) PROVE UNCHANGED Log!vars
    BY <1>14, LogStutter DEF CloseChan
<1>15. ASSUME NEW c \in Channels, NEW ks \in SUBSET Keys, Dedup(c, ks) PROVE UNCHANGED Log!vars
    BY <1>15, LogStutter DEF Dedup
<1>16. ASSUME NEW c \in Channels, FwLock(c) PROVE UNCHANGED Log!vars
    BY <1>16, LogStutter DEF FwLock
<1>17. ASSUME NEW c \in Channels, NEW d, Deliver(c, d) PROVE UNCHANGED Log!vars
    BY <1>17, LogStutter DEF Deliver
<1>18. ASSUME NEW c \in Channels, FwEnd(c) PROVE UNCHANGED Log!vars
    BY <1>18, LogStutter DEF FwEnd
<1>19. ASSUME NEW c \in Channels, FwExit(c) PROVE UNCHANGED Log!vars
    <2>1. \A w \in Users : pc'[w] = pc[w] \/ (pc[w] = "cond" /\ pc'[w] = "lock")
        BY <1>0, <1>19 DEF FwExit
    <2> QED BY <1>19, <2>1, LogStutter DEF FwExit
<1>20. CASE UNCHANGED vars
    BY <1>20, LogStutter DEF vars
<1> QED
    BY <1>1, <1>2, <1>3, <1>4, <1>5, <1>6, <1>7, <1>8, <1>9, <1>10, <1>11, <1>12,
       <1>13, <1>14, <1>15, <1>16, <1>17, <1>18, <1>19, <1>20
       DEF Next, UserNext, DisplayNext, ChannelNext, Terminated

\* Until it is disturbed the progress hub implements the promise of the
\* Progress interface.
THEOREM Refinement == Spec => Implements
<1>1. Init => Log!Init
    BY LogInit
<1>2. Kept /\ [Next]_vars => [Log!Next \/ Disturbed']_Log!vars
    <2> SUFFICES ASSUME Kept, [Next]_vars, ~Disturbed' PROVE [Log!Next]_Log!vars
        OBVIOUS
    <2>1. Inv
        BY StaysDisturbed DEF Kept
    <2> QED BY <2>1, LogStep
<1> QED BY <1>1, <1>2, Invariance, PTL DEF Spec, Implements
=============================================================================
