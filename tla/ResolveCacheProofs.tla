------------------------- MODULE ResolveCacheProofs -------------------------
(* The safety properties of ResolveCache, for every set of callers, keys   *)
(* and configurations.                                                     *)
EXTENDS ResolveCache, TLAPS

\* A cache value is written exactly when its inflight channel is closed, by
\* the goroutine that leads; what has been answered is what is written.
Values ==
    /\ inflight \subseteq cached
    /\ \A k \in ImageKeys \ cached : fields[k] = Unset
    /\ \A k \in cached \ inflight : fields[k] # Unset
    /\ \A c \in Callers :
          /\ pc[c] = "fetch" => key[c] \in cached
          /\ pc[c] = "storing" => got[c] # Unset
          /\ pc[c] = "closing" => fields[key[c]] # Unset
    /\ \A a \in answers : a[1] \in cached \ inflight /\ a[2] = fields[a[1]]

\* OneLeader without the existential: a caller leads the keys in flight.
LeadersInFlight ==
    \A c \in Callers : pc[c] \in Leading => key[c] \in inflight

Inv == TypeOK /\ OneLeader /\ Values

\* The facts of Inv that the steps need about callers that lead.
LEMMA LeaderFacts == Inv => LeadersInFlight
BY DEF Inv, OneLeader, LeadersInFlight, Leads, TypeOK

\* The initial state satisfies the invariant.
LEMMA InitInv == Init => Inv
<1> SUFFICES ASSUME Init PROVE Inv
    OBVIOUS
<1>1. TypeOK
    BY ResolveAssumption DEF Init, TypeOK, PCs
<1>2. OneLeader
    BY DEF Init, OneLeader, Leads, Leading
<1>3. Values
    BY DEF Init, Values
<1> QED BY <1>1, <1>2, <1>3 DEF Inv

\* Every step preserves the types.
LEMMA StepTypes == Inv /\ [Next]_vars => TypeOK'
<1> SUFFICES ASSUME Inv, [Next]_vars PROVE TypeOK'
    OBVIOUS
<1> USE DEF Inv, TypeOK, PCs, callVars
<1>1. ASSUME NEW c \in Callers, NEW k \in ImageKeys, Lookup(c, k) PROVE TypeOK'
    BY <1>1 DEF Lookup
<1>2. ASSUME NEW c \in Callers, NEW r \in Results, Resolved(c, r) PROVE TypeOK'
    BY <1>2 DEF Resolved
<1>3. ASSUME NEW c \in Callers, Cancel(c) PROVE TypeOK'
    BY <1>3 DEF Cancel
<1>4. ASSUME NEW c \in Callers, Store(c) PROVE TypeOK'
    BY <1>4 DEF Store
<1>5. ASSUME NEW c \in Callers, CloseInflight(c) PROVE TypeOK'
    BY <1>5 DEF CloseInflight
<1>6. ASSUME NEW c \in Callers, FetchCanceled(c) PROVE TypeOK'
    BY <1>6 DEF FetchCanceled
<1>7. ASSUME NEW c \in Callers, FetchValue(c) PROVE TypeOK'
    BY <1>7 DEF FetchValue, Values
<1>8. CASE UNCHANGED vars
    BY <1>8 DEF vars
<1> QED BY <1>1, <1>2, <1>3, <1>4, <1>5, <1>6, <1>7, <1>8 DEF Next, Terminated

\* Every step keeps one leader per key in flight.
LEMMA StepLeader == Inv /\ [Next]_vars => OneLeader'
<1> SUFFICES ASSUME Inv, [Next]_vars PROVE OneLeader'
    OBVIOUS
<1> USE DEF Inv, TypeOK, OneLeader, Leads, Leading, callVars
<1>1. ASSUME NEW c \in Callers, NEW k \in ImageKeys, Lookup(c, k) PROVE OneLeader'
    <2>1. CASE k \in cached
        BY <1>1, <2>1 DEF Lookup
    <2>2. CASE k \notin cached
        <3>1. k \notin inflight
            BY <2>2 DEF Values
        <3>2. \A d \in Callers : ~Leads(d, k)
            BY <3>1
        <3>3. \A d \in Callers, j \in ImageKeys :
                 Leads(d, j)' <=> Leads(d, j) \/ (d = c /\ j = k)
            BY <1>1, <2>2 DEF Lookup
        <3> QED BY <1>1, <2>2, <3>2, <3>3 DEF Lookup
    <2> QED BY <2>1, <2>2
<1>2. ASSUME NEW c \in Callers, NEW r \in Results, Resolved(c, r) PROVE OneLeader'
    <2>1. \A d \in Callers, j \in ImageKeys : Leads(d, j)' <=> Leads(d, j)
        BY <1>2 DEF Resolved
    <2> QED BY <1>2, <2>1 DEF Resolved
<1>3. ASSUME NEW c \in Callers, Cancel(c) PROVE OneLeader'
    BY <1>3 DEF Cancel
<1>4. ASSUME NEW c \in Callers, Store(c) PROVE OneLeader'
    <2>1. \A d \in Callers, j \in ImageKeys : Leads(d, j)' <=> Leads(d, j)
        BY <1>4 DEF Store
    <2> QED BY <1>4, <2>1 DEF Store
<1>5. ASSUME NEW c \in Callers, CloseInflight(c) PROVE OneLeader'
    <2>1. Leads(c, key[c])
        BY <1>5 DEF CloseInflight
    <2>2. \A d \in Callers, j \in ImageKeys : Leads(d, j)' <=> Leads(d, j) /\ d # c
        BY <1>5 DEF CloseInflight
    <2>3. \A d \in Callers, j \in ImageKeys : Leads(d, j) /\ d # c => j # key[c]
        BY <2>1
    <2> QED BY <1>5, <2>1, <2>2, <2>3 DEF CloseInflight
<1>6. ASSUME NEW c \in Callers, FetchCanceled(c) PROVE OneLeader'
    <2>1. \A d \in Callers, j \in ImageKeys : Leads(d, j)' <=> Leads(d, j)
        BY <1>6 DEF FetchCanceled
    <2> QED BY <1>6, <2>1 DEF FetchCanceled
<1>7. ASSUME NEW c \in Callers, FetchValue(c) PROVE OneLeader'
    <2>1. \A d \in Callers, j \in ImageKeys : Leads(d, j)' <=> Leads(d, j)
        BY <1>7 DEF FetchValue
    <2> QED BY <1>7, <2>1 DEF FetchValue
<1>8. CASE UNCHANGED vars
    BY <1>8 DEF vars
<1> QED BY <1>1, <1>2, <1>3, <1>4, <1>5, <1>6, <1>7, <1>8 DEF Next, Terminated

\* Every step keeps the cache values consistent.
LEMMA StepValues == Inv /\ [Next]_vars => Values'
<1> SUFFICES ASSUME Inv, [Next]_vars PROVE Values'
    OBVIOUS
<1>0. LeadersInFlight
    BY LeaderFacts
<1> USE DEF Inv, TypeOK, Values, callVars
<1>1. ASSUME NEW c \in Callers, NEW k \in ImageKeys, Lookup(c, k) PROVE Values'
    BY <1>1 DEF Lookup
<1>2. ASSUME NEW c \in Callers, NEW r \in Results, Resolved(c, r) PROVE Values'
    BY <1>2, ResolveAssumption DEF Resolved
<1>3. ASSUME NEW c \in Callers, Cancel(c) PROVE Values'
    BY <1>3 DEF Cancel
<1>4. ASSUME NEW c \in Callers, Store(c) PROVE Values'
    <2>1. key[c] \in inflight
        BY <1>0, <1>4 DEF Store, LeadersInFlight, Leading
    <2>2. \A d \in Callers : pc[d] = "closing" => key[d] # key[c]
        BY <1>4 DEF Store, OneLeader, Leads, Leading
    <2> QED BY <1>4, <2>1, <2>2 DEF Store
<1>5. ASSUME NEW c \in Callers, CloseInflight(c) PROVE Values'
    <2>1. key[c] \in inflight
        BY <1>0, <1>5 DEF CloseInflight, LeadersInFlight, Leading
    <2> QED BY <1>5, <2>1 DEF CloseInflight
<1>6. ASSUME NEW c \in Callers, FetchCanceled(c) PROVE Values'
    BY <1>6 DEF FetchCanceled
<1>7. ASSUME NEW c \in Callers, FetchValue(c) PROVE Values'
    BY <1>7 DEF FetchValue
<1>8. CASE UNCHANGED vars
    BY <1>8 DEF vars
<1> QED BY <1>1, <1>2, <1>3, <1>4, <1>5, <1>6, <1>7, <1>8 DEF Next, Terminated

\* Inv holds in every reachable state.
THEOREM Invariance == Spec => []Inv
<1>1. Init => Inv
    BY InitInv
<1>2. Inv /\ [Next]_vars => Inv'
    BY StepTypes, StepLeader, StepValues DEF Inv
<1> QED BY <1>1, <1>2, PTL DEF Spec

\* The variables keep their types.
THEOREM TypeCorrect == Spec => []TypeOK
BY Invariance, PTL DEF Inv

\* Every key in flight has one goroutine that will close its channel, and
\* that one alone may.
THEOREM OneLeaderAlways == Spec => []OneLeader
BY Invariance, PTL DEF Inv

\* Lookups that get past their contexts agree.
THEOREM AgreementAlways == Spec => []Agreement
<1>1. Inv => Agreement
    BY DEF Inv, Values, Agreement
<1> QED BY <1>1, Invariance, PTL

\* A stored resolution is final, be it a failure.
THEOREM ResolvedForGoodAlways == Spec => ResolvedForGood
<1> DEFINE Final ==
        \A k \in cached \ inflight :
            /\ fields'[k] = fields[k] /\ k \in cached' \ inflight'
            /\ \A c \in Callers : ~Leads(c, k)'
<1>1. Inv /\ Inv' /\ [Next]_vars => [Final]_vars
    <2> SUFFICES ASSUME Inv, Inv', [Next]_vars,
                        NEW k \in ImageKeys, k \in cached, k \notin inflight
                 PROVE /\ fields'[k] = fields[k]
                       /\ k \in cached' /\ k \notin inflight'
        BY DEF Inv, TypeOK, OneLeader
    <2>0. \A c \in Callers : pc[c] \in Leading => key[c] # k
        BY DEF Inv, OneLeader, Leads
    <2> USE DEF Inv, TypeOK
    <2>1. ASSUME NEW c \in Callers, NEW j \in ImageKeys, Lookup(c, j)
          PROVE fields'[k] = fields[k] /\ k \in cached' /\ k \notin inflight'
        BY <2>1 DEF Lookup
    <2>2. ASSUME NEW c \in Callers, Store(c)
          PROVE fields'[k] = fields[k] /\ k \in cached' /\ k \notin inflight'
        BY <2>0, <2>2 DEF Store, Leading
    <2>3. ASSUME NEW c \in Callers, CloseInflight(c)
          PROVE fields'[k] = fields[k] /\ k \in cached' /\ k \notin inflight'
        BY <2>3 DEF CloseInflight
    <2>4. CASE UNCHANGED <<cached, fields, inflight>>
        BY <2>4
    <2> QED BY <2>1, <2>2, <2>3, <2>4
            DEF Next, Terminated, Resolved, Cancel, FetchCanceled, FetchValue, vars
<1>2. Spec => [][Final]_vars
    BY <1>1, Invariance, PTL DEF Spec
<1> QED BY <1>2 DEF ResolvedForGood

-----------------------------------------------------------------------------
\* The refinement mapping of ResolveCache, spelled out.
Mapped == [k \in ImageKeys |-> IF k \in inflight THEN Unset ELSE fields[k]]

\* The initial state is one of the write-once table.
LEMMA MappedInit == Init => Configurations!Init
BY DEF Init, Configurations!Init

\* Closing inflight is the resolution, reading a value is the answer, and
\* every other step is a stutter.
LEMMA MappedStep == Inv /\ [Next]_vars => [Configurations!Next]_Configurations!vars
<1> SUFFICES ASSUME Inv, [Next]_vars PROVE [Configurations!Next]_Configurations!vars
    OBVIOUS
<1>0. LeadersInFlight
    BY LeaderFacts
<1> USE DEF Inv, TypeOK, callVars, Configurations!vars
<1>1. ASSUME NEW c \in Callers, NEW k \in ImageKeys, Lookup(c, k)
      PROVE UNCHANGED Configurations!vars
    <2>1. \A j \in ImageKeys : j \in inflight' => j \in inflight \/ fields[j] = Unset
        BY <1>1 DEF Lookup, Values
    <2>2. \A j \in ImageKeys : j \in inflight => j \in inflight'
        BY <1>1 DEF Lookup
    <2> QED BY <1>1, <2>1, <2>2 DEF Lookup
<1>2. ASSUME NEW c \in Callers, Store(c) PROVE UNCHANGED Configurations!vars
    <2>1. key[c] \in inflight
        BY <1>0, <1>2 DEF Store, LeadersInFlight, Leading
    <2> QED BY <1>2, <2>1 DEF Store
<1>3. ASSUME NEW c \in Callers, CloseInflight(c) PROVE Configurations!Next
    <2>1. PICK k \in ImageKeys, r \in Results : k = key[c] /\ r = fields[k]
        BY <1>3 DEF CloseInflight, Values
    <2>2. k \in inflight
        BY <1>0, <1>3, <2>1 DEF CloseInflight, LeadersInFlight, Leading
    <2>3. Mapped' = [Mapped EXCEPT ![k] = r]
        BY <1>3, <2>1, <2>2 DEF CloseInflight, Mapped
    <2>4. Mapped[k] = Unset
        BY <2>2 DEF Mapped
    <2>5. Configurations!Resolve(k, r)
        BY <1>3, <2>3, <2>4 DEF CloseInflight, Mapped, Configurations!Resolve
    <2> QED BY <2>5 DEF Configurations!Next
<1>5. ASSUME NEW c \in Callers, FetchValue(c) PROVE Configurations!Next
    <2>1. /\ key[c] \in ImageKeys /\ Mapped[key[c]] = fields[key[c]]
          /\ fields[key[c]] # Unset
        BY <1>5 DEF FetchValue, Values, Mapped
    <2>2. Configurations!Answer(key[c])
        BY <1>5, <2>1 DEF FetchValue, Mapped, Configurations!Answer
    <2> QED BY <2>1, <2>2 DEF Configurations!Next
<1>6. CASE UNCHANGED <<fields, inflight, answers>>
    BY <1>6
<1> QED BY <1>1, <1>2, <1>3, <1>5, <1>6
        DEF Next, Terminated, Resolved, Cancel, FetchCanceled, vars

\* The cache implements the write-once table of ImageConfigs.
THEOREM Refinement == Spec => Implements
<1>1. Init => Configurations!Init
    BY MappedInit
<1>2. Inv /\ [Next]_vars => [Configurations!Next]_Configurations!vars
    BY MappedStep
<1> QED BY <1>1, <1>2, Invariance, PTL DEF Spec, Implements, Configurations!Spec
=============================================================================
