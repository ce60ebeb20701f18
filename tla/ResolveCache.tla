---------------------------- MODULE ResolveCache ----------------------------
(* resolver.go: the image config cache that all builds of a solver share.  *)
(* The first lookup of a key becomes its leader and asks BuildKit; the     *)
(* others wait for the leader or for their own context.                    *)
EXTENDS Naturals

CONSTANTS
    Callers,      \* goroutines that resolve image configs
    ImageKeys,    \* resolveImageCacheKey: reference, platform, resolve mode
    Configs,      \* what BuildKit may answer (a tag can move between answers)
    Unset,        \* the fields of a resolveImageCacheValue before store
    MaxLookups    \* bound: lookups made

\* "error" is a failed build, "canceled" a context error.
Failures == {"error", "canceled"}
Results == Configs \cup Failures

ASSUME ResolveAssumption ==
    /\ Unset \notin Results
    /\ ImageKeys # {}
    /\ Configs \cap Failures = {}
    /\ MaxLookups \in Nat

VARIABLES
    cached,       \* keys present in resolveImageCache.cache
    fields,       \* per key: ref, digest, config and err of its cache value
    inflight,     \* keys whose inflight channel is still open
    pc, key, ctx, \* per caller: where it is, its key, "live" or "done" context
    got,          \* per caller: what its resolver() returned
    lookups,      \* lookups made
    answers       \* the pairs <<key, result>> read from cache values

callVars == <<key, lookups>>
vars == <<cached, fields, inflight, pc, key, ctx, got, lookups, answers>>

PCs == {"idle", "resolving", "storing", "closing", "fetch"}
Leading == {"resolving", "storing", "closing"}

Init ==
    /\ cached = {}
    /\ fields = [k \in ImageKeys |-> Unset]
    /\ inflight = {}
    /\ pc = [c \in Callers |-> "idle"]
    /\ key = [c \in Callers |-> CHOOSE k \in ImageKeys : TRUE]
    /\ ctx = [c \in Callers |-> "live"]
    /\ got = [c \in Callers |-> Unset]
    /\ lookups = 0
    /\ answers = {}

\* Mutant: the lock is given up between the map read and the map write.
LookupUnlocked(c, k) ==
    /\ pc[c] = "idle" /\ lookups < MaxLookups
    /\ lookups' = lookups + 1
    /\ key' = [key EXCEPT ![c] = k]
    /\ ctx' = [ctx EXCEPT ![c] = "live"]
    /\ cached' = cached \cup {k}
    /\ inflight' = IF k \in cached THEN inflight ELSE inflight \cup {k}
    /\ \/ pc' = [pc EXCEPT ![c] = "resolving"] /\ fields[k] = Unset
       \/ pc' = [pc EXCEPT ![c] = "fetch"] /\ k \in cached
    /\ UNCHANGED <<fields, got, answers>>

\* Mutant: a failure in the cache is not final, the next lookup tries again.
LookupRetrying(c, k) ==
    /\ pc[c] = "idle" /\ lookups < MaxLookups
    /\ lookups' = lookups + 1
    /\ key' = [key EXCEPT ![c] = k]
    /\ ctx' = [ctx EXCEPT ![c] = "live"]
    /\ cached' = cached \cup {k}
    /\ LET hit == k \in inflight \/ fields[k] \in Configs IN
          /\ inflight' = IF hit THEN inflight ELSE inflight \cup {k}
          /\ pc' = [pc EXCEPT ![c] = IF hit THEN "fetch" ELSE "resolving"]
    /\ UNCHANGED <<fields, got, answers>>

\* lookup up to the unlock: one critical section reads the map and, for a
\* new key, adds a value with an open inflight channel.
Lookup(c, k) ==
    /\ pc[c] = "idle" /\ lookups < MaxLookups
    /\ lookups' = lookups + 1
    /\ key' = [key EXCEPT ![c] = k]
    /\ ctx' = [ctx EXCEPT ![c] = "live"]
    /\ cached' = cached \cup {k}
    /\ inflight' = IF k \in cached THEN inflight ELSE inflight \cup {k}
    /\ pc' = [pc EXCEPT ![c] = IF k \in cached THEN "fetch" ELSE "resolving"]
    /\ UNCHANGED <<fields, got, answers>>

\* The context of a lookup under way is cancelled (another goroutine of the
\* session's errgroup failed, or the user gave up).
Cancel(c) ==
    /\ pc[c] # "idle" /\ ctx[c] = "live"
    /\ ctx' = [ctx EXCEPT ![c] = "done"]
    /\ UNCHANGED <<cached, fields, inflight, pc, callVars, got, answers>>

\* resolver(): the leader's BuildKit call ends, with the leader's context.
Resolved(c, r) ==
    /\ pc[c] = "resolving"
    /\ r = "canceled" => ctx[c] = "done"
    /\ got' = [got EXCEPT ![c] = r]
    /\ pc' = [pc EXCEPT ![c] = "storing"]
    /\ UNCHANGED <<cached, fields, inflight, callVars, ctx, answers>>

\* store, first the four fields ...
Store(c) ==
    /\ pc[c] = "storing"
    /\ fields' = [fields EXCEPT ![key[c]] = got[c]]
    /\ pc' = [pc EXCEPT ![c] = "closing"]
    /\ UNCHANGED <<cached, inflight, callVars, ctx, got, answers>>

\* ... then close(v.inflight).
CloseInflight(c) ==
    /\ pc[c] = "closing"
    /\ inflight' = inflight \ {key[c]}
    /\ pc' = [pc EXCEPT ![c] = "fetch"]
    /\ UNCHANGED <<cached, fields, callVars, ctx, got, answers>>

\* Mutant: fetch looks at its context only once inflight is closed.
FetchIgnoringContext(c) ==
    /\ pc[c] = "fetch" /\ ctx[c] = "done" /\ key[c] \notin inflight
    /\ pc' = [pc EXCEPT ![c] = "idle"]
    /\ UNCHANGED <<cached, fields, inflight, callVars, ctx, got, answers>>

\* fetch: select takes either case when both are ready.
FetchCanceled(c) ==
    /\ pc[c] = "fetch" /\ ctx[c] = "done"
    /\ pc' = [pc EXCEPT ![c] = "idle"]
    /\ UNCHANGED <<cached, fields, inflight, callVars, ctx, got, answers>>

\* Mutant: fetch does not wait for inflight.
FetchAtOnce(c) ==
    /\ pc[c] = "fetch"
    /\ pc' = [pc EXCEPT ![c] = "idle"]
    /\ answers' = answers \cup {<<key[c], fields[key[c]]>>}
    /\ UNCHANGED <<cached, fields, inflight, callVars, ctx, got>>

FetchValue(c) ==
    /\ pc[c] = "fetch" /\ key[c] \notin inflight
    /\ pc' = [pc EXCEPT ![c] = "idle"]
    /\ answers' = answers \cup {<<key[c], fields[key[c]]>>}
    /\ UNCHANGED <<cached, fields, inflight, callVars, ctx, got>>

\* Every lookup has returned and no more are made.
Terminated ==
    /\ lookups = MaxLookups /\ \A c \in Callers : pc[c] = "idle"
    /\ UNCHANGED vars

Next ==
    \/ \E c \in Callers, k \in ImageKeys : Lookup(c, k)
    \/ \E c \in Callers, r \in Results : Resolved(c, r)
    \/ \E c \in Callers :
          Cancel(c) \/ Store(c) \/ CloseInflight(c) \/ FetchCanceled(c) \/ FetchValue(c)
    \/ Terminated

Spec == Init /\ [][Next]_vars

(* Fairness.  Goroutines that can run do; BuildKit answers a call whose    *)
(* context is done, but may take for ever otherwise.                       *)
Fairness ==
    \A c \in Callers :
        /\ WF_vars(ctx[c] = "done" /\ \E r \in Results : Resolved(c, r))
        /\ WF_vars(Store(c) \/ CloseInflight(c) \/ FetchCanceled(c) \/ FetchValue(c))

FairSpec == Spec /\ Fairness

-----------------------------------------------------------------------------
\* Every variable keeps its type.
TypeOK ==
    /\ cached \subseteq ImageKeys /\ inflight \subseteq ImageKeys
    /\ fields \in [ImageKeys -> Results \cup {Unset}]
    /\ pc \in [Callers -> PCs] /\ key \in [Callers -> ImageKeys]
    /\ ctx \in [Callers -> {"live", "done"}]
    /\ got \in [Callers -> Results \cup {Unset}]
    /\ lookups \in Nat
    /\ answers \subseteq ImageKeys \X Results

Leads(c, k) == pc[c] \in Leading /\ key[c] = k

\* An open inflight channel has exactly one goroutine that will close it, and
\* only that goroutine may close it: nobody waits for a leader that is gone,
\* and close(v.inflight) (resolver.go:133) never panics.
OneLeader ==
    \A k \in ImageKeys :
        /\ k \in inflight <=> \E c \in Callers : Leads(c, k)
        /\ \A c, d \in Callers : Leads(c, k) /\ Leads(d, k) => c = d

\* Two lookups of one key that get past their contexts agree, although fetch
\* reads the fields without the lock (resolver.go:119-126) and a second answer
\* of BuildKit might differ from the first.
Agreement ==
    \A a, b \in answers : a[1] = b[1] => a[2] = b[2]

\* The cache implements a write-once table of resolutions.
Configurations ==
    INSTANCE ImageConfigs
    WITH config <- [k \in ImageKeys |-> IF k \in inflight THEN Unset ELSE fields[k]]

Implements == Configurations!Spec

\* A lookup whose context is done returns, be it the leader or a follower
\* whose leader never comes back.
CancelReturns ==
    \A c \in Callers : ctx[c] = "done" ~> pc[c] = "idle"

\* What the leader leaves behind is final: once inflight is closed the value
\* never changes, and no later lookup asks BuildKit again, not even after an
\* error or after the leader's own context was cancelled.
ResolvedForGood ==
    [][\A k \in cached \ inflight :
          /\ fields'[k] = fields[k] /\ k \in cached' \ inflight'
          /\ \A c \in Callers : ~Leads(c, k)']_vars
=============================================================================
