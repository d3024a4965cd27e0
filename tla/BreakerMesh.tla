----------------------------- MODULE BreakerMesh -----------------------------
(***************************************************************************)
(* The per-node circuit-breaker mesh: the hystrix circuits of the          *)
(* process-wide registry (one per node key "redis_" + addr), the limiter   *)
(* each backend installs on its node clients (src/unnamed/part_003,        *)
(* part_007 clusterOptions / singleHostOptions), the hystrix part of the   *)
(* backend reload (client_wrapper.go, unnamed/part_001), the cluster       *)
(* client's discovery of a new shard through the NewClient hook, and the   *)
(* classification of a command's outcome (shouldCountAsCBError, the        *)
(* userErrHandler wrapper and circuitbreaker.Go's handleError).            *)
(*                                                                         *)
(* The circuit state machine lives in the hystrix library, outside this    *)
(* repository; it is modelled from the spec (4.B): CLOSED -> OPEN when the *)
(* window holds at least the volume threshold of tracked errors and more  *)
(* than half the requests failed; OPEN -> HALF-OPEN for one probe after    *)
(* the sleep window; the probe's outcome closes or re-opens it.            *)
(***************************************************************************)
EXTENDS Naturals, FiniteSets

CONSTANTS
    Backends,    \* the primary and shadow backends
    Nodes,       \* node addresses; the breaker key is a function of one
    Mode,        \* [Backends -> {"cluster", "singleHost"}]
    Roster0,     \* [Backends -> SUBSET Nodes]: nodes at construction
    Spare,       \* [Backends -> SUBSET Nodes]: nodes cluster discovery may add
    Settings,    \* hystrix settings; a value is the request-volume threshold
    MaxWindow,   \* bound on requests in one rolling window
    MaxReloads,  \* bound on backend reloads
    NoBackend    \* a value that is not a backend

ErrorKinds == {"nil", "canceled", "deadline", "readonly", "redisError",
               "transport", "panic"}

VARIABLES
    enabled,   \* [Backends -> BOOLEAN]: c.config.HystrixEnabled
    settings,  \* [Backends -> Settings]: c.config.Hystrix
    hooked,    \* [Backends -> BOOLEAN]: clusterOptions installed NewClient
    shards,    \* [Backends -> SUBSET Nodes]: the node clients of a backend
    limiter,   \* [Backends -> [Nodes -> BOOLEAN]]: opt.Limiter set on it
    regSet,    \* [Nodes -> Settings]: configureHystrix's registered settings
    circuit,   \* [Nodes -> [state, reqs, errs, probe]]: hystrix circuits
    reloaded,  \* the backend reloaded by the last step, or NoBackend
    lastCall,  \* [node, kind] of the command of the last step, or NoCall
    reloads

vars == <<enabled, settings, hooked, shards, limiter, regSet, circuit,
          reloaded, lastCall, reloads>>

NoCall == [node |-> NoBackend, kind |-> "none"]



(***************************************************************************)
(* Outcome classification.                                                 *)
(***************************************************************************)
IsCanceled(e) == e = "canceled"                    \* errors.Is(err, context.Canceled)
IsReadOnlyError(e) == e = "readonly"               \* goredis.IsReadOnlyError
IsRedisError(e) == e \in {"readonly", "redisError"} \* err.(goredis.Error)

\* shouldCountAsCBError, its checks in the code's order.
ShouldCountAsCBErrorSwapped(e) ==
    IF e = "nil" THEN FALSE
    ELSE IF IsCanceled(e) THEN FALSE
    ELSE IF IsRedisError(e) THEN FALSE
    ELSE IF IsReadOnlyError(e) THEN TRUE
    ELSE TRUE
ShouldCountAsCBError(e) ==
    IF e = "nil" THEN FALSE
    ELSE IF IsCanceled(e) THEN FALSE
    ELSE IF IsReadOnlyError(e) THEN TRUE
    ELSE IF IsRedisError(e) THEN FALSE
    ELSE TRUE

\* getDefaultCBOptions's handler inside WithUserErrorHandler's wrapper:
\* nil is (false, nil), anything else (!shouldCountAsCBError(err), err).
NonThreat(e) == IF e = "nil" THEN FALSE ELSE ~ShouldCountAsCBError(e)

\* circuitbreaker.Go's handleError: a non-nil error the handler does not
\* call safe is returned to hystrix (a failure); everything else goes to
\* softErrorCh and hystrix sees success.  A panic becomes RoutinePanicError.
CountsAsFailure(e) == e # "nil" /\ ~NonThreat(e)

(***************************************************************************)
(* Hystrix circuits (spec 4.B).                                            *)
(***************************************************************************)
Closed == [state |-> "closed", reqs |-> 0, errs |-> 0, probe |-> FALSE]

Trips(c, n) == c.errs >= regSet[n] /\ 2 * c.errs > c.reqs

\* The circuit after an admitted request at node n with outcome e.
Record(c, n, e) ==
    IF c.state = "halfOpen"
    THEN IF CountsAsFailure(e) THEN [c EXCEPT !.state = "open", !.probe = FALSE]
         ELSE Closed
    ELSE LET c2 == [c EXCEPT !.reqs = @ + 1,
                             !.errs = @ + (IF CountsAsFailure(e) THEN 1 ELSE 0)]
         IN IF Trips(c2, n) THEN [c2 EXCEPT !.state = "open"] ELSE c2

\* hystrix.Flush: every circuit of the process is dropped and recreated
\* closed on its next use.
AllClosed == [n \in Nodes |-> Closed]

(***************************************************************************)
(* Construction: singleHostOptions configures the one node's circuit and  *)
(* installs its limiter when hystrix is enabled; clusterOptions installs  *)
(* the NewClient hook, which does the same for every node client the      *)
(* cluster client creates.                                                *)
(***************************************************************************)
Init ==
    /\ enabled \in [Backends -> BOOLEAN]
    /\ settings \in [Backends -> Settings]
    /\ hooked = [b \in Backends |-> Mode[b] = "cluster" /\ enabled[b]]
    /\ shards = Roster0
    /\ limiter = [b \in Backends |-> [n \in Nodes |-> n \in Roster0[b] /\ enabled[b]]]
    /\ regSet \in {rs \in [Nodes -> Settings] :
                    \A n \in Nodes :
                      (\E b \in Backends : n \in Roster0[b] /\ enabled[b])
                        => \E b \in Backends : /\ n \in Roster0[b] /\ enabled[b]
                                              /\ rs[n] = settings[b]}
    /\ circuit = AllClosed
    /\ reloaded = NoBackend
    /\ lastCall = NoCall
    /\ reloads = 0

(***************************************************************************)
(* A command on node n of backend b with outcome e.  Without a limiter the *)
(* circuit is not consulted.  With one (limiter.Allow, then Execute ->     *)
(* cb.Do -> hystrix), an OPEN circuit rejects with ErrCircuitOpen unless   *)
(* its sleep window has passed, when the request is the HALF-OPEN probe.   *)
(***************************************************************************)
Command(b, n, e) ==
    /\ n \in shards[b]
    /\ LET c == circuit[n] IN
         \/ /\ ~limiter[b][n]
            /\ UNCHANGED circuit
         \/ /\ limiter[b][n]
            /\ c.state = "open" /\ ~c.probe
            /\ UNCHANGED circuit
         \/ /\ limiter[b][n]
            /\ c.state = "closed"
            /\ c.reqs < MaxWindow
            /\ circuit' = [circuit EXCEPT ![n] = Record(c, n, e)]
         \/ /\ limiter[b][n]
            /\ c.state = "open" /\ c.probe
            /\ circuit' = [circuit EXCEPT ![n] =
                             Record([c EXCEPT !.state = "halfOpen"], n, e)]
    /\ reloaded' = NoBackend
    /\ lastCall' = [node |-> n, kind |-> e]
    /\ UNCHANGED <<enabled, settings, hooked, shards, limiter, regSet, reloads>>

\* The sleep window of an open circuit elapses.
SleepWindowElapses(n) ==
    /\ circuit[n].state = "open" /\ ~circuit[n].probe
    /\ circuit' = [circuit EXCEPT ![n].probe = TRUE]
    /\ reloaded' = NoBackend
    /\ lastCall' = NoCall
    /\ UNCHANGED <<enabled, settings, hooked, shards, limiter, regSet, reloads>>

\* The rolling window of a closed circuit moves past its buckets.
WindowRolls(n) ==
    /\ circuit[n].state = "closed" /\ circuit[n].reqs > 0
    /\ circuit' = [circuit EXCEPT ![n] = Closed]
    /\ reloaded' = NoBackend
    /\ lastCall' = NoCall
    /\ UNCHANGED <<enabled, settings, hooked, shards, limiter, regSet, reloads>>

(***************************************************************************)
(* The cluster client creates a client for a node it newly learns of: the  *)
(* hook installed at construction configures the node's circuit with the   *)
(* settings then in c.Hystrix and sets a limiter; without the hook the     *)
(* node client has none.                                                   *)
(***************************************************************************)
DiscoverShard(b, n) ==
    /\ Mode[b] = "cluster"
    /\ n \in Spare[b] \ shards[b]
    /\ shards' = [shards EXCEPT ![b] = @ \cup {n}]
    /\ limiter' = [limiter EXCEPT ![b][n] = hooked[b]]
    /\ regSet' = IF hooked[b] THEN [regSet EXCEPT ![n] = settings[b]] ELSE regSet
    /\ reloaded' = NoBackend
    /\ lastCall' = NoCall
    /\ UNCHANGED <<enabled, settings, hooked, circuit, reloads>>

(***************************************************************************)
(* The hystrix part of clientWrapperImpl.reload / clusterWrapperImpl.reload *)
(* (after validateReload has accepted the new configuration).              *)
(***************************************************************************)
HystrixNeedsUpdateNoFlag(b, s) == settings[b] # s
HystrixNeedsUpdate(b, s) == settings[b] # s \/ ~enabled[b]

\* reconfigureHystrix on every node client of b (ForEachShard, or the one
\* node of a single host).
ReconfigureNone(b, s) == regSet
\* Mutant: the registry is rebuilt from the shards of b alone.
ReconfigureShardsOnly(b, s) == [n \in shards[b] |-> s]
Reconfigure(b, s) == [n \in Nodes |-> IF n \in shards[b] THEN s ELSE regSet[n]]

ReloadHystrix(b, e, s) ==
    /\ reloads < MaxReloads
    /\ reloads' = reloads + 1
    /\ reloaded' = b
    /\ lastCall' = NoCall
    /\ enabled' = [enabled EXCEPT ![b] = e]
    /\ IF e /\ HystrixNeedsUpdate(b, s)
       THEN /\ settings' = [settings EXCEPT ![b] = s]
            /\ regSet' = Reconfigure(b, s)
            /\ circuit' = IF shards[b] # {} THEN AllClosed ELSE circuit
            /\ limiter' = [limiter EXCEPT ![b] =
                             [n \in Nodes |-> IF n \in shards[b] THEN TRUE ELSE @[n]]]
       ELSE /\ limiter' = IF e THEN limiter
                          ELSE [limiter EXCEPT ![b] =
                                  [n \in Nodes |-> IF n \in shards[b] THEN FALSE ELSE @[n]]]
            /\ UNCHANGED <<settings, regSet, circuit>>
    /\ UNCHANGED <<hooked, shards>>

Next ==
    \/ \E b \in Backends, n \in Nodes, e \in ErrorKinds : Command(b, n, e)
    \/ \E n \in Nodes : SleepWindowElapses(n) \/ WindowRolls(n)
    \/ \E b \in Backends, n \in Nodes : DiscoverShard(b, n)
    \/ \E b \in Backends, e \in BOOLEAN, s \in Settings : ReloadHystrix(b, e, s)

Spec == Init /\ [][Next]_vars

(***************************************************************************)
(* Properties.                                                             *)
(***************************************************************************)
TypeOK ==
    /\ enabled \in [Backends -> BOOLEAN]
    /\ settings \in [Backends -> Settings]
    /\ hooked \in [Backends -> BOOLEAN]
    /\ \A b \in Backends : shards[b] \subseteq Roster0[b] \cup Spare[b]
    /\ limiter \in [Backends -> [Nodes -> BOOLEAN]]
    /\ regSet \in [Nodes -> Settings]
    /\ \A n \in Nodes :
         /\ circuit[n] \in [state: {"closed", "open", "halfOpen"},
                            reqs: 0..MaxWindow, errs: 0..MaxWindow, probe: BOOLEAN]
         /\ circuit[n].probe => circuit[n].state = "open"
    /\ reloaded \in Backends \cup {NoBackend}
    /\ lastCall \in [node: Nodes, kind: ErrorKinds] \cup {NoCall}
    /\ reloads \in 0..MaxReloads

\* Spec 4.C and invariant 3: a command admitted on a closed circuit adds one
\* to its tracked-error count exactly when its outcome is a threat --
\* a deadline, a transport error, a read-only error or a panic -- and
\* nothing for nil, a cancellation or a server-reported error
\* (shouldCountAsCBError through WithUserErrorHandler and handleError).
SpecThreat(e) == e \in {"deadline", "transport", "readonly", "panic"}
ThreatsCountedExactly ==
    [][LET n == lastCall'.node IN
         lastCall'.kind # "none" /\ circuit[n].state = "closed"
           /\ circuit'[n].reqs > circuit[n].reqs
           => circuit'[n].errs = circuit[n].errs + (IF SpecThreat(lastCall'.kind) THEN 1 ELSE 0)]_vars

\* Spec 4.D: a backend reload that enables hystrix, changes its settings or
\* disables it leaves every node client of that backend with a limiter
\* exactly when hystrix is now enabled (the ForEachShard loops of the
\* wrapper reloads).
ReloadAppliesHystrix ==
    [][\A b \in Backends :
         reloaded' = b /\ (~enabled'[b] \/ ~enabled[b] \/ settings'[b] # settings[b])
           => \A n \in shards[b] : limiter'[b][n] = enabled'[b]]_vars

\* Every node client that a hystrix-enabled backend guards with a limiter
\* consults a circuit configured with that backend's current settings
\* (reconfigureHystrix on reload, configureHystrix in the NewClient hook),
\* whatever order reloads and shard discoveries happen in.
LimiterSettingsCurrent ==
    \A b \in Backends : \A n \in shards[b] :
        enabled[b] /\ limiter[b][n] => regSet[n] = settings[b]

\* Spec 4.D: "any -> disabled: remove limiters from all shards" and
\* "disabled -> enabled: install limiters on all shards": a node client has
\* a limiter exactly when its backend has hystrix enabled.
LimiterMatchesFlag ==
    \A b \in Backends : \A n \in shards[b] : limiter[b][n] = enabled[b]

\* Spec 4.B: reconfiguring a breaker "flushes the registry entry" of that
\* breaker only: a reload of one backend never closes an open circuit of a
\* node it does not use, so a failing node of another backend stays shed.
ReloadKeepsOtherCircuits ==
    [][\A b \in Backends :
         reloaded' = b =>
           \A n \in Nodes \ shards[b] :
             circuit[n].state = "open" => circuit'[n].state = "open"]_vars

=============================================================================
