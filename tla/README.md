# TLA+ models of grab-redis

This directory holds TLA+ models of the grab-redis connector (`src/`), the
TLC configurations that check them, and `PROJECT.json`, which records what
each definition models (`map`), the runs, the mutants, the findings and the
hazards.

## The system

`NewDynamicConnector` (src/connector.go) builds a **primary** client and
zero or more **shadow** (load-test) clients from a `ConnectorConfig`.

Every write-path call (`Do`, `Pipeline`, `Run`, `Publish`) works like this:
- `queueLoadTest` puts one closure per shadow on the **shadow scheduler**'s
  buffered channel `fnChan`;
- then the call runs on the primary.

`Do` first asks the primary whether the command is read-only; with
`IgnoreReadOnly` set, a read-only command goes to the primary alone.

There are two enqueue modes:
- in *strict* mode (`ProcessAllLoadTestPackets`), the send blocks while the
  channel is full;
- otherwise a `select` drops the task.

The scheduler (src/circuitbreaker/circuit_breaker.go) runs a monitor
goroutine `start`:
- every 100 ms, if the channel has a backlog, it computes a `need` from the
  average task latency (src/latencies.go);
- it spawns workers while `numWorker < maxWorker`;
- each worker (`spawnWorker`) takes closures until it has been idle for
  `workerIdleTimeout`, or until the scheduler context is cancelled.

`ShutDown` works in this order:
1. it closes the primary;
2. it cancels the scheduler context, which makes the monitor `wg.Wait()` and
   then `close(fnChan)`;
3. it waits for the workers;
4. it shuts the shadows down.

The configurer's `OnChange` callback runs `connectorImpl.reload`:
- the scheduler sizes may not change;
- the primary is reloaded in place (`validateReload`: same mode, DB and
  address set; then the settings are copied);
- each new shadow entry is matched by `ClientConfig.name()` to an existing
  shadow client, which is then reloaded in place. Unmatched entries get a
  new client, and unmatched old clients are shut down.

`name()` and `isAddrsEquals` sort the configuration's address slice **in
place**.

Every client sits behind a hystrix circuit breaker, a limiter that go-redis
consults per command (src/unnamed/part_003, src/circuitbreaker). In cluster
mode there is one breaker per shard. Reload re-configures or removes the
breakers.

## Inventory

| part | state | operations | modelled in |
|---|---|---|---|
| shadow scheduler | fnChan, numWorker, wg, worker goroutines, latency ring, ctx | start (tick, spawn, cancel, close), spawnWorker (take, run, idle/ctx exit) | ShadowScheduler |
| dispatcher | loadTestClients, processAllLoadTestPackets | Do/Pipeline/Run/Publish → queueLoadTest + primary call; ShutDown | ShadowScheduler |
| reload coordinator | primary config, shadow list, strict flag, scheduler sizes | change callback (initAndValidate: init, validate), reload (HotReload, scheduler check, primary, shadows), name, validateReload, isAddrsEquals, both wrapper reloads | ConnectorReload |
| breaker registry / limiter | hystrix circuits per key, limiter per client/shard | Allow, Execute, shouldCountAsCBError, configure/reconfigureHystrix, NewClient hook, wrapper reload (hystrix part) | BreakerMesh |
| client | closeChan, wrapped client, monitor goroutine | newClient, Do, Pipeline (first error), Run (EVALSHA→EVAL), ShutDown, monitorPool | ClientLifecycle |
| async breaker call | softErrorCh, fatalErrorCh, aggregated channel, executor tickets, returnOnce, the caller's ctx | Go (run, handleError, recover), Do, aggregateError's select; hystrix.Go's admission, run and timer goroutines | CircuitGo |
| latency ring | 1000 slots, index, added | newLatencies, Add (three atomic steps), Average | ShadowScheduler |
| redisapi reply converters | none | Int, Int64, Uint64, Float64, String, Bytes, Bool, Values, Strings, ByteSlices, StringMap, IntMap, Int64Map, Float64Map, Float64s, Int64StringMapSlice, GeoPosition, GeoLocations | ReplyHelpers (operators), applied in ClientLifecycle |
| redisapi Args, Scan, Ints, Int64s | none | reflection over Go values | not modelled |
| configurer, telemetry, interfaces | none | — | not modelled: no state transitions |

The behaviours that are hard to test are these. Each is listed with its
line in `PROJECT.json` → `hazards`.
- The monitor and the workers race on `numWorker`.
- Callers race `ShutDown` on `fnChan`.
- `wg.Add` must come before `go spawnWorker`, and `wg.Wait` before `close`.
- A reload that fails part-way keeps what it has already done.
- The in-place sorting of configuration slices changes a shadow's name
  across reloads.
- Reload races in-flight calls on `loadTestClients`.
- A reload of one backend's breakers flushes every circuit of the process.
- A shard discovered after a reload gets the limiter decision made at
  construction.
- `ShutDown` of a client returns on its deadline while the pool is still
  being closed.
- A hystrix timeout races the routine's late result in `aggregateError`'s
  select, and the executor ticket is returned by whichever goroutine wins.

## Modules

### ShadowScheduler (+ MCShadowScheduler)

The dispatcher, the scheduler and `ShutDown`, as goroutines that interleave.

**State:**
- `fnChan` is the buffered channel, a sequence of task ids, with
  `chanClosed`;
- `numWorker` and `wg` are the atomic counter and the WaitGroup;
- `wpc` is the program counter of each worker slot;
- `mon` is the monitor's program counter, `need` and loop index;
- `ring` is the latency ring (`values`, `index`, `added`) of RingSize
  slots, and `wadd` each worker's claimed slot and latency during an `Add`;
- `cpc`/`cidx` are each caller's position in `queueLoadTest`;
- `sd` is the progress of `ShutDown`;
- `ctxDone` is the scheduler context.

**Actions**, one per step that the code's goroutines take:
- `Call` is the entry of every connector call (`Do`, `DoReadOnly`,
  `Pipeline`, `Run`, `Publish`, `Subscribe`), with the read-only bypass of
  `Do` and `DoReadOnly`;
- `Enqueue` covers:
  - the strict blocking send;
  - the select that drops;
  - the panic on a closed channel;
- `Primary`;
- `MonitorTick`, `MonitorSpawn`, `MonitorSpawnDone`, `MonitorCancelled`,
  `MonitorClose`;
- `WorkerStart` (`numWorker.Inc`), `WorkerTake`, `WorkerRun`, which
  includes the closure's `ctx.Done()` check, `WorkerFinish`, then the
  three atomic steps of `latencies.Add`: `AddIndex` (claim
  `index+1 mod len`, with the task's latency from `Latencies`),
  `AddStore` and `AddCount`; `WorkerExit`
  (idle ticker or ctx) and `WorkerDec` (the deferred `numWorker.Dec`);
- `ShutDownPrimary`, `ShutDownCancel`, `ShutDownShadows`.

`MonitorTick` computes `need` as `start()` does: 1 when `Average()` is 0,
otherwise `ceil(backlog * avg / 1e9)`. `Average` is `RingTotal /
RingLength`, where `RingLength` is `added` clamped to the ring size and
`RingTotal` sums the first `RingLength` slots. Because `Add` is three
separate atomic steps, `Average` can read a slot another worker has claimed
but not yet stored, and two workers a ring apart can overwrite each
other's slot; both are reachable. `NsPerSecond` stands for 1e9, scaled
down together with the latencies.

**Liveness.** `QueuedTaskEventuallyTaken` says a buffered task is taken
or the scheduler is cancelled. `EnqueueEventuallyReturns` says that, in a
behaviour where `ShutDown` is never called, a caller in `queueLoadTest`
eventually reaches the main client. A strict-mode send blocked on a full
`fnChan` must therefore proceed, which needs the monitor to re-spawn
workers after idle ones leave. A panic on a closed channel does not count
as leaving. It cannot happen in these behaviours, because `fnChan` is
closed only after `ShutDown`. The shutdown path is the question of the
`send_on_closed` run.

**Fairness.**
- Weak fairness is assumed for each goroutine's internal steps.
- Strong fairness is assumed for the select cases that are enabled
  intermittently:
  - a worker receiving from `fnChan`;
  - the monitor seeing `ctx.Done()`.

  Go's select picks uniformly among ready cases, and the tickers fire
  forever.
- There is no fairness on `Call` or on `ShutDownPrimary`: calling and
  shutting down are the application's choice.

**Deadlock.** Deadlock is not checked. After `ShutDown` the process really
does stop: every goroutine has exited.

### ReplyHelpers

The reply converters of `src/redisapi/args.go`, written as operators. Each
one takes the `(reply, err)` pair that a client call returns and gives a
`[val, err]` record.

**Replies.** A reply is a typed record:
- `int` for int64;
- `str` or `bytes` for text;
- `arr` for `[]interface{}`;
- `nil`.

A text is described by what strconv makes of it. It has a decimal value,
or is a `ParseBool` word, or is neither.

**strconv.** `ParseInt`, `ParseUint`, `ParseFloat` and `ParseBool` follow
Go's documented results. On a range error they return the bound together
with the error. On a syntax error they return zero. A sign is a syntax
error for `ParseUint`.

**Widths.** The integer widths are the constants `Int64Bits` and `IntBits`.

**What each converter keeps.** Each converter keeps the order of the
code's type switch:
- the call's error comes first;
- `Float64` has no integer case;
- `Strings` leaves a nil element as `""`;
- `ByteSlices` returns nil for an empty array;
- the pair helpers loop over the pairs, fail on the first non-text key or
  unconvertible value, and let a later key overwrite an earlier one;
- `Int64StringMapSlice` asserts its reply to an array without a check, and
  appends each member under its score.

**Geo converters.** `GeoPosition`, `GeoLocations`, `convertToGeoGeoPoint`
and `convertToGeoLocation` are in src/connector.go. A point is `[lat, lng]`
and a location is `[name, dist, hash, point]`. `convertToGeoGeoPoint`
takes exactly two floats and swaps redis's `[lng, lat]`.
`convertToGeoLocation` works like this:
- it takes the first element as the name;
- it tells the other elements apart by Go type, not by position: an int64
  is the hash, a string the distance, an array the coordinates;
- it skips any other type;
- it refuses fewer than 1 or more than 4 elements.

Both list converters stop at the first element that fails and return that
element's error.

`Ints` and `Int64s` go through the reflection-based `ScanSlice` and are
not modelled.

### ConnectorReload (+ MCConnectorReload)

Construction and the configurer's change callback: `initAndValidate`,
then `connectorImpl.reload`.

**State:**
- a client configuration is `[mode, addrs, db, param]`:
  - `addrs` is the slice in its current order;
  - `param` stands for every setting that reload copies;
- `main` is the primary's configuration object;
- `inst` holds the client objects, each with status `free`/`live`/`closed`
  and its configuration;
- `shadows` is `c.loadTestClients`;
- `strict` is `processAllLoadTestPackets`;
- `schedWorkers` is the normalised scheduler size;
- `applied` and `result` are history variables for the properties.

**Validation.** `InitAndValidate` is `ConnectorConfig.initAndValidate`:
- `ClientConfig.init` gives a configuration with no address the default
  address (`DefaultAddr`, defaultHostAndPort);
- `ClientConfig.validate` rejects an invalid client mode. An invalid read
  mode fails the same way, so the mode stands for both;
- the zero scheduler sizes become the defaults.

Construction starts only from configurations that pass. `ReloadInvalid`
is the callback returning the validation error (or Unmarshal's) before
`reload` runs: nothing changes.

**The action.** `Reload` is one action for the whole callback. Its loop is
the RECURSIVE operator `LoadTestLoop`. Each early return (the
shared-address check, a failing client reload) ends the loop with exactly
the effects made so far. The in-place sorts are modelled:
- `SortForName` (name() on cluster configurations);
- `AddrsAfterCompare` (isAddrsEquals once the lengths are equal).

`ReloadIgnored` is the early return of a configuration with `HotReload`
false. The wrapper reload is dispatched on the mode the client was built
with (`WrapperReload`): `clusterWrapperImpl.reload` and
`clientWrapperImpl.reload` validate and copy settings the same way.
`createClient` builds the cluster wrapper for a master/slave group too.

**Inputs.** Each reload takes any configuration over the sets in
`MCConnectorReload`. Those sets are chosen so that the following cases
occur:
- a single-host shadow whose addresses are unsorted;
- two single-host shadows with the same name and different addresses;
- a shadow with the primary's address set;
- a primary address change;
- a scheduler value of `-1`, which `normalise` rewrites;
- a shadow with no address, which `init` gives the default one;
- a shadow with an invalid client mode, which validation refuses.

### BreakerMesh (+ MCBreakerMesh)

The circuit breakers of all backends of one process.

**State:**
- `enabled`, `settings`: each backend's `HystrixEnabled` and `Hystrix`;
- `hooked`: whether `clusterOptions` installed the `NewClient` hook that
  gives a new shard a limiter;
- `shards`: the node clients of each backend (a cluster can discover more);
- `limiter`: whether a node client of a backend has a limiter;
- `regSet`: the settings `configureHystrix` registered for a node key;
- `circuit`: the hystrix circuit of each node key (closed / open with a
  probe flag), modelled from the spec since the library is not under `src/`;
- `lastCall`: the last command (a history variable).

**Actions:**
- `Command(b, n, e)`: a command of backend `b` on node `n` with outcome
  `e`. Without a limiter it bypasses the breaker; with one, `Allow` and
  `Execute` either reject it (open circuit) or record the outcome,
  classified by `ShouldCountAsCBError` (nil, cancellation, read-only,
  redis error, other) as in `getDefaultCBOptions`, `WithUserErrorHandler`
  and `Go`'s `handleError`;
- `SleepWindowElapses`, `WindowRolls`: the hystrix clock;
- `DiscoverShard`: the cluster client meets a new node; the hook decides
  its limiter;
- `ReloadHystrix(b, e, s)`: the hystrix block of both wrapper reloads:
  reconfigure and set limiters when enabled and changed, remove the
  limiters when disabled. `reconfigureHystrix` calls `hystrix.Flush`,
  which resets every circuit. The action is one step: the `ForEachShard`
  loop over the node clients is collapsed, so the model does not
  interleave a `DiscoverShard` of the same backend with a reload that is
  half done. A shard discovered mid-loop, which gets the hook's old
  settings or misses the new ones, is not explored.

**Inputs.** The primary is a cluster with one node and one node it may
discover; the shadow is a single host on a node of its own. Two settings
values and two reloads make every branch of the reload reachable.

**Deadlock** is checked: commands can always be issued.

### ClientLifecycle (+ MCClientLifecycle)

One `clientImpl` (src/client.go) from `newClient` to `ShutDown`, with a
caller on the primary and a worker calling a shadow.

**State:**
- `phase`: what `newClient` returned (`running`, or `failed` when its
  context was done after the pool was opened);
- `wrappedOpen`, `chanClosed`: the go-redis pool and `closeChan`;
- `monitor`: the `monitorPool` goroutine;
- `sd`, `closer`, `expired`: `ShutDown`'s select, its closing goroutine
  and its deadline;
- `cached`: whether each client's server holds the script;
- `run`, `runResult`: each caller's position in `Run` and its result;
- `lastDo.got`: what the last `Do` returned (a value, goredis.Nil, an
  error or "client is closed"). The properties apply every ReplyHelpers
  converter to it, over the replies in `IntReplies`, `Texts` and
  `ArrayReplies`;
- `lastPipe`, `lastDo`: history variables for the properties.

**Actions:** `NewClient`; `Do`, `Pipeline` (with `getResultFromCommand(s)`),
`RunHash` (EVALSHA) and `RunEval` (the NOSCRIPT fallback); `ScriptFlush`
(the server loses its scripts); `ShutDownStart`, `CloserClose`,
`CloserCloseChan`, `DeadlinePasses`, `ShutDownReturn`; `MonitorExit`.

**Fairness.** The deadline timer fires, a ready select case is taken, the
closer's `close(closeChan)` and the monitor's exit happen, and `Run`
finishes its fallback. `Close()` of the pool gets no fairness: it may
block, which is what the deadline is for.

### CircuitGo (+ MCCircuitGo)

`circuitbreaker.Go` and `Do` (src/circuitbreaker/circuit_breaker.go) for
concurrent calls on one circuit, with the goroutines of `hystrix.Go`.
hystrix-go is not under `src/`, so its goroutines (`RejectOnce`, `Admit`,
`RunOnce`, `TimerFinished`, `TimerFires`, `TimerTimeout`) follow spec 4.B
and are marked spec-modelled in the map.

**State, per call `c`:**
- `cpc`, `result`: the caller (`idle`, blocked in `Do`, returned) and what
  `Do` returned;
- `hpc`: hystrix's goroutine (admission, running the routine, sending to
  `softErrorCh`, taking `returnOnce`, exited); `tpc`: its timer goroutine;
  `apc`: `aggregateError`'s goroutine;
- `soft`, `fatal`, `aggregated`: `softErrorCh`, hystrix's `errChan` and
  `aggregatedErrors`, each with capacity 1;
- `out`, `output`: the routine's outcome and `run`'s return value;
- `once`, `event`, `finished`, `holds`: `returnOnce`, the event hystrix
  reported, the `finished` channel and whether the call holds a ticket;
- `ctxDone`: the caller's context; `tickets`: the executor pool.

**Actions.**
- `Go` and `Receive` are `Do`; `CancelCtx` cancels the caller's context.
- `RunRoutine` is the routine returning any outcome of `Outcomes`. A
  `panic` is recovered into `RoutinePanicError`. `HandleError` sends a nil
  or safe error to `softErrorCh` (`SoftSend`) and returns a threat to
  hystrix. `IsErrorSafe` is `makeOption`'s handler: `NonThreat` holds the
  errors the user handler calls safe.
- `Forward`, `AggregateSoft`, `AggregateFatal` and `AggregateCtx` are the
  three cases of `aggregateError`'s select.

**Fairness.** Each goroutine is weakly fair: the Go scheduler runs a
runnable goroutine eventually, and a select with a ready case takes one.
`Go` and `CancelCtx` get none: a caller may never call, and its context
may never be cancelled. `AllReturned` is the stutter once every call has
returned, so deadlock is checked.

**What is not checked about results.** The ticket pool and the
circuit's counting are hystrix's code, modelled from the spec, so
nothing about them is checked here. Two disagreements about what `Do`
returns are known:
- `TimeoutReachesCaller` states spec 4.B: a timed-out call returns the
  timeout error. TLC finds it violated in 8 steps. The routine finishes
  with nil after the timer has sent `ErrTimeout`, and `aggregateError`'s
  select takes `softErrorCh`.
- `Go`'s doc comment (circuit_breaker.go:95-107) lists a routine panic
  among the soft errors. Both user error handlers of this repository
  (`getDefaultUserErrorHandler` and `getDefaultCBOptions`'
  `shouldCountAsCBError`) treat `RoutinePanicError` as a threat. Hystrix
  counts the panic, and it reaches the caller through `errChan`.

Neither is a run, because every run slot is used by another question.

## Runs

| run | expect | what it shows |
|---|---|---|
| shadow_scheduler | pass | No worker is alive when `fnChan` is closed. No shadow call runs after `ShutDown` has waited for the workers. Every queued task is eventually taken or cancelled, with need computed from the racing latency ring. While `ShutDown` is not called, a strict-mode enqueue blocked on a full channel eventually proceeds to the main client. |
| workers_bounded | violation | **Code bug.** Two ticks, or one tick with need 2, spawn two workers before either runs `numWorker.Inc`, so the cap is exceeded. |
| send_on_closed | violation | **Divergence from spec 8.5.** A call in `queueLoadTest` during `ShutDown` sends on the closed channel, which panics. |
| connector_reload | pass | Shadows are always open. After a reload that did not fail, they match the accepted configuration entry by entry (mode, DB, address set, settings). `c.loadTestClients` never lists one client twice, even when several entries share a name and are taken out of `loadTestMap` one by one. |
| reload_identity | violation | **Divergence from spec property 4.** Re-applying the same configuration rebuilds a single-host shadow whose address list an earlier reload sorted in place. |
| circuit_go | pass | Every call returns, with all its goroutines ended, even when the timeout, the routine and the caller's cancellation race. |
| breaker_mesh | pass | The breaker counts exactly the threat outcomes (deadline, transport, read-only, panic). A reload that changes the hystrix state installs or removes the limiter of every current node client. Every limited node uses its backend's current settings. |
| limiter_on_discovered_shard | violation | **Divergence from spec 4.D.** A cluster created with hystrix disabled and enabled by reload gives no limiter to a shard discovered later. |
| flush_resets_other_breakers | violation | **Divergence from spec 4.B.** A reload that turns hystrix on for one backend closes an open circuit of another backend's node, because `hystrix.Flush` is process-wide. TLC's trace: `n3` of `b2` trips open on a deadline, then `b1`'s reload leaves it closed with an empty window. |
| client_lifecycle | pass | A pipeline's overall error is its first per-command error, and goredis.Nil is no error. `Run` never returns NOSCRIPT, even when the server loses the script between calls. `ShutDown` returns even when closing the pool never finishes. The converters report Do's error unchanged. They report goredis.Nil as ErrNoData, except `Int64StringMapSlice`, which returns an empty map. `Int`, `Int64` and `Uint64` never return different numbers for the same reply. `Int` refuses a value its width cannot hold. The pair helpers accept exactly the even-length arrays of text keys with convertible values, and keep the last value of a key. `Int64StringMapSlice` lists every member of a score in order. `GeoLocations` reads every GEORADIUS layout (any non-empty set of WITHDIST / WITHHASH / WITHCOORD) the same way a positional reading does. It refuses a reply of bare names. `GeoPosition` returns `[lat, lng]` per member, and fails the whole call with ErrNoData when one member is missing. |
| primary_call_after_shutdown | violation | **Divergence from spec 8, invariant 5.** `ShutDown` returns on its deadline before the pool is closed, and a later `Do` succeeds. |
| reload_partial | violation | **Divergence from spec 4.H.** A rejected reload has already changed the strict flag, the primary or the matched shadows, and it leaks new clients. |

Every property of a passing run has a mutant in `PROJECT.json`: a
plausible bug in the mapped definition that TLC finds.

**Bounds.**
- ShadowScheduler: 2 callers, 2 worker slots, `maxWorker` 1, a channel of
  capacity 1, 2 calls. The latency ring has 2 slots. Latencies are 1 and 3
  with `NsPerSecond` 2, so `need` is 1 or 2, and a lost or unstored
  sample changes it. The slots exceed the cap so that the
  over-spawn is reachable. The channel fills with one task, so both the
  strict block and the drop happen.
- ConnectorReload: 2 reloads after construction and up to 2 shadows.
  The identity bug needs exactly two reloads; the swap of same-named
  shadows needs two shadows.
- BreakerMesh: 2 backends, 3 nodes (one discoverable), a window of 2
  requests, volume thresholds 1 and 2, 2 reloads. With threshold 1 one
  failure trips a circuit; with 2 the ratio test matters.
- ClientLifecycle: 2 callers, pipelines of up to 2 commands (so a first and
  a second error can differ), 3 calls, 1 script-cache loss. The deadline
  race needs only ShutDown and one call. The converters run with an 8-bit
  int64 and a 4-bit int:
  - 100 fits int64 but not int;
  - "200" fits uint64 but not int64;
  - "300" fits neither;
  - -1 tests the sign.

  Arrays:
  - up to two elements of every kind, including nil;
  - three or four texts and integers.

  These give odd lengths, repeated keys and repeated scores.

  Geo replies use two members whose longitude and latitude differ, so a
  swap shows. Member lists have none, one or two members, under each of
  the 8 option sets. Four-element locations (all three options) meet the
  length bound. GEOPOS requests have no missing member, or one missing
  member first or last.
- CircuitGo: 2 calls sharing 1 ticket, so one is rejected for
  concurrency while the other runs. There are 4 outcomes: nil, a safe
  redis error, a threat and a panic. The context is cancellable. Two calls
  are enough for the second to find the ticket taken or returned by
  either the run goroutine or the timer.

Two disagreements are stated in the modules but are not among the runs,
because the number of runs is bounded:
- `ShadowNeverSharesMainAddrs` (ConnectorReload, spec 4.H). A new shadow
  with the primary's address set is accepted, because only matched
  shadows are checked. TLC finds this in one reload.
- `TimeoutReachesCaller` (CircuitGo, spec 4.B). The timer reports a
  timeout, then the routine returns nil to `softErrorCh`, and
  `aggregateError`'s select takes it: `Do` returns success for a call the
  breaker counted as a timeout. TLC finds this in 8 steps with
  `INVARIANT TimeoutReachesCaller`.

## Not modelled

These hazards are known from the code but are not checked by any run.
Each is listed in `PROJECT.json` → `hazards` with its line:
- **Reload racing the call paths.** `queueLoadTest` reads
  `loadTestClients` while reload replaces it (a data race). A task queued
  for a shadow that the same reload shuts down then runs against a closed
  client. ShadowScheduler and ConnectorReload are not composed. The effect
  is an error on the shadow path, which is discarded.
- **`ShutDown` followed by a reload.** Nothing unregisters the `OnChange`
  callback. A configuration change after the connector's `ShutDown`
  shuts a dropped shadow down a second time, and `close(closeChan)`
  panics. This would be a violation run, and the number of runs is
  bounded. The same holds for the negative scheduler size: re-applying
  the configuration is rejected on every reload, and ConnectorReload
  reaches that state.
- **An abstract circuit specification.** A refinement for BreakerMesh's
  circuits would restate the hystrix state machine, which is modelled
  from the spec in the first place. It would show nothing about this
  repository's code.

Not modelled:
- redisapi `Args`/`AddFlat`/`flattenStruct` and `ScanSlice`/`ScanStruct`
  (and so `Ints`, `Int64s`): reflection over arbitrary Go types has no
  finite set of inputs to enumerate;
- telemetry, statistics and logging (`logHystrixError`);
- the static configurer: it never calls `OnChange`;
- `Subscribe`'s forwarding goroutine and `Publish`. The forwarder ends
  only when go-redis closes the subscription's channel. That happens when
  the pool is closed, not on `Unsubscribe`. Its behaviour is library
  behaviour, and adding it to ClientLifecycle would multiply a state space
  that already takes the longest run;
- the interfaces of `src/redisapi/client.go` and the constants of
  `src/constants.go`: declarations with no behaviour;
- `Go`'s fallback wrapper: no `Option` of this package sets
  `fallbackHandler`, so `hystrix.Go` always gets a nil fallback;
- the limiter's `Allow` check before `Execute`, in CircuitGo: `Admit`
  decides an open circuit nondeterministically, and BreakerMesh models the
  circuit itself.
