-------------------------- MODULE ShadowScheduler --------------------------
(***************************************************************************)
(* The dual-write path of the connector: callers of Do / Pipeline / Run /  *)
(* Publish / Subscribe push one task per load-test (shadow) client on the  *)
(* scheduler's buffered channel fnChan (connectorImpl.queueLoadTest), an   *)
(* elastic set of worker goroutines drains it (scheduler.spawnWorker), a   *)
(* monitor goroutine sizes the pool every tick (scheduler.start), and      *)
(* connectorImpl.ShutDown cancels the scheduler context, waits on the      *)
(* WaitGroup and closes the shadow clients.                                *)
(*                                                                         *)
(* Data is abstracted away: a task is its sequence number, the command and *)
(* the shadow it targets do not matter to the scheduling.  The latency     *)
(* ring (latencies.go) is kept: workers record the elapsed time of each    *)
(* task in three atomic steps and the monitor derives need from Average(). *)
(* Durations are in units of NsPerSecond per second.                       *)
(***************************************************************************)
EXTENDS Integers, Sequences, FiniteSets, FiniteSetsExt

CONSTANTS
    Callers,        \* application goroutines calling the connector
    Workers,        \* goroutine slots a worker may run in (a bound)
    NumShadows,     \* len(c.loadTestClients)
    ChanSize,       \* cap(s.fnChan), schedulerChannelSize after normalise()
    MaxWorker,      \* s.maxWorker
    RingSize,       \* len(l.values), newLatencies(1000) in newScheduler
    Latencies,      \* elapsed times a task can take, in nanosecond units
    NsPerSecond,    \* the 1e9 of start(), in the same units
    MaxCalls,       \* bound on the number of connector calls in a behaviour
    IgnoreReadOnly  \* c.client.config.IgnoreReadOnly of the main client

ASSUME /\ NumShadows \in Nat \ {0}
       /\ ChanSize \in Nat \ {0}
       /\ MaxWorker \in Nat \ {0}
       /\ RingSize \in Nat \ {0}
       /\ Latencies \subseteq Nat /\ Latencies # {}
       /\ NsPerSecond \in Nat \ {0}
       /\ MaxCalls \in Nat
       /\ IgnoreReadOnly \in BOOLEAN

VARIABLES
    fnChan,      \* the buffered channel of queued tasks, oldest first
    chanClosed,  \* close(s.fnChan) has been executed
    ctxDone,     \* the scheduler context has been cancelled
    numWorker,   \* s.numWorker
    wg,          \* the counter of s.wg
    wpc,         \* program counter of each worker goroutine slot
    mon,         \* the monitor goroutine: pc, need and loop index i
    ring,        \* the latencies struct: values, index and added
    wadd,        \* slot and elapsed time of each worker's latencies.Add
    cpc,         \* program counter of each caller
    cidx,        \* index of the shadow the caller is enqueueing for
    strict,      \* c.processAllLoadTestPackets
    sd,          \* progress of connectorImpl.ShutDown
    calls,       \* number of connector calls made so far
    nextTask,    \* sequence number of the next task
    taken        \* tasks some worker has received from fnChan (history)

vars == <<fnChan, chanClosed, ctxDone, numWorker, wg, wpc, mon, ring, wadd,
          cpc, cidx, strict, sd, calls, nextTask, taken>>

TaskIds == 1..(MaxCalls * NumShadows)

WorkerStates == {"off", "spawned", "idle", "busy", "running", "timed",
                 "store", "count", "exiting"}

CallerStates == {"idle", "enqueue", "primary", "panicked"}

\* newLatencies(RingSize): zeroed slots, index -1, nothing added.
NewLatencies ==
    [values |-> [i \in 0..RingSize - 1 |-> 0], index |-> -1, added |-> 0]

\* latencies.Average reads added (not index, which runs ahead of the
\* stores), clamps it to len(values) and sums the first length slots; the
\* average is RingTotal / RingLength, 0 when nothing was added.
RingLength == IF ring.added < RingSize THEN ring.added ELSE RingSize

RingTotal == MapThenSumSet(LAMBDA i : ring.values[i], 0..RingLength - 1)

CeilDiv(a, b) == (a + b - 1) \div b

\* Mutant: int64(float64(backlog) * (avgLatency / 1e9)) without math.Ceil.
NeedTruncated(backlog) ==
    IF RingLength > 0 /\ RingTotal > 0
    THEN (backlog * RingTotal) \div (RingLength * NsPerSecond)
    ELSE 1

\* The need computed by start() for a backlog: 1 while Average() is 0,
\* ceil(backlog * avgLatency / 1e9) otherwise.
Need(backlog) ==
    IF RingLength > 0 /\ RingTotal > 0
    THEN CeilDiv(backlog * RingTotal, RingLength * NsPerSecond)
    ELSE 1

NeedBound == Max({1, CeilDiv(ChanSize * Max(Latencies), NsPerSecond)})

(***************************************************************************)
(* NewDynamicConnector: the scheduler is created with an empty channel and *)
(* no worker and started; the strict flag comes from the configuration.    *)
(***************************************************************************)
Init ==
    /\ fnChan = <<>>
    /\ chanClosed = FALSE
    /\ ctxDone = FALSE
    /\ numWorker = 0
    /\ wg = 0
    /\ wpc = [w \in Workers |-> "off"]
    /\ mon = [pc |-> "wait", need |-> 0, i |-> 0]
    /\ ring = NewLatencies
    /\ wadd = [w \in Workers |-> [slot |-> 0, val |-> 0]]
    /\ cpc = [c \in Callers |-> "idle"]
    /\ cidx = [c \in Callers |-> 0]
    /\ strict \in BOOLEAN
    /\ sd = "running"
    /\ calls = 0
    /\ nextTask = 1
    /\ taken = {}

-----------------------------------------------------------------------------
(* Callers: connectorImpl.Do and its siblings, and queueLoadTest.          *)

\* Entry of a connector call.  Do (and DoReadOnly) return straight from the
\* main client when IgnoreReadOnly is set and the cached command info says
\* the command is read-only; every other call enqueues for each shadow.
Call(c) ==
    /\ cpc[c] = "idle"
    /\ calls < MaxCalls
    /\ calls' = calls + 1
    /\ \E isDo, readonly \in BOOLEAN :
          IF isDo /\ IgnoreReadOnly /\ readonly
          THEN /\ cpc' = [cpc EXCEPT ![c] = "primary"]
               /\ UNCHANGED cidx
          ELSE /\ cpc' = [cpc EXCEPT ![c] = "enqueue"]
               /\ cidx' = [cidx EXCEPT ![c] = 1]
    /\ UNCHANGED <<fnChan, chanClosed, ctxDone, numWorker, wg, wpc, mon,
                   ring, wadd, strict, sd, nextTask, taken>>

\* Move on to the next shadow, or to the main client after the last one.
NextShadow(c) ==
    IF cidx[c] = NumShadows
    THEN /\ cpc' = [cpc EXCEPT ![c] = "primary"]
         /\ cidx' = [cidx EXCEPT ![c] = 0]
    ELSE /\ cidx' = [cidx EXCEPT ![c] = @ + 1]
         /\ UNCHANGED cpc

\* A send on the buffered fnChan proceeds while fewer than cap(fnChan)
\* tasks are buffered.
ChanHasRoomOffByOne == Len(fnChan) <= ChanSize
ChanHasRoom == Len(fnChan) < ChanSize

\* One iteration of the loop of queueLoadTest.  In strict mode the send
\* blocks while the channel is full (the action is disabled); otherwise the
\* select drops the task on a full channel.  A send on a closed channel,
\* blocking or inside a select, panics.
Enqueue(c) ==
    /\ cpc[c] = "enqueue"
    /\ \/ /\ chanClosed
          /\ cpc' = [cpc EXCEPT ![c] = "panicked"]
          /\ UNCHANGED <<fnChan, nextTask, cidx>>
       \/ /\ ~chanClosed
          /\ ChanHasRoom
          /\ fnChan' = Append(fnChan, nextTask)
          /\ nextTask' = nextTask + 1
          /\ NextShadow(c)
       \/ /\ ~chanClosed
          /\ ~strict
          /\ ~ChanHasRoom
          /\ NextShadow(c)
          /\ UNCHANGED <<fnChan, nextTask>>
    /\ UNCHANGED <<chanClosed, ctxDone, numWorker, wg, wpc, mon, ring, wadd,
                   strict, sd, calls, taken>>

\* The call on the main client, then logHystrixError; the caller returns.
Primary(c) ==
    /\ cpc[c] = "primary"
    /\ cpc' = [cpc EXCEPT ![c] = "idle"]
    /\ UNCHANGED <<fnChan, chanClosed, ctxDone, numWorker, wg, wpc, mon,
                   ring, wadd, cidx, strict, sd, calls, nextTask, taken>>

-----------------------------------------------------------------------------
(* The monitor goroutine, scheduler.start.                                 *)

\* A tick of backlogTicker with a non-empty backlog computes need from
\* len(s.fnChan) and the latency ring.  A tick with an empty backlog
\* changes nothing.  The select picks the tick or the cancellation at
\* random when both are ready.
\* Mutant: a backlog of one task is ignored.
MonitorTickBacklogOffByOne ==
    /\ mon.pc = "wait"
    /\ Len(fnChan) > 1
    /\ mon' = [pc |-> "spawn", need |-> Need(Len(fnChan)), i |-> 0]
    /\ UNCHANGED <<fnChan, chanClosed, ctxDone, numWorker, wg, wpc, ring, wadd,
                   cpc, cidx, strict, sd, calls, nextTask, taken>>

MonitorTick ==
    /\ mon.pc = "wait"
    /\ Len(fnChan) > 0
    /\ mon' = [pc |-> "spawn", need |-> Need(Len(fnChan)), i |-> 0]
    /\ UNCHANGED <<fnChan, chanClosed, ctxDone, numWorker, wg, wpc, ring, wadd,
                   cpc, cidx, strict, sd, calls, nextTask, taken>>

\* One iteration of the spawn loop: the bound is checked against the value
\* of numWorker, which the new goroutine increments only once it runs.
MonitorSpawn ==
    /\ mon.pc = "spawn"
    /\ mon.i < mon.need
    /\ numWorker < MaxWorker
    /\ \E w \in Workers :
          /\ wpc[w] = "off"
          /\ wpc' = [wpc EXCEPT ![w] = "spawned"]
    /\ wg' = wg + 1
    /\ mon' = [mon EXCEPT !.i = @ + 1]
    /\ UNCHANGED <<fnChan, chanClosed, ctxDone, numWorker, ring, wadd,
                   cpc, cidx, strict, sd, calls, nextTask, taken>>

\* The loop condition fails and the monitor waits for the next event.
MonitorSpawnDone ==
    /\ mon.pc = "spawn"
    /\ mon.i >= mon.need \/ numWorker >= MaxWorker
    /\ mon' = [mon EXCEPT !.pc = "wait"]
    /\ UNCHANGED <<fnChan, chanClosed, ctxDone, numWorker, wg, wpc, ring, wadd,
                   cpc, cidx, strict, sd, calls, nextTask, taken>>

\* The select takes the ctx.Done() case and enters s.wg.Wait().
MonitorCancelled ==
    /\ mon.pc = "wait"
    /\ ctxDone
    /\ mon' = [mon EXCEPT !.pc = "draining"]
    /\ UNCHANGED <<fnChan, chanClosed, ctxDone, numWorker, wg, wpc, ring, wadd,
                   cpc, cidx, strict, sd, calls, nextTask, taken>>

\* Mutant: fnChan is closed without waiting on s.wg.
MonitorCloseNoWait ==
    /\ mon.pc = "draining"
    /\ chanClosed' = TRUE
    /\ mon' = [mon EXCEPT !.pc = "stopped"]
    /\ UNCHANGED <<fnChan, ctxDone, numWorker, wg, wpc, ring, wadd,
                   cpc, cidx, strict, sd, calls, nextTask, taken>>

\* Mutant: the monitor exits without close(s.fnChan).
MonitorCloseNoClose ==
    /\ mon.pc = "draining"
    /\ wg = 0
    /\ mon' = [mon EXCEPT !.pc = "stopped"]
    /\ UNCHANGED <<fnChan, chanClosed, ctxDone, numWorker, wg, wpc, ring, wadd,
                   cpc, cidx, strict, sd, calls, nextTask, taken>>

\* s.wg.Wait() returns; the monitor closes fnChan and exits.
MonitorClose ==
    /\ mon.pc = "draining"
    /\ wg = 0
    /\ chanClosed' = TRUE
    /\ mon' = [mon EXCEPT !.pc = "stopped"]
    /\ UNCHANGED <<fnChan, ctxDone, numWorker, wg, wpc, ring, wadd,
                   cpc, cidx, strict, sd, calls, nextTask, taken>>

-----------------------------------------------------------------------------
(* Worker goroutines, scheduler.spawnWorker.                               *)

\* The goroutine starts running and increments s.numWorker.
WorkerStart(w) ==
    /\ wpc[w] = "spawned"
    /\ wpc' = [wpc EXCEPT ![w] = "idle"]
    /\ numWorker' = numWorker + 1
    /\ UNCHANGED <<fnChan, chanClosed, ctxDone, wg, mon, ring, wadd,
                   cpc, cidx, strict, sd, calls, nextTask, taken>>

\* The select receives a task from fnChan.
WorkerTake(w) ==
    /\ wpc[w] = "idle"
    /\ fnChan # <<>>
    /\ wpc' = [wpc EXCEPT ![w] = "busy"]
    /\ fnChan' = Tail(fnChan)
    /\ taken' = taken \cup {Head(fnChan)}
    /\ UNCHANGED <<chanClosed, ctxDone, numWorker, wg, mon, ring, wadd,
                   cpc, cidx, strict, sd, calls, nextTask>>

\* Mutant: the closure runs fn without checking ctx.Done().
WorkerRunNoCtxCheck(w) ==
    /\ wpc[w] = "busy"
    /\ wpc' = [wpc EXCEPT ![w] = "running"]
    /\ UNCHANGED <<fnChan, chanClosed, ctxDone, numWorker, wg, mon, ring, wadd,
                   cpc, cidx, strict, sd, calls, nextTask, taken>>

\* fn(ctx): the closure built by queueLoadTest returns at once when the
\* scheduler context is cancelled (the elapsed time is still recorded in the
\* latency ring); otherwise it calls the shadow client.
WorkerRun(w) ==
    /\ wpc[w] = "busy"
    /\ wpc' = [wpc EXCEPT ![w] = IF ctxDone THEN "timed" ELSE "running"]
    /\ UNCHANGED <<fnChan, chanClosed, ctxDone, numWorker, wg, mon, ring, wadd,
                   cpc, cidx, strict, sd, calls, nextTask, taken>>

\* The shadow call returns.
WorkerFinish(w) ==
    /\ wpc[w] = "running"
    /\ wpc' = [wpc EXCEPT ![w] = "timed"]
    /\ UNCHANGED <<fnChan, chanClosed, ctxDone, numWorker, wg, mon, ring, wadd,
                   cpc, cidx, strict, sd, calls, nextTask, taken>>

\* latencies.Add(elapsed), first atomic step: atomic.AddInt64(&l.index, 1)
\* claims slot index % len(values).
AddIndex(w) ==
    /\ wpc[w] = "timed"
    /\ \E elapsed \in Latencies :
          wadd' = [wadd EXCEPT ![w] = [slot |-> (ring.index + 1) % RingSize,
                                       val |-> elapsed]]
    /\ ring' = [ring EXCEPT !.index = @ + 1]
    /\ wpc' = [wpc EXCEPT ![w] = "store"]
    /\ UNCHANGED <<fnChan, chanClosed, ctxDone, numWorker, wg, mon,
                   cpc, cidx, strict, sd, calls, nextTask, taken>>

\* Second step: atomic.StoreInt64 into the claimed slot, overwriting
\* whatever a faster Add stored there.
AddStore(w) ==
    /\ wpc[w] = "store"
    /\ ring' = [ring EXCEPT !.values[wadd[w].slot] = wadd[w].val]
    /\ wpc' = [wpc EXCEPT ![w] = "count"]
    /\ UNCHANGED <<fnChan, chanClosed, ctxDone, numWorker, wg, mon, wadd,
                   cpc, cidx, strict, sd, calls, nextTask, taken>>

\* Third step: atomic.AddInt64(&l.added, 1); the worker then resets its
\* idle ticker and returns to its select.
AddCount(w) ==
    /\ wpc[w] = "count"
    /\ ring' = [ring EXCEPT !.added = @ + 1]
    /\ wadd' = [wadd EXCEPT ![w] = [slot |-> 0, val |-> 0]]
    /\ wpc' = [wpc EXCEPT ![w] = "idle"]
    /\ UNCHANGED <<fnChan, chanClosed, ctxDone, numWorker, wg, mon,
                   cpc, cidx, strict, sd, calls, nextTask, taken>>

\* The select takes the idle ticker or the ctx.Done() case: the worker
\* returns and its deferred calls run, s.wg.Done() before s.numWorker.Dec().
\* The idle ticker fires whenever no task arrived for workerIdleTimeout, so
\* the step is possible in any idle state, cancelled or not.
WorkerExit(w) ==
    /\ wpc[w] = "idle"
    /\ wpc' = [wpc EXCEPT ![w] = "exiting"]
    /\ wg' = wg - 1
    /\ UNCHANGED <<fnChan, chanClosed, ctxDone, numWorker, mon, ring, wadd,
                   cpc, cidx, strict, sd, calls, nextTask, taken>>

WorkerDec(w) ==
    /\ wpc[w] = "exiting"
    /\ wpc' = [wpc EXCEPT ![w] = "off"]
    /\ numWorker' = numWorker - 1
    /\ UNCHANGED <<fnChan, chanClosed, ctxDone, wg, mon, ring, wadd,
                   cpc, cidx, strict, sd, calls, nextTask, taken>>

-----------------------------------------------------------------------------
(* connectorImpl.ShutDown.                                                 *)

\* c.client.ShutDown(ctx): the main client is closed.
ShutDownPrimary ==
    /\ sd = "running"
    /\ sd' = "primaryClosed"
    /\ UNCHANGED <<fnChan, chanClosed, ctxDone, numWorker, wg, wpc, mon,
                   ring, wadd, cpc, cidx, strict, calls, nextTask, taken>>

\* c.schedulerCancel()
ShutDownCancel ==
    /\ sd = "primaryClosed"
    /\ sd' = "cancelled"
    /\ ctxDone' = TRUE
    /\ UNCHANGED <<fnChan, chanClosed, numWorker, wg, wpc, mon,
                   ring, wadd, cpc, cidx, strict, calls, nextTask, taken>>

\* c.loadTestScheduler.wg.Wait() returns; every shadow client is shut down.
ShutDownShadows ==
    /\ sd = "cancelled"
    /\ wg = 0
    /\ sd' = "done"
    /\ UNCHANGED <<fnChan, chanClosed, ctxDone, numWorker, wg, wpc, mon,
                   ring, wadd, cpc, cidx, strict, calls, nextTask, taken>>

Next ==
    \/ \E c \in Callers : Call(c) \/ Enqueue(c) \/ Primary(c)
    \/ MonitorTick \/ MonitorSpawn \/ MonitorSpawnDone
    \/ MonitorCancelled \/ MonitorClose
    \/ \E w \in Workers :
          \/ WorkerStart(w) \/ WorkerTake(w) \/ WorkerRun(w)
          \/ WorkerFinish(w) \/ AddIndex(w) \/ AddStore(w) \/ AddCount(w)
          \/ WorkerExit(w) \/ WorkerDec(w)
    \/ ShutDownPrimary \/ ShutDownCancel \/ ShutDownShadows

(***************************************************************************)
(* Fairness.  Goroutines that can run eventually run (weak fairness); a    *)
(* Go select chooses uniformly among its ready cases, so a case that is    *)
(* ready infinitely often is eventually chosen (strong fairness for the    *)
(* worker's receive and the monitor's ctx.Done case).  Starting a call and *)
(* starting ShutDown are the application's choice and are not fair.  An   *)
(* idle worker eventually leaves on its idle ticker (weak fairness).       *)
(***************************************************************************)
Fairness ==
    /\ \A c \in Callers : WF_vars(Enqueue(c)) /\ WF_vars(Primary(c))
    /\ WF_vars(MonitorTick) /\ WF_vars(MonitorSpawn)
    /\ WF_vars(MonitorSpawnDone) /\ SF_vars(MonitorCancelled)
    /\ WF_vars(MonitorClose)
    /\ \A w \in Workers :
          /\ WF_vars(WorkerStart(w)) /\ SF_vars(WorkerTake(w))
          /\ WF_vars(WorkerRun(w)) /\ WF_vars(WorkerFinish(w))
          /\ WF_vars(AddIndex(w)) /\ WF_vars(AddStore(w))
          /\ WF_vars(AddCount(w))
          /\ WF_vars(WorkerExit(w)) /\ WF_vars(WorkerDec(w))
    /\ WF_vars(ShutDownCancel) /\ WF_vars(ShutDownShadows)

Spec == Init /\ [][Next]_vars /\ Fairness

-----------------------------------------------------------------------------
(* Properties.                                                             *)

TypeOK ==
    /\ fnChan \in Seq(TaskIds) /\ Len(fnChan) <= ChanSize
    /\ chanClosed \in BOOLEAN /\ ctxDone \in BOOLEAN
    /\ numWorker \in 0..Cardinality(Workers)
    /\ wg \in 0..Cardinality(Workers)
    /\ wpc \in [Workers -> WorkerStates]
    /\ mon \in [pc : {"wait", "spawn", "draining", "stopped"},
                need : 0..NeedBound, i : 0..NeedBound]
    /\ ring \in [values : [0..RingSize - 1 -> Latencies \cup {0}],
                 index : -1..Cardinality(TaskIds) - 1,
                 added : 0..Cardinality(TaskIds)]
    /\ wadd \in [Workers -> [slot : 0..RingSize - 1, val : Latencies \cup {0}]]
    /\ cpc \in [Callers -> CallerStates]
    /\ cidx \in [Callers -> 0..NumShadows]
    /\ strict \in BOOLEAN
    /\ sd \in {"running", "primaryClosed", "cancelled", "done"}
    /\ calls \in 0..MaxCalls
    /\ nextTask \in 1..(MaxCalls * NumShadows + 1)
    /\ taken \subseteq TaskIds

\* start() closes fnChan only after s.wg.Wait(): no worker goroutine that
\* could still receive from the channel (and call the nil fn a closed
\* channel yields) is alive once it is closed.  This relies on wg.Add(1)
\* being done by the monitor before `go s.spawnWorker`.
NoWorkerAfterClose ==
    chanClosed => \A w \in Workers : wpc[w] \in {"off", "exiting"}

\* Once ShutDown has started closing the shadow clients, no shadow task is
\* executing against them: tasks still queued, or taken by a worker the
\* monitor spawned after the cancellation, are skipped by the ctx check of
\* the closure built in queueLoadTest.
NoShadowCallAfterShutDown ==
    sd = "done" => \A w \in Workers : wpc[w] # "running"

\* The pool never exceeds s.maxWorker workers (spec 4.G: "subject to
\* currentWorkers <= maxWorkers").
WorkersBounded == numWorker <= MaxWorker

\* A connector call never panics by sending on the closed task channel
\* (spec 8.5: after ShutDown a call yields "client is closed").
NoSendOnClosedChannel == \A c \in Callers : cpc[c] # "panicked"

\* Every task queued for a shadow is eventually received by a worker unless
\* the scheduler is shut down: the monitor re-spawns workers that left on
\* their idle timeout while a backlog remains.
QueuedTaskEventuallyTaken ==
    \A t \in TaskIds :
        (\E i \in 1..Len(fnChan) : fnChan[i] = t) ~> (t \in taken \/ ctxDone)

\* In a run where ShutDown is never called, a caller that entered
\* queueLoadTest eventually finishes its loop and goes on to the main
\* client: in strict mode (processAllLoadTestPackets) a send blocked on a
\* full fnChan eventually proceeds, because the monitor keeps spawning
\* workers that drain the channel.  A panic does not count as leaving the
\* loop; it is unreachable here since fnChan is closed only after ShutDown.
EnqueueEventuallyReturns ==
    [](sd = "running") =>
        \A c \in Callers : cpc[c] = "enqueue" ~> cpc[c] = "primary"

=============================================================================
