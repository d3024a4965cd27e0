----------------------------- MODULE CircuitGo -----------------------------
(***************************************************************************)
(* circuitbreaker.Go and Do (src/circuitbreaker/circuit_breaker.go): one  *)
(* breaker-protected call is four goroutines.                             *)
(*   - the caller, which builds the options and the buffered softErrorCh, *)
(*     hands run to hystrix.Go and blocks on the aggregated channel (Do); *)
(*   - hystrix's run goroutine: admission (circuit, then a ticket of the  *)
(*     executor pool), run() with handleError and the panic recovery,    *)
(*     then the returnOnce report;                                        *)
(*   - hystrix's timer goroutine, racing run for returnOnce;             *)
(*   - aggregateError's goroutine, selecting among softErrorCh, hystrix's *)
(*     errChan (fatalErrorCh) and ctx.Done().                            *)
(* hystrix-go is not part of this repository: its goroutines are written  *)
(* from spec 4.B (open circuit, max concurrency, per-call timeout,        *)
(* reported to the breaker window).  No Option of this package sets a    *)
(* fallbackHandler, so hystrix sends every rejection to errChan.          *)
(*                                                                         *)
(* Errors are names: "nil", the routine's outcomes, "circuitOpen",       *)
(* "maxConcurrency", "timeout" and "ctxErr".                             *)
(***************************************************************************)
EXTENDS Integers, Sequences, FiniteSets

CONSTANTS
    Calls,          \* concurrent Go calls on one circuit key
    Outcomes,       \* what a routine can return or raise ("nil", "panic", errors)
    NonThreat,      \* the errors the user error handler calls safe
    MaxConcurrent,  \* tickets of the executor pool
    CtxCancellable  \* whether a caller's ctx can be cancelled

ASSUME "nil" \in Outcomes /\ NonThreat \subseteq Outcomes \ {"nil", "panic"}
ASSUME MaxConcurrent \in Nat /\ CtxCancellable \in BOOLEAN

VARIABLES
    cpc,        \* caller: "idle", "wait" (blocked in Do), "done"
    result,     \* the error Do returned
    hpc,        \* hystrix run goroutine
    tpc,        \* hystrix timer goroutine
    apc,        \* aggregateError goroutine
    soft,       \* softErrorCh contents
    fatal,      \* hystrix errChan contents
    aggregated, \* aggregatedErrors contents
    ctxDone,    \* the caller's ctx is done
    out,        \* what the routine returned
    output,     \* what run() returned to hystrix
    once,       \* returnOnce has been taken
    event,      \* what hystrix reported to the breaker window for the call
    holds,      \* the call holds a ticket
    tickets,    \* free tickets
    finished    \* cmd.finished has been sent

vars == <<cpc, result, hpc, tpc, apc, soft, fatal, aggregated, ctxDone, out,
          output, once, event, holds, tickets, finished>>

Errors == Outcomes \cup {"circuitOpen", "maxConcurrency", "timeout", "ctxErr"}
Events == {"none", "success", "failure", "short-circuit", "rejected", "timeout"}

\* The user error handler makeOption settles on: the one getDefaultCBOptions
\* installs through WithUserErrorHandler calls the errors that are not
\* breaker threats safe; getDefaultUserErrorHandler (NonThreat = {}) none.
IsErrorSafe(e) == e \in NonThreat

\* softErrorCh is created with a buffer of one.
SoftErrorChCap == 1

Init ==
    /\ cpc = [c \in Calls |-> "idle"]
    /\ result = [c \in Calls |-> "none"]
    /\ hpc = [c \in Calls |-> "off"]
    /\ tpc = [c \in Calls |-> "off"]
    /\ apc = [c \in Calls |-> "off"]
    /\ soft = [c \in Calls |-> <<>>]
    /\ fatal = [c \in Calls |-> <<>>]
    /\ aggregated = [c \in Calls |-> <<>>]
    /\ ctxDone = [c \in Calls |-> FALSE]
    /\ out = [c \in Calls |-> "none"]
    /\ output = [c \in Calls |-> "none"]
    /\ once = [c \in Calls |-> FALSE]
    /\ event = [c \in Calls |-> "none"]
    /\ holds = [c \in Calls |-> FALSE]
    /\ tickets = MaxConcurrent
    /\ finished = [c \in Calls |-> FALSE]

-----------------------------------------------------------------------------
(* The caller.                                                             *)

\* Go: makeOption, make(softErrorCh, 1), hystrix.Go starts the run and the
\* timer goroutines, aggregateError starts its goroutine; Do then blocks on
\* the returned channel.
Go(c) ==
    /\ cpc[c] = "idle"
    /\ cpc' = [cpc EXCEPT ![c] = "wait"]
    /\ hpc' = [hpc EXCEPT ![c] = "admit"]
    /\ tpc' = [tpc EXCEPT ![c] = "wait"]
    /\ apc' = [apc EXCEPT ![c] = "select"]
    /\ UNCHANGED <<result, soft, fatal, aggregated, ctxDone, out, output, once,
                   event, holds, tickets, finished>>

\* Do: return <-Go(...).
Receive(c) ==
    /\ cpc[c] = "wait" /\ aggregated[c] # <<>>
    /\ cpc' = [cpc EXCEPT ![c] = "done"]
    /\ result' = [result EXCEPT ![c] = Head(aggregated[c])]
    /\ aggregated' = [aggregated EXCEPT ![c] = <<>>]
    /\ UNCHANGED <<hpc, tpc, apc, soft, fatal, ctxDone, out, output, once,
                   event, holds, tickets, finished>>

\* The caller's context is cancelled while it waits.
CancelCtx(c) ==
    /\ CtxCancellable /\ cpc[c] = "wait" /\ ~ctxDone[c]
    /\ ctxDone' = [ctxDone EXCEPT ![c] = TRUE]
    /\ UNCHANGED <<cpc, result, hpc, tpc, apc, soft, fatal, aggregated, out,
                   output, once, event, holds, tickets, finished>>

-----------------------------------------------------------------------------
(* hystrix's run goroutine.                                                *)

\* returnOnce.Do by the run goroutine with no ticket to return: report the
\* rejection ev and send err to errChan, unless the timer got there first.
RejectOnce(c, ev, err) ==
    IF once[c]
    THEN UNCHANGED <<once, event, fatal>>
    ELSE /\ once' = [once EXCEPT ![c] = TRUE]
         /\ event' = [event EXCEPT ![c] = ev]
         /\ fatal' = [fatal EXCEPT ![c] = Append(@, err)]

\* AllowRequest, then a ticket or ErrMaxConcurrency; either way the ticket
\* is now checked.  A rejected run goroutine ends (defer finished <- true).
Admit(c) ==
    /\ hpc[c] = "admit"
    /\ \/ /\ RejectOnce(c, "short-circuit", "circuitOpen")
          /\ hpc' = [hpc EXCEPT ![c] = "exit"]
          /\ finished' = [finished EXCEPT ![c] = TRUE]
          /\ UNCHANGED <<holds, tickets>>
       \/ /\ tickets = 0
          /\ RejectOnce(c, "rejected", "maxConcurrency")
          /\ hpc' = [hpc EXCEPT ![c] = "exit"]
          /\ finished' = [finished EXCEPT ![c] = TRUE]
          /\ UNCHANGED <<holds, tickets>>
       \/ /\ tickets > 0
          /\ tickets' = tickets - 1
          /\ holds' = [holds EXCEPT ![c] = TRUE]
          /\ hpc' = [hpc EXCEPT ![c] = "run"]
          /\ UNCHANGED <<once, event, fatal, finished>>
    /\ UNCHANGED <<cpc, result, tpc, apc, soft, aggregated, ctxDone, out, output>>

\* run(): routine() returns or panics (recover wraps the panic in
\* RoutinePanicError); handleError hands a nil or safe error to softErrorCh
\* and returns nil, and returns a threat error to hystrix.
HandleError(e) == IF e = "nil" \/ IsErrorSafe(e) THEN "soft" ELSE "once"

RunRoutine(c) ==
    /\ hpc[c] = "run"
    /\ \E e \in Outcomes :
          /\ out' = [out EXCEPT ![c] = e]
          /\ output' = [output EXCEPT ![c] = IF HandleError(e) = "soft" THEN "nil" ELSE e]
          /\ hpc' = [hpc EXCEPT ![c] = HandleError(e)]
    /\ UNCHANGED <<cpc, result, tpc, apc, soft, fatal, aggregated, ctxDone,
                   once, event, holds, tickets, finished>>

\* softErrorCh <- routineError: blocks while the buffer is full.
SoftSend(c) ==
    /\ hpc[c] = "soft"
    /\ Len(soft[c]) < SoftErrorChCap
    /\ soft' = [soft EXCEPT ![c] = Append(@, out[c])]
    /\ hpc' = [hpc EXCEPT ![c] = "once"]
    /\ UNCHANGED <<cpc, result, tpc, apc, fatal, aggregated, ctxDone, out,
                   output, once, event, holds, tickets, finished>>

\* returnOnce.Do after run: return the ticket and report success, or a
\* failure that errorWithFallback sends to errChan.  If the timer took the
\* once, the run's result is not reported.  The goroutine then ends.
RunOnce(c) ==
    /\ hpc[c] = "once"
    /\ IF once[c]
       THEN UNCHANGED <<once, event, fatal, holds, tickets>>
       ELSE /\ once' = [once EXCEPT ![c] = TRUE]
            /\ holds' = [holds EXCEPT ![c] = FALSE]
            /\ tickets' = tickets + 1
            /\ IF output[c] = "nil"
               THEN /\ event' = [event EXCEPT ![c] = "success"]
                    /\ UNCHANGED fatal
               ELSE /\ event' = [event EXCEPT ![c] = "failure"]
                    /\ fatal' = [fatal EXCEPT ![c] = Append(@, output[c])]
    /\ hpc' = [hpc EXCEPT ![c] = "exit"]
    /\ finished' = [finished EXCEPT ![c] = TRUE]
    /\ UNCHANGED <<cpc, result, tpc, apc, soft, aggregated, ctxDone, out, output>>

-----------------------------------------------------------------------------
(* hystrix's timer goroutine: select on finished and the timeout timer.    *)

TimerFinished(c) ==
    /\ tpc[c] = "wait" /\ finished[c]
    /\ tpc' = [tpc EXCEPT ![c] = "exit"]
    /\ UNCHANGED <<cpc, result, hpc, apc, soft, fatal, aggregated, ctxDone, out,
                   output, once, event, holds, tickets, finished>>

\* The timer fires: returnOnce.Do, unless the run goroutine has it.
TimerFires(c) ==
    /\ tpc[c] = "wait"
    /\ IF once[c]
       THEN /\ tpc' = [tpc EXCEPT ![c] = "exit"]
            /\ UNCHANGED once
       ELSE /\ once' = [once EXCEPT ![c] = TRUE]
            /\ tpc' = [tpc EXCEPT ![c] = "ticket"]
    /\ UNCHANGED <<cpc, result, hpc, apc, soft, fatal, aggregated, ctxDone, out,
                   output, event, holds, tickets, finished>>

\* Inside the timer's once: returnTicket waits until admission has checked
\* the ticket, returns it if one was taken, then reports the timeout and
\* sends ErrTimeout to errChan.
TimerTimeout(c) ==
    /\ tpc[c] = "ticket" /\ hpc[c] # "admit"
    /\ holds' = [holds EXCEPT ![c] = FALSE]
    /\ tickets' = IF holds[c] THEN tickets + 1 ELSE tickets
    /\ event' = [event EXCEPT ![c] = "timeout"]
    /\ fatal' = [fatal EXCEPT ![c] = Append(@, "timeout")]
    /\ tpc' = [tpc EXCEPT ![c] = "exit"]
    /\ UNCHANGED <<cpc, result, hpc, apc, soft, aggregated, ctxDone, out,
                   output, once, finished>>

-----------------------------------------------------------------------------
(* aggregateError's goroutine: the first ready case of its select is       *)
(* forwarded to aggregatedErrors (buffer one) and the goroutine ends.      *)

\* Mutant: the select runs in a loop and forwards every error it sees.
ForwardInLoop(c, e) ==
    /\ aggregated' = [aggregated EXCEPT ![c] = Append(@, e)]
    /\ UNCHANGED apc

Forward(c, e) ==
    /\ aggregated' = [aggregated EXCEPT ![c] = Append(@, e)]
    /\ apc' = [apc EXCEPT ![c] = "exit"]

AggregateSoft(c) ==
    /\ apc[c] = "select" /\ soft[c] # <<>>
    /\ Forward(c, Head(soft[c]))
    /\ soft' = [soft EXCEPT ![c] = Tail(@)]
    /\ UNCHANGED <<cpc, result, hpc, tpc, fatal, ctxDone, out, output, once,
                   event, holds, tickets, finished>>

\* Mutant: the fatalErrorCh case is missing from the select.
AggregateFatalMissing(c) == FALSE

AggregateFatal(c) ==
    /\ apc[c] = "select" /\ fatal[c] # <<>>
    /\ Forward(c, Head(fatal[c]))
    /\ fatal' = [fatal EXCEPT ![c] = Tail(@)]
    /\ UNCHANGED <<cpc, result, hpc, tpc, soft, ctxDone, out, output, once,
                   event, holds, tickets, finished>>

AggregateCtx(c) ==
    /\ apc[c] = "select" /\ ctxDone[c]
    /\ Forward(c, "ctxErr")
    /\ UNCHANGED <<cpc, result, hpc, tpc, soft, fatal, ctxDone, out, output,
                   once, event, holds, tickets, finished>>

\* All four goroutines of call c have ended.
Terminated(c) ==
    cpc[c] = "done" /\ hpc[c] = "exit" /\ tpc[c] = "exit" /\ apc[c] = "exit"

\* Every call has returned and all its goroutines have ended: the model
\* stops (each call is made once).
AllReturned == (\A c \in Calls : Terminated(c)) /\ UNCHANGED vars

-----------------------------------------------------------------------------
Next ==
    \/ AllReturned
    \/ \E c \in Calls :
          \/ Go(c) \/ Receive(c) \/ CancelCtx(c)
          \/ Admit(c) \/ RunRoutine(c) \/ SoftSend(c) \/ RunOnce(c)
          \/ TimerFinished(c) \/ TimerFires(c) \/ TimerTimeout(c)
          \/ AggregateSoft(c) \/ AggregateFatal(c) \/ AggregateCtx(c)

\* Every goroutine that can step eventually does (the Go scheduler runs
\* runnable goroutines; the timer eventually fires).  Calling and
\* cancelling are the application's choice and get no fairness.
Fairness ==
    \A c \in Calls :
        /\ WF_vars(Receive(c))
        /\ WF_vars(Admit(c)) /\ WF_vars(RunRoutine(c))
        /\ WF_vars(SoftSend(c)) /\ WF_vars(RunOnce(c))
        /\ WF_vars(TimerFinished(c) \/ TimerFires(c)) /\ WF_vars(TimerTimeout(c))
        /\ WF_vars(AggregateSoft(c) \/ AggregateFatal(c) \/ AggregateCtx(c))

Spec == Init /\ [][Next]_vars /\ Fairness

-----------------------------------------------------------------------------
TypeOK ==
    /\ cpc \in [Calls -> {"idle", "wait", "done"}]
    /\ result \in [Calls -> Errors \cup {"none"}]
    /\ hpc \in [Calls -> {"off", "admit", "run", "soft", "once", "exit"}]
    /\ tpc \in [Calls -> {"off", "wait", "ticket", "exit"}]
    /\ apc \in [Calls -> {"off", "select", "exit"}]
    /\ \A c \in Calls : /\ soft[c] \in Seq(Outcomes) /\ Len(soft[c]) <= SoftErrorChCap
                        /\ fatal[c] \in Seq(Errors) /\ Len(fatal[c]) <= 1
                        /\ aggregated[c] \in Seq(Errors) /\ Len(aggregated[c]) <= 1
    /\ ctxDone \in [Calls -> BOOLEAN]
    /\ out \in [Calls -> Outcomes \cup {"none"}]
    /\ output \in [Calls -> Outcomes \cup {"none"}]
    /\ once \in [Calls -> BOOLEAN]
    /\ event \in [Calls -> Events]
    /\ holds \in [Calls -> BOOLEAN]
    /\ tickets \in 0..MaxConcurrent
    /\ finished \in [Calls -> BOOLEAN]

(* A Do call always returns, and the goroutines it started all end with    *)
(* the executor ticket back in the pool, whichever of the routine, the     *)
(* timeout and the caller's ctx comes first: no send on softErrorCh or    *)
(* errChan is left blocked and no ticket leaks.                            *)
CallCompletes ==
    \A c \in Calls : cpc[c] = "wait" ~> (Terminated(c) /\ ~holds[c])

(* Spec 4.B: a call that hystrix reports as timed out returns the distinct *)
(* timeout error (unless the caller's own ctx ended first).  aggregateError *)
(* selects between softErrorCh and errChan: a routine that completes after *)
(* the timeout puts its result on softErrorCh, and the select may take it. *)
TimeoutReachesCaller ==
    \A c \in Calls :
        cpc[c] = "done" /\ event[c] = "timeout" /\ ~ctxDone[c] => result[c] = "timeout"

=============================================================================
