-------------------------- MODULE ClientLifecycle --------------------------
(***************************************************************************)
(* One clientImpl (src/client.go) from construction to ShutDown, with the *)
(* callers that use it: Do, Pipeline (getResultFromCommands) and Run     *)
(* (EVALSHA with the NOSCRIPT fallback to EVAL), the pool-monitor         *)
(* goroutine, and ShutDown's race between the goroutine that closes the   *)
(* wrapped client and the shutdown deadline.                              *)
(*                                                                         *)
(* Clients are the primary and the shadows; only the primary is shut down *)
(* here (the connector's ordering of shutdowns is in ShadowScheduler).     *)
(* The redis server is the environment: its replies are chosen            *)
(* nondeterministically, and it may lose its script cache (SCRIPT FLUSH,  *)
(* restart).  What a caller makes of a Do result with the redisapi reply *)
(* helpers (ReplyHelpers) is checked against the typed values go-redis    *)
(* hands back for a successful command.                                    *)
(***************************************************************************)
EXTENDS Naturals, Sequences, SequencesExt, FiniteSets, ReplyHelpers

CONSTANTS
    Clients,        \* the clientImpl objects: the primary and the shadows
    Primary,        \* the connector's main client
    Callers,        \* goroutines calling into the clients
    Owner,          \* Owner[x]: the client caller x uses
    MaxPipe,        \* longest pipeline a caller sends
    MaxCalls,       \* bound on the calls of all callers
    MaxFlushes,     \* bound on server script-cache losses
    IntReplies,     \* int64 values of integer replies
    Texts,          \* texts of bulk and status replies
    ArrayReplies,   \* element sequences of array replies
    GeoLists,       \* member lists a GEORADIUS reply describes
    GeoPosLists     \* GEOPOS requests: members, each existing or not

(* The values cmd.Result() of go-redis v8 returns for a successful reply: *)
(* int64, string or []interface{} (never []byte).                         *)
GoReplies ==
    {[t |-> "int", v |-> n] : n \in IntReplies} \cup
    {[t |-> "str", v |-> x] : x \in Texts} \cup
    {[t |-> "arr", v |-> a] : a \in ArrayReplies}

(* What the server answers to one command of a pipeline or a Do.          *)
ServerReplies == {"value", "redisNil", "errA", "errB"}

(* Errors a caller can see: none, server errors, the closed-client error  *)
(* and NOSCRIPT.                                                           *)
Errs == {"none", "errA", "errB", "closed", "noscript"}

ReplyPair == [value : {"value", "none"}, err : Errs]

Pipelines == UNION {[1..n -> ServerReplies] : n \in 1..MaxPipe}

VARIABLES
    phase,        \* "running" or "failed": what newClient returned
    wrappedOpen,  \* the go-redis client (pool) is open
    chanClosed,   \* closeChan has been closed
    monitor,      \* the monitorPool goroutine: "running", "exited", "none"
    sd,           \* the ShutDown call: "idle", "waiting", "returned"
    closer,       \* ShutDown's closing goroutine: "none", "closing", "closeChan", "done"
    expired,      \* ShutDown's context deadline has passed
    cached,       \* cached[k]: the server of client k knows the script
    run,          \* run[x]: caller x's position in Run
    runResult,    \* run[x]'s last result
    lastPipe,     \* the last pipeline: its server replies and what the caller got
    lastDo,       \* the last Do: the server's answer, the result and whether
                  \* ShutDown had returned
    calls, flushes

vars == <<phase, wrappedOpen, chanClosed, monitor, sd, closer, expired, cached,
          run, runResult, lastPipe, lastDo, calls, flushes>>

(***************************************************************************)
(* getResultFromCommand: goredis.Nil (a missing key) is not an error.     *)
(***************************************************************************)
GetResultFromCommandKeepNil(r) ==
    [value |-> IF r = "value" THEN "value" ELSE "none",
     err   |-> IF r = "value" THEN "none" ELSE r]

GetResultFromCommand(r) ==
    [value |-> IF r = "value" THEN "value" ELSE "none",
     err   |-> IF r \in {"value", "redisNil"} THEN "none" ELSE r]

(***************************************************************************)
(* getResultFromCommands: one reply pair per command, in order; the       *)
(* overall error is kept from the first command that failed.             *)
(***************************************************************************)
GetResultFromCommandsLastErr(rs) ==
    LET results == [i \in DOMAIN rs |-> GetResultFromCommand(rs[i])]
    IN  [results |-> results,
         err |-> FoldLeft(LAMBDA err, p : IF p.err # "none" THEN p.err ELSE err,
                          "none", results)]

GetResultFromCommands(rs) ==
    LET results == [i \in DOMAIN rs |-> GetResultFromCommand(rs[i])]
    IN  [results |-> results,
         err |-> FoldLeft(LAMBDA err, p : IF err = "none" /\ p.err # "none"
                                          THEN p.err ELSE err,
                          "none", results)]

(* A command on a closed go-redis client fails with "client is closed".  *)
Served(k, r) == IF wrappedOpen \/ k # Primary THEN r ELSE "closed"

(* The prefix test strings.HasPrefix(err.Error(), "NOSCRIPT ").           *)
IsNoScript(e) == e = "noscript"

(* The server's answer to EVALSHA (hash form) or EVAL (source form): the *)
(* source form always runs and loads the script into the cache.           *)
ScriptReply(k, form) ==
    IF form = "hash" /\ ~cached[k] THEN "noscript" ELSE "value"

-----------------------------------------------------------------------------
Init ==
    /\ phase = "creating"
    /\ wrappedOpen = FALSE
    /\ chanClosed = FALSE
    /\ monitor = "none"
    /\ sd = "idle"
    /\ closer = "none"
    /\ expired = FALSE
    /\ cached \in [Clients -> BOOLEAN]
    /\ run = [x \in Callers |-> "idle"]
    /\ runResult = [x \in Callers |-> "none"]
    /\ lastPipe = [input |-> <<"value">>, got |-> GetResultFromCommands(<<"value">>)]
    /\ lastDo = [got |-> "none", res |-> "none", afterReturn |-> FALSE]
    /\ calls = 0
    /\ flushes = 0

(***************************************************************************)
(* newClient: createClient opens the pool and Command(ctx) talks to the   *)
(* server; if ctx is done by then, newClient returns ctx.Err() and the    *)
(* monitor goroutine is never started.                                     *)
(***************************************************************************)
NewClient(ctxDone) ==
    /\ phase = "creating"
    /\ wrappedOpen' = TRUE
    /\ phase' = IF ctxDone THEN "failed" ELSE "running"
    /\ monitor' = IF ctxDone THEN "none" ELSE "running"
    /\ UNCHANGED <<chanClosed, sd, closer, expired, cached, run, runResult,
                   lastPipe, lastDo, calls, flushes>>

CanCall(x) == phase = "running" /\ run[x] = "idle" /\ calls < MaxCalls

(* Do (and do): one command; its reply passes through getResultFromCommand. *)
Do(x, r) ==
    /\ CanCall(x)
    /\ calls' = calls + 1
    /\ lastDo' = [got |-> Served(Owner[x], r),
                  res |-> GetResultFromCommand(Served(Owner[x], r)).err,
                  afterReturn |-> Owner[x] = Primary /\ sd = "returned"]
    /\ UNCHANGED <<phase, wrappedOpen, chanClosed, monitor, sd, closer, expired,
                   cached, run, runResult, lastPipe, flushes>>

(* Pipeline: queue every command, Exec, collect the results.             *)
Pipeline(x, rs) ==
    /\ CanCall(x)
    /\ calls' = calls + 1
    /\ lastPipe' = [input |-> rs,
                    got |-> GetResultFromCommands([i \in DOMAIN rs |-> Served(Owner[x], rs[i])])]
    /\ UNCHANGED <<phase, wrappedOpen, chanClosed, monitor, sd, closer, expired,
                   cached, run, runResult, lastDo, flushes>>

(* Run, first attempt: EVALSHA with the script's hash.  A NOSCRIPT error  *)
(* sends the caller to the fallback; anything else is the result.        *)
RunHash(x) ==
    LET k == Owner[x]
        e == GetResultFromCommand(Served(k, ScriptReply(k, "hash"))).err
    IN  /\ CanCall(x)
        /\ calls' = calls + 1
        /\ IF IsNoScript(e)
              THEN /\ run' = [run EXCEPT ![x] = "eval"]
                   /\ UNCHANGED runResult
              ELSE /\ runResult' = [runResult EXCEPT ![x] = e]
                   /\ UNCHANGED run
        /\ UNCHANGED <<phase, wrappedOpen, chanClosed, monitor, sd, closer, expired,
                       cached, lastPipe, lastDo, flushes>>

(* Run, fallback: EVAL with the script's source.                          *)
RunEvalHashForm(x) ==
    LET k == Owner[x]
        e == GetResultFromCommand(Served(k, ScriptReply(k, "hash"))).err
    IN  /\ run[x] = "eval"
        /\ run' = [run EXCEPT ![x] = "idle"]
        /\ runResult' = [runResult EXCEPT ![x] = e]
        /\ UNCHANGED <<phase, wrappedOpen, chanClosed, monitor, sd, closer, expired,
                       cached, lastPipe, lastDo, calls, flushes>>

RunEval(x) ==
    LET k == Owner[x]
        e == GetResultFromCommand(Served(k, ScriptReply(k, "source"))).err
    IN  /\ run[x] = "eval"
        /\ run' = [run EXCEPT ![x] = "idle"]
        /\ runResult' = [runResult EXCEPT ![x] = e]
        /\ cached' = IF e = "none" THEN [cached EXCEPT ![k] = TRUE] ELSE cached
        /\ UNCHANGED <<phase, wrappedOpen, chanClosed, monitor, sd, closer, expired,
                       lastPipe, lastDo, calls, flushes>>

(* The server forgets its scripts.                                        *)
ScriptFlush(k) ==
    /\ flushes < MaxFlushes
    /\ cached[k]
    /\ cached' = [cached EXCEPT ![k] = FALSE]
    /\ flushes' = flushes + 1
    /\ UNCHANGED <<phase, wrappedOpen, chanClosed, monitor, sd, closer, expired,
                   run, runResult, lastPipe, lastDo, calls>>
(***************************************************************************)
(* ShutDown: give ctx the default deadline if it has none, start the      *)
(* goroutine that closes the wrapped client and then closeChan, and wait  *)
(* for whichever comes first, closeChan or the deadline.                  *)
(***************************************************************************)
ShutDownStart ==
    /\ phase = "running"
    /\ sd = "idle"
    /\ sd' = "waiting"
    /\ closer' = "closing"
    /\ UNCHANGED <<phase, wrappedOpen, chanClosed, monitor, expired, cached,
                   run, runResult, lastPipe, lastDo, calls, flushes>>

(* c.wrappedClient.Close(): may take arbitrarily long.                    *)
CloserClose ==
    /\ closer = "closing"
    /\ wrappedOpen' = FALSE
    /\ closer' = "closeChan"
    /\ UNCHANGED <<phase, chanClosed, monitor, sd, expired, cached,
                   run, runResult, lastPipe, lastDo, calls, flushes>>

(* close(c.closeChan) *)
CloserCloseChan ==
    /\ closer = "closeChan"
    /\ chanClosed' = TRUE
    /\ closer' = "done"
    /\ UNCHANGED <<phase, wrappedOpen, monitor, sd, expired, cached,
                   run, runResult, lastPipe, lastDo, calls, flushes>>

(* The shutdown context's deadline passes.                                *)
DeadlinePasses ==
    /\ sd = "waiting"
    /\ ~expired
    /\ expired' = TRUE
    /\ UNCHANGED <<phase, wrappedOpen, chanClosed, monitor, sd, closer, cached,
                   run, runResult, lastPipe, lastDo, calls, flushes>>

(* The select at the end of ShutDown.                                     *)
ShutDownReturnNoDeadline ==
    /\ sd = "waiting"
    /\ chanClosed
    /\ sd' = "returned"
    /\ UNCHANGED <<phase, wrappedOpen, chanClosed, monitor, closer, expired, cached,
                   run, runResult, lastPipe, lastDo, calls, flushes>>

ShutDownReturn ==
    /\ sd = "waiting"
    /\ chanClosed \/ expired
    /\ sd' = "returned"
    /\ UNCHANGED <<phase, wrappedOpen, chanClosed, monitor, closer, expired, cached,
                   run, runResult, lastPipe, lastDo, calls, flushes>>

(* monitorPool returns when closeChan is closed; its ticker case only     *)
(* reads pool statistics.                                                  *)
MonitorExit ==
    /\ monitor = "running"
    /\ chanClosed
    /\ monitor' = "exited"
    /\ UNCHANGED <<phase, wrappedOpen, chanClosed, sd, closer, expired, cached,
                   run, runResult, lastPipe, lastDo, calls, flushes>>

Next ==
    \/ \E ctxDone \in BOOLEAN : NewClient(ctxDone)
    \/ \E x \in Callers :
          \/ \E r \in ServerReplies : Do(x, r)
          \/ \E rs \in Pipelines : Pipeline(x, rs)
          \/ RunHash(x)
          \/ RunEval(x)
    \/ \E k \in Clients : ScriptFlush(k)
    \/ ShutDownStart
    \/ CloserClose
    \/ CloserCloseChan
    \/ DeadlinePasses
    \/ ShutDownReturn
    \/ MonitorExit

(***************************************************************************)
(* Fairness: the deadline timer fires, a ready select case is taken, the  *)
(* closer goroutine's close(closeChan) and the monitor's exit happen, and *)
(* a Run finishes its fallback.  Close() of the wrapped client gets no    *)
(* fairness: it may block, which is why ShutDown has a deadline.          *)
(***************************************************************************)
Fairness ==
    /\ WF_vars(DeadlinePasses)
    /\ WF_vars(ShutDownReturn)
    /\ WF_vars(CloserCloseChan)
    /\ WF_vars(MonitorExit)
    /\ \A x \in Callers : WF_vars(RunEval(x))

Spec == Init /\ [][Next]_vars /\ Fairness

-----------------------------------------------------------------------------
TypeOK ==
    /\ phase \in {"creating", "running", "failed"}
    /\ wrappedOpen \in BOOLEAN /\ chanClosed \in BOOLEAN /\ expired \in BOOLEAN
    /\ monitor \in {"running", "exited", "none"}
    /\ sd \in {"idle", "waiting", "returned"}
    /\ closer \in {"none", "closing", "closeChan", "done"}
    /\ cached \in [Clients -> BOOLEAN]
    /\ run \in [Callers -> {"idle", "eval"}]
    /\ runResult \in [Callers -> Errs]
    /\ lastPipe.input \in Pipelines
    /\ lastPipe.got.results \in Seq(ReplyPair) /\ lastPipe.got.err \in Errs
    /\ lastDo \in [got : ServerReplies \cup {"closed", "none"}, res : Errs,
                   afterReturn : BOOLEAN]
    /\ calls \in 0..MaxCalls /\ flushes \in 0..MaxFlushes

(* Spec 3.C: the pipeline returns one (value, error) pair per command in  *)
(* input order, with goredis.Nil as no error, and its overall error is    *)
(* the first per-command error (getResultFromCommands).                   *)
FirstError(ps) ==
    IF \E i \in DOMAIN ps : ps[i].err # "none"
       THEN ps[CHOOSE i \in DOMAIN ps : ps[i].err # "none"
                        /\ \A j \in 1..(i - 1) : ps[j].err = "none"].err
       ELSE "none"

PipelineErrorIsFirst ==
    /\ Len(lastPipe.got.results) = Len(lastPipe.input)
    /\ lastPipe.got.err = FirstError(lastPipe.got.results)

(* Run never hands NOSCRIPT to its caller: the hash attempt that misses  *)
(* the script cache is retried with the source, whatever the server lost *)
(* in between (Run's fallback in client.go).                              *)
RunNeverSurfacesNoScript ==
    \A x \in Callers : runResult[x] # "noscript"

(* ShutDown always returns: either the closer goroutine closes closeChan  *)
(* or the deadline passes, even when Close() never completes.             *)
ShutDownReturns ==
    sd = "waiting" ~> sd = "returned"

(* Spec 8, invariant 5: after ShutDown returns, no call on the primary     *)
(* succeeds.  ShutDown returns on the deadline while Close() is pending.  *)
NoPrimaryCallAfterShutDown ==
    lastDo.afterReturn => lastDo.res # "none"

-----------------------------------------------------------------------------
(* What a caller's reply helper makes of the last Do result.  The caller  *)
(* holds the typed value go-redis returned for a successful command, and  *)
(* nil for a missing key or a failed command.                              *)
DoReplies == IF lastDo.got = "value" THEN GoReplies ELSE {Nil}

\* The errors of the helpers that go through a type switch or Values.
HelperErrs(r, e) ==
    {IntOf(r, e).err, Int64(r, e).err, Uint64(r, e).err, Float64(r, e).err,
     String(r, e).err, Bytes(r, e).err, Bool(r, e).err, Values(r, e).err,
     Strings(r, e).err, ByteSlices(r, e).err, Float64s(r, e).err,
     StringMap(r, e).err, IntMap(r, e).err, Int64Map(r, e).err,
     Float64Map(r, e).err}

(* A failed Do reaches the caller unchanged through every helper, and a   *)
(* missing key (goredis.Nil, which getResultFromCommand turns into a nil  *)
(* reply with no error) is redisapi.ErrNoData for every helper but        *)
(* Int64StringMapSlice, which asserts the reply to an array without a    *)
(* check and returns an empty map with no error.                          *)
HelpersReportDoOutcome ==
    /\ lastDo.got \in {"errA", "errB", "closed"} =>
          /\ HelperErrs(Nil, lastDo.res) = {lastDo.got}
          /\ Int64StringMapSlice(Nil, lastDo.res).err = lastDo.got
    /\ lastDo.got = "redisNil" =>
          /\ HelperErrs(Nil, lastDo.res) = {"ErrNoData"}
          /\ Int64StringMapSlice(Nil, lastDo.res) = R(<<>>, NoErr)

(* The integer helpers never disagree: when two of Int, Int64 and Uint64  *)
(* accept the same reply they return the same number, so a negative int64 *)
(* is refused by Uint64 rather than wrapped around 2^64, and Int refuses  *)
(* an int64 that Go's int cannot hold with a range error instead of       *)
(* truncating it.                                                         *)
IntegerHelpersAgree ==
    \A r \in DoReplies :
        LET a == Int64(r, lastDo.res)
            u == Uint64(r, lastDo.res)
            i == IntOf(r, lastDo.res)
        IN  /\ a.err = NoErr /\ u.err = NoErr => a.val = u.val
            /\ a.err = NoErr /\ i.err = NoErr => a.val = i.val
            /\ a.err = NoErr /\ i.err # NoErr =>
                  /\ i.err = "rangeErr"
                  /\ a.val \notin MinOf(IntBits)..MaxOf(IntBits)

\* Reference definitions for the pair helpers.
NumPairs(vs) == Len(vs) \div 2

\* The index of the last pair whose key is the text k.
LastPair(vs, k) == Max({j \in 1..NumPairs(vs) : vs[2 * j - 1].v = k})

\* The reply a pair helper with value conversion Conv accepts: an even
\* number of elements, every key a text, every value accepted by Conv.
PairsAccepted(vs, Conv(_, _)) ==
    /\ Len(vs) % 2 = 0
    /\ \A j \in 1..NumPairs(vs) : IsText(vs[2 * j - 1]) /\ Conv(vs[2 * j], NoErr).err = NoErr

\* Each key mapped to the converted value of its last pair.
LastWins(vs, Conv(_, _)) ==
    [k \in {vs[2 * j - 1].v : j \in 1..NumPairs(vs)} |-> Conv(vs[2 * LastPair(vs, k)], NoErr).val]

MembersWithScore(vs, sc) ==
    LET js == SelectSeq([j \in 1..NumPairs(vs) |-> j],
                        LAMBDA j : Int64(vs[2 * j], NoErr).val = sc)
    IN  [i \in DOMAIN js |-> vs[2 * js[i] - 1].v]

(* The pair helpers (HGETALL, CONFIG GET, ZRANGE WITHSCORES): StringMap,  *)
(* IntMap, Int64Map and Float64Map accept exactly the even-length arrays  *)
(* of text keys whose values they can convert, and map each key to the    *)
(* converted value of its last pair; Int64StringMapSlice lists under each  *)
(* score every member with that score, in reply order.                    *)
PairHelpersFaithful ==
    \A r \in DoReplies : r.t = "arr" =>
        LET vs == r.v
            zs == Int64StringMapSlice(r, lastDo.res)
            Faithful(h, Conv(_, _)) ==
                /\ (h.err = NoErr) = PairsAccepted(vs, Conv)
                /\ h.err = NoErr => h.val = LastWins(vs, Conv)
        IN  /\ Faithful(StringMap(r, lastDo.res), String)
            /\ Faithful(IntMap(r, lastDo.res), IntOf)
            /\ Faithful(Int64Map(r, lastDo.res), Int64)
            /\ Faithful(Float64Map(r, lastDo.res), Float64)
            /\ zs.err = NoErr =>
                  /\ DOMAIN zs.val = {Int64(vs[2 * j], NoErr).val : j \in 1..NumPairs(vs)}
                  /\ \A sc \in DOMAIN zs.val : zs.val[sc] = MembersWithScore(vs, sc)


-----------------------------------------------------------------------------
(* The geo converters against the replies redis writes.  A member is      *)
(* [name, dist, hash, lng, lat]; GEORADIUS with the options in f sends    *)
(* per member the name, then the distance, the hash and the coordinates   *)
(* [lng, lat] in that order, each only when asked for, and a bare name     *)
(* when no option is given.  GEOPOS sends [lng, lat] per existing member  *)
(* and nil for a missing one.                                              *)
GeoOptions == {"WITHDIST", "WITHHASH", "WITHCOORD"}

Str(x) == [t |-> "str", v |-> x]
Arr(xs) == [t |-> "arr", v |-> xs]
Coord(m) == Arr(<<Str(m.lng), Str(m.lat)>>)
If(o, f, x) == IF o \in f THEN <<x>> ELSE <<>>

GeoRadiusItem(m, f) ==
    IF f = {} THEN Str(m.name)
    ELSE Arr(<<Str(m.name)>> \o If("WITHDIST", f, Str(m.dist))
             \o If("WITHHASH", f, [t |-> "int", v |-> m.hash])
             \o If("WITHCOORD", f, Coord(m)))

\* Reference: the location read by position from what was asked for.
ExpectedLocation(m, f) ==
    [name  |-> m.name,
     dist  |-> IF "WITHDIST" \in f THEN m.dist.num ELSE 0,
     hash  |-> IF "WITHHASH" \in f THEN m.hash ELSE 0,
     point |-> IF "WITHCOORD" \in f THEN [lat |-> m.lat.num, lng |-> m.lng.num]
               ELSE ZeroPoint]

(* GeoLocations reads every GEORADIUS reply that carries at least one     *)
(* WITH option as redis laid it out: convertToGeoLocation's type switch   *)
(* (int64 hash, string distance, array coordinates, swapped into          *)
(* [lat, lng]) and its 1..4 length check agree with a positional reading  *)
(* for every option combination.  A reply of bare names (no option) is    *)
(* refused with a type error, and the error of the call is returned as is. *)
GeoLocationsFaithful ==
    \A f \in SUBSET GeoOptions, ms \in GeoLists :
        LET g == GeoLocations(Arr([i \in DOMAIN ms |-> GeoRadiusItem(ms[i], f)]),
                              lastDo.res)
        IN  CASE lastDo.res # NoErr    -> g.err = lastDo.res
              [] f = {} /\ ms # <<>>   -> g.err = "typeErr"
              [] OTHER                 -> g = R([i \in DOMAIN ms |-> ExpectedLocation(ms[i], f)],
                                                NoErr)

(* GeoPosition returns one [lat, lng] point per requested member, in      *)
(* request order, when every member exists; a single missing member (nil  *)
(* in the GEOPOS reply) fails the whole call with ErrNoData, since        *)
(* convertToGeoGeoPoint goes through Float64s and Values.                  *)
GeoPositionFaithful ==
    \A ps \in GeoPosLists :
        LET g == GeoPosition(Arr([i \in DOMAIN ps |->
                                    IF ps[i].exists THEN Coord(ps[i].m) ELSE Nil]),
                             lastDo.res)
        IN  CASE lastDo.res # NoErr                 -> g.err = lastDo.res
              [] \E i \in DOMAIN ps : ~ps[i].exists  -> g.err = "ErrNoData"
              [] OTHER -> g = R([i \in DOMAIN ps |-> [lat |-> ps[i].m.lat.num,
                                                      lng |-> ps[i].m.lng.num]], NoErr)

=============================================================================
