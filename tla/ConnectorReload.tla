--------------------------- MODULE ConnectorReload ---------------------------
(***************************************************************************)
(* The hot-reload path of the dynamic connector: connectorImpl.reload      *)
(* (src/connector.go) with the client reload it calls                      *)
(* (clientWrapperImpl / clusterWrapperImpl.reload), ClientConfig.name,     *)
(* validateReload and isAddrsEquals (src/unnamed/part_007).                *)
(*                                                                         *)
(* A client configuration is a record [mode, addrs, db, param]: mode and   *)
(* db are the fields a reload may not change, addrs is the address slice   *)
(* in its current order (name() and isAddrsEquals sort it IN PLACE), and   *)
(* param stands for every field a reload copies (pool, timeouts, retries,  *)
(* hystrix, IgnoreReadOnly).  A connector configuration adds the shadow    *)
(* list, ProcessAllLoadTestPackets and the scheduler sizes (one value,     *)
(* "workers", for the three that reload compares the same way).            *)
(*                                                                         *)
(* Reload runs on the configurer's callback goroutine and is one action;   *)
(* its loop over the new shadow list is the RECURSIVE operator             *)
(* LoadTestLoop, so every early return keeps exactly the effects the code  *)
(* has made before it.                                                     *)
(***************************************************************************)
EXTENDS Naturals, Integers, Sequences, SequencesExt, FiniteSets

CONSTANTS
    MainCfgs,        \* configurations the primary section may take
    ShadowCfgs,      \* configurations a shadow (load test) entry may take
    MaxShadows,      \* longest shadow list the configuration may carry
    SchedValues,     \* values of SchedulerWorkerNumber the config may carry
    DefaultWorkers,  \* defaultMaxWorker
    MaxInstances,    \* client objects the model can allocate
    MaxReloads,      \* bound on configuration changes
    DefaultAddr      \* defaultHostAndPort

InstIds == 1..MaxInstances

(* A connector configuration as delivered by Unmarshal: fresh slices,    *)
(* before initAndValidate.                                                 *)
ShadowLists == UNION {[1..n -> ShadowCfgs] : n \in 0..MaxShadows}
Inputs == [main: MainCfgs, loadTests: ShadowLists,
           strict: BOOLEAN, workers: SchedValues]

VARIABLES
    main,       \* c.client.config: the primary's configuration object
    inst,       \* client objects: status and configuration object
    shadows,    \* c.loadTestClients
    strict,     \* c.processAllLoadTestPackets
    schedWorkers, \* c.schedulerOptions.maxWorker (normalised by newScheduler)
    applied,    \* the configuration last accepted (history)
    result,     \* outcome of the last reload (history)
    reloads     \* number of reloads so far (bound)

vars == <<main, inst, shadows, strict, schedWorkers, applied, result, reloads>>

NoInst == [status |-> "free", mode |-> "none", addrs |-> <<>>, db |-> 0, param |-> 0]

(***************************************************************************)
(* Configuration helpers.                                                  *)
(***************************************************************************)
SortAddrs(a) == SortSeq(a, <)

\* ClientConfig.name: the first address of a single host, otherwise the
\* sorted addresses joined (sorting c.Addrs in place, see SortForName).
Name(cfg) ==
    IF cfg.mode = "singleHost" THEN <<cfg.addrs[1]>> ELSE SortAddrs(cfg.addrs)

\* The in-place sort name() leaves behind on the configuration it is called on.
SortForName(cfg) ==
    IF cfg.mode = "singleHost" THEN cfg ELSE [cfg EXCEPT !.addrs = SortAddrs(@)]

\* isAddrsEquals: equal lengths, then both slices sorted in place and compared.
AddrsEqual(a, b) == Len(a) = Len(b) /\ SortAddrs(a) = SortAddrs(b)

\* The order isAddrsEquals leaves slice a in when compared with slice b.
AddrsAfterCompare(a, b) == IF Len(a) = Len(b) THEN SortAddrs(a) ELSE a

\* ConnectorConfig.initAndValidate maps 0 to the default, newScheduler's
\* normalise maps every value <= 0 to the default.
InitWorkers(v) == IF v = 0 THEN DefaultWorkers ELSE v
Normalise(v) == IF v <= 0 THEN DefaultWorkers ELSE v

(***************************************************************************)
(* The change callback's ConnectorConfig.initAndValidate: ClientConfig.    *)
(* init on the primary and every shadow, validate on each, then the zero   *)
(* scheduler sizes replaced by their defaults.  init's other defaults      *)
(* (read mode, timeouts, hystrix) are part of param; an invalid read mode  *)
(* fails validate exactly as an invalid client mode does, so mode stands   *)
(* for both.                                                               *)
(***************************************************************************)
ValidModes == {"cluster", "masterSlaveGroup", "singleHost"}

\* ClientConfig.init: no address means defaultHostAndPort.
InitCfg(cfg) == IF cfg.addrs = <<>> THEN [cfg EXCEPT !.addrs = <<DefaultAddr>>] ELSE cfg

\* ClientConfig.validate.
ValidCfg(cfg) == cfg.addrs # <<>> /\ cfg.mode \in ValidModes

InitAndValidate(in) ==
    LET c == [in EXCEPT !.main = InitCfg(@),
                        !.loadTests = [k \in DOMAIN @ |-> InitCfg(@[k])],
                        !.workers = InitWorkers(@)]
    IN  [cfg |-> c,
         ok  |-> ValidCfg(c.main) /\ \A k \in DOMAIN c.loadTests : ValidCfg(c.loadTests[k])]

(***************************************************************************)
(* clientImpl.reload -> wrapper reload: validateReload checks mode, DB and *)
(* addresses (sorting the old slice when it reaches isAddrsEquals); on     *)
(* success every reloadable field is copied into the old object.           *)
(***************************************************************************)
ClientReloadOKNoAddrs(old, new) == old.mode = new.mode /\ old.db = new.db
ClientReloadOK(old, new) ==
    old.mode = new.mode /\ old.db = new.db /\ AddrsEqual(old.addrs, new.addrs)

ClientReloadCfg(old, new) ==
    LET sorted == IF old.mode = new.mode /\ old.db = new.db
                  THEN AddrsAfterCompare(old.addrs, new.addrs) ELSE old.addrs
    IN IF ClientReloadOK(old, new)
       THEN [old EXCEPT !.addrs = sorted, !.param = new.param]
       ELSE [old EXCEPT !.addrs = sorted]

\* clusterWrapperImpl.reload: the same validateReload and settings copy as
\* clientWrapperImpl.reload; its per-shard hystrix and read-mode parts are
\* in BreakerMesh and in param.
ClusterReloadCfg(old, new) == ClientReloadCfg(old, new)

\* The reload of the wrapper createClient built: the single-client wrapper
\* for a single host, the cluster wrapper for a cluster or a master/slave
\* group.
WrapperReload(old, new) ==
    IF old.mode = "singleHost" THEN ClientReloadCfg(old, new)
                               ELSE ClusterReloadCfg(old, new)

\* A new client object built by newClient from cfg.
AsInst(cfg) == [status |-> "live", mode |-> cfg.mode, addrs |-> cfg.addrs,
                db |-> cfg.db, param |-> cfg.param]

FreeIds(is) == {i \in InstIds : is[i].status \in {"free", "closed"}}

(***************************************************************************)
(* The loop over config.LoadTests.  st.rest is what is left of             *)
(* loadTestMap, kept in c.loadTestClients order: popping the last client   *)
(* of a name's slice is removing the last remaining client of that name.   *)
(***************************************************************************)
\* clients[len(clients)-1] is taken and loadTestMap[name] shortened by one.
PopNoRemove(rest, j) == rest
Pop(rest, j) == RemoveAt(rest, j)

RECURSIVE LoadTestLoop(_, _, _)
LoadTestLoop(lts, i, st) ==
    IF i > Len(lts) THEN st
    ELSE
      LET cfg == SortForName(lts[i])
          j   == SelectLastInSeq(st.rest, LAMBDA id : Name(st.inst[id]) = Name(cfg))
      IN
      IF j > 0 THEN
        LET id     == st.rest[j]
            popped == [st EXCEPT !.rest = Pop(@, j),
                                 !.main.addrs = AddrsAfterCompare(@, cfg.addrs)]
            cfg2   == [cfg EXCEPT !.addrs = AddrsAfterCompare(@, st.main.addrs)]
        IN
        IF AddrsEqual(st.main.addrs, cfg.addrs)
        THEN [popped EXCEPT !.err = TRUE]
        ELSE IF ~ClientReloadOK(st.inst[id], cfg2)
        THEN [popped EXCEPT !.err = TRUE,
                            !.inst[id] = WrapperReload(@, cfg2)]
        ELSE LoadTestLoop(lts, i + 1,
                 [popped EXCEPT !.inst[id] = WrapperReload(@, cfg2),
                                !.list = Append(@, id)])
      ELSE
        LET id == CHOOSE x \in FreeIds(st.inst) : TRUE
        IN LoadTestLoop(lts, i + 1,
               [st EXCEPT !.inst[id] = AsInst(cfg),
                          !.list = Append(@, id)])

\* loadTestMap built from c.loadTestClients (name() sorting each cluster
\* configuration in place) and newLoadTestClients made empty.
LoopStartKeepOld(sh, is, m) ==
    [err |-> FALSE, rest |-> sh, list |-> sh, inst |-> is, main |-> m]
LoopStart(sh, is, m) ==
    [err |-> FALSE, rest |-> sh, list |-> <<>>, main |-> m,
     inst |-> [i \in InstIds |->
                 IF \E k \in 1..Len(sh) : sh[k] = i
                 THEN SortForName(is[i]) ELSE is[i]]]

\* The clients left in loadTestMap are shut down.
CloseUnkept(is, rest) ==
    [i \in InstIds |->
       IF \E k \in 1..Len(rest) : rest[k] = i
       THEN [is[i] EXCEPT !.status = "closed"] ELSE is[i]]

(***************************************************************************)
(* Construction: NewDynamicConnector builds the primary and one client per *)
(* load test entry, in order, from the configuration as given.             *)
(***************************************************************************)
Init ==
    \E in \in Inputs :
      LET cfg == InitAndValidate(in).cfg IN
        /\ InitAndValidate(in).ok
        /\ main = cfg.main
        /\ inst = [i \in InstIds |->
                     IF i <= Len(cfg.loadTests) THEN AsInst(cfg.loadTests[i])
                     ELSE NoInst]
        /\ shadows = [i \in 1..Len(cfg.loadTests) |-> i]
        /\ strict = cfg.strict
        /\ schedWorkers = Normalise(cfg.workers)
        /\ applied = cfg
        /\ result = "none"
        /\ reloads = 0

(***************************************************************************)
(* The change callback: initAndValidate succeeded, then                   *)
(* connectorImpl.reload.                                                   *)
(***************************************************************************)
Reload ==
    \E in \in Inputs :
      LET cfg == InitAndValidate(in).cfg IN
      /\ InitAndValidate(in).ok
      /\ reloads < MaxReloads
      /\ Cardinality(FreeIds(inst)) >= MaxShadows
      /\ reloads' = reloads + 1
      /\ strict' = cfg.strict
      /\ IF schedWorkers # cfg.workers
         THEN /\ result' = "err"
              /\ UNCHANGED <<main, inst, shadows, schedWorkers, applied>>
         ELSE IF ~ClientReloadOK(main, cfg.main)
         THEN /\ main' = WrapperReload(main, cfg.main)
              /\ result' = "err"
              /\ UNCHANGED <<inst, shadows, schedWorkers, applied>>
         ELSE
           LET st == LoadTestLoop(cfg.loadTests, 1,
                        LoopStart(shadows, inst, WrapperReload(main, cfg.main)))
           IN /\ main' = st.main
              /\ IF st.err
                 THEN /\ inst' = st.inst
                      /\ result' = "err"
                      /\ UNCHANGED <<shadows, schedWorkers, applied>>
                 ELSE /\ inst' = CloseUnkept(st.inst, st.rest)
                      /\ shadows' = st.list
                      /\ result' = "ok"
                      /\ applied' = cfg
                      /\ UNCHANGED schedWorkers

(* The change callback returns initAndValidate's error (or Unmarshal's)   *)
(* before reload is called: nothing changes.                               *)
ReloadInvalid ==
    /\ reloads < MaxReloads
    /\ \E in \in Inputs : ~InitAndValidate(in).ok
    /\ reloads' = reloads + 1
    /\ result' = "err"
    /\ UNCHANGED <<main, inst, shadows, strict, schedWorkers, applied>>

(* reload with HotReload = false returns nil before touching anything.   *)
ReloadIgnored ==
    /\ reloads < MaxReloads
    /\ reloads' = reloads + 1
    /\ result' = "ignored"
    /\ UNCHANGED <<main, inst, shadows, strict, schedWorkers, applied>>

Next == Reload \/ ReloadInvalid \/ ReloadIgnored

Spec == Init /\ [][Next]_vars

(***************************************************************************)
(* Properties.                                                             *)
(***************************************************************************)
CfgType == [mode: ValidModes, addrs: Seq(Nat), db: Nat, param: Nat]

TypeOK ==
    /\ main \in CfgType
    /\ \A i \in InstIds : inst[i] \in [status: {"free", "live", "closed"},
                                      mode: {"none"} \cup ValidModes,
                                      addrs: Seq(Nat), db: Nat, param: Nat]
    /\ shadows \in UNION {[1..n -> InstIds] : n \in 0..MaxShadows}
    /\ strict \in BOOLEAN
    /\ applied \in [main: CfgType, loadTests: Seq(CfgType), strict: BOOLEAN, workers: Int]
    /\ result \in {"none", "ok", "err", "ignored"}
    /\ reloads \in 0..MaxReloads

\* Every client the connector dispatches shadow traffic to (c.loadTestClients)
\* is open: reload never keeps a client it has shut down, and never shuts down
\* one it keeps.
ShadowsLive == \A k \in 1..Len(shadows) : inst[shadows[k]].status = "live"

\* After construction or a reload that succeeded, the shadow clients are, in
\* order, one per LoadTests entry of the configuration last accepted, each
\* with that entry's mode, DB, address set and reloadable settings (matching
\* by name() in connectorImpl.reload, then clientImpl.reload copying the
\* settings).
ShadowsMatchConfig ==
    result \in {"none", "ok"} =>
      /\ Len(shadows) = Len(applied.loadTests)
      /\ \A k \in 1..Len(shadows) :
           LET s == inst[shadows[k]]
               c == applied.loadTests[k]
           IN /\ s.mode = c.mode /\ s.db = c.db /\ s.param = c.param
              /\ AddrsEqual(s.addrs, c.addrs)

\* Each entry of config.LoadTests has a client of its own: c.loadTestClients
\* never holds one client twice, even when several entries share a name()
\* and a reload takes them out of loadTestMap's per-name slices one by one.
ShadowClientsDistinct == IsInjective(shadows)

\* Spec property 4: a shadow whose canonical name (sorted addresses) is in
\* the configuration before and after a reload keeps its client.  In
\* particular re-applying the configuration already in force keeps every
\* shadow client (shadows of one name may trade places: the loop pops the
\* last client of a name first).
UnchangedConfigKeepsShadows ==
    [][result' = "ok" /\ applied' = applied =>
         ToSet(shadows') = ToSet(shadows)]_vars

\* Spec 4.H: "shadows with the same address set as the primary are
\* rejected": after a successful reload no shadow client has the primary's
\* addresses (connectorImpl.reload's "can't share the same address" check).
ShadowNeverSharesMainAddrs ==
    [][result' = "ok" =>
         \A k \in 1..Len(shadows') :
           ~AddrsEqual(inst'[shadows'[k]].addrs, main'.addrs)]_vars

\* Spec 4.H: a rejected reload keeps the previous configuration (partial
\* success is not permitted): the primary's settings, the shadow list, the
\* strict flag and every client object are as before.
Settings(cfg) == [cfg EXCEPT !.addrs = SortAddrs(@)]
RejectedReloadChangesNothing ==
    [][result' = "err" =>
         /\ Settings(main') = Settings(main)
         /\ UNCHANGED <<shadows, strict>>
         /\ \A i \in InstIds : /\ inst'[i].status = inst[i].status
                              /\ Settings(inst'[i]) = Settings(inst[i])]_vars

=============================================================================
