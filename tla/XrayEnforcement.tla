--------------------------- MODULE XrayEnforcement --------------------------
(***************************************************************************)
(* How the panel keeps its database and the Xray process it runs in step:  *)
(* the client and inbound handlers of web/service/inbound.go, the traffic  *)
(* job (web/job/xray_traffic_job.go), the restart path of                  *)
(* web/service/xray.go and the jobs that call it.                          *)
(*                                                                         *)
(* What runs concurrently, and at which grain:                             *)
(*  - every HTTP handler is a process.  It reads its rows outside of any   *)
(*    transaction (Begin), then opens a transaction, calls Xray's API in   *)
(*    it, saves the whole row it read before and commits (Finish);         *)
(*  - the SQLite pool has one connection (database/db.go:168), so an open  *)
(*    transaction excludes every other statement: a transaction, with the  *)
(*    API calls made inside it, is one step;                               *)
(*  - RestartXray runs under "lock", but only its callers take that lock:  *)
(*    handlers and the traffic job interleave with its steps.              *)
(*                                                                         *)
(* client_traffics.inbound_id references inbounds.id and SQLite enforces   *)
(* it: a row of stats is not inserted without its inbound, and an inbound  *)
(* is not deleted while it has one.                                        *)
(***************************************************************************)
EXTENDS ClientTraffics

CONSTANTS
    Inbounds,        \* ids of the inbounds (an inbound keeps its tag)
    Emails,          \* e-mails of the clients
    Home,            \* the inbound a client is added to
    Kind,            \* "user": the API alters users; "account": mixed and http
    Admins,          \* concurrent HTTP handlers
    Entries,         \* the client settings administrators choose from
    Forms,           \* the [enable, total, expiry] of the inbounds they save
    FirstInbounds,   \* the inbounds the database holds at the start
    Workload,        \* the requests administrators send
    RestartOnDisable,\* setting restartXrayOnClientDisable
    ApiErrors,       \* whether a reachable API may refuse a call
    Instants,        \* the times, after 1, at which something may happen
    MaxUse, MaxEdits, MaxFaults   \* bounds on the environment

InboundRow == [enable: BOOLEAN, used: Nat, total: Nat, expiry: Int,
               clients: [Emails -> Entry \cup {None}]]

Requests == {"AddInbound", "DelInbound", "SetInboundEnable", "UpdateInbound",
             "AddClient", "UpdateClient", "DelClient", "ResetClient",
             "ResetAll", "Periodic", "ResetByEmail", "Restart", "Stop"}

ASSUME ConstantsAssumption ==
    /\ None \notin InboundRow /\ \A E \in SUBSET Emails : E # None
    /\ Home \in [Emails -> Inbounds]
    /\ Kind \in [Inbounds -> {"user", "account"}]
    /\ Entries \subseteq Entry
    /\ Forms \subseteq [enable: BOOLEAN, total: Nat, expiry: Nat]
    /\ FirstInbounds \in [Inbounds -> InboundRow \cup {None}]
    /\ \A i \in Keys(FirstInbounds) : \A e \in Keys(FirstInbounds[i].clients) : Home[e] = i
    /\ Workload \subseteq Requests
    /\ RestartOnDisable \in BOOLEAN
    /\ ApiErrors \in BOOLEAN
    /\ Instants \subseteq Nat
    /\ MaxUse \in Nat /\ MaxEdits \in Nat /\ MaxFaults \in Nat

VARIABLES
    now,          \* time.Now(), in days
    inbounds,     \* table inbounds: id -> row, settings.clients parsed
    stats,        \* table client_traffics: e-mail -> row
    proc,         \* p: the Xray process, the config it was started with and
                  \* the users it serves now, per inbound
    counter,      \* Xray's counters, per client and per inbound
    needRestart,  \* isNeedXrayRestart
    manual,       \* isManuallyStopped
    restart,      \* the RestartXray call that holds lock, if any
    job,          \* XrayTrafficJob.Run
    checkTime,    \* CheckXrayRunningJob.checkTime
    waiting,      \* the cron jobs that decided to restart Xray and wait for lock
    op,           \* the request each handler serves
    consumed,     \* history: traffic clients really used, ever
    edits, faults \* how much of the bounds is spent

db      == <<inbounds, stats>>
runtime == <<proc, counter>>
flags   == <<needRestart, manual>>
bounds  == <<edits, faults>>
vars    == <<now, inbounds, stats, proc, counter, needRestart, manual, restart,
             job, checkTime, waiting, op, consumed, edits, faults>>

-----------------------------------------------------------------------------
(* The generated configuration.                                            *)

\* The users of inbound i that GetXrayConfig keeps.
\* An "account" inbound is filtered by the settings only.
Served(ib, st, i) ==
    {e \in Keys(ib[i].clients) :
        /\ ib[i].clients[e].enable
        /\ Kind[i] = "user" /\ st[e] # None => st[e].enable}

GetXrayConfig(ib, st) ==
    [i \in Inbounds |->
        IF i \in Keys(ib) /\ ib[i].enable THEN Served(ib, st, i) ELSE None]

EmptyConfig == [i \in Inbounds |-> None]
Config      == [Inbounds -> (SUBSET Emails) \cup {None}]

\* What buildRuntimeInboundForAPI and AddInbound hand to Xray: the panel's
\* clients list, which Xray reads as users.  A mixed or http inbound takes its
\* users from "accounts", which only GetXrayConfig fills in.
Delivered(i, users) == IF Kind[i] = "account" THEN {} ELSE users

-----------------------------------------------------------------------------
(* Xray's API (external), seen from the calls the code makes.              *)

\* IsRunning; the child is taken to be there as soon as Start begins.
Running == proc.state \in {"starting", "booting", "up"}

\* The users Xray serves, or is about to serve.
Serving == UNION {proc.live[i] : i \in {j \in Keys(proc.live) : Running}}

\* Between p = NewProcess(...) and the end of Start, and after a Start that
\* failed, p has no API port: Init fails, its error is ignored and the call
\* dereferences a nil client.  With p = nil most handlers do the same.
NoPort == proc.state \in {"starting", "failed"}
NoApi  == proc.state = "none" \/ NoPort

\* The calls among C that fail because Xray does not answer, or refuses.
Failing(C) == CASE proc.state = "up" -> IF ApiErrors THEN SUBSET C ELSE {{}}
                [] OTHER             -> {C}

UserTaken(live, e)  == live[Home[e]] = None \/ e \in live[Home[e]]
AddUsers(live, E)   ==
    [i \in Inbounds |-> IF live[i] = None THEN None ELSE live[i] \cup {e \in E : Home[e] = i}]
DropUsers(live, E)  ==
    [i \in Inbounds |-> IF live[i] = None THEN None ELSE live[i] \ {e \in E : Home[e] = i}]

\* Calls that alter users only exist for "user" inbounds: AddUser answers nil
\* for the others without asking Xray, RemoveUser is refused.
ByApi(e) == Kind[Home[e]] = "user"

\* AddUser for the clients E, F of the calls failing: the users afterwards,
\* and whether one of the calls returned an error.
AfterAddUsers(live, E, F) == AddUsers(live, {e \in E \ F : ByApi(e)})
AddUserError(live, E, F)  == \E e \in E : ByApi(e) /\ (e \in F \/ UserTaken(live, e))

\* RemoveUser: "User ... not found." is not an error to the callers.
AfterDropUsers(live, E, F) == DropUsers(live, {e \in E \ F : ByApi(e)})
DropUserError(live, E, F)  ==
    \E e \in E : e \in F \/ ~ByApi(e) \/ live[Home[e]] = None

-----------------------------------------------------------------------------
(* AddTraffic: one transaction.                                            *)

\* seen: the clients with a counter, be it zero.
NoTraffic == [user |-> [e \in Emails |-> 0], inbound |-> [i \in Inbounds |-> 0], seen |-> {}]

InSettings(ib, e) == ib[Home[e]] # None /\ ib[Home[e]].clients[e] # None

\* The settings of every inbound with the entries of the clients E replaced.
WithEntries(ib, E, entry) ==
    [i \in Inbounds |->
        IF ib[i] = None THEN None
        ELSE [ib[i] EXCEPT !.clients =
                 [e \in Emails |-> IF e \in E /\ @[e] # None THEN entry[e] ELSE @[e]]]]

\* The two tables, t, as each of the four steps of the function leaves them.

\* addInboundTraffic and addClientTraffic; adjustTraffics starts the clocks.
\* d is the traffic reported.
Starting(d) == {e \in Keys(stats) \cap d.seen : StartsClock(stats[e]) /\ InSettings(inbounds, e)}

AfterBilling(d) ==
    LET E       == Starting(d)
        entry   == [e \in E |-> [inbounds[Home[e]].clients[e] EXCEPT
                                    !.expiry = Started(inbounds[Home[e]].clients[e], now)]]
        row(e)  == IF e \in E THEN [stats[e] EXCEPT !.expiry = entry[e].expiry] ELSE stats[e]
        counted == [i \in Inbounds |-> IF inbounds[i] = None THEN None
                                       ELSE [inbounds[i] EXCEPT !.used = @ + d.inbound[i]]]
    IN  [stats    |-> [e \in Emails |-> IF stats[e] = None THEN None
                                        ELSE Billed(row(e), d.user[e])],
         inbounds |-> WithEntries(counted, E, entry)]

\* autoRenewClients reaches a row through the settings of its inbound, and
\* moves the expiry there too; it leaves the entry's enable flag alone.
Renewed(t) == {e \in RenewableIn(t.stats, now) : InSettings(t.inbounds, e)}

AfterRenewals(t) ==
    LET E     == Renewed(t)
        entry == [e \in E |-> [t.inbounds[Home[e]].clients[e] EXCEPT
                                  !.expiry = RenewedRow(t.stats[e], now).expiry]]
    IN  [stats |-> AfterRenewal(t.stats, E, now), inbounds |-> WithEntries(t.inbounds, E, entry)]

\* disableInvalidClients switches the settings entries off as well.
Disabled(t) == {e \in DepletedIn(t.stats, now) : t.inbounds[Home[e]] # None}

AfterDisabling(t) ==
    LET E     == {e \in Disabled(t) : InSettings(t.inbounds, e)}
        entry == [e \in E |-> [t.inbounds[Home[e]].clients[e] EXCEPT !.enable = FALSE]]
    IN  [stats |-> AfterDisable(t.stats, now), inbounds |-> WithEntries(t.inbounds, E, entry)]

\* disableInvalidInbounds looks at the inbound's own counter and expiry.
\* (Mutant: only when the limit is exceeded.)
Overspent(t) ==
    {i \in Keys(t.inbounds) : /\ t.inbounds[i].enable /\ t.inbounds[i].total > 0
                              /\ t.inbounds[i].used > t.inbounds[i].total}

Spent(t) == {i \in Keys(t.inbounds) : t.inbounds[i].enable /\ Depleted(t.inbounds[i], now)}

AfterClosing(t) ==
    [t EXCEPT !.inbounds = [i \in Inbounds |-> IF i \in Spent(t) THEN [@[i] EXCEPT !.enable = FALSE]
                                                               ELSE @[i]]]

\* With no API port the calls that drop users or inbounds panic.
TrafficPanics(drops, dels) == NoPort /\ drops \cup dels # {}

\* Its API calls: renewed clients are added, disabled clients and inbounds
\* dropped; the calls for FA, FD and FI fail.  What Xray serves afterwards:
LiveUsers(adds, FA, drops, FD) == AfterDropUsers(AfterAddUsers(proc.live, adds, FA), drops, FD)

LiveInbounds(adds, FA, drops, FD, dels, FI) ==
    [i \in Inbounds |-> IF i \in dels \ FI THEN None ELSE LiveUsers(adds, FA, drops, FD)[i]]

\* One of them returned an error.
CallError(adds, FA, drops, FD, dels, FI) ==
    \/ AddUserError(proc.live, adds, FA)
    \/ DropUserError(AfterAddUsers(proc.live, adds, FA), drops, FD)
    \/ \E i \in dels : i \in FI \/ LiveUsers(adds, FA, drops, FD)[i] = None

\* What it commits, from the tables t1 .. t4 of the four steps, and what it
\* returns: needRestart and clientsDisabled.  With p = nil it makes no call.
CommitTraffic(t1, t2, t3, t4, needsRestart, clientsDisabled) ==
    LET adds  == {e \in Renewed(t1) : ~t1.stats[e].enable}
        drops == Disabled(t2)
        dels  == Spent(t3)
    IN
    /\ ~TrafficPanics(drops, dels)
    /\ stats' = t4.stats
    /\ inbounds' = t4.inbounds
    /\ clientsDisabled = (DepletedIn(t2.stats, now) # {})
    /\ \E FA \in Failing(adds), FD \in Failing(drops), FI \in Failing(dels) :
          /\ needsRestart = \/ NoPort /\ RenewableIn(t1.stats, now) # {}
                            \/ CallError(adds, FA, drops, FD, dels, FI)
          /\ proc' = IF NoApi THEN proc
                     ELSE [proc EXCEPT !.live = LiveInbounds(adds, FA, drops, FD, dels, FI)]

\* (A singleton bound by \E is a strict LET.  Mutant: disabling comes first.)
AddTrafficDisablingFirst(d, needsRestart, clientsDisabled) ==
    \E t1 \in {AfterBilling(d)} : \E t2 \in {AfterDisabling(t1)} :
    \E t3 \in {AfterRenewals(t2)} : \E t4 \in {AfterClosing(t3)} :
        CommitTraffic(t1, t1, t3, t4, needsRestart, clientsDisabled)

AddTraffic(d, needsRestart, clientsDisabled) ==
    \E t1 \in {AfterBilling(d)} : \E t2 \in {AfterRenewals(t1)} :
    \E t3 \in {AfterDisabling(t2)} : \E t4 \in {AfterClosing(t3)} :
        CommitTraffic(t1, t2, t3, t4, needsRestart, clientsDisabled)

\* After a panic in one of its API calls the deferred function finds err = nil
\* and commits what the transaction holds so far.
PanicTraffic(d) ==
    LET t2    == AfterRenewals(AfterBilling(d))
        t3    == AfterDisabling(t2)
        drops == Disabled(t2)
        kept  == IF drops # {} THEN t2 ELSE t3
    IN  /\ TrafficPanics(drops, Spent(t3))
        /\ stats' = kept.stats
        /\ inbounds' = kept.inbounds

-----------------------------------------------------------------------------
(* RestartXray, StopXray and their callers.                                *)

Callers == {"none", "boot", "cron", "crash", "job", "http"}
Idle    == [pc |-> "idle", by |-> "none", force |-> FALSE, cfg |-> EmptyConfig]

\* lock.Lock(); isManuallyStopped = false; and the AddTraffic(nil, nil) with
\* which GetXrayConfig begins: its results are dropped.
EnterRestart(by, force) ==
    /\ restart.pc = "idle"
    /\ restart' = [pc |-> "read", by |-> by, force |-> force, cfg |-> EmptyConfig]
    /\ manual' = FALSE
    /\ \E needsRestart, clientsDisabled \in BOOLEAN :
           AddTraffic(NoTraffic, needsRestart, clientsDisabled)

\* GetAllInbounds, and the decision whether to restart at all.
\* (Mutant: the configurations are not compared.)
Uncompared(cfg) == Running /\ ~restart.force /\ ~needRestart

Unchanged(cfg) == Running /\ ~restart.force /\ proc.cfg = cfg /\ ~needRestart

RestartRead ==
    /\ restart.pc = "read"
    /\ LET cfg == GetXrayConfig(inbounds, stats) IN
       restart' = IF Unchanged(cfg) THEN [restart EXCEPT !.pc = "done"]
                                    ELSE [restart EXCEPT !.pc = "swap", !.cfg = cfg]
    /\ UNCHANGED <<now, db, runtime, flags, job, checkTime, waiting, op, consumed, bounds>>

\* p.Stop() signals the old process, whose unread counters die with it;
\* p = NewProcess(config); Start writes the file and forks.
RestartSwap ==
    /\ restart.pc = "swap"
    /\ restart' = [restart EXCEPT !.pc = "start"]
    /\ proc' = [state |-> "starting", cfg |-> restart.cfg, live |-> restart.cfg]
    /\ counter' = NoTraffic
    /\ UNCHANGED <<now, db, flags, job, checkTime, waiting, op, consumed, bounds>>

\* Start returns; Xray does not answer its API yet.
RestartStarted ==
    /\ restart.pc = "start"
    /\ restart' = [restart EXCEPT !.pc = "done"]
    /\ proc' = [proc EXCEPT !.state = "booting"]
    /\ UNCHANGED <<now, db, counter, flags, job, checkTime, waiting, op, consumed, bounds>>

\* Start fails: the configuration file cannot be written.
RestartFails ==
    /\ restart.pc = "start"
    /\ faults < MaxFaults
    /\ faults' = faults + 1
    /\ restart' = [restart EXCEPT !.pc = "failed"]
    /\ proc' = [proc EXCEPT !.state = "failed"]
    /\ UNCHANGED <<now, db, counter, flags, job, checkTime, waiting, op, consumed, edits>>

\* lock.Unlock(); only the traffic job does something about an error.
LeaveRestart ==
    /\ restart.pc \in {"done", "failed"}
    /\ restart' = Idle
    /\ job' = IF restart.by = "job" THEN [job EXCEPT !.pc = "flag"] ELSE job
    /\ needRestart' = (needRestart \/ (restart.by = "job" /\ restart.pc = "failed"))
    /\ UNCHANGED <<now, db, runtime, manual, checkTime, waiting, op, consumed, bounds>>

\* startTask begins with RestartXray(true); the cron jobs come after it.
BootRestart ==
    /\ proc.state = "none"
    /\ EnterRestart("boot", TRUE)
    /\ UNCHANGED <<now, counter, needRestart, job, checkTime, waiting, op, consumed, bounds>>

\* A cron job does not run again while its last run has not ended.
Busy(by) == by \in waiting \/ restart.by = by

\* The job that runs every 30 s: the flag is cleared before the restart.
RestartCheck ==
    /\ proc.state # "none"
    /\ needRestart /\ ~Busy("cron")
    /\ needRestart' = FALSE
    /\ waiting' = waiting \cup {"cron"}
    /\ UNCHANGED <<now, db, runtime, manual, restart, job, checkTime, op, consumed, bounds>>

\* DidXrayCrash.  (Mutant: a process that is there has not crashed.)
CrashedIfNil == proc.state = "none" /\ ~manual

Crashed == ~Running /\ ~manual

\* checkTime++, and back to 0 on the second check in a row that finds Xray
\* down.  (Mutant: never back to 0.)
NextCheckKept == checkTime + 1

NextCheck == IF checkTime = 1 THEN 0 ELSE checkTime + 1

\* CheckXrayRunningJob, every second.
CheckXrayRunning ==
    /\ proc.state # "none"
    /\ ~Busy("crash")
    /\ \/ ~Crashed /\ checkTime # 0 /\ checkTime' = 0 /\ waiting' = waiting
       \/ Crashed /\ checkTime = 0 /\ checkTime' = NextCheck /\ waiting' = waiting
       \/ Crashed /\ checkTime = 1 /\ checkTime' = NextCheck /\ waiting' = waiting \cup {"crash"}
    /\ UNCHANGED <<now, db, runtime, flags, restart, job, op, consumed, bounds>>

\* RestartXray(false) of one of the two gets lock.
CronRestart ==
    /\ \E by \in waiting : waiting' = waiting \ {by} /\ EnterRestart(by, FALSE)
    /\ UNCHANGED <<now, counter, needRestart, job, checkTime, op, consumed, bounds>>

\* The panel's "restart" and "stop" buttons.
RestartXrayService ==
    /\ "Restart" \in Workload
    /\ edits < MaxEdits
    /\ edits' = edits + 1
    /\ proc.state # "none"
    /\ EnterRestart("http", TRUE)
    /\ UNCHANGED <<now, counter, needRestart, job, checkTime, waiting, op, consumed, faults>>

StopXrayService ==
    /\ "Stop" \in Workload
    /\ edits < MaxEdits
    /\ edits' = edits + 1
    /\ restart.pc = "idle" /\ proc.state # "none"
    /\ manual' = TRUE
    /\ proc' = IF Running THEN [proc EXCEPT !.state = "down"] ELSE proc
    /\ counter' = IF Running THEN NoTraffic ELSE counter
    /\ UNCHANGED <<now, db, needRestart, restart, job, checkTime, waiting, op, consumed, faults>>

-----------------------------------------------------------------------------
(* XrayTrafficJob.Run, every 10 s.                                         *)

NoJob == [pc |-> "idle", need |-> FALSE, traffic |-> NoTraffic]

\* GetTraffic(true): Xray hands over its counters and resets them.
\* (Mutant: reset = false.)
NotReset == counter

AfterQuery == [NoTraffic EXCEPT !.seen = counter.seen]

\* The answer may be lost; the counters are reset all the same.
JobFetch ==
    /\ job.pc = "idle" /\ proc.state = "up"
    /\ counter' = AfterQuery
    /\ \/ job' = [pc |-> "bill", need |-> FALSE, traffic |-> counter]
       \/ ApiErrors /\ job' = job
    /\ UNCHANGED <<now, db, proc, flags, restart, checkTime, waiting, op, consumed, bounds>>

JobBill ==
    /\ job.pc = "bill"
    /\ \E needsRestart, clientsDisabled \in BOOLEAN :
           /\ AddTraffic(job.traffic, needsRestart, clientsDisabled)
           /\ job' = [pc |-> IF clientsDisabled /\ RestartOnDisable THEN "restart" ELSE "flag",
                      need |-> needsRestart, traffic |-> NoTraffic]
    /\ UNCHANGED <<now, counter, flags, restart, checkTime, waiting, op, consumed, bounds>>

\* Clients were disabled: RestartXray(true).
JobRestart ==
    /\ job.pc = "restart"
    /\ EnterRestart("job", TRUE)
    /\ job' = [job EXCEPT !.pc = "wait"]
    /\ UNCHANGED <<now, counter, needRestart, checkTime, waiting, op, consumed, bounds>>

JobFlag ==
    /\ job.pc = "flag"
    /\ needRestart' = (needRestart \/ job.need)
    /\ job' = NoJob
    /\ UNCHANGED <<now, db, runtime, manual, restart, checkTime, waiting, op, consumed, bounds>>

-----------------------------------------------------------------------------
(* The panel process dies: killed, or by a panic in a cron job, which has  *)
(* no recovery.  Only the database survives; systemd kills the Xray child  *)
(* and starts the panel again.                                             *)

LoseMemory ==
    /\ proc' = [state |-> "none", cfg |-> EmptyConfig, live |-> EmptyConfig]
    /\ counter' = NoTraffic
    /\ needRestart' = FALSE /\ manual' = FALSE
    /\ restart' = Idle /\ job' = NoJob /\ checkTime' = 0 /\ waiting' = {}
    /\ op' = [a \in Admins |-> [kind |-> "idle"]]

PanelDies ==
    /\ faults < MaxFaults
    /\ faults' = faults + 1
    /\ LoseMemory
    /\ UNCHANGED <<now, db, consumed, edits>>

\* A panic while the job bills.
JobPanics ==
    /\ job.pc = "bill"
    /\ PanicTraffic(job.traffic)
    /\ LoseMemory
    /\ UNCHANGED <<now, consumed, bounds>>

\* A panic in the RestartXray of a cron job, the traffic job's included.
RestartPanics ==
    /\ restart.pc = "idle" /\ (waiting # {} \/ job.pc = "restart")
    /\ PanicTraffic(NoTraffic)
    /\ LoseMemory
    /\ UNCHANGED <<now, consumed, bounds>>

\* A panic in the RestartXray of the button is recovered by the web server.
RestartServicePanics ==
    /\ "Restart" \in Workload
    /\ edits < MaxEdits
    /\ edits' = edits + 1
    /\ restart.pc = "idle"
    /\ PanicTraffic(NoTraffic)
    /\ manual' = FALSE
    /\ UNCHANGED <<now, runtime, needRestart, restart, job, checkTime, waiting, op, consumed,
                   faults>>

\* Xray exits by itself.
XrayCrashes ==
    /\ proc.state \in {"booting", "up"}
    /\ faults < MaxFaults
    /\ faults' = faults + 1
    /\ proc' = [proc EXCEPT !.state = "down"]
    /\ counter' = NoTraffic
    /\ UNCHANGED <<now, db, flags, restart, job, checkTime, waiting, op, consumed, edits>>

XrayAnswers ==
    /\ proc.state = "booting"
    /\ proc' = [proc EXCEPT !.state = "up"]
    /\ UNCHANGED <<now, db, counter, flags, restart, job, checkTime, waiting, op, consumed, bounds>>

\* A client that Xray serves moves one unit of traffic.
ClientUses(e) ==
    /\ proc.state = "up" /\ e \in Serving
    /\ consumed[e] < MaxUse
    /\ consumed' = [consumed EXCEPT ![e] = @ + 1]
    /\ counter' = [user |-> [counter.user EXCEPT ![e] = @ + 1],
                   inbound |-> [counter.inbound EXCEPT ![Home[e]] = @ + 1],
                   seen |-> counter.seen \cup {e}]
    /\ UNCHANGED <<now, db, proc, flags, restart, job, checkTime, waiting, op, edits, faults>>

TimePasses ==
    /\ \E t \in Instants : now < t /\ now' = t
    /\ UNCHANGED <<db, runtime, flags, restart, job, checkTime, waiting, op, consumed, bounds>>

-----------------------------------------------------------------------------
(* The handlers.  A request begins with reads and checks; what follows is  *)
(* computed from the rows it read.  SetToNeedRestart, which the controller *)
(* calls after the service returned needRestart, is part of the last step. *)

NoOp == [kind |-> "idle"]

\* Begin: one more request of the workload.
Accept(a, kind) ==
    /\ kind \in Workload
    /\ op[a] = NoOp
    /\ edits < MaxEdits
    /\ edits' = edits + 1

Reads(a, request) ==
    /\ op' = [op EXCEPT ![a] = request]
    /\ UNCHANGED <<now, db, runtime, flags, restart, job, checkTime, waiting, consumed, faults>>

\* The last step of a request: its database writes are stated by the action.
Done(a, need) ==
    /\ op' = [op EXCEPT ![a] = NoOp]
    /\ needRestart' = (needRestart \/ need)
    /\ UNCHANGED <<now, counter, manual, restart, job, checkTime, waiting, consumed, bounds>>

\* A request that answers with an error.
Fails(a) == Done(a, FALSE) /\ UNCHANGED <<db, proc>>

SetLive(live) == proc' = [proc EXCEPT !.live = live]

\* db.Save of an inbound read before: the whole row, settings included.
SaveInbound(row, i) == inbounds' = [inbounds EXCEPT ![i] = row]

-----------------------------------------------------------------------------
(* AddInboundClient.                                                       *)

BeginAddClient(a, e, c) ==
    LET i == Home[e] IN
    /\ Accept(a, "AddClient")
    /\ inbounds[i] # None
    /\ ~InSettings(inbounds, e)
    /\ Reads(a, [kind |-> "AddClient", id |-> i, email |-> e, entry |-> c,
                 row |-> [inbounds[i] EXCEPT !.clients[e] = c]])

\* AddClientStat: the e-mail is unique, and a failing insert goes unnoticed.
WithStat(e, c) == IF stats[e] = None THEN [stats EXCEPT ![e] = NewRow(c)] ELSE stats

\* (An inbound deleted meanwhile comes back with the Save, without the row.)

FinishAddClient(a) ==
    /\ op[a].kind = "AddClient"
    /\ LET o == op[a]
           E == IF o.entry.enable /\ Kind[o.id] = "user" THEN {o.email} ELSE {}
       IN
       /\ stats' = IF inbounds[o.id] = None THEN stats ELSE WithStat(o.email, o.entry)
       /\ \/ /\ ~(NoApi /\ E # {})
             /\ SaveInbound(o.row, o.id)
             /\ \E F \in Failing(E) :
                   /\ SetLive(AfterAddUsers(proc.live, E, F))
                   /\ Done(a, \/ o.entry.enable /\ Kind[o.id] = "account"
                              \/ AddUserError(proc.live, E, F))
          \/ /\ NoApi /\ E # {}     \* panics: the row of stats is committed
             /\ Done(a, FALSE)
             /\ UNCHANGED <<inbounds, proc>>

-----------------------------------------------------------------------------
(* UpdateInboundClient (the e-mail stays the same).                        *)

BeginUpdateClient(a, e, c) ==
    LET i == Home[e] IN
    /\ Accept(a, "UpdateClient")
    /\ InSettings(inbounds, e)
    /\ Reads(a, [kind |-> "UpdateClient", id |-> i, email |-> e, entry |-> c,
                 old |-> inbounds[i].clients[e],
                 row |-> [inbounds[i] EXCEPT !.clients[e] = c]])

FinishUpdateClient(a) ==
    /\ op[a].kind = "UpdateClient"
    /\ LET o    == op[a]
           call == Kind[o.id] = "user"
           D    == IF call /\ o.old.enable THEN {o.email} ELSE {}
           E    == IF call /\ o.entry.enable THEN {o.email} ELSE {}
       IN
       /\ stats' = [stats EXCEPT ![o.email] = IF @ = None THEN None ELSE UpdatedRow(@, o.entry)]
       /\ \/ /\ ~(NoApi /\ D \cup E # {})
             /\ SaveInbound(o.row, o.id)
             /\ \E FD \in Failing(D), FE \in Failing(E) :
                   LET live == AfterDropUsers(proc.live, D, FD) IN
                   /\ SetLive(AfterAddUsers(live, E, FE))
                   /\ Done(a, \/ ~call
                              \/ DropUserError(proc.live, D, FD)
                              \/ AddUserError(live, E, FE))
          \/ /\ NoApi /\ D \cup E # {}
             /\ Done(a, FALSE)
             /\ UNCHANGED <<inbounds, proc>>

-----------------------------------------------------------------------------
(* DelInboundClient: no transaction, one statement after the other.        *)

BeginDelClient(a, e) ==
    LET i == Home[e] IN
    /\ Accept(a, "DelClient")
    /\ InSettings(inbounds, e)
    /\ Keys(inbounds[i].clients) # {e}        \* "no client remained in Inbound"
    /\ Reads(a, [kind |-> "DelClient", id |-> i, email |-> e,
                 api |-> inbounds[i].clients[e].enable,
                 row |-> [inbounds[i] EXCEPT !.clients[e] = None]])

\* The row of client_traffics goes, and the user if it was not depleted.
DelClientStat(a) ==
    /\ op[a].kind = "DelClient"
    /\ LET o == op[a] IN
       \/ stats[o.email] = None /\ Fails(a)
       \/ /\ stats[o.email] # None
          /\ stats' = [stats EXCEPT ![o.email] = None]
          /\ LET gone == o.api /\ stats[o.email].enable
                 E    == IF gone /\ Kind[o.id] = "user" THEN {o.email} ELSE {}
             IN
             \/ /\ ~(NoApi /\ E # {})
                /\ \E F \in Failing(E) :
                      /\ SetLive(AfterDropUsers(proc.live, E, F))
                      /\ op' = [op EXCEPT ![a] =
                                  [kind |-> "SaveDelClient", id |-> o.id, row |-> o.row,
                                   need |-> \/ gone /\ Kind[o.id] = "account"
                                            \/ DropUserError(proc.live, E, F)]]
                /\ UNCHANGED <<now, inbounds, counter, flags, restart, job, checkTime, waiting,
                               consumed, bounds>>
             \/ /\ NoApi /\ E # {}
                /\ Done(a, FALSE)
                /\ UNCHANGED <<inbounds, proc>>

SaveDelClient(a) ==
    /\ op[a].kind = "SaveDelClient"
    /\ SaveInbound(op[a].row, op[a].id)
    /\ Done(a, op[a].need)
    /\ UNCHANGED <<stats, proc>>

-----------------------------------------------------------------------------
(* ResetClientTraffic, and the resets that are a single statement.         *)

BeginResetClient(a, e) ==
    /\ Accept(a, "ResetClient")
    /\ stats[e] # None
    /\ Reads(a, [kind |-> "ResetClient", email |-> e, row |-> stats[e]])

\* db.Save(traffic) writes the whole row back, inserting it if it is gone but
\* not without its inbound.
FinishResetClient(a) ==
    /\ op[a].kind = "ResetClient"
    /\ LET o == op[a]
           i == Home[o.email]
           E == IF /\ ~o.row.enable
                   /\ InSettings(inbounds, o.email)
                   /\ inbounds[i].clients[o.email].enable
                THEN {o.email} ELSE {}
       IN
       \/ inbounds[i] = None /\ Fails(a)
       \/ /\ inbounds[i] # None
          /\ ~(NoApi /\ E # {} /\ Kind[i] = "user")
          /\ stats' = [stats EXCEPT ![o.email] = ResetRow(o.row)]
          /\ \E F \in Failing(E) :
                /\ SetLive(AfterAddUsers(proc.live, E, F))
                /\ Done(a, AddUserError(proc.live, E, F))
          /\ UNCHANGED inbounds
       \/ /\ NoApi /\ E # {} /\ Kind[i] = "user"
          /\ Fails(a)                           \* panics before anything is saved

ResetOf(i) ==
    [e \in Emails |-> IF stats[e] # None /\ Home[e] = i THEN ResetRow(stats[e]) ELSE stats[e]]

\* ResetAllClientTraffics; its controller asks for a restart.
ResetAllClientTraffics(a, i) ==
    /\ Accept(a, "ResetAll")
    /\ stats' = ResetOf(i)
    /\ needRestart' = TRUE
    /\ UNCHANGED <<now, inbounds, runtime, manual, restart, job, checkTime, waiting, op, consumed,
                   faults>>

\* PeriodicTrafficResetJob: the inbound's counters, then its clients'; it
\* asks for nothing.
PeriodicTrafficReset(a, i) ==
    /\ Accept(a, "Periodic")
    /\ inbounds[i] # None
    /\ inbounds' = [inbounds EXCEPT ![i].used = 0]
    /\ stats' = ResetOf(i)
    /\ UNCHANGED <<now, runtime, flags, restart, job, checkTime, waiting, op, consumed, faults>>

\* ResetClientTrafficByEmail, the Telegram bot's reset.
ResetClientTrafficByEmail(a, e) ==
    /\ Accept(a, "ResetByEmail")
    /\ stats[e] # None
    /\ stats' = [stats EXCEPT ![e] = ResetRow(@)]
    /\ UNCHANGED <<now, inbounds, runtime, flags, restart, job, checkTime, waiting, op, consumed,
                   faults>>

\* ResetAllTraffics: the counters of every inbound.
ResetAllTraffics(a) ==
    /\ Accept(a, "ResetAll")
    /\ inbounds' = [i \in Inbounds |->
                       IF inbounds[i] = None THEN None ELSE [inbounds[i] EXCEPT !.used = 0]]
    /\ needRestart' = TRUE
    /\ UNCHANGED <<now, stats, runtime, manual, restart, job, checkTime, waiting, op, consumed,
                   faults>>

-----------------------------------------------------------------------------
(* The inbound handlers.                                                   *)

\* Xray's AddInbound (refused when the tag is taken) and DelInbound.
AddInboundError(live, i, F)  == i \in F \/ live[i] # None
AfterAddInbound(live, i, users, F) ==
    IF AddInboundError(live, i, F) THEN live ELSE [live EXCEPT ![i] = Delivered(i, users)]
AfterDelInbound(live, i, F)  == IF i \in F THEN live ELSE [live EXCEPT ![i] = None]

\* A row gets a new id: no request under way is about it.
Concerns(o, i) == o # NoOp /\ IF o.kind = "ResetClient" THEN Home[o.email] = i ELSE o.id = i

\* AddInbound: the clients come with the form, each with a row of stats; the
\* API is handed all of them, whatever their enable flag.
AddInbound(a, i, f, e, c) ==
    /\ Accept(a, "AddInbound")
    /\ inbounds[i] = None /\ \A b \in Admins : ~Concerns(op[b], i)
    /\ Home[e] = i
    /\ inbounds' = [inbounds EXCEPT ![i] =
                       [enable |-> f.enable, used |-> 0, total |-> f.total, expiry |-> f.expiry,
                        clients |-> [x \in Emails |-> IF x = e THEN c ELSE None]]]
    /\ stats' = WithStat(e, c)
    /\ \/ /\ f.enable /\ ~NoApi
          /\ \E F \in Failing({i}) :
                /\ SetLive(AfterAddInbound(proc.live, i, {e}, F))
                /\ needRestart' = (needRestart \/ AddInboundError(proc.live, i, F))
       \/ /\ ~f.enable \/ NoApi       \* nothing to call, or a panic that commits
          /\ UNCHANGED <<proc, needRestart>>
    /\ UNCHANGED <<now, counter, manual, restart, job, checkTime, waiting, op, consumed, faults>>

\* DelInbound: the API call and the rows of stats, then the inbound.
BeginDelInbound(a, i) ==
    /\ Accept(a, "DelInbound")
    /\ inbounds[i] # None
    /\ ~(NoApi /\ inbounds[i].enable)
    /\ LET I == IF inbounds[i].enable THEN {i} ELSE {} IN
       \E F \in Failing(I) :
           /\ SetLive(IF inbounds[i].enable THEN AfterDelInbound(proc.live, i, F) ELSE proc.live)
           /\ op' = [op EXCEPT ![a] =
                       [kind |-> "DelInbound", id |-> i,
                        need |-> inbounds[i].enable /\ (i \in F \/ proc.live[i] = None)]]
    /\ stats' = [e \in Emails |-> IF Home[e] = i THEN None ELSE stats[e]]
    /\ UNCHANGED <<now, inbounds, counter, flags, restart, job, checkTime, waiting, consumed,
                   faults>>

\* A client added meanwhile has brought its row: the inbound stays, and with
\* the error the request for a restart is dropped.
HasStats(i) == \E e \in Keys(stats) : Home[e] = i

FinishDelInbound(a) ==
    /\ op[a].kind = "DelInbound"
    /\ \/ /\ inbounds[op[a].id] = None \/ HasStats(op[a].id)
          /\ Fails(a)
       \/ /\ inbounds[op[a].id] # None /\ ~HasStats(op[a].id)
          /\ inbounds' = [inbounds EXCEPT ![op[a].id] = None]
          /\ Done(a, op[a].need)
          /\ UNCHANGED <<stats, proc>>

\* SetInboundEnable, without a transaction: the inbound is read, the flag, a
\* single column, is updated, and Xray's copy of the inbound is dropped and, on
\* enabling, rebuilt from the settings read at the start.
BeginSetInboundEnable(a, i) ==
    /\ Accept(a, "SetInboundEnable")
    /\ inbounds[i] # None
    /\ Reads(a, [kind |-> "SetInboundEnable", id |-> i, enable |-> ~inbounds[i].enable,
                 row |-> inbounds[i]])

\* buildRuntimeInboundForAPI: as Served, whatever the kind of the inbound.
\* (Mutant: without looking at the enable flags.)
EveryUser(row, st) == Keys(row.clients)

RuntimeUsers(row, st) ==
    {e \in Keys(row.clients) :
        row.clients[e].enable /\ (st[e] # None => st[e].enable)}

SetEnable(a) ==
    /\ op[a].kind = "SetInboundEnable"
    /\ inbounds' = [inbounds EXCEPT ![op[a].id] =
                       IF @ = None THEN None ELSE [@ EXCEPT !.enable = op[a].enable]]
    /\ op' = [op EXCEPT ![a].kind = "SyncInbound"]
    /\ UNCHANGED <<now, stats, runtime, flags, restart, job, checkTime, waiting, consumed, bounds>>

\* "not found" on the drop is tolerated.
SyncInbound(a) ==
    /\ op[a].kind = "SyncInbound"
    /\ \/ /\ ~NoApi
          /\ LET o == op[a] IN
             \E FD \in Failing({o.id}), FA \in Failing(IF o.enable THEN {o.id} ELSE {}) :
                LET live == AfterDelInbound(proc.live, o.id, FD) IN
                IF o.enable
                THEN /\ SetLive(AfterAddInbound(live, o.id, RuntimeUsers(o.row, stats), FA))
                     /\ Done(a, o.id \in FD \/ AddInboundError(live, o.id, FA))
                ELSE /\ SetLive(live)
                     /\ Done(a, o.id \in FD)
       \/ NoApi /\ Done(a, FALSE) /\ UNCHANGED proc
    /\ UNCHANGED db

\* UpdateInbound: the browser sends the whole inbound as it was when the form
\* was opened, with the edited fields f and the traffic counters of then.
OpenInboundForm(a, i, f) ==
    /\ Accept(a, "UpdateInbound")
    /\ inbounds[i] # None
    /\ Reads(a, [kind |-> "UpdateInbound", id |-> i,
                 row |-> [inbounds[i] EXCEPT !.enable = f.enable, !.total = f.total,
                                             !.expiry = f.expiry]])

\* updateClientTraffics: the rows of stats follow the clients of the form.
StatsFor(i, new) ==
    LET old == inbounds[i].clients IN
    [e \in Emails |-> CASE old[e] # None /\ new[e] = None -> None
                         [] old[e] = None /\ new[e] # None -> NewRow(new[e])
                         [] OTHER                          -> stats[e]]

\* An added e-mail that already has a row fails the insert and the request.
Duplicates(i, new) == (Keys(new) \ Keys(inbounds[i].clients)) \cap Keys(stats)

UpdateInbound(a) ==
    /\ op[a].kind = "UpdateInbound"
    /\ LET o == op[a] IN
       \/ /\ \/ inbounds[o.id] = None
             \/ Duplicates(o.id, o.row.clients) # {}
          /\ Fails(a)
       \/ /\ inbounds[o.id] # None
          /\ Duplicates(o.id, o.row.clients) = {}
          /\ stats' = StatsFor(o.id, o.row.clients)
          /\ \/ /\ ~NoApi
                /\ SaveInbound(o.row, o.id)
                /\ \E FD \in Failing({o.id}), FA \in Failing(IF o.row.enable THEN {o.id} ELSE {}) :
                      LET live  == AfterDelInbound(proc.live, o.id, FD)
                          users == RuntimeUsers(o.row, stats')
                      IN
                      IF o.row.enable
                      THEN /\ SetLive(AfterAddInbound(live, o.id, users, FA))
                           /\ Done(a, AddInboundError(live, o.id, FA))
                      ELSE SetLive(live) /\ Done(a, FALSE)
             \/ /\ NoApi
                /\ Done(a, FALSE)
                /\ UNCHANGED <<inbounds, proc>>

-----------------------------------------------------------------------------
Init ==
    /\ now = 1
    /\ inbounds = FirstInbounds
    /\ stats = [e \in Emails |->
                   IF InSettings(FirstInbounds, e)
                   THEN NewRow(FirstInbounds[Home[e]].clients[e]) ELSE None]
    /\ proc = [state |-> "none", cfg |-> EmptyConfig, live |-> EmptyConfig]
    /\ counter = NoTraffic
    /\ needRestart = FALSE /\ manual = FALSE
    /\ restart = Idle
    /\ job = NoJob
    /\ checkTime = 0 /\ waiting = {}
    /\ op = [a \in Admins |-> NoOp]
    /\ consumed = [e \in Emails |-> 0]
    /\ edits = 0 /\ faults = 0

RestartSteps == RestartRead \/ RestartSwap \/ RestartStarted \/ LeaveRestart

JobSteps == JobFetch \/ JobBill \/ JobRestart \/ JobFlag

Panics == JobPanics \/ RestartPanics

\* The steps left of the request handler a serves.
HandlerSteps(a) ==
    \/ FinishAddClient(a) \/ FinishUpdateClient(a)
    \/ DelClientStat(a) \/ SaveDelClient(a)
    \/ FinishResetClient(a)
    \/ FinishDelInbound(a) \/ SetEnable(a) \/ SyncInbound(a) \/ UpdateInbound(a)

NewRequest(a) ==
    \/ \E e \in Emails, c \in Entries : BeginAddClient(a, e, c) \/ BeginUpdateClient(a, e, c)
    \/ \E e \in Emails : \/ BeginDelClient(a, e) \/ BeginResetClient(a, e)
                         \/ ResetClientTrafficByEmail(a, e)
    \/ \E i \in Inbounds : \/ ResetAllClientTraffics(a, i) \/ PeriodicTrafficReset(a, i)
                           \/ BeginDelInbound(a, i) \/ BeginSetInboundEnable(a, i)
    \/ \E i \in Inbounds, f \in Forms :
           \/ OpenInboundForm(a, i, f)
           \/ \E e \in Emails, c \in Entries : AddInbound(a, i, f, e, c)
    \/ ResetAllTraffics(a)

Environment ==
    \/ PanelDies \/ XrayCrashes \/ RestartFails
    \/ TimePasses
    \/ \E e \in Emails : ClientUses(e)
    \/ RestartXrayService \/ RestartServicePanics \/ StopXrayService
    \/ \E a \in Admins : NewRequest(a)

Next ==
    \/ BootRestart \/ RestartCheck \/ CheckXrayRunning \/ CronRestart
    \/ RestartSteps \/ JobSteps \/ Panics \/ XrayAnswers
    \/ \E a \in Admins : HandlerSteps(a)
    \/ Environment

Spec == Init /\ [][Next]_vars

-----------------------------------------------------------------------------
(* Type invariant.                                                         *)

OpType ==
    {NoOp}
    \cup [kind: {"AddClient"}, id: Inbounds, email: Emails, entry: Entry, row: InboundRow]
    \cup [kind: {"UpdateClient"}, id: Inbounds, email: Emails, entry: Entry, old: Entry,
          row: InboundRow]
    \cup [kind: {"DelClient"}, id: Inbounds, email: Emails, api: BOOLEAN, row: InboundRow]
    \cup [kind: {"SaveDelClient"}, id: Inbounds, row: InboundRow, need: BOOLEAN]
    \cup [kind: {"ResetClient"}, email: Emails, row: Row]
    \cup [kind: {"DelInbound"}, id: Inbounds, need: BOOLEAN]
    \cup [kind: {"SetInboundEnable", "SyncInbound"}, id: Inbounds, enable: BOOLEAN, row: InboundRow]
    \cup [kind: {"UpdateInbound"}, id: Inbounds, row: InboundRow]

Traffic == [user: [Emails -> Nat], inbound: [Inbounds -> Nat], seen: SUBSET Emails]

TypeOK ==
    /\ now \in Nat
    /\ inbounds \in [Inbounds -> InboundRow \cup {None}]
    /\ stats \in [Emails -> Row \cup {None}]
    /\ proc \in [state: {"none", "starting", "booting", "up", "down", "failed"},
                 cfg: Config, live: Config]
    /\ counter \in Traffic
    /\ needRestart \in BOOLEAN /\ manual \in BOOLEAN
    /\ restart \in [pc: {"idle", "read", "swap", "start", "done", "failed"}, by: Callers,
                    force: BOOLEAN, cfg: Config]
    /\ job \in [pc: {"idle", "bill", "restart", "wait", "flag"}, need: BOOLEAN, traffic: Traffic]
    /\ checkTime \in 0..1 /\ waiting \subseteq {"cron", "crash"}
    /\ op \in [Admins -> OpType]
    /\ consumed \in [Emails -> Nat]
    /\ edits \in Nat /\ faults \in Nat

-----------------------------------------------------------------------------
(* Properties.                                                             *)

\* The steps that commit an AddTraffic transaction.
Commits == \/ job.pc = "bill" /\ job'.pc \in {"restart", "flag"}
           \/ restart.pc = "idle" /\ restart'.pc = "read"

\* When AddTraffic commits, no client and no inbound is left enabled past its
\* traffic limit or its expiry: renewing, which enables clients, never
\* outlives the checks that disable them.
EnforcedAtCommit ==
    [][Commits => /\ DepletedIn(stats', now) = {}
                  /\ \A i \in Keys(inbounds') :
                        inbounds'[i].enable => ~Depleted(inbounds'[i], now)]_vars

\* Traffic is billed at most once: what is on a client's bill, with what is
\* still on its way to it, never exceeds what the client used.  Retries,
\* restarts, crashes and rows saved from stale reads only ever lose traffic.
Outstanding(e) == job.traffic.user[e] + counter.user[e]

NoDoubleBilling ==
    \A e \in Emails :
        stats[e] # None => stats[e].allTime + Outstanding(e) <= consumed[e]

\* The inductive form of NoDoubleBilling: the rows that a reset under way has
\* read, and will write back, count as well.
RowsOf(e) ==
    ({stats[e]} \ {None})
    \cup {op[a].row : a \in {b \in Admins : op[b].kind = "ResetClient" /\ op[b].email = e}}

BillingBounded ==
    \A e \in Emails :
        /\ Outstanding(e) <= consumed[e]
        /\ \A r \in RowsOf(e) : r.allTime + Outstanding(e) <= consumed[e]

\* A client that used up its limit or its time is cut off, whatever restarts,
\* handlers and crashes happen meanwhile (restartXrayOnClientDisable on).
OverLimit(e) == stats[e] # None /\ Depleted(stats[e], now)
CutOff == \A e \in Emails : (OverLimit(e) /\ e \in Serving) ~> (~OverLimit(e) \/ e \notin Serving)

\* Xray that died comes back unless an administrator stopped it.
ComesBack == (proc.state \in {"down", "failed"} /\ ~manual) ~> (Running \/ manual)

\* Nothing is in flight.
AllIdle == restart.pc = "idle" /\ waiting = {} /\ job.pc = "idle" /\ \A a \in Admins : op[a] = NoOp

\* When nothing is in flight and no restart is due, Xray serves exactly the
\* users that the configuration generated from the database would serve.
InStep ==
    (AllIdle /\ proc.state = "up" /\ ~needRestart) => proc.live = GetXrayConfig(inbounds, stats)

\* RestartXray(false) leaves Xray alone only when Xray serves what the
\* database says: a restart that was asked for is not lost.
SkipsInStep ==
    [][restart.pc = "read" /\ restart'.pc = "done"
         => proc.live = GetXrayConfig(inbounds, stats)]_vars

Fairness ==
    /\ WF_vars(BootRestart) /\ WF_vars(RestartCheck) /\ WF_vars(CheckXrayRunning)
    /\ WF_vars(CronRestart) /\ WF_vars(Panics)
    /\ WF_vars(RestartSteps) /\ WF_vars(JobSteps) /\ WF_vars(XrayAnswers)
    /\ \A a \in Admins : WF_vars(HandlerSteps(a))

FairSpec == Spec /\ Fairness

-----------------------------------------------------------------------------
(* The panel when nothing overlaps: from one state to the next at most one *)
(* of a request, the traffic job, and a restart until Xray answers.  A     *)
(* start that failed is not answered before the panel has tried again.     *)

RestartUnderWay ==
    \/ restart.pc # "idle" /\ restart.by # "job"
    \/ waiting # {}
    \/ proc.state \in {"none", "booting", "failed"} /\ job.pc = "idle"

OneAtATime ==
    /\ ~(RestartUnderWay /\ job.pc # "idle")
    /\ \A a \in Admins : op[a] # NoOp =>
          /\ ~RestartUnderWay /\ job.pc = "idle"
          /\ \A b \in Admins \ {a} : op[b] = NoOp

SerialSpec == Init /\ [][Next /\ OneAtATime']_vars

\* What keeps Xray in step as long as nothing overlaps: its API refuses
\* nothing, the API can alter the users of every inbound, nobody is renewed,
\* and no inbound is created with clients (whose enable flags AddInbound does
\* not look at).
Steady ==
    /\ ~ApiErrors
    /\ \A i \in Inbounds : Kind[i] = "user"
    /\ "AddInbound" \notin Workload
    /\ \A c \in Entries : c.reset = 0
    /\ \A i \in Keys(FirstInbounds) : \A e \in Keys(FirstInbounds[i].clients) :
          FirstInbounds[i].clients[e].reset = 0
=============================================================================
