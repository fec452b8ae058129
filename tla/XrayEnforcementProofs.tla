----------------------- MODULE XrayEnforcementProofs ------------------------
(***************************************************************************)
(* What holds of XrayEnforcement for every value of its constants.         *)
(***************************************************************************)
EXTENDS XrayEnforcement, TLAPS

StatsType    == [Emails -> Row \cup {None}]
InboundsType == [Inbounds -> InboundRow \cup {None}]
Tables       == [stats: StatsType, inbounds: InboundsType]

-----------------------------------------------------------------------------
(* The operators of ClientTraffics keep their types.                       *)

\* The loop of autoRenewClients ends on a whole number of days.
LEMMA NextExpiryType ==
    ASSUME NEW x \in Int, NEW s \in Nat, s > 0, NEW t \in Nat
    PROVE  NextExpiry(x, s, t) \in Int
  <1>1. (t - x + s - 1) \div s \in Int
    OBVIOUS
  <1> QED BY <1>1 DEF NextExpiry

\* Creating and editing a row yields a row.
LEMMA NewRowType ==
    ASSUME NEW c \in Entry PROVE NewRow(c) \in Row
  BY DEF Row, Entry, NewRow

LEMMA UpdatedRowType ==
    ASSUME NEW r \in Row, NEW c \in Entry PROVE UpdatedRow(r, c) \in Row
  BY DEF Row, Entry, UpdatedRow

LEMMA ResetRowType ==
    ASSUME NEW r \in Row PROVE ResetRow(r) \in Row
  BY DEF Row, ResetRow

\* Billing, starting the clock of and renewing a row yields a row.
LEMMA BilledType ==
    ASSUME NEW r \in Row, NEW d \in Nat PROVE Billed(r, d) \in Row
  <1>1. r.used + d \in Nat /\ r.allTime + d \in Nat
    BY DEF Row
  <1> QED BY <1>1 DEF Row, Billed

LEMMA ExpiryType ==
    ASSUME NEW r \in Row, NEW x \in Int PROVE [r EXCEPT !.expiry = x] \in Row
  BY DEF Row

LEMMA RenewedRowType ==
    ASSUME NEW r \in Row, NEW t \in Nat, Renewable(r, t) PROVE RenewedRow(r, t) \in Row
  <1>1. NextExpiry(r.expiry, r.reset, t) \in Int
    BY NextExpiryType DEF Row, Renewable
  <1> QED BY <1>1 DEF Row, RenewedRow

\* WithEntries replaces entries by entries.
LEMMA WithEntriesType ==
    ASSUME NEW ib \in InboundsType, NEW E, NEW entry \in [E -> Entry]
    PROVE  WithEntries(ib, E, entry) \in InboundsType
  <1> SUFFICES ASSUME NEW i \in Inbounds, ib[i] # None
               PROVE  [ib[i] EXCEPT !.clients =
                          [e \in Emails |-> IF e \in E /\ @[e] # None THEN entry[e] ELSE @[e]]]
                        \in InboundRow
    BY DEF WithEntries, InboundsType
  <1>1. ib[i] \in InboundRow
    BY DEF InboundsType
  <1>2. [e \in Emails |-> IF e \in E /\ ib[i].clients[e] # None THEN entry[e] ELSE ib[i].clients[e]]
          \in [Emails -> Entry \cup {None}]
    BY <1>1 DEF InboundRow
  <1> QED BY <1>1, <1>2 DEF InboundRow

-----------------------------------------------------------------------------
(* The steps of AddTraffic keep the tables well-typed.                     *)

\* Billing, with the clocks it starts, maps tables to tables.
LEMMA AfterBillingType ==
    ASSUME stats \in StatsType, inbounds \in InboundsType, now \in Nat, NEW d \in Traffic
    PROVE  AfterBilling(d) \in Tables
  <1> DEFINE E       == Starting(d)
             entry   == [e \in E |-> [inbounds[Home[e]].clients[e] EXCEPT
                                         !.expiry = Started(inbounds[Home[e]].clients[e], now)]]
             row(e)  == IF e \in E THEN [stats[e] EXCEPT !.expiry = entry[e].expiry] ELSE stats[e]
             counted == [i \in Inbounds |-> IF inbounds[i] = None THEN None
                                            ELSE [inbounds[i] EXCEPT !.used = @ + d.inbound[i]]]
  <1>1. ASSUME NEW e \in E
        PROVE  e \in Emails /\ entry[e] \in Entry
    <2>1. e \in Emails /\ InSettings(inbounds, e)
      BY DEF Starting, Keys, StatsType
    <2>2. inbounds[Home[e]].clients[e] \in Entry
      BY <2>1, ConstantsAssumption DEF ConstantsAssumption, InSettings, InboundsType, InboundRow
    <2> QED BY <2>1, <2>2 DEF Entry, Started
  <1>2. entry \in [E -> Entry]
    BY <1>1
  <1>3. counted \in InboundsType
    <2> SUFFICES ASSUME NEW i \in Inbounds, inbounds[i] # None
                 PROVE  [inbounds[i] EXCEPT !.used = @ + d.inbound[i]] \in InboundRow
      BY DEF InboundsType
    <2>1. inbounds[i] \in InboundRow /\ d.inbound[i] \in Nat
      BY DEF InboundsType, Traffic
    <2>2. inbounds[i].used + d.inbound[i] \in Nat
      BY <2>1 DEF InboundRow
    <2> QED BY <2>1, <2>2 DEF InboundRow
  <1> HIDE DEF E, entry, row
  <1>4. ASSUME NEW e \in Emails, stats[e] # None
        PROVE  Billed(row(e), d.user[e]) \in Row
    <2>1. stats[e] \in Row /\ d.user[e] \in Nat
      BY <1>4 DEF StatsType, Traffic
    <2>2. CASE e \in E
      <3>1. entry[e].expiry \in Int
        BY <1>1, <2>2 DEF Entry
      <3>2. row(e) \in Row
        BY <2>1, <2>2, <3>1, ExpiryType DEF row
      <3> QED BY <2>1, <3>2, BilledType
    <2>3. CASE e \notin E
      <3>1. row(e) \in Row
        BY <2>1, <2>3 DEF row
      <3> QED BY <2>1, <3>1, BilledType
    <2> QED BY <2>2, <2>3
  <1>5. [e \in Emails |-> IF stats[e] = None THEN None ELSE Billed(row(e), d.user[e])] \in StatsType
    BY <1>4 DEF StatsType
  <1> USE DEF E, entry, row
  <1>6. WithEntries(counted, E, entry) \in InboundsType
    BY <1>2, <1>3, WithEntriesType
  <1> QED
    BY <1>5, <1>6 DEF AfterBilling, Tables

\* Renewing maps tables to tables.
LEMMA AfterRenewalsType ==
    ASSUME NEW t \in Tables, now \in Nat
    PROVE  AfterRenewals(t) \in Tables
  <1> DEFINE E     == Renewed(t)
             entry == [e \in E |-> [t.inbounds[Home[e]].clients[e] EXCEPT
                                       !.expiry = RenewedRow(t.stats[e], now).expiry]]
  <1>1. t.stats \in StatsType /\ t.inbounds \in InboundsType
    BY DEF Tables
  <1>2. ASSUME NEW e \in E
        PROVE  /\ e \in Emails /\ entry[e] \in Entry
               /\ RenewedRow(t.stats[e], now) \in Row
    <2>1. /\ e \in Emails /\ InSettings(t.inbounds, e)
          /\ t.stats[e] \in Row /\ Renewable(t.stats[e], now)
      BY <1>1 DEF Renewed, RenewableIn, Keys, StatsType
    <2>2. t.inbounds[Home[e]].clients[e] \in Entry
      BY <1>1, <2>1, ConstantsAssumption DEF ConstantsAssumption, InSettings, InboundsType, InboundRow
    <2>3. RenewedRow(t.stats[e], now) \in Row
      BY <2>1, RenewedRowType
    <2>4. RenewedRow(t.stats[e], now).expiry \in Int
      BY <2>3 DEF Row
    <2> QED BY <2>1, <2>2, <2>3, <2>4 DEF Entry
  <1>3. WithEntries(t.inbounds, E, entry) \in InboundsType
    <2>1. entry \in [E -> Entry]
      BY <1>2
    <2> QED BY <1>1, <2>1, WithEntriesType
  <1>4. AfterRenewal(t.stats, E, now) \in StatsType
    BY <1>1, <1>2 DEF AfterRenewal, StatsType
  <1> QED BY <1>3, <1>4 DEF AfterRenewals, Tables

\* Disabling clients maps tables to tables.
LEMMA AfterDisablingType ==
    ASSUME NEW t \in Tables
    PROVE  AfterDisabling(t) \in Tables
  <1> DEFINE E     == {e \in Disabled(t) : InSettings(t.inbounds, e)}
             entry == [e \in E |-> [t.inbounds[Home[e]].clients[e] EXCEPT !.enable = FALSE]]
  <1>1. t.stats \in StatsType /\ t.inbounds \in InboundsType
    BY DEF Tables
  <1>2. ASSUME NEW e \in E
        PROVE  entry[e] \in Entry
    <2>1. e \in Emails /\ InSettings(t.inbounds, e)
      BY <1>1 DEF Disabled, DepletedIn, Keys, StatsType
    <2>2. t.inbounds[Home[e]].clients[e] \in Entry
      BY <1>1, <2>1, ConstantsAssumption DEF ConstantsAssumption, InSettings, InboundsType, InboundRow
    <2> QED BY <2>2 DEF Entry
  <1>3. WithEntries(t.inbounds, E, entry) \in InboundsType
    <2>1. entry \in [E -> Entry]
      BY <1>2
    <2> QED BY <1>1, <2>1, WithEntriesType
  <1>4. AfterDisable(t.stats, now) \in StatsType
    <2> SUFFICES ASSUME NEW e \in Emails, t.stats[e] # None
                 PROVE  [t.stats[e] EXCEPT !.enable = FALSE] \in Row
      BY <1>1 DEF AfterDisable, StatsType, DepletedIn, Keys
    <2>1. t.stats[e] \in Row
      BY <1>1 DEF StatsType
    <2> QED BY <2>1 DEF Row
  <1> QED BY <1>3, <1>4 DEF AfterDisabling, Tables

\* Disabling inbounds maps tables to tables.
LEMMA AfterClosingType ==
    ASSUME NEW t \in Tables
    PROVE  AfterClosing(t) \in Tables
  <1>1. t.stats \in StatsType /\ t.inbounds \in InboundsType
    BY DEF Tables
  <1>2. ASSUME NEW i \in Spent(t)
        PROVE  [t.inbounds[i] EXCEPT !.enable = FALSE] \in InboundRow
    <2>1. t.inbounds[i] \in InboundRow
      BY <1>1 DEF Spent, Keys, InboundsType
    <2> QED BY <2>1 DEF InboundRow
  <1>3. [i \in Inbounds |-> IF i \in Spent(t) THEN [t.inbounds[i] EXCEPT !.enable = FALSE]
                                              ELSE t.inbounds[i]] \in InboundsType
    BY <1>1, <1>2 DEF InboundsType
  <1> QED BY <1>1, <1>3 DEF AfterClosing, Tables

-----------------------------------------------------------------------------
(* What Xray serves is a configuration.                                    *)

ProcType == [state: {"none", "starting", "booting", "up", "down", "failed"}, cfg: Config, live: Config]

\* The API calls that alter users keep the shape of what Xray serves.
LEMMA UsersType ==
    ASSUME NEW live \in Config, NEW E \in SUBSET Emails, NEW F
    PROVE  AfterAddUsers(live, E, F) \in Config /\ AfterDropUsers(live, E, F) \in Config
  BY DEF AfterAddUsers, AfterDropUsers, AddUsers, DropUsers, Config

\* So do the calls that alter inbounds.
LEMMA InboundCallsType ==
    ASSUME NEW live \in Config, NEW i \in Inbounds, NEW U \in SUBSET Emails, NEW F
    PROVE  AfterAddInbound(live, i, U, F) \in Config /\ AfterDelInbound(live, i, F) \in Config
  <1>1. Delivered(i, U) \in SUBSET Emails
    BY DEF Delivered
  <1> QED BY <1>1 DEF AfterAddInbound, AfterDelInbound, Config

\* The generated configuration is one.
LEMMA GetXrayConfigType ==
    ASSUME inbounds \in InboundsType, NEW st
    PROVE  GetXrayConfig(inbounds, st) \in Config
  <1>1. ASSUME NEW i \in Keys(inbounds)
        PROVE  Served(inbounds, st, i) \in SUBSET Emails
    BY <1>1 DEF Served, Keys, InboundsType, InboundRow
  <1> QED BY <1>1 DEF GetXrayConfig, Config

LEMMA NoTrafficType == NoTraffic \in Traffic
  BY DEF NoTraffic, Traffic

LEMMA EmptyConfigType == EmptyConfig \in Config
  BY DEF EmptyConfig, Config

\* The tables of the four steps, by name.
LEMMA AddTrafficSteps ==
    ASSUME NEW d, NEW n, NEW c, AddTraffic(d, n, c)
    PROVE  LET t1 == AfterBilling(d)
               t2 == AfterRenewals(t1)
               t3 == AfterDisabling(t2)
           IN  CommitTraffic(t1, t2, t3, AfterClosing(t3), n, c)
  <1>1. PICK t1 \in {AfterBilling(d)} : \E t2 \in {AfterRenewals(t1)} :
          \E t3 \in {AfterDisabling(t2)} : \E t4 \in {AfterClosing(t3)} :
              CommitTraffic(t1, t2, t3, t4, n, c)
    BY Zenon DEF AddTraffic
  <1>2. PICK t2 \in {AfterRenewals(t1)} :
          \E t3 \in {AfterDisabling(t2)} : \E t4 \in {AfterClosing(t3)} :
              CommitTraffic(t1, t2, t3, t4, n, c)
    BY <1>1, Zenon
  <1>3. PICK t3 \in {AfterDisabling(t2)} : \E t4 \in {AfterClosing(t3)} :
              CommitTraffic(t1, t2, t3, t4, n, c)
    BY <1>2, Zenon
  <1>4. t1 = AfterBilling(d) /\ t2 = AfterRenewals(t1) /\ t3 = AfterDisabling(t2)
    BY Zenon
  <1>5. CommitTraffic(t1, t2, t3, AfterClosing(t3), n, c)
    BY <1>3, Zenon
  <1> QED BY <1>4, <1>5, Zenon

\* AddTraffic keeps the tables and the process well-typed.
LEMMA AddTrafficType ==
    ASSUME stats \in StatsType, inbounds \in InboundsType, proc \in ProcType, now \in Nat,
           NEW d \in Traffic, NEW n, NEW c, AddTraffic(d, n, c)
    PROVE  stats' \in StatsType /\ inbounds' \in InboundsType /\ proc' \in ProcType
  <1> DEFINE t1 == AfterBilling(d)
             t2 == AfterRenewals(t1)
             t3 == AfterDisabling(t2)
             t4 == AfterClosing(t3)
  <1>1. t1 \in Tables /\ t2 \in Tables /\ t3 \in Tables /\ t4 \in Tables
    BY AfterBillingType, AfterRenewalsType, AfterDisablingType, AfterClosingType
  <1>2. CommitTraffic(t1, t2, t3, t4, n, c)
    BY AddTrafficSteps, Zenon
  <1> HIDE DEF t1, t2, t3, t4
  <1>3. stats' = t4.stats /\ inbounds' = t4.inbounds
    BY <1>2 DEF CommitTraffic
  <1> DEFINE adds  == {e \in Renewed(t1) : ~t1.stats[e].enable}
             drops == Disabled(t2)
             dels  == Spent(t3)
  <1>4. PICK FA, FD, FI :
          proc' = IF NoApi THEN proc
                  ELSE [proc EXCEPT !.live = LiveInbounds(adds, FA, drops, FD, dels, FI)]
    BY <1>2, Zenon DEF CommitTraffic
  <1>5. adds \in SUBSET Emails /\ drops \in SUBSET Emails
    BY <1>1 DEF Renewed, RenewableIn, Disabled, DepletedIn, Keys, Tables, StatsType
  <1> HIDE DEF adds, drops, dels
  <1>6. LiveUsers(adds, FA, drops, FD) \in Config
    BY <1>5, UsersType DEF ProcType, LiveUsers
  <1>7. LiveInbounds(adds, FA, drops, FD, dels, FI) \in Config
    BY <1>6 DEF Config, LiveInbounds
  <1>8. proc' \in ProcType
    BY <1>4, <1>7 DEF ProcType
  <1> QED BY <1>1, <1>3, <1>8 DEF Tables

-----------------------------------------------------------------------------
(* The requests that are under way.                                        *)

\* What a handler holds while it serves a request.
LEMMA OpCases ==
    ASSUME op \in [Admins -> OpType], NEW a \in Admins
    PROVE  /\ op[a].kind = "AddClient" =>
                op[a] \in [kind: {"AddClient"}, id: Inbounds, email: Emails, entry: Entry,
                           row: InboundRow]
           /\ op[a].kind = "UpdateClient" =>
                op[a] \in [kind: {"UpdateClient"}, id: Inbounds, email: Emails, entry: Entry,
                           old: Entry, row: InboundRow]
           /\ op[a].kind = "DelClient" =>
                op[a] \in [kind: {"DelClient"}, id: Inbounds, email: Emails, api: BOOLEAN,
                           row: InboundRow]
           /\ op[a].kind = "SaveDelClient" =>
                op[a] \in [kind: {"SaveDelClient"}, id: Inbounds, row: InboundRow, need: BOOLEAN]
           /\ op[a].kind = "ResetClient" =>
                op[a] \in [kind: {"ResetClient"}, email: Emails, row: Row]
           /\ op[a].kind = "DelInbound" =>
                op[a] \in [kind: {"DelInbound"}, id: Inbounds, need: BOOLEAN]
           /\ op[a].kind \in {"SetInboundEnable", "SyncInbound"} =>
                op[a] \in [kind: {"SetInboundEnable", "SyncInbound"}, id: Inbounds,
                           enable: BOOLEAN, row: InboundRow]
           /\ op[a].kind = "UpdateInbound" =>
                op[a] \in [kind: {"UpdateInbound"}, id: Inbounds, row: InboundRow]
  <1>1. op[a] \in OpType
    OBVIOUS
  <1> QED BY <1>1 DEF OpType, NoOp

\* The last step of a request, and a step that only begins one.
LEMMA DoneType ==
    ASSUME TypeOK, NEW a \in Admins, NEW need, Done(a, need),
           stats' \in StatsType, inbounds' \in InboundsType, proc' \in ProcType
    PROVE  TypeOK'
  <1>1. NoOp \in OpType
    BY DEF OpType
  <1> QED BY <1>1 DEF Done, TypeOK, bounds, StatsType, InboundsType, ProcType

LEMMA FailsType ==
    ASSUME TypeOK, NEW a \in Admins, Fails(a)
    PROVE  TypeOK'
  BY DoneType DEF Fails, db, TypeOK, StatsType, InboundsType, ProcType

LEMMA ReadsType ==
    ASSUME TypeOK, NEW a \in Admins, NEW k, Accept(a, k), NEW request \in OpType, Reads(a, request)
    PROVE  TypeOK'
  BY DEF Accept, Reads, db, runtime, flags, TypeOK

\* RestartXray begins.
LEMMA EnterRestartType ==
    ASSUME TypeOK, NEW by \in Callers, NEW force \in BOOLEAN, EnterRestart(by, force)
    PROVE  /\ stats' \in StatsType /\ inbounds' \in InboundsType /\ proc' \in ProcType
           /\ restart' \in [pc: {"idle", "read", "swap", "start", "done", "failed"}, by: Callers,
                            force: BOOLEAN, cfg: Config]
           /\ manual' \in BOOLEAN
  <1>1. PICK n \in BOOLEAN, c \in BOOLEAN : AddTraffic(NoTraffic, n, c)
    BY Zenon DEF EnterRestart
  <1>2. stats' \in StatsType /\ inbounds' \in InboundsType /\ proc' \in ProcType
    BY <1>1, AddTrafficType, NoTrafficType DEF TypeOK, StatsType, InboundsType, ProcType
  <1> QED BY <1>2, EmptyConfigType DEF EnterRestart

LEMMA PanicTrafficType ==
    ASSUME TypeOK, NEW d \in Traffic, PanicTraffic(d)
    PROVE  stats' \in StatsType /\ inbounds' \in InboundsType
  <1> DEFINE t2 == AfterRenewals(AfterBilling(d))
             t3 == AfterDisabling(t2)
  <1>1. t2 \in Tables /\ t3 \in Tables
    BY AfterBillingType, AfterRenewalsType, AfterDisablingType DEF TypeOK, StatsType, InboundsType
  <1> HIDE DEF t3
  <1>2. PICK kept \in {t2, t3} : stats' = kept.stats /\ inbounds' = kept.inbounds
    BY Zenon DEF PanicTraffic, t3
  <1> QED BY <1>1, <1>2 DEF Tables

LEMMA LoseMemoryType ==
    ASSUME TypeOK, LoseMemory, UNCHANGED <<now, consumed, edits>>, faults' \in Nat,
           stats' \in StatsType, inbounds' \in InboundsType
    PROVE  TypeOK'
  <1>1. proc' \in ProcType /\ counter' \in Traffic
    BY NoTrafficType, EmptyConfigType DEF LoseMemory, ProcType
  <1>2. restart' = Idle /\ Idle \in [pc: {"idle", "read", "swap", "start", "done", "failed"},
                                     by: Callers, force: BOOLEAN, cfg: Config]
    BY EmptyConfigType DEF LoseMemory, Idle, Callers
  <1>3. job' = NoJob /\ NoJob \in [pc: {"idle", "bill", "restart", "wait", "flag"},
                                   need: BOOLEAN, traffic: Traffic]
    BY NoTrafficType DEF LoseMemory, NoJob
  <1>4. op' \in [Admins -> OpType]
    BY DEF LoseMemory, OpType, NoOp
  <1>5. /\ now' \in Nat /\ consumed' \in [Emails -> Nat] /\ edits' \in Nat
        /\ needRestart' \in BOOLEAN /\ manual' \in BOOLEAN
    BY Zenon DEF LoseMemory, TypeOK
  <1>6. checkTime' \in 0..1 /\ waiting' \subseteq {"cron", "crash"} /\ faults' \in Nat
    BY DEF LoseMemory, TypeOK
  <1> QED BY <1>1, <1>2, <1>3, <1>4, <1>5, <1>6, Zenon DEF TypeOK, StatsType, InboundsType, ProcType

-----------------------------------------------------------------------------
(* The restart path and the jobs keep the type invariant.                  *)

LEMMA RestartSystemType ==
    ASSUME TypeOK,
           \/ BootRestart \/ RestartCheck \/ CheckXrayRunning \/ CronRestart \/ RestartSteps
           \/ RestartFails \/ RestartXrayService \/ RestartServicePanics \/ StopXrayService
    PROVE  TypeOK'
  <1> USE DEF TypeOK, db, runtime, flags, bounds
  <1>1. CASE BootRestart
    BY <1>1, EnterRestartType DEF BootRestart, Callers, StatsType, InboundsType, ProcType
  <1>2. CASE RestartCheck
    <2>1. waiting' \subseteq {"cron", "crash"} /\ needRestart' \in BOOLEAN
      BY <1>2 DEF RestartCheck
    <2> QED BY <1>2, <2>1, SMTT(30) DEF RestartCheck
  <1>3. CASE CheckXrayRunning
    <2>1. checkTime' \in 0..1
      BY <1>3 DEF CheckXrayRunning, NextCheck
    <2>2. waiting' \subseteq {"cron", "crash"}
      BY <1>3 DEF CheckXrayRunning
    <2> QED BY <1>3, <2>1, <2>2 DEF CheckXrayRunning
  <1>11. CASE CronRestart
    <2>1. PICK by \in waiting : waiting' = waiting \ {by} /\ EnterRestart(by, FALSE)
      BY <1>11 DEF CronRestart
    <2>2. by \in Callers /\ waiting' \subseteq {"cron", "crash"}
      BY <2>1 DEF Callers
    <2> HIDE DEF TypeOK
    <2>3. /\ stats' \in StatsType /\ inbounds' \in InboundsType /\ proc' \in ProcType
          /\ restart' \in [pc: {"idle", "read", "swap", "start", "done", "failed"}, by: Callers,
                           force: BOOLEAN, cfg: Config]
          /\ manual' \in BOOLEAN
      BY <2>1, <2>2, EnterRestartType
    <2> QED BY <1>11, <2>2, <2>3 DEF CronRestart, TypeOK, StatsType, InboundsType, ProcType
  <1>4. CASE RestartRead
    <2>1. GetXrayConfig(inbounds, stats) \in Config
      BY GetXrayConfigType DEF InboundsType
    <2> QED BY <1>4, <2>1 DEF RestartRead
  <1>5. CASE RestartSwap
    BY <1>5, NoTrafficType DEF RestartSwap
  <1>6. CASE RestartStarted
    BY <1>6 DEF RestartStarted
  <1>7. CASE LeaveRestart
    <2>1. Idle \in [pc: {"idle", "read", "swap", "start", "done", "failed"}, by: Callers,
                    force: BOOLEAN, cfg: Config]
      BY EmptyConfigType DEF Idle, Callers
    <2> QED BY <1>7, <2>1 DEF LeaveRestart
  <1>8. CASE RestartFails
    BY <1>8 DEF RestartFails
  <1>9. CASE RestartXrayService
    <2>1. EnterRestart("http", TRUE) /\ "http" \in Callers
      BY <1>9 DEF RestartXrayService, Callers
    <2>2. edits' \in Nat
      BY <1>9 DEF RestartXrayService
    <2> QED BY <1>9, <2>1, <2>2, EnterRestartType
            DEF RestartXrayService, StatsType, InboundsType, ProcType
  <1>10. CASE StopXrayService
    BY <1>10, NoTrafficType DEF StopXrayService
  <1>12. CASE RestartServicePanics
    <2>1. stats' \in StatsType /\ inbounds' \in InboundsType
      BY <1>12, NoTrafficType, PanicTrafficType DEF RestartServicePanics
    <2>2. edits' = edits + 1 /\ manual' = FALSE
      BY <1>12, Zenon DEF RestartServicePanics
    <2>3. edits' \in Nat
      BY <2>2
    <2>4. manual' \in BOOLEAN
      BY <2>2, Zenon
    <2>5. /\ now' = now /\ proc' = proc /\ counter' = counter /\ needRestart' = needRestart
          /\ restart' = restart /\ job' = job /\ checkTime' = checkTime /\ waiting' = waiting
          /\ op' = op /\ consumed' = consumed /\ faults' = faults
      BY <1>12 DEF RestartServicePanics
    <2> QED BY <2>1, <2>3, <2>4, <2>5 DEF StatsType, InboundsType
  <1> QED BY <1>1, <1>2, <1>3, <1>4, <1>5, <1>6, <1>7, <1>8, <1>9, <1>10, <1>11, <1>12
          DEF RestartSteps

LEMMA JobType ==
    ASSUME TypeOK, JobSteps \/ Panics
    PROVE  TypeOK'
  <1> USE DEF TypeOK, db, runtime, flags, bounds
  <1>1. CASE JobFetch
    <2>1. AfterQuery \in Traffic
      BY NoTrafficType DEF AfterQuery, Traffic
    <2>2. counter' \in Traffic
      BY <1>1, <2>1 DEF JobFetch
    <2>3. job' \in [pc: {"idle", "bill", "restart", "wait", "flag"}, need: BOOLEAN, traffic: Traffic]
      <3>1. CASE job' = job
        BY <3>1
      <3>2. CASE job' = [pc |-> "bill", need |-> FALSE, traffic |-> counter]
        BY <3>2
      <3> QED BY <1>1, <3>1, <3>2, Zenon DEF JobFetch
    <2> QED BY <1>1, <2>2, <2>3 DEF JobFetch
  <1>2. CASE JobBill
    <2>1. PICK n \in BOOLEAN, c \in BOOLEAN :
            /\ AddTraffic(job.traffic, n, c)
            /\ job' = [pc |-> IF c /\ RestartOnDisable THEN "restart" ELSE "flag",
                       need |-> n, traffic |-> NoTraffic]
      BY <1>2, Zenon DEF JobBill
    <2>2. stats' \in StatsType /\ inbounds' \in InboundsType /\ proc' \in ProcType
      BY <2>1, AddTrafficType DEF StatsType, InboundsType, ProcType
    <2>3. job' \in [pc: {"idle", "bill", "restart", "wait", "flag"}, need: BOOLEAN, traffic: Traffic]
      BY <2>1, NoTrafficType
    <2> QED BY <1>2, <2>2, <2>3 DEF JobBill, StatsType, InboundsType, ProcType
  <1>3. CASE JobRestart
    BY <1>3, EnterRestartType DEF JobRestart, Callers, StatsType, InboundsType, ProcType
  <1>4. CASE JobFlag
    BY <1>4, NoTrafficType DEF JobFlag, NoJob
  <1>5. CASE JobPanics
    <2>1. stats' \in StatsType /\ inbounds' \in InboundsType
      BY <1>5, PanicTrafficType DEF JobPanics
    <2> QED BY <1>5, <2>1, LoseMemoryType DEF JobPanics
  <1>6. CASE RestartPanics
    <2>1. stats' \in StatsType /\ inbounds' \in InboundsType
      BY <1>6, NoTrafficType, PanicTrafficType DEF RestartPanics
    <2> QED BY <1>6, <2>1, LoseMemoryType DEF RestartPanics
  <1> QED BY <1>1, <1>2, <1>3, <1>4, <1>5, <1>6 DEF JobSteps, Panics

LEMMA SurroundingsType ==
    ASSUME TypeOK,
           PanelDies \/ XrayCrashes \/ XrayAnswers \/ TimePasses \/ \E e \in Emails : ClientUses(e)
    PROVE  TypeOK'
  <1> USE DEF TypeOK, db, runtime, flags, bounds
  <1>1. CASE PanelDies
    BY <1>1, LoseMemoryType DEF PanelDies, StatsType, InboundsType
  <1>2. CASE XrayCrashes
    BY <1>2, NoTrafficType DEF XrayCrashes
  <1>3. CASE XrayAnswers
    BY <1>3 DEF XrayAnswers
  <1>4. CASE TimePasses
    BY <1>4, ConstantsAssumption DEF TimePasses, ConstantsAssumption
  <1>5. ASSUME NEW e \in Emails, ClientUses(e)
        PROVE  TypeOK'
    <2>1. Home[e] \in Inbounds
      BY ConstantsAssumption DEF ConstantsAssumption
    <2>2. counter' \in Traffic
      BY <1>5, <2>1 DEF ClientUses, Traffic
    <2>3. consumed' \in [Emails -> Nat]
      BY <1>5 DEF ClientUses
    <2> QED BY <1>5, <2>2, <2>3 DEF ClientUses
  <1> QED BY <1>1, <1>2, <1>3, <1>4, <1>5

-----------------------------------------------------------------------------
(* The requests about clients keep the type invariant.                     *)

\* An inbound with one client entry replaced.
LEMMA EntryPutType ==
    ASSUME NEW r \in InboundRow, NEW e \in Emails, NEW c \in Entry \cup {None}
    PROVE  [r EXCEPT !.clients[e] = c] \in InboundRow
  <1>1. [r.clients EXCEPT ![e] = c] \in [Emails -> Entry \cup {None}]
    BY DEF InboundRow
  <1> QED BY <1>1 DEF InboundRow

\* What the guards of the client requests give: the inbound and the entry.
LEMMA HomeType ==
    ASSUME inbounds \in InboundsType, NEW e \in Emails
    PROVE  /\ Home[e] \in Inbounds
           /\ inbounds[Home[e]] # None => inbounds[Home[e]] \in InboundRow
           /\ InSettings(inbounds, e) => inbounds[Home[e]].clients[e] \in Entry
  BY ConstantsAssumption DEF ConstantsAssumption, InboundsType, InboundRow, InSettings

LEMMA SaveInboundType ==
    ASSUME inbounds \in InboundsType, NEW i \in Inbounds, NEW row \in InboundRow,
           SaveInbound(row, i)
    PROVE  inbounds' \in InboundsType
  BY DEF SaveInbound, InboundsType

LEMMA SetLiveType ==
    ASSUME proc \in ProcType, NEW live \in Config, SetLive(live)
    PROVE  proc' \in ProcType
  BY DEF SetLive, ProcType

LEMMA AddClientType ==
    ASSUME TypeOK, NEW a \in Admins,
           \/ \E e \in Emails, c \in Entries : BeginAddClient(a, e, c)
           \/ FinishAddClient(a)
    PROVE  TypeOK'
  <1>1. stats \in StatsType /\ inbounds \in InboundsType /\ proc \in ProcType
    BY DEF TypeOK, StatsType, InboundsType, ProcType
  <1>2. ASSUME NEW e \in Emails, NEW c \in Entries, BeginAddClient(a, e, c)
        PROVE  TypeOK'
    <2>1. c \in Entry
      BY ConstantsAssumption DEF ConstantsAssumption
    <2>2. [inbounds[Home[e]] EXCEPT !.clients[e] = c] \in InboundRow
      BY <1>1, <1>2, <2>1, HomeType, EntryPutType DEF BeginAddClient
    <2>3. [kind |-> "AddClient", id |-> Home[e], email |-> e, entry |-> c,
           row |-> [inbounds[Home[e]] EXCEPT !.clients[e] = c]] \in OpType
      BY <1>1, <2>1, <2>2, HomeType DEF OpType
    <2> QED BY <1>2, <2>3, ReadsType DEF BeginAddClient
  <1>3. ASSUME FinishAddClient(a)
        PROVE  TypeOK'
    <2> DEFINE o == op[a]
               E == IF o.entry.enable /\ Kind[o.id] = "user" THEN {o.email} ELSE {}
    <2>1. o \in [kind: {"AddClient"}, id: Inbounds, email: Emails, entry: Entry, row: InboundRow]
      BY <1>3, OpCases DEF FinishAddClient, TypeOK
    <2>2. /\ o.id \in Inbounds /\ o.email \in Emails /\ o.entry \in Entry /\ o.row \in InboundRow
          /\ E \in SUBSET Emails
      BY <2>1
    <2> HIDE DEF o, E
    <2>3. stats' = stats \/ stats' = WithStat(o.email, o.entry)
      BY <1>3, Zenon DEF FinishAddClient, o
    <2>4. stats' \in StatsType
      <3>1. WithStat(o.email, o.entry) \in StatsType
        BY <1>1, <2>2, NewRowType DEF WithStat, StatsType
      <3> QED BY <1>1, <2>3, <3>1
    <2>5. CASE SaveInbound(o.row, o.id) /\
               \E F \in Failing(E) : /\ SetLive(AfterAddUsers(proc.live, E, F))
                                     /\ \E need : Done(a, need)
      <3>1. inbounds' \in InboundsType
        BY <1>1, <2>2, <2>5, SaveInboundType
      <3>2. proc' \in ProcType
        BY <1>1, <2>2, <2>5, UsersType, SetLiveType DEF ProcType
      <3> QED BY <2>4, <2>5, <3>1, <3>2, DoneType
    <2>6. CASE Done(a, FALSE) /\ UNCHANGED <<inbounds, proc>>
      BY <1>1, <2>4, <2>6, DoneType
    <2> QED BY <1>3, <2>5, <2>6, Zenon DEF FinishAddClient, o, E
  <1> QED BY <1>2, <1>3

LEMMA UpdateClientType ==
    ASSUME TypeOK, NEW a \in Admins,
           \/ \E e \in Emails, c \in Entries : BeginUpdateClient(a, e, c)
           \/ FinishUpdateClient(a)
    PROVE  TypeOK'
  <1>1. stats \in StatsType /\ inbounds \in InboundsType /\ proc \in ProcType
    BY DEF TypeOK, StatsType, InboundsType, ProcType
  <1>2. ASSUME NEW e \in Emails, NEW c \in Entries, BeginUpdateClient(a, e, c)
        PROVE  TypeOK'
    <2>1. c \in Entry /\ inbounds[Home[e]].clients[e] \in Entry /\ inbounds[Home[e]] \in InboundRow
      BY <1>1, <1>2, ConstantsAssumption, HomeType
         DEF ConstantsAssumption, BeginUpdateClient, InSettings
    <2>2. [inbounds[Home[e]] EXCEPT !.clients[e] = c] \in InboundRow
      BY <2>1, EntryPutType
    <2>3. [kind |-> "UpdateClient", id |-> Home[e], email |-> e, entry |-> c,
           old |-> inbounds[Home[e]].clients[e],
           row |-> [inbounds[Home[e]] EXCEPT !.clients[e] = c]] \in OpType
      BY <1>1, <2>1, <2>2, HomeType DEF OpType
    <2> QED BY <1>2, <2>3, ReadsType DEF BeginUpdateClient
  <1>3. ASSUME FinishUpdateClient(a)
        PROVE  TypeOK'
    <2> DEFINE o    == op[a]
               call == Kind[o.id] = "user"
               D    == IF call /\ o.old.enable THEN {o.email} ELSE {}
               E    == IF call /\ o.entry.enable THEN {o.email} ELSE {}
    <2>1. o \in [kind: {"UpdateClient"}, id: Inbounds, email: Emails, entry: Entry, old: Entry,
                 row: InboundRow]
      BY <1>3, OpCases DEF FinishUpdateClient, TypeOK
    <2>2. /\ o.id \in Inbounds /\ o.email \in Emails /\ o.entry \in Entry /\ o.row \in InboundRow
          /\ D \in SUBSET Emails /\ E \in SUBSET Emails
      BY <2>1
    <2> HIDE DEF o, D, E, call
    <2>3. stats' = [stats EXCEPT ![o.email] = IF @ = None THEN None ELSE UpdatedRow(@, o.entry)]
      BY <1>3 DEF FinishUpdateClient, o
    <2>4. stats' \in StatsType
      BY <1>1, <2>2, <2>3, UpdatedRowType DEF StatsType
    <2>5. CASE SaveInbound(o.row, o.id) /\
               \E FD \in Failing(D), FE \in Failing(E) :
                  /\ SetLive(AfterAddUsers(AfterDropUsers(proc.live, D, FD), E, FE))
                  /\ \E need : Done(a, need)
      <3>1. inbounds' \in InboundsType
        BY <1>1, <2>2, <2>5, SaveInboundType
      <3>2. PICK FD, FE : SetLive(AfterAddUsers(AfterDropUsers(proc.live, D, FD), E, FE))
        BY <2>5, Zenon
      <3>3. proc' \in ProcType
        BY <1>1, <2>2, <3>2, UsersType, SetLiveType DEF ProcType
      <3> QED BY <2>4, <2>5, <3>1, <3>3, DoneType
    <2>6. CASE Done(a, FALSE) /\ UNCHANGED <<inbounds, proc>>
      BY <1>1, <2>4, <2>6, DoneType
    <2> QED BY <1>3, <2>5, <2>6, Zenon DEF FinishUpdateClient, o, D, E, call
  <1> QED BY <1>2, <1>3

LEMMA DelClientType ==
    ASSUME TypeOK, NEW a \in Admins,
           \/ \E e \in Emails : BeginDelClient(a, e)
           \/ DelClientStat(a) \/ SaveDelClient(a)
    PROVE  TypeOK'
  <1>1. stats \in StatsType /\ inbounds \in InboundsType /\ proc \in ProcType
    BY DEF TypeOK, StatsType, InboundsType, ProcType
  <1>2. ASSUME NEW e \in Emails, BeginDelClient(a, e)
        PROVE  TypeOK'
    <2>1. inbounds[Home[e]].clients[e] \in Entry /\ inbounds[Home[e]] \in InboundRow
      BY <1>1, <1>2, HomeType DEF BeginDelClient, InSettings
    <2>2. [inbounds[Home[e]] EXCEPT !.clients[e] = None] \in InboundRow
      BY <2>1, EntryPutType
    <2>3. inbounds[Home[e]].clients[e].enable \in BOOLEAN
      BY <2>1 DEF Entry
    <2>4. [kind |-> "DelClient", id |-> Home[e], email |-> e,
           api |-> inbounds[Home[e]].clients[e].enable,
           row |-> [inbounds[Home[e]] EXCEPT !.clients[e] = None]] \in OpType
      BY <1>1, <2>2, <2>3, HomeType DEF OpType
    <2> QED BY <1>2, <2>4, ReadsType DEF BeginDelClient
  <1>3. ASSUME DelClientStat(a)
        PROVE  TypeOK'
    <2> DEFINE o    == op[a]
               gone == o.api /\ stats[o.email].enable
               E    == IF gone /\ Kind[o.id] = "user" THEN {o.email} ELSE {}
               next(F) == [kind |-> "SaveDelClient", id |-> o.id, row |-> o.row,
                           need |-> \/ gone /\ Kind[o.id] = "account"
                                    \/ DropUserError(proc.live, E, F)]
    <2>1. o \in [kind: {"DelClient"}, id: Inbounds, email: Emails, api: BOOLEAN, row: InboundRow]
      BY <1>3, OpCases DEF DelClientStat, TypeOK
    <2>2. /\ o.id \in Inbounds /\ o.email \in Emails /\ o.row \in InboundRow
          /\ E \in SUBSET Emails
      BY <2>1
    <2>3. ASSUME NEW F PROVE next(F) \in OpType
      BY <2>2 DEF OpType
    <2> HIDE DEF o, E, next, gone
    <2>4. CASE Fails(a)
      BY <2>4, FailsType
    <2>5. CASE stats' = [stats EXCEPT ![o.email] = None] /\ Done(a, FALSE) /\ UNCHANGED <<inbounds, proc>>
      <3>1. stats' \in StatsType
        BY <1>1, <2>5 DEF StatsType
      <3> QED BY <1>1, <2>5, <3>1, DoneType
    <2>6. CASE /\ stats' = [stats EXCEPT ![o.email] = None]
               /\ \E F : /\ SetLive(AfterDropUsers(proc.live, E, F))
                         /\ op' = [op EXCEPT ![a] = next(F)]
               /\ UNCHANGED <<now, inbounds, counter, flags, restart, job, checkTime, waiting,
                              consumed, bounds>>
      <3>1. stats' \in StatsType
        BY <1>1, <2>6 DEF StatsType
      <3>2. PICK F : /\ SetLive(AfterDropUsers(proc.live, E, F))
                     /\ op' = [op EXCEPT ![a] = next(F)]
        BY <2>6
      <3>3. proc' \in ProcType
        BY <1>1, <2>2, <3>2, UsersType, SetLiveType DEF ProcType
      <3>4. op' \in [Admins -> OpType]
        BY <2>3, <3>2 DEF TypeOK
      <3> QED BY <2>6, <3>1, <3>3, <3>4 DEF TypeOK, flags, bounds, StatsType, ProcType
    <2> QED BY <1>3, <2>4, <2>5, <2>6, Zenon DEF DelClientStat, o, E, next, gone
  <1>4. ASSUME SaveDelClient(a)
        PROVE  TypeOK'
    <2>1. op[a] \in [kind: {"SaveDelClient"}, id: Inbounds, row: InboundRow, need: BOOLEAN]
      BY <1>4, OpCases DEF SaveDelClient, TypeOK
    <2>2. inbounds' \in InboundsType
      BY <1>1, <1>4, <2>1, SaveInboundType DEF SaveDelClient
    <2> QED BY <1>1, <1>4, <2>2, DoneType DEF SaveDelClient
  <1> QED BY <1>2, <1>3, <1>4

LEMMA ResetType ==
    ASSUME TypeOK, NEW a \in Admins,
           \/ \E e \in Emails : BeginResetClient(a, e) \/ ResetClientTrafficByEmail(a, e)
           \/ FinishResetClient(a)
           \/ \E i \in Inbounds : ResetAllClientTraffics(a, i) \/ PeriodicTrafficReset(a, i)
           \/ ResetAllTraffics(a)
    PROVE  TypeOK'
  <1>1. stats \in StatsType /\ inbounds \in InboundsType /\ proc \in ProcType
    BY DEF TypeOK, StatsType, InboundsType, ProcType
  <1>2. ASSUME NEW e \in Emails, BeginResetClient(a, e)
        PROVE  TypeOK'
    <2>1. stats[e] \in Row
      BY <1>1, <1>2 DEF BeginResetClient, StatsType
    <2>2. [kind |-> "ResetClient", email |-> e, row |-> stats[e]] \in OpType
      BY <2>1 DEF OpType
    <2> QED BY <1>2, <2>2, ReadsType DEF BeginResetClient
  <1>3. ASSUME NEW e \in Emails, ResetClientTrafficByEmail(a, e)
        PROVE  TypeOK'
    <2>1. stats' \in StatsType
      BY <1>1, <1>3, ResetRowType DEF ResetClientTrafficByEmail, StatsType
    <2> QED BY <1>3, <2>1 DEF ResetClientTrafficByEmail, Accept, TypeOK, StatsType, runtime, flags
  <1>4. ASSUME FinishResetClient(a)
        PROVE  TypeOK'
    <2> DEFINE o == op[a]
               i == Home[o.email]
               E == IF /\ ~o.row.enable
                       /\ InSettings(inbounds, o.email)
                       /\ inbounds[i].clients[o.email].enable
                    THEN {o.email} ELSE {}
    <2>1. o \in [kind: {"ResetClient"}, email: Emails, row: Row]
      BY <1>4, OpCases DEF FinishResetClient, TypeOK
    <2>2. o.email \in Emails /\ o.row \in Row /\ E \in SUBSET Emails
      BY <2>1
    <2> HIDE DEF o, E, i
    <2>3. CASE Fails(a)
      BY <2>3, FailsType
    <2>4. CASE /\ stats' = [stats EXCEPT ![o.email] = ResetRow(o.row)]
               /\ \E F \in Failing(E) : /\ SetLive(AfterAddUsers(proc.live, E, F))
                                        /\ \E need : Done(a, need)
               /\ UNCHANGED inbounds
      <3>1. stats' \in StatsType
        BY <1>1, <2>2, <2>4, ResetRowType DEF StatsType
      <3>2. proc' \in ProcType
        BY <1>1, <2>2, <2>4, UsersType, SetLiveType DEF ProcType
      <3> QED BY <1>1, <2>4, <3>1, <3>2, DoneType
    <2> QED BY <1>4, <2>3, <2>4, Zenon DEF FinishResetClient, o, E, i
  <1>5. ASSUME NEW i \in Inbounds, ResetAllClientTraffics(a, i)
        PROVE  TypeOK'
    <2>1. stats' \in StatsType
      BY <1>1, <1>5, ResetRowType DEF ResetAllClientTraffics, ResetOf, StatsType
    <2> QED BY <1>5, <2>1 DEF ResetAllClientTraffics, Accept, TypeOK, StatsType, runtime
  <1>6. ASSUME NEW i \in Inbounds, PeriodicTrafficReset(a, i)
        PROVE  TypeOK'
    <2>1. stats' \in StatsType
      BY <1>1, <1>6, ResetRowType DEF PeriodicTrafficReset, ResetOf, StatsType
    <2>2. inbounds' \in InboundsType
      BY <1>1, <1>6 DEF PeriodicTrafficReset, InboundsType, InboundRow
    <2> QED BY <1>6, <2>1, <2>2
        DEF PeriodicTrafficReset, Accept, TypeOK, StatsType, InboundsType, runtime, flags
  <1>7. ASSUME ResetAllTraffics(a)
        PROVE  TypeOK'
    <2>1. inbounds' \in InboundsType
      BY <1>1, <1>7 DEF ResetAllTraffics, InboundsType, InboundRow
    <2> QED BY <1>7, <2>1 DEF ResetAllTraffics, Accept, TypeOK, InboundsType, runtime
  <1> QED BY <1>2, <1>3, <1>4, <1>5, <1>6, <1>7

-----------------------------------------------------------------------------
(* The requests about inbounds keep the type invariant.                    *)

\* The users handed to Xray are clients of the row.
LEMMA RuntimeUsersType ==
    ASSUME NEW row \in InboundRow, NEW st
    PROVE  RuntimeUsers(row, st) \in SUBSET Emails
  BY DEF RuntimeUsers, Keys, InboundRow

\* The rows of stats follow the clients of the form.
LEMMA StatsForType ==
    ASSUME stats \in StatsType, NEW i \in Inbounds, NEW row \in InboundRow
    PROVE  StatsFor(i, row.clients) \in StatsType
  <1>1. ASSUME NEW e \in Emails, row.clients[e] # None
        PROVE  NewRow(row.clients[e]) \in Row
    BY <1>1, NewRowType DEF InboundRow
  <1> QED BY <1>1 DEF StatsFor, StatsType

LEMMA AddInboundType ==
    ASSUME TypeOK, NEW a \in Admins, NEW i \in Inbounds, NEW f \in Forms,
           NEW e \in Emails, NEW c \in Entries, AddInbound(a, i, f, e, c)
    PROVE  TypeOK'
  <1>1. stats \in StatsType /\ inbounds \in InboundsType /\ proc \in ProcType
    BY DEF TypeOK, StatsType, InboundsType, ProcType
  <1>2. /\ c \in Entry
        /\ f.enable \in BOOLEAN /\ f.total \in Nat /\ f.expiry \in Int
    BY ConstantsAssumption DEF ConstantsAssumption
  <1>3. [enable |-> f.enable, used |-> 0, total |-> f.total, expiry |-> f.expiry,
         clients |-> [x \in Emails |-> IF x = e THEN c ELSE None]] \in InboundRow
    BY <1>2 DEF InboundRow
  <1>4. inbounds' \in InboundsType
    BY <1>1, <1>3 DEF AddInbound, InboundsType
  <1>5. stats' \in StatsType
    BY <1>1, <1>2, NewRowType DEF AddInbound, WithStat, StatsType
  <1>6. proc' \in ProcType /\ needRestart' \in BOOLEAN
    <2>1. CASE \E F : /\ SetLive(AfterAddInbound(proc.live, i, {e}, F))
                      /\ needRestart' = (needRestart \/ AddInboundError(proc.live, i, F))
      BY <1>1, <2>1, InboundCallsType, SetLiveType DEF ProcType
    <2>2. CASE UNCHANGED <<proc, needRestart>>
      BY <1>1, <2>2 DEF TypeOK
    <2> QED BY <2>1, <2>2, Zenon DEF AddInbound
  <1> QED BY <1>4, <1>5, <1>6
          DEF AddInbound, Accept, TypeOK, StatsType, InboundsType, ProcType

LEMMA DelInboundType ==
    ASSUME TypeOK, NEW a \in Admins,
           \/ \E i \in Inbounds : BeginDelInbound(a, i)
           \/ FinishDelInbound(a)
    PROVE  TypeOK'
  <1>1. stats \in StatsType /\ inbounds \in InboundsType /\ proc \in ProcType
    BY DEF TypeOK, StatsType, InboundsType, ProcType
  <1>2. ASSUME NEW i \in Inbounds, BeginDelInbound(a, i)
        PROVE  TypeOK'
    <2> DEFINE called  == inbounds[i].enable
               next(F) == [kind |-> "DelInbound", id |-> i,
                           need |-> called /\ (i \in F \/ proc.live[i] = None)]
    <2>1. called \in BOOLEAN
      BY <1>1, <1>2 DEF BeginDelInbound, InboundsType, InboundRow
    <2>2. ASSUME NEW F PROVE next(F) \in OpType
      BY <2>1 DEF OpType
    <2> HIDE DEF called, next
    <2>3. PICK F : /\ SetLive(IF called THEN AfterDelInbound(proc.live, i, F) ELSE proc.live)
                   /\ op' = [op EXCEPT ![a] = next(F)]
      BY <1>2, Zenon DEF BeginDelInbound, called, next
    <2>4. (IF called THEN AfterDelInbound(proc.live, i, F) ELSE proc.live) \in Config
      BY <1>1 DEF AfterDelInbound, ProcType, Config
    <2>5. proc' \in ProcType
      BY <1>1, <2>3, <2>4, SetLiveType
    <2>6. op' \in [Admins -> OpType]
      BY <2>2, <2>3 DEF TypeOK
    <2>7. stats' \in StatsType
      BY <1>1, <1>2 DEF BeginDelInbound, StatsType
    <2> QED BY <1>2, <2>5, <2>6, <2>7
            DEF BeginDelInbound, Accept, TypeOK, StatsType, ProcType, flags
  <1>3. ASSUME FinishDelInbound(a)
        PROVE  TypeOK'
    <2>1. CASE Fails(a)
      BY <2>1, FailsType
    <2>2. CASE /\ inbounds' = [inbounds EXCEPT ![op[a].id] = None]
               /\ Done(a, op[a].need)
               /\ UNCHANGED <<stats, proc>>
      <3>1. inbounds' \in InboundsType
        BY <1>1, <2>2 DEF InboundsType
      <3> QED BY <1>1, <2>2, <3>1, DoneType
    <2> QED BY <1>3, <2>1, <2>2 DEF FinishDelInbound
  <1> QED BY <1>2, <1>3

LEMMA SetInboundEnableType ==
    ASSUME TypeOK, NEW a \in Admins,
           \/ \E i \in Inbounds : BeginSetInboundEnable(a, i)
           \/ SetEnable(a) \/ SyncInbound(a)
    PROVE  TypeOK'
  <1>1. stats \in StatsType /\ inbounds \in InboundsType /\ proc \in ProcType
    BY DEF TypeOK, StatsType, InboundsType, ProcType
  <1>2. ASSUME NEW i \in Inbounds, BeginSetInboundEnable(a, i)
        PROVE  TypeOK'
    <2>1. inbounds[i] \in InboundRow
      BY <1>1, <1>2 DEF BeginSetInboundEnable, InboundsType
    <2>2. [kind |-> "SetInboundEnable", id |-> i, enable |-> ~inbounds[i].enable,
           row |-> inbounds[i]] \in OpType
      BY <2>1 DEF OpType
    <2> QED BY <1>2, <2>2, ReadsType DEF BeginSetInboundEnable
  <1>3. ASSUME SetEnable(a)
        PROVE  TypeOK'
    <2>1. op[a] \in [kind: {"SetInboundEnable", "SyncInbound"}, id: Inbounds, enable: BOOLEAN,
                     row: InboundRow]
      BY <1>3, OpCases DEF SetEnable, TypeOK
    <2>2. inbounds' \in InboundsType
      BY <1>1, <1>3, <2>1 DEF SetEnable, InboundsType, InboundRow
    <2>3. [op[a] EXCEPT !.kind = "SyncInbound"] \in OpType
      BY <2>1 DEF OpType
    <2>4. op' \in [Admins -> OpType]
      BY <1>3, <2>3 DEF SetEnable, TypeOK
    <2> QED BY <1>3, <2>2, <2>4
            DEF SetEnable, TypeOK, InboundsType, runtime, flags, bounds
  <1>4. ASSUME SyncInbound(a)
        PROVE  TypeOK'
    <2> DEFINE o        == op[a]
               users    == RuntimeUsers(o.row, stats)
               off(FD)  == AfterDelInbound(proc.live, o.id, FD)
               on(FD, FA) == AfterAddInbound(off(FD), o.id, users, FA)
    <2>1. /\ o.id \in Inbounds /\ o.enable \in BOOLEAN /\ o.row \in InboundRow
      BY <1>4, OpCases DEF SyncInbound, TypeOK
    <2>2. stats' \in StatsType /\ inbounds' \in InboundsType
      BY <1>1, <1>4 DEF SyncInbound, db
    <2>3. ASSUME NEW FD, NEW FA PROVE off(FD) \in Config /\ on(FD, FA) \in Config
      BY <1>1, <2>1, InboundCallsType, RuntimeUsersType DEF ProcType
    <2> HIDE DEF o, users, off, on
    <2>4. CASE \E FD, FA : /\ SetLive(off(FD)) \/ SetLive(on(FD, FA))
                           /\ \E need : Done(a, need)
      <3>1. PICK FD, FA : SetLive(off(FD)) \/ SetLive(on(FD, FA))
        BY <2>4, Zenon
      <3>2. proc' \in ProcType
        BY <1>1, <2>3, <3>1, SetLiveType
      <3> QED BY <2>2, <2>4, <3>2, DoneType
    <2>5. CASE Done(a, FALSE) /\ UNCHANGED proc
      BY <1>1, <2>2, <2>5, DoneType
    <2>6. \/ Done(a, FALSE) /\ UNCHANGED proc
          \/ \E FD, FA : /\ SetLive(off(FD)) \/ SetLive(on(FD, FA))
                         /\ \E need : Done(a, need)
      BY <1>4, Zenon DEF SyncInbound, o, users, off, on
    <2> QED BY <2>4, <2>5, <2>6
  <1> QED BY <1>2, <1>3, <1>4

LEMMA UpdateInboundType ==
    ASSUME TypeOK, NEW a \in Admins,
           \/ \E i \in Inbounds, f \in Forms : OpenInboundForm(a, i, f)
           \/ UpdateInbound(a)
    PROVE  TypeOK'
  <1>1. stats \in StatsType /\ inbounds \in InboundsType /\ proc \in ProcType
    BY DEF TypeOK, StatsType, InboundsType, ProcType
  <1>2. ASSUME NEW i \in Inbounds, NEW f \in Forms, OpenInboundForm(a, i, f)
        PROVE  TypeOK'
    <2>1. inbounds[i] \in InboundRow
      BY <1>1, <1>2 DEF OpenInboundForm, InboundsType
    <2>2. f.enable \in BOOLEAN /\ f.total \in Nat /\ f.expiry \in Int
      BY ConstantsAssumption DEF ConstantsAssumption
    <2>3. [inbounds[i] EXCEPT !.enable = f.enable, !.total = f.total, !.expiry = f.expiry]
            \in InboundRow
      BY <2>1, <2>2 DEF InboundRow
    <2>4. [kind |-> "UpdateInbound", id |-> i,
           row |-> [inbounds[i] EXCEPT !.enable = f.enable, !.total = f.total,
                                       !.expiry = f.expiry]] \in OpType
      BY <2>3 DEF OpType
    <2> QED BY <1>2, <2>4, ReadsType DEF OpenInboundForm
  <1>3. ASSUME UpdateInbound(a)
        PROVE  TypeOK'
    <2> DEFINE o        == op[a]
               users    == RuntimeUsers(o.row, stats')
               off(FD)  == AfterDelInbound(proc.live, o.id, FD)
               on(FD, FA) == AfterAddInbound(off(FD), o.id, users, FA)
    <2>1. o.id \in Inbounds /\ o.row \in InboundRow
      BY <1>3, OpCases DEF UpdateInbound, TypeOK
    <2>2. ASSUME NEW FD, NEW FA PROVE off(FD) \in Config /\ on(FD, FA) \in Config
      BY <1>1, <2>1, InboundCallsType, RuntimeUsersType DEF ProcType
    <2> HIDE DEF o, users, off, on
    <2>3. CASE Fails(a)
      BY <2>3, FailsType
    <2>4. CASE /\ stats' = StatsFor(o.id, o.row.clients)
               /\ SaveInbound(o.row, o.id)
               /\ \E FD, FA : SetLive(off(FD)) \/ SetLive(on(FD, FA))
               /\ \E need : Done(a, need)
      <3>1. PICK FD, FA : SetLive(off(FD)) \/ SetLive(on(FD, FA))
        BY <2>4, Zenon
      <3>2. proc' \in ProcType
        BY <1>1, <2>2, <3>1, SetLiveType
      <3>3. stats' \in StatsType /\ inbounds' \in InboundsType
        BY <1>1, <2>1, <2>4, StatsForType, SaveInboundType
      <3> QED BY <2>4, <3>2, <3>3, DoneType
    <2>5. CASE /\ stats' = StatsFor(o.id, o.row.clients)
               /\ Done(a, FALSE)
               /\ UNCHANGED <<inbounds, proc>>
      <3>1. stats' \in StatsType
        BY <1>1, <2>1, <2>5, StatsForType
      <3> QED BY <1>1, <2>5, <3>1, DoneType
    <2>6. \/ Fails(a)
          \/ /\ stats' = StatsFor(o.id, o.row.clients)
             /\ SaveInbound(o.row, o.id)
             /\ \E FD, FA : SetLive(off(FD)) \/ SetLive(on(FD, FA))
             /\ \E need : Done(a, need)
          \/ /\ stats' = StatsFor(o.id, o.row.clients)
             /\ Done(a, FALSE)
             /\ UNCHANGED <<inbounds, proc>>
      BY <1>3, Zenon DEF UpdateInbound, o, users, off, on
    <2> QED BY <2>3, <2>4, <2>5, <2>6
  <1> QED BY <1>2, <1>3

-----------------------------------------------------------------------------
(* Type correctness.                                                       *)

\* The database the panel starts with.
LEMMA InitType == Init => TypeOK
  <1> SUFFICES ASSUME Init PROVE TypeOK
    OBVIOUS
  <1>1. inbounds \in InboundsType
    BY ConstantsAssumption DEF ConstantsAssumption, Init, InboundsType
  <1>2. stats \in StatsType
    <2> SUFFICES ASSUME NEW e \in Emails, InSettings(FirstInbounds, e)
                 PROVE  NewRow(FirstInbounds[Home[e]].clients[e]) \in Row
      BY DEF Init, StatsType
    <2>1. FirstInbounds[Home[e]].clients[e] \in Entry
      BY ConstantsAssumption DEF ConstantsAssumption, InSettings, InboundRow
    <2> QED BY <2>1, NewRowType
  <1>3. proc \in ProcType /\ counter \in Traffic
    BY EmptyConfigType, NoTrafficType DEF Init, ProcType
  <1>4. restart \in [pc: {"idle", "read", "swap", "start", "done", "failed"}, by: Callers,
                     force: BOOLEAN, cfg: Config]
    BY EmptyConfigType DEF Init, Idle, Callers
  <1>5. job \in [pc: {"idle", "bill", "restart", "wait", "flag"}, need: BOOLEAN, traffic: Traffic]
    BY NoTrafficType DEF Init, NoJob
  <1>6. op \in [Admins -> OpType]
    BY DEF Init, OpType
  <1>7. needRestart \in BOOLEAN /\ manual \in BOOLEAN
    BY Zenon DEF Init
  <1>8. /\ now \in Nat /\ checkTime \in 0..1 /\ edits \in Nat /\ faults \in Nat
        /\ waiting \subseteq {"cron", "crash"} /\ consumed \in [Emails -> Nat]
    BY DEF Init
  <1> QED BY <1>1, <1>2, <1>3, <1>4, <1>5, <1>6, <1>7, <1>8, Zenon
          DEF TypeOK, StatsType, InboundsType, ProcType

\* The steps left of a request, and the beginning of one.
LEMMA HandlerType ==
    ASSUME TypeOK, NEW a \in Admins, HandlerSteps(a) \/ NewRequest(a)
    PROVE  TypeOK'
  <1>1. CASE HandlerSteps(a)
    BY <1>1, AddClientType, UpdateClientType, DelClientType, ResetType, DelInboundType,
       SetInboundEnableType, UpdateInboundType, Zenon DEF HandlerSteps
  <1>2. CASE NewRequest(a)
    BY <1>2, AddClientType, UpdateClientType, DelClientType, ResetType, AddInboundType,
       DelInboundType, SetInboundEnableType, UpdateInboundType, Zenon DEF NewRequest
  <1> QED BY <1>1, <1>2

LEMMA NextType == TypeOK /\ [Next]_vars => TypeOK'
  <1> SUFFICES ASSUME TypeOK, [Next]_vars PROVE TypeOK'
    OBVIOUS
  <1>1. CASE \/ BootRestart \/ RestartCheck \/ CheckXrayRunning \/ CronRestart \/ RestartSteps
             \/ RestartFails \/ RestartXrayService \/ RestartServicePanics \/ StopXrayService
    BY <1>1, RestartSystemType
  <1>2. CASE JobSteps \/ Panics
    BY <1>2, JobType
  <1>3. CASE \/ PanelDies \/ XrayCrashes \/ XrayAnswers \/ TimePasses
             \/ \E e \in Emails : ClientUses(e)
    BY <1>3, SurroundingsType
  <1>4. CASE \E a \in Admins : HandlerSteps(a) \/ NewRequest(a)
    BY <1>4, HandlerType
  <1>5. CASE UNCHANGED vars
    BY <1>5 DEF vars, TypeOK
  <1> QED BY <1>1, <1>2, <1>3, <1>4, <1>5, Zenon DEF Next, Environment

\* Every variable keeps its type whatever the panel, its administrators, Xray
\* and the crashes do: in particular the tables hold complete rows, and what
\* Xray serves is a set of e-mails per inbound.
THEOREM TypeCorrect == Spec => []TypeOK
  BY InitType, NextType, PTL DEF Spec
=============================================================================
