-------------------------- MODULE XrayTrafficProofs --------------------------
(***************************************************************************)
(* What the transactions of AddTraffic, the requests and the restarts do   *)
(* to the accounts and to Xray, for every value of the constants of        *)
(* XrayEnforcement: traffic is billed at most once (NoDoubleBilling), no   *)
(* transaction leaves a client or an inbound enabled past its limit        *)
(* (EnforcedAtCommit), and, while nothing overlaps, Xray serves what the   *)
(* database says (InStep, SkipsInStep).                                    *)
(*                                                                         *)
(* The invariant of billing is BillingBounded.  A step either keeps every  *)
(* row's allTime and everything that is still to be billed, or writes a    *)
(* row that somebody read before, or moves traffic from Xray's counters to *)
(* the job and from the job to the bill.                                   *)
(*                                                                         *)
(* The invariant of what Xray serves is Following: the two tables agree    *)
(* (Fit), a request under way still describes what they hold (Request) and *)
(* what Xray serves meanwhile (Follows), and so does a restart             *)
(* (RestartFits).                                                          *)
(***************************************************************************)
EXTENDS XrayEnforcementProofs

\* No handler holds a row of stats that was never there.
OpsKept ==
    \A a \in Admins : op'[a].kind = "ResetClient" =>
        op'[a] = op[a] \/ op'[a].row = stats[op'[a].email]

\* A row that is written carries no traffic, or the traffic of a known row.
StatsKept ==
    \A e \in Emails : \/ stats'[e] = None
                      \/ stats'[e].allTime = 0
                      \/ \E q \in RowsOf(e) : stats'[e].allTime = q.allTime

\* Nothing is added to what is still to be billed.
FlowKept == consumed' = consumed /\ \A e \in Emails : Outstanding(e)' <= Outstanding(e)

LEMMA OutstandingType ==
    ASSUME TypeOK, NEW e \in Emails PROVE Outstanding(e) \in Nat /\ consumed[e] \in Nat
  BY DEF TypeOK, Traffic, Outstanding

\* The rows that count are rows.
LEMMA RowsOfType ==
    ASSUME TypeOK, NEW e \in Emails PROVE RowsOf(e) \subseteq Row
  <1>1. ASSUME NEW a \in Admins, op[a].kind = "ResetClient"
        PROVE  op[a].row \in Row
    BY <1>1, OpCases DEF TypeOK
  <1> QED BY <1>1 DEF RowsOf, TypeOK

\* A step that only keeps keeps the invariant.
LEMMA KeptBounded ==
    ASSUME TypeOK, TypeOK', BillingBounded, OpsKept, StatsKept, FlowKept
    PROVE  BillingBounded'
  <1> SUFFICES ASSUME NEW e \in Emails
               PROVE  /\ Outstanding(e)' <= consumed'[e]
                      /\ \A r \in RowsOf(e)' : r.allTime + Outstanding(e)' <= consumed'[e]
    BY DEF BillingBounded
  <1>1. /\ Outstanding(e)' \in Nat /\ Outstanding(e) \in Nat /\ consumed[e] \in Nat
        /\ Outstanding(e)' <= Outstanding(e) /\ consumed'[e] = consumed[e]
        /\ Outstanding(e) <= consumed[e]
    BY OutstandingType DEF FlowKept, BillingBounded, TypeOK, Traffic, Outstanding
  <1>2. ASSUME NEW r \in RowsOf(e)'
        PROVE  r.allTime = 0 \/ \E q \in RowsOf(e) : r.allTime = q.allTime
    <2>1. CASE r = stats'[e] /\ stats'[e] # None
      BY <2>1 DEF StatsKept
    <2>2. CASE \E a \in Admins : /\ op'[a].kind = "ResetClient" /\ op'[a].email = e
                                 /\ r = op'[a].row
      <3>1. PICK a \in Admins : /\ op'[a].kind = "ResetClient" /\ op'[a].email = e
                                /\ r = op'[a].row
        BY <2>2
      <3>2. op'[a] \in OpType
        BY <3>1 DEF TypeOK
      <3>3. r \in Row
        BY <3>1, <3>2 DEF OpType, NoOp
      <3>4. r \in RowsOf(e)
        BY <3>1, <3>3, NoneAssumption DEF OpsKept, RowsOf, NoneAssumption
      <3> QED BY <3>4
    <2> QED BY <1>2, <2>1, <2>2 DEF RowsOf
  <1>3. ASSUME NEW r \in RowsOf(e)'
        PROVE  r.allTime + Outstanding(e)' <= consumed'[e]
    <2>1. CASE r.allTime = 0
      BY <1>1, <2>1
    <2>2. CASE \E q \in RowsOf(e) : r.allTime = q.allTime
      <3>1. PICK q \in RowsOf(e) : r.allTime = q.allTime
        BY <2>2
      <3>2. q.allTime \in Nat /\ q.allTime + Outstanding(e) <= consumed[e]
        BY <3>1, RowsOfType DEF BillingBounded, Row
      <3> QED BY <1>1, <3>1, <3>2
    <2> QED BY <1>2, <2>1, <2>2
  <1> QED BY <1>1, <1>3

\* Rows that are left alone are known.
LEMMA SameStatsKept ==
    ASSUME stats' = stats PROVE StatsKept
  BY DEF StatsKept, RowsOf

\* So are the counters, or Xray dropped them.
LEMMA SameFlowKept ==
    ASSUME TypeOK, consumed' = consumed,
           counter' = counter \/ counter' = NoTraffic,
           job'.traffic = job.traffic \/ job'.traffic = NoTraffic
    PROVE  FlowKept
  <1> SUFFICES ASSUME NEW e \in Emails PROVE Outstanding(e)' <= Outstanding(e)
    BY DEF FlowKept
  <1>1. NoTraffic.user[e] = 0 /\ counter.user[e] \in Nat /\ job.traffic.user[e] \in Nat
    BY DEF NoTraffic, TypeOK, Traffic
  <1> QED BY <1>1 DEF Outstanding

-----------------------------------------------------------------------------
(* What AddTraffic does to the bills.                                      *)

\* Billing adds the reported traffic, whether it starts a clock or not.
LEMMA BillingAllTime ==
    ASSUME TypeOK, NEW d \in Traffic, NEW e \in Emails, AfterBilling(d).stats[e] # None
    PROVE  stats[e] # None /\ AfterBilling(d).stats[e].allTime = stats[e].allTime + d.user[e]
  <1> DEFINE E       == Starting(d)
             entry   == [x \in E |-> [inbounds[Home[x]].clients[x] EXCEPT
                                         !.expiry = Started(inbounds[Home[x]].clients[x], now)]]
             row(x)  == IF x \in E THEN [stats[x] EXCEPT !.expiry = entry[x].expiry] ELSE stats[x]
  <1>1. AfterBilling(d).stats = [x \in Emails |-> IF stats[x] = None THEN None
                                                  ELSE Billed(row(x), d.user[x])]
    BY DEF AfterBilling
  <1> HIDE DEF entry, E
  <1>2. stats[e] # None /\ AfterBilling(d).stats[e] = Billed(row(e), d.user[e])
    BY <1>1
  <1>3. stats[e] \in Row
    BY <1>2 DEF TypeOK
  <1>4. row(e) \in [enable: BOOLEAN, used: Nat, allTime: Nat, expiry: {row(e).expiry},
                    total: Nat, reset: Nat]
        /\ row(e).allTime = stats[e].allTime
    BY <1>3 DEF Row
  <1>5. Billed(row(e), d.user[e]).allTime = stats[e].allTime + d.user[e]
    BY <1>4 DEF Billed
  <1> QED BY <1>2, <1>5

\* Renewing and disabling leave the all-time counter alone.
LEMMA RenewalAllTime ==
    ASSUME NEW t \in Tables, NEW e \in Emails, AfterRenewals(t).stats[e] # None
    PROVE  t.stats[e] # None /\ AfterRenewals(t).stats[e].allTime = t.stats[e].allTime
  <1>1. t.stats \in StatsType
    BY DEF Tables
  <1>2. AfterRenewals(t).stats[e] =
          IF e \in Renewed(t) THEN RenewedRow(t.stats[e], now) ELSE t.stats[e]
    BY <1>1 DEF AfterRenewals, AfterRenewal, StatsType
  <1>3. CASE e \in Renewed(t)
    <2>1. t.stats[e] # None /\ t.stats[e] \in Row
      BY <1>1, <1>3 DEF Renewed, RenewableIn, Keys, StatsType
    <2>2. RenewedRow(t.stats[e], now).allTime = t.stats[e].allTime
      BY <2>1 DEF RenewedRow, Row
    <2> QED BY <1>2, <1>3, <2>1, <2>2
  <1> QED BY <1>2, <1>3

LEMMA DisablingAllTime ==
    ASSUME NEW t \in Tables, NEW e \in Emails, AfterDisabling(t).stats[e] # None
    PROVE  t.stats[e] # None /\ AfterDisabling(t).stats[e].allTime = t.stats[e].allTime
  <1>1. t.stats \in StatsType
    BY DEF Tables
  <1>2. AfterDisabling(t).stats[e] =
          IF e \in DepletedIn(t.stats, now) THEN [t.stats[e] EXCEPT !.enable = FALSE]
                                            ELSE t.stats[e]
    BY <1>1 DEF AfterDisabling, AfterDisable, StatsType
  <1>3. CASE e \in DepletedIn(t.stats, now)
    <2>1. t.stats[e] # None /\ t.stats[e] \in Row
      BY <1>1, <1>3 DEF DepletedIn, Keys, StatsType
    <2> QED BY <1>2, <1>3, <2>1 DEF Row
  <1> QED BY <1>2, <1>3

\* The whole transaction, and the part of it that a panic commits.
LEMMA StepsAllTime ==
    ASSUME TypeOK, NEW d \in Traffic, NEW e \in Emails,
           NEW t2, t2 = AfterRenewals(AfterBilling(d)),
           NEW t \in {t2, AfterDisabling(t2)}, t.stats[e] # None
    PROVE  stats[e] # None /\ t.stats[e].allTime = stats[e].allTime + d.user[e]
  <1>1. AfterBilling(d) \in Tables /\ t2 \in Tables
    BY AfterBillingType, AfterRenewalsType DEF TypeOK, StatsType, InboundsType
  <1>2. t2.stats[e] # None /\ t.stats[e].allTime = t2.stats[e].allTime
    BY <1>1, DisablingAllTime
  <1>3. /\ AfterBilling(d).stats[e] # None
        /\ t2.stats[e].allTime = AfterBilling(d).stats[e].allTime
    BY <1>1, <1>2, RenewalAllTime
  <1> QED BY <1>2, <1>3, BillingAllTime

LEMMA AddTrafficAllTime ==
    ASSUME TypeOK, NEW d \in Traffic, NEW n, NEW c, AddTraffic(d, n, c),
           NEW e \in Emails, stats'[e] # None
    PROVE  stats[e] # None /\ stats'[e].allTime = stats[e].allTime + d.user[e]
  <1> DEFINE t2 == AfterRenewals(AfterBilling(d))
             t3 == AfterDisabling(t2)
  <1>1. stats' = AfterClosing(t3).stats
    BY AddTrafficSteps, Zenon DEF CommitTraffic
  <1>2. t3 \in Tables
    BY AfterBillingType, AfterRenewalsType, AfterDisablingType DEF TypeOK, StatsType, InboundsType
  <1>3. AfterClosing(t3).stats = t3.stats
    BY <1>2 DEF AfterClosing, Tables
  <1> HIDE DEF t3, t2
  <1>4. stats' = t3.stats
    BY <1>1, <1>3
  <1>5. t2 = AfterRenewals(AfterBilling(d)) /\ t3 \in {t2, AfterDisabling(t2)}
    BY DEF t2, t3
  <1> QED BY <1>4, <1>5, StepsAllTime

LEMMA PanicTrafficAllTime ==
    ASSUME TypeOK, NEW d \in Traffic, PanicTraffic(d), NEW e \in Emails, stats'[e] # None
    PROVE  stats[e] # None /\ stats'[e].allTime = stats[e].allTime + d.user[e]
  <1> DEFINE t2 == AfterRenewals(AfterBilling(d))
  <1>1. PICK t \in {t2, AfterDisabling(t2)} : stats' = t.stats
    BY Zenon DEF PanicTraffic
  <1>2. t2 = AfterRenewals(AfterBilling(d)) /\ t.stats[e] # None
    BY <1>1
  <1> HIDE DEF t2
  <1> QED BY <1>1, <1>2, StepsAllTime

\* The AddTraffic(nil, nil) of RestartXray bills nothing, even if it panics.
LEMMA PanicKept ==
    ASSUME TypeOK, PanicTraffic(NoTraffic)
    PROVE  StatsKept
  <1> SUFFICES ASSUME NEW e \in Emails, stats'[e] # None
               PROVE  \E q \in RowsOf(e) : stats'[e].allTime = q.allTime
    BY DEF StatsKept
  <1>1. stats[e] # None /\ stats'[e].allTime = stats[e].allTime + NoTraffic.user[e]
    BY NoTrafficType, PanicTrafficAllTime
  <1>2. stats[e] \in RowsOf(e) /\ stats[e].allTime \in Nat /\ NoTraffic.user[e] = 0
    BY <1>1 DEF RowsOf, TypeOK, Row, NoTraffic
  <1> QED BY <1>1, <1>2

LEMMA EnterRestartKept ==
    ASSUME TypeOK, NEW by, NEW force, EnterRestart(by, force)
    PROVE  StatsKept
  <1>1. PICK n, c : AddTraffic(NoTraffic, n, c)
    BY Zenon DEF EnterRestart
  <1> SUFFICES ASSUME NEW e \in Emails, stats'[e] # None
               PROVE  \E q \in RowsOf(e) : stats'[e].allTime = q.allTime
    BY DEF StatsKept
  <1>2. stats[e] # None /\ stats'[e].allTime = stats[e].allTime + NoTraffic.user[e]
    BY <1>1, NoTrafficType, AddTrafficAllTime
  <1>3. stats[e] \in RowsOf(e) /\ stats[e].allTime \in Nat /\ NoTraffic.user[e] = 0
    BY <1>2 DEF RowsOf, TypeOK, Row, NoTraffic
  <1> QED BY <1>2, <1>3

-----------------------------------------------------------------------------
(* The steps of the panel, of Xray and of its clients.                     *)

LEMMA RestartBounded ==
    ASSUME TypeOK, TypeOK', BillingBounded,
           \/ BootRestart \/ RestartCheck \/ CheckXrayRunning \/ CronRestart \/ RestartSteps
           \/ RestartFails \/ RestartXrayService \/ RestartServicePanics \/ StopXrayService
    PROVE  BillingBounded'
  <1> USE DEF db, runtime, flags, bounds
  <1>1. /\ op' = op /\ consumed' = consumed
        /\ counter' = counter \/ counter' = NoTraffic
        /\ job'.traffic = job.traffic
    <2>1. CASE LeaveRestart
      BY <2>1 DEF LeaveRestart, TypeOK
    <2>2. CASE ~LeaveRestart
      BY <2>2 DEF BootRestart, RestartCheck, CheckXrayRunning, CronRestart, RestartSteps,
                  RestartRead, RestartSwap, RestartStarted, RestartFails, RestartXrayService,
                  RestartServicePanics, StopXrayService
    <2> QED BY <2>1, <2>2
  <1>2. StatsKept
    <2>1. CASE stats' = stats
      BY <2>1, SameStatsKept
    <2>2. CASE \E by, force : EnterRestart(by, force)
      BY <2>2, EnterRestartKept
    <2>3. CASE RestartServicePanics
      BY <2>3, PanicKept DEF RestartServicePanics
    <2>4. stats' = stats \/ (\E by, force : EnterRestart(by, force)) \/ RestartServicePanics
      BY Zenon
         DEF BootRestart, RestartCheck, CheckXrayRunning, CronRestart, RestartSteps,
             RestartRead, RestartSwap, RestartStarted, LeaveRestart, RestartFails,
             RestartXrayService, StopXrayService
    <2> QED BY <2>1, <2>2, <2>3, <2>4
  <1> QED BY <1>1, <1>2, SameFlowKept, KeptBounded DEF OpsKept

\* What a job that holds the traffic d for the bill does to the bills.
LEMMA BilledBounded ==
    ASSUME TypeOK, TypeOK', BillingBounded, op' = op \/ op' = [a \in Admins |-> NoOp],
           consumed' = consumed, counter' = counter \/ counter' = NoTraffic,
           job'.traffic = NoTraffic,
           \A e \in Emails : stats'[e] # None =>
               stats[e] # None /\ stats'[e].allTime = stats[e].allTime + job.traffic.user[e]
    PROVE  BillingBounded'
  <1> SUFFICES ASSUME NEW e \in Emails
               PROVE  /\ Outstanding(e)' <= consumed'[e]
                      /\ \A r \in RowsOf(e)' : r.allTime + Outstanding(e)' <= consumed'[e]
    BY DEF BillingBounded
  <1>1. /\ counter.user[e] \in Nat /\ job.traffic.user[e] \in Nat /\ consumed[e] \in Nat
        /\ counter'.user[e] \in Nat /\ counter'.user[e] <= counter.user[e]
        /\ job'.traffic.user[e] = 0
    BY DEF TypeOK, Traffic, NoTraffic
  <1>2. Outstanding(e)' + job.traffic.user[e] <= Outstanding(e) /\ Outstanding(e) <= consumed[e]
    BY <1>1 DEF Outstanding, BillingBounded
  <1>3. Outstanding(e) \in Nat /\ Outstanding(e)' \in Nat
    BY <1>1 DEF Outstanding
  <1>4. ASSUME NEW r \in RowsOf(e)'
        PROVE  r.allTime + Outstanding(e)' <= consumed'[e]
    <2>1. CASE r = stats'[e] /\ stats'[e] # None
      <3>1. stats[e] # None /\ r.allTime = stats[e].allTime + job.traffic.user[e]
        BY <2>1
      <3>2. stats[e].allTime \in Nat /\ stats[e].allTime + Outstanding(e) <= consumed[e]
        BY <3>1 DEF BillingBounded, RowsOf, TypeOK, Row
      <3> QED BY <1>1, <1>2, <1>3, <3>1, <3>2
    <2>2. CASE r \in RowsOf(e)
      <3>1. r.allTime \in Nat /\ r.allTime + Outstanding(e) <= consumed[e]
        BY <2>2, RowsOfType DEF BillingBounded, Row
      <3> QED BY <1>1, <1>2, <1>3, <3>1
    <2>3. r \in RowsOf(e) \/ (r = stats'[e] /\ stats'[e] # None)
      BY <1>4 DEF RowsOf, NoOp
    <2> QED BY <2>1, <2>2, <2>3
  <1> QED BY <1>1, <1>2, <1>3, <1>4

LEMMA JobBounded ==
    ASSUME TypeOK, TypeOK', BillingBounded, JobSteps \/ Panics
    PROVE  BillingBounded'
  <1> USE DEF db, runtime, flags, bounds
  <1>1. CASE JobFetch
    <2>1. consumed' = consumed /\ op' = op /\ stats' = stats
      BY <1>1 DEF JobFetch
    <2>2. ASSUME NEW e \in Emails PROVE Outstanding(e)' <= Outstanding(e)
      <3>1. counter.user[e] \in Nat /\ job.traffic.user[e] \in Nat
        BY DEF TypeOK, Traffic
      <3>2. counter'.user[e] = 0
        BY <1>1 DEF JobFetch, AfterQuery, NoTraffic
      <3>3. job'.traffic = counter \/ job'.traffic = job.traffic
        BY <1>1 DEF JobFetch
      <3> QED BY <3>1, <3>2, <3>3 DEF Outstanding
    <2> QED BY <2>1, <2>2, SameStatsKept, KeptBounded DEF FlowKept, OpsKept
  <1>2. CASE JobBill
    <2>1. PICK n \in BOOLEAN, c \in BOOLEAN : AddTraffic(job.traffic, n, c)
      BY <1>2, Zenon DEF JobBill
    <2>2. job'.traffic = NoTraffic
      BY <1>2 DEF JobBill
    <2>3. job.traffic \in Traffic
      BY DEF TypeOK
    <2> QED BY <1>2, <2>1, <2>2, <2>3, AddTrafficAllTime, BilledBounded DEF JobBill
  <1>3. CASE JobRestart
    <2>1. op' = op /\ consumed' = consumed /\ counter' = counter /\ job'.traffic = job.traffic
      BY <1>3 DEF JobRestart, TypeOK
    <2>2. StatsKept
      BY <1>3, EnterRestartKept DEF JobRestart
    <2> QED BY <2>1, <2>2, SameFlowKept, KeptBounded DEF OpsKept
  <1>4. CASE JobFlag
    <2>1. op' = op /\ consumed' = consumed /\ counter' = counter /\ stats' = stats
          /\ job'.traffic = NoTraffic
      BY <1>4 DEF JobFlag, NoJob
    <2> QED BY <2>1, SameStatsKept, SameFlowKept, KeptBounded DEF OpsKept
  <1>5. CASE JobPanics
    <2>1. PanicTraffic(job.traffic)
      BY <1>5 DEF JobPanics
    <2>2. job.traffic \in Traffic
      BY DEF TypeOK
    <2>3. ASSUME NEW e \in Emails, stats'[e] # None
          PROVE  stats[e] # None /\ stats'[e].allTime = stats[e].allTime + job.traffic.user[e]
      BY <2>1, <2>2, <2>3, PanicTrafficAllTime
    <2>4. /\ consumed' = consumed /\ counter' = NoTraffic /\ job'.traffic = NoTraffic
          /\ op' = [a \in Admins |-> NoOp]
      BY <1>5 DEF JobPanics, LoseMemory, NoJob, NoOp
    <2> QED BY <2>3, <2>4, BilledBounded
  <1>6. CASE RestartPanics
    <2>1. /\ PanicTraffic(NoTraffic)
          /\ consumed' = consumed /\ counter' = NoTraffic /\ job'.traffic = NoTraffic
          /\ op' = [a \in Admins |-> NoOp]
      BY <1>6 DEF RestartPanics, LoseMemory, NoJob, NoOp
    <2>2. StatsKept
      BY <2>1, PanicKept
    <2>3. OpsKept
      BY <2>1 DEF OpsKept, NoOp
    <2> QED BY <2>1, <2>2, <2>3, SameFlowKept, KeptBounded
  <1> QED BY <1>1, <1>2, <1>3, <1>4, <1>5, <1>6 DEF JobSteps, Panics

LEMMA SurroundingsBounded ==
    ASSUME TypeOK, TypeOK', BillingBounded,
           PanelDies \/ XrayCrashes \/ XrayAnswers \/ TimePasses \/ \E e \in Emails : ClientUses(e)
    PROVE  BillingBounded'
  <1> USE DEF db, runtime, flags, bounds
  <1>1. CASE PanelDies \/ XrayCrashes \/ XrayAnswers \/ TimePasses
    <2>1. /\ stats' = stats /\ consumed' = consumed
          /\ counter' = counter \/ counter' = NoTraffic
          /\ job'.traffic = job.traffic \/ job'.traffic = NoTraffic
      BY <1>1 DEF PanelDies, LoseMemory, NoJob, XrayCrashes, XrayAnswers, TimePasses
    <2>2. op' = op \/ op' = [a \in Admins |-> NoOp]
      BY <1>1 DEF PanelDies, LoseMemory, NoOp, XrayCrashes, XrayAnswers, TimePasses
    <2>3. OpsKept
      BY <2>2 DEF OpsKept, NoOp
    <2> QED BY <2>1, <2>3, SameStatsKept, SameFlowKept, KeptBounded
  <1>2. ASSUME NEW x \in Emails, ClientUses(x)
        PROVE  BillingBounded'
    <2> SUFFICES ASSUME NEW e \in Emails
                 PROVE  /\ Outstanding(e)' <= consumed'[e]
                        /\ \A r \in RowsOf(e)' : r.allTime + Outstanding(e)' <= consumed'[e]
      BY DEF BillingBounded
    <2>1. RowsOf(e)' = RowsOf(e)
      BY <1>2 DEF ClientUses, RowsOf
    <2>2. counter'.user[e] = counter.user[e] + (IF e = x THEN 1 ELSE 0)
      BY <1>2 DEF ClientUses, TypeOK, Traffic
    <2>3. consumed'[e] = consumed[e] + (IF e = x THEN 1 ELSE 0) /\ job' = job
      BY <1>2 DEF ClientUses, TypeOK
    <2>4. Outstanding(e)' = Outstanding(e) + (IF e = x THEN 1 ELSE 0)
      BY <2>2, <2>3 DEF Outstanding, TypeOK, Traffic
    <2>5. /\ Outstanding(e) <= consumed[e] /\ Outstanding(e) \in Nat /\ consumed[e] \in Nat
      BY OutstandingType DEF BillingBounded
    <2>6. ASSUME NEW r \in RowsOf(e)
          PROVE  r.allTime \in Nat /\ r.allTime + Outstanding(e) <= consumed[e]
      BY RowsOfType DEF BillingBounded, Row
    <2>7. ASSUME NEW r \in RowsOf(e)'
          PROVE  r.allTime + Outstanding(e)' <= consumed'[e]
      BY <2>1, <2>3, <2>4, <2>5, <2>6
    <2> QED BY <2>3, <2>4, <2>5, <2>7
  <1> QED BY <1>1, <1>2

-----------------------------------------------------------------------------
(* The handlers.                                                           *)

\* A handler creates rows without traffic, edits or resets rows it finds, and
\* only the reset of one client writes back a row that it read before.
LEMMA HandlerStatsKept ==
    ASSUME TypeOK, NEW a \in Admins, HandlerSteps(a) \/ NewRequest(a)
    PROVE  StatsKept
  <1>1. ASSUME stats' = stats PROVE StatsKept
    BY <1>1, SameStatsKept
  <1>2. ASSUME NEW e \in Emails, NEW c \in Entry, stats' = WithStat(e, c)
        PROVE  StatsKept
    BY <1>2 DEF StatsKept, RowsOf, WithStat, NewRow, TypeOK
  <1>3. ASSUME \A e \in Emails : stats'[e] = stats[e] \/ stats'[e] = None PROVE StatsKept
    BY <1>3 DEF StatsKept, RowsOf
  <1>4. ASSUME \A e \in Emails :
                  stats'[e] = stats[e] \/ (stats[e] # None /\ stats'[e] = ResetRow(stats[e]))
        PROVE  StatsKept
    <2> SUFFICES ASSUME NEW e \in Emails, stats'[e] # None
                 PROVE  \E q \in RowsOf(e) : stats'[e].allTime = q.allTime
      BY DEF StatsKept
    <2>1. stats[e] # None /\ (stats'[e] = stats[e] \/ stats'[e] = ResetRow(stats[e]))
      BY <1>4
    <2>2. stats[e] \in RowsOf(e) /\ stats[e] \in Row
      BY <2>1 DEF RowsOf, TypeOK
    <2>3. ResetRow(stats[e]).allTime = stats[e].allTime
      BY <2>2 DEF ResetRow, Row
    <2> QED BY <2>1, <2>2, <2>3
  <1>5. CASE FinishUpdateClient(a)
    <2>1. op[a].email \in Emails
      BY <1>5, OpCases DEF FinishUpdateClient, TypeOK
    <2>2. stats' = [stats EXCEPT ![op[a].email] =
                       IF @ = None THEN None ELSE UpdatedRow(@, op[a].entry)]
      BY <1>5 DEF FinishUpdateClient
    <2> QED BY <2>1, <2>2 DEF StatsKept, RowsOf, UpdatedRow, TypeOK, Row
  <1>6. CASE FinishResetClient(a)
    <2>1. op[a].email \in Emails /\ op[a].row \in Row /\ op[a].kind = "ResetClient"
      BY <1>6, OpCases DEF FinishResetClient, TypeOK
    <2>2. stats' = stats \/ stats' = [stats EXCEPT ![op[a].email] = ResetRow(op[a].row)]
      BY <1>6, Zenon DEF FinishResetClient, Fails, db
    <2>3. CASE stats' = [stats EXCEPT ![op[a].email] = ResetRow(op[a].row)]
      <3>1. ResetRow(op[a].row).allTime = op[a].row.allTime
        BY <2>1 DEF ResetRow, Row
      <3>2. op[a].row \in RowsOf(op[a].email)
        BY <2>1 DEF RowsOf
      <3>3. ASSUME NEW e \in Emails
            PROVE  \/ stats'[e] = stats[e]
                   \/ e = op[a].email /\ stats'[e].allTime = op[a].row.allTime
        BY <2>3, <3>1 DEF TypeOK
      <3> QED BY <3>2, <3>3 DEF StatsKept, RowsOf
    <2> QED BY <1>1, <2>2, <2>3
  <1>7. CASE UpdateInbound(a)
    <2>1. op[a].row \in InboundRow
      BY <1>7, OpCases DEF UpdateInbound, TypeOK
    <2>2. stats' = stats \/ stats' = StatsFor(op[a].id, op[a].row.clients)
      BY <1>7, Zenon DEF UpdateInbound, Fails, db
    <2>3. CASE stats' = StatsFor(op[a].id, op[a].row.clients)
      <3>1. ASSUME NEW e \in Emails
            PROVE  \/ stats'[e] = None \/ stats'[e] = stats[e]
                   \/ stats'[e] = NewRow(op[a].row.clients[e])
        BY <2>3 DEF StatsFor
      <3>2. ASSUME NEW e \in Emails PROVE NewRow(op[a].row.clients[e]).allTime = 0
        BY DEF NewRow
      <3> QED BY <3>1, <3>2 DEF StatsKept, RowsOf
    <2> QED BY <1>1, <2>2, <2>3
  <1>8. CASE FinishAddClient(a)
    <2>1. op[a].email \in Emails /\ op[a].entry \in Entry
      BY <1>8, OpCases DEF FinishAddClient, TypeOK
    <2>2. stats' = stats \/ stats' = WithStat(op[a].email, op[a].entry)
      BY <1>8, Zenon DEF FinishAddClient
    <2> QED BY <1>1, <1>2, <2>1, <2>2
  <1>9. CASE DelClientStat(a)
    <2>1. op[a].email \in Emails
      BY <1>9, OpCases DEF DelClientStat, TypeOK
    <2>2. stats' = stats \/ stats' = [stats EXCEPT ![op[a].email] = None]
      BY <1>9, Zenon DEF DelClientStat, Fails, db
    <2>3. \A e \in Emails : stats'[e] = stats[e] \/ stats'[e] = None
      BY <2>1, <2>2 DEF TypeOK
    <2> QED BY <1>3, <2>3
  <1>10. CASE SaveDelClient(a) \/ FinishDelInbound(a) \/ SetEnable(a) \/ SyncInbound(a)
    BY <1>1, <1>10, Zenon
       DEF SaveDelClient, FinishDelInbound, SetEnable, SyncInbound, Fails, db
  <1>11. CASE HandlerSteps(a)
    BY <1>5, <1>6, <1>7, <1>8, <1>9, <1>10, <1>11 DEF HandlerSteps
  <1>12. CASE \E e \in Emails : ResetClientTrafficByEmail(a, e)
    BY <1>4, <1>12 DEF ResetClientTrafficByEmail, TypeOK
  <1>13. CASE \E i \in Inbounds : ResetAllClientTraffics(a, i) \/ PeriodicTrafficReset(a, i)
    BY <1>4, <1>13 DEF ResetAllClientTraffics, PeriodicTrafficReset, ResetOf
  <1>14. CASE \E i \in Inbounds : BeginDelInbound(a, i)
    BY <1>14 DEF BeginDelInbound, StatsKept, RowsOf
  <1>15. CASE \E i \in Inbounds, f \in Forms, e \in Emails, c \in Entries :
                 AddInbound(a, i, f, e, c)
    BY <1>2, <1>15, ConstantsAssumption DEF AddInbound, ConstantsAssumption
  <1>16. CASE NewRequest(a)
    <2>1. \/ stats' = stats
          \/ \E e \in Emails : ResetClientTrafficByEmail(a, e)
          \/ \E i \in Inbounds : ResetAllClientTraffics(a, i) \/ PeriodicTrafficReset(a, i)
          \/ \E i \in Inbounds : BeginDelInbound(a, i)
          \/ \E i \in Inbounds, f \in Forms, e \in Emails, c \in Entries : AddInbound(a, i, f, e, c)
      BY <1>16, Zenon
         DEF NewRequest, BeginAddClient, BeginUpdateClient, BeginDelClient, BeginResetClient,
             BeginSetInboundEnable, OpenInboundForm, ResetAllTraffics, Reads, db
    <2> QED BY <1>1, <1>12, <1>13, <1>14, <1>15, <2>1
  <1> QED BY <1>11, <1>16

LEMMA HandlerOpsKept ==
    ASSUME TypeOK, NEW a \in Admins, HandlerSteps(a) \/ NewRequest(a)
    PROVE  OpsKept
  <1>1. ASSUME NEW r, op' = [op EXCEPT ![a] = r],
               r.kind = "ResetClient" => r.row = stats[r.email]
        PROVE  OpsKept
    BY <1>1 DEF OpsKept, TypeOK
  <1>2. ASSUME op' = op PROVE OpsKept
    BY <1>2 DEF OpsKept
  <1>3. CASE HandlerSteps(a)
    <2>1. CASE \E need : Done(a, need)
      BY <1>1, <2>1 DEF Done, NoOp
    <2>2. CASE DelClientStat(a)
      <3>1. CASE \E r : r.kind = "SaveDelClient" /\ op' = [op EXCEPT ![a] = r]
        BY <1>1, <3>1
      <3>2. (\E need : Done(a, need))
            \/ \E r : r.kind = "SaveDelClient" /\ op' = [op EXCEPT ![a] = r]
        BY <2>2 DEF DelClientStat, Fails
      <3> QED BY <2>1, <3>1, <3>2
    <2>3. CASE SetEnable(a)
      <3>1. op' = [op EXCEPT ![a] = [op[a] EXCEPT !.kind = "SyncInbound"]]
        BY <2>3 DEF SetEnable
      <3>2. [op[a] EXCEPT !.kind = "SyncInbound"].kind = "SyncInbound"
        BY <2>3, OpCases DEF SetEnable, TypeOK
      <3> QED BY <1>1, <3>1, <3>2
    <2>4. DelClientStat(a) \/ SetEnable(a) \/ \E need : Done(a, need)
      BY <1>3, Zenon
         DEF HandlerSteps, FinishAddClient, FinishUpdateClient, SaveDelClient, FinishResetClient,
             FinishDelInbound, SyncInbound, UpdateInbound, Fails
    <2> QED BY <2>1, <2>2, <2>3, <2>4
  <1>4. CASE NewRequest(a)
    <2>1. ASSUME NEW e \in Emails,
                 \/ BeginDelClient(a, e) \/ BeginResetClient(a, e)
                 \/ ResetClientTrafficByEmail(a, e)
                 \/ \E c \in Entries : BeginAddClient(a, e, c) \/ BeginUpdateClient(a, e, c)
          PROVE  OpsKept
      BY <1>1, <1>2, <2>1
         DEF BeginDelClient, BeginResetClient, ResetClientTrafficByEmail, BeginAddClient,
             BeginUpdateClient, Reads
    <2>2. ASSUME NEW i \in Inbounds,
                 \/ ResetAllClientTraffics(a, i) \/ PeriodicTrafficReset(a, i)
                 \/ BeginSetInboundEnable(a, i)
                 \/ \E f \in Forms : OpenInboundForm(a, i, f)
                 \/ \E f \in Forms, e \in Emails, c \in Entries : AddInbound(a, i, f, e, c)
          PROVE  OpsKept
      BY <1>1, <1>2, <2>2
         DEF ResetAllClientTraffics, PeriodicTrafficReset, BeginSetInboundEnable,
             OpenInboundForm, AddInbound, Reads
    <2>3. ASSUME NEW i \in Inbounds, BeginDelInbound(a, i)
          PROVE  OpsKept
      <3>1. PICK r : r.kind = "DelInbound" /\ op' = [op EXCEPT ![a] = r]
        BY <2>3 DEF BeginDelInbound
      <3> QED BY <1>1, <3>1
    <2>4. CASE ResetAllTraffics(a)
      BY <1>2, <2>4 DEF ResetAllTraffics
    <2> QED BY <1>4, <2>1, <2>2, <2>3, <2>4, Zenon DEF NewRequest
  <1> QED BY <1>3, <1>4

LEMMA HandlerBounded ==
    ASSUME TypeOK, TypeOK', BillingBounded, NEW a \in Admins, HandlerSteps(a) \/ NewRequest(a)
    PROVE  BillingBounded'
  <1>1. consumed' = consumed /\ counter' = counter /\ job' = job
    <2>1. CASE \E need : Done(a, need)
      BY <2>1 DEF Done
    <2>2. CASE DelClientStat(a)
      BY <2>1, <2>2 DEF DelClientStat, Fails
    <2>3. CASE HandlerSteps(a)
      BY <2>1, <2>2, <2>3, ZenonT(60)
         DEF HandlerSteps, FinishAddClient, FinishUpdateClient, SaveDelClient, FinishResetClient,
             FinishDelInbound, SetEnable, SyncInbound, UpdateInbound, Fails, runtime
    <2>4. CASE NewRequest(a)
      BY <2>4, ZenonT(60)
         DEF NewRequest, BeginAddClient, BeginUpdateClient, BeginDelClient, BeginResetClient,
             BeginSetInboundEnable, BeginDelInbound, OpenInboundForm, AddInbound, ResetAllTraffics,
             ResetAllClientTraffics, PeriodicTrafficReset, ResetClientTrafficByEmail, Reads, runtime
    <2> QED BY <2>3, <2>4
  <1> QED BY <1>1, HandlerStatsKept, HandlerOpsKept, SameFlowKept, KeptBounded

-----------------------------------------------------------------------------
LEMMA InitBounded == Init => BillingBounded
  <1> SUFFICES ASSUME Init, NEW e \in Emails
               PROVE  /\ Outstanding(e) <= consumed[e]
                      /\ \A r \in RowsOf(e) : r.allTime + Outstanding(e) <= consumed[e]
    BY DEF BillingBounded
  <1>1. Outstanding(e) = 0 /\ consumed[e] = 0
    BY DEF Init, Outstanding, NoJob, NoTraffic
  <1>2. ASSUME NEW r \in RowsOf(e) PROVE r.allTime = 0
    <2>1. r = stats[e] /\ stats[e] # None
      BY <1>2 DEF RowsOf, Init, NoOp
    <2> QED BY <2>1 DEF Init, NewRow
  <1> QED BY <1>1, <1>2

LEMMA NextBounded == TypeOK /\ TypeOK' /\ BillingBounded /\ [Next]_vars => BillingBounded'
  <1> SUFFICES ASSUME TypeOK, TypeOK', BillingBounded, [Next]_vars PROVE BillingBounded'
    OBVIOUS
  <1>1. CASE \/ BootRestart \/ RestartCheck \/ CheckXrayRunning \/ CronRestart \/ RestartSteps
             \/ RestartFails \/ RestartXrayService \/ RestartServicePanics \/ StopXrayService
    BY <1>1, RestartBounded
  <1>2. CASE JobSteps \/ Panics
    BY <1>2, JobBounded
  <1>3. CASE \/ PanelDies \/ XrayCrashes \/ XrayAnswers \/ TimePasses
             \/ \E e \in Emails : ClientUses(e)
    BY <1>3, SurroundingsBounded
  <1>4. CASE \E a \in Admins : HandlerSteps(a) \/ NewRequest(a)
    BY <1>4, HandlerBounded
  <1>5. CASE UNCHANGED vars
    BY <1>5 DEF vars, BillingBounded, RowsOf, Outstanding
  <1> QED BY <1>1, <1>2, <1>3, <1>4, <1>5, Zenon DEF Next, Environment

\* The strengthened invariant: neither a bill nor a row that a reset is about
\* to write back, with the traffic on its way to the bill, exceeds what the
\* client used.
THEOREM BillingIsBounded == Spec => []BillingBounded
  <1>1. Spec => []TypeOK
    BY TypeCorrect
  <1> QED BY <1>1, InitBounded, NextBounded, PTL DEF Spec

\* No client is ever billed for more than it used, however fetches, bills,
\* restarts, crashes, resets and edits interleave.
THEOREM NeverBilledTwice == Spec => []NoDoubleBilling
  <1>1. BillingBounded => NoDoubleBilling
    BY DEF BillingBounded, NoDoubleBilling, RowsOf
  <1> QED BY <1>1, BillingIsBounded, PTL

-----------------------------------------------------------------------------
(* Limits at the end of a transaction.                                     *)

\* The traffic job does nothing else while it waits for its RestartXray, so
\* that its way from "bill" on is always a commit.
JobWaits == restart.pc # "idle" /\ restart.by = "job" => job.pc = "wait"

LEMMA JobWaitsInit == Init => JobWaits
  BY DEF Init, JobWaits, Idle

LEMMA HandlersDoNotRestart ==
    ASSUME NEW a \in Admins, HandlerSteps(a) \/ NewRequest(a)
    PROVE  restart' = restart /\ job' = job
  <1>1. CASE \E need : Done(a, need)
    BY <1>1 DEF Done
  <1>2. CASE DelClientStat(a)
    BY <1>1, <1>2 DEF DelClientStat, Fails
  <1>3. CASE HandlerSteps(a)
    BY <1>1, <1>2, <1>3, Zenon
       DEF HandlerSteps, FinishAddClient, FinishUpdateClient, SaveDelClient, FinishResetClient,
           FinishDelInbound, SetEnable, SyncInbound, UpdateInbound, Fails
  <1>4. CASE NewRequest(a)
    BY <1>4, ZenonT(60)
       DEF NewRequest, BeginAddClient, BeginUpdateClient, BeginDelClient, BeginResetClient,
           BeginSetInboundEnable, BeginDelInbound, OpenInboundForm, AddInbound, ResetAllTraffics,
           ResetAllClientTraffics, PeriodicTrafficReset, ResetClientTrafficByEmail, Reads
  <1> QED BY <1>3, <1>4

LEMMA JobWaitsNext == TypeOK /\ JobWaits /\ [Next]_vars => JobWaits'
  <1> SUFFICES ASSUME TypeOK, JobWaits, [Next]_vars PROVE JobWaits'
    OBVIOUS
  <1>1. CASE BootRestart \/ RestartCheck \/ CheckXrayRunning \/ CronRestart \/ RestartXrayService
    <2>1. job' = job /\ (restart' = restart \/ restart'.by # "job")
      BY <1>1 DEF BootRestart, RestartCheck, CheckXrayRunning, CronRestart, RestartXrayService,
                  EnterRestart, TypeOK
    <2> QED BY <2>1 DEF JobWaits
  <1>2. CASE RestartRead \/ RestartSwap \/ RestartStarted \/ RestartFails
    <2>1. job' = job /\ restart.pc # "idle" /\ restart'.by = restart.by
      BY <1>2 DEF RestartRead, RestartSwap, RestartStarted, RestartFails, TypeOK
    <2> QED BY <2>1 DEF JobWaits
  <1>3. CASE LeaveRestart
    BY <1>3 DEF LeaveRestart, JobWaits, Idle
  <1>4. CASE JobRestart
    BY <1>4 DEF JobRestart, JobWaits, TypeOK
  <1>5. CASE JobFetch \/ JobBill \/ JobFlag
    <2>1. job.pc # "wait" /\ restart' = restart
      BY <1>5 DEF JobFetch, JobBill, JobFlag
    <2> QED BY <2>1 DEF JobWaits
  <1>6. CASE Panics \/ PanelDies
    BY <1>6 DEF Panics, JobPanics, RestartPanics, PanelDies, LoseMemory, Idle, JobWaits
  <1>7. CASE RestartServicePanics \/ StopXrayService \/ XrayCrashes \/ XrayAnswers \/ TimePasses
             \/ (\E e \in Emails : ClientUses(e)) \/ UNCHANGED vars
    <2>1. job' = job /\ restart' = restart
      BY <1>7 DEF RestartServicePanics, StopXrayService, XrayCrashes, XrayAnswers,
                  TimePasses, ClientUses, vars
    <2> QED BY <2>1 DEF JobWaits
  <1>8. CASE \E a \in Admins : HandlerSteps(a) \/ NewRequest(a)
    <2>1. job' = job /\ restart' = restart
      BY <1>8, HandlersDoNotRestart
    <2> QED BY <2>1 DEF JobWaits
  <1> QED BY <1>1, <1>2, <1>3, <1>4, <1>5, <1>6, <1>7, <1>8, Zenon
          DEF Next, Environment, RestartSteps, JobSteps

-----------------------------------------------------------------------------
\* disableInvalidClients leaves no enabled client that is depleted.
LEMMA NoneDepleted ==
    ASSUME NEW s \in StatsType, NEW t PROVE DepletedIn(AfterDisable(s, t), t) = {}
  <1> SUFFICES ASSUME NEW e \in DepletedIn(AfterDisable(s, t), t) PROVE FALSE
    OBVIOUS
  <1>1. e \in Emails /\ AfterDisable(s, t)[e] # None /\ AfterDisable(s, t)[e].enable
    BY DEF DepletedIn, Keys, AfterDisable, StatsType
  <1>2. CASE e \in DepletedIn(s, t)
    <2>1. s[e] \in Row
      BY <1>2 DEF DepletedIn, Keys, StatsType
    <2>2. AfterDisable(s, t)[e] = [s[e] EXCEPT !.enable = FALSE]
      BY <1>1, <1>2 DEF AfterDisable, StatsType
    <2> QED BY <1>1, <2>1, <2>2 DEF Row
  <1>3. CASE e \notin DepletedIn(s, t)
    <2>1. AfterDisable(s, t)[e] = s[e]
      BY <1>1, <1>3 DEF AfterDisable, StatsType
    <2> QED BY <1>1, <1>3, <2>1 DEF DepletedIn, Keys, StatsType
  <1> QED BY <1>2, <1>3

\* disableInvalidInbounds leaves no enabled inbound that is depleted.
LEMMA NoneSpent ==
    ASSUME NEW t \in Tables, NEW i \in Inbounds, AfterClosing(t).inbounds[i] # None,
           AfterClosing(t).inbounds[i].enable
    PROVE  ~Depleted(AfterClosing(t).inbounds[i], now)
  <1>1. t.inbounds \in InboundsType
    BY DEF Tables
  <1>2. AfterClosing(t).inbounds[i] =
          IF i \in Spent(t) THEN [t.inbounds[i] EXCEPT !.enable = FALSE] ELSE t.inbounds[i]
    BY DEF AfterClosing, Tables
  <1>3. CASE i \in Spent(t)
    <2>1. t.inbounds[i] \in InboundRow
      BY <1>1, <1>3 DEF Spent, Keys, InboundsType
    <2> QED BY <1>2, <1>3, <2>1 DEF InboundRow
  <1>4. CASE i \notin Spent(t)
    <2>1. i \in DOMAIN t.inbounds
      BY <1>1 DEF InboundsType
    <2> QED BY <1>2, <1>4, <2>1 DEF Spent, Keys
  <1> QED BY <1>3, <1>4

LEMMA AddTrafficEnforces ==
    ASSUME TypeOK, NEW d \in Traffic, NEW n, NEW c, AddTraffic(d, n, c)
    PROVE  /\ DepletedIn(stats', now) = {}
           /\ \A i \in Keys(inbounds') : inbounds'[i].enable => ~Depleted(inbounds'[i], now)
  <1> DEFINE t2 == AfterRenewals(AfterBilling(d))
             t3 == AfterDisabling(t2)
  <1>1. stats' = AfterClosing(t3).stats /\ inbounds' = AfterClosing(t3).inbounds
    BY AddTrafficSteps, Zenon DEF CommitTraffic
  <1>2. t2 \in Tables /\ t3 \in Tables
    BY AfterBillingType, AfterRenewalsType, AfterDisablingType DEF TypeOK, StatsType, InboundsType
  <1>3. t3.stats = AfterDisable(t2.stats, now)
    BY DEF AfterDisabling
  <1> HIDE DEF t2, t3
  <1>4. AfterClosing(t3).stats = t3.stats
    BY <1>2 DEF AfterClosing, Tables
  <1>5. DepletedIn(stats', now) = {}
    BY <1>1, <1>2, <1>3, <1>4, NoneDepleted DEF Tables
  <1>6. ASSUME NEW i \in Keys(inbounds'), inbounds'[i].enable
        PROVE  ~Depleted(inbounds'[i], now)
    <2>1. i \in Inbounds /\ inbounds'[i] # None
      BY <1>1, <1>2, AfterClosingType DEF Keys, Tables, InboundsType
    <2> QED BY <1>1, <1>2, <1>6, <2>1, NoneSpent
  <1> QED BY <1>5, <1>6

\* Only AddTraffic takes the steps that count as commits.
LEMMA CommitsAddTraffic ==
    ASSUME TypeOK, JobWaits, Next, Commits
    PROVE  \E d \in Traffic : \E n, c : AddTraffic(d, n, c)
  <1>1. ASSUME NEW by, NEW force, EnterRestart(by, force)
        PROVE  \E d \in Traffic : \E n, c : AddTraffic(d, n, c)
    BY <1>1, NoTrafficType, Zenon DEF EnterRestart
  <1>2. CASE BootRestart \/ CronRestart \/ RestartXrayService \/ JobRestart
    BY <1>1, <1>2, Zenon DEF BootRestart, CronRestart, RestartXrayService, JobRestart
  <1>3. CASE RestartCheck \/ CheckXrayRunning
    BY <1>3 DEF RestartCheck, CheckXrayRunning, Commits
  <1>4. CASE JobBill
    <2>1. job.traffic \in Traffic
      BY DEF TypeOK
    <2> QED BY <1>4, <2>1, Zenon DEF JobBill
  <1>5. CASE RestartRead \/ RestartSwap \/ RestartStarted \/ RestartFails
    BY <1>5 DEF RestartRead, RestartSwap, RestartStarted, RestartFails, Commits
  <1>6. CASE LeaveRestart
    BY <1>6 DEF LeaveRestart, Commits, JobWaits
  <1>7. CASE JobFetch \/ JobFlag
    BY <1>7 DEF JobFetch, JobFlag, Commits
  <1>8. CASE Panics \/ PanelDies
    BY <1>8 DEF Panics, JobPanics, RestartPanics, PanelDies, LoseMemory, Idle, NoJob, Commits
  <1>9. CASE RestartServicePanics \/ StopXrayService \/ XrayCrashes \/ XrayAnswers \/ TimePasses
             \/ \E e \in Emails : ClientUses(e)
    <2>1. job' = job /\ restart' = restart
      BY <1>9 DEF RestartServicePanics, StopXrayService, XrayCrashes, XrayAnswers,
                  TimePasses, ClientUses
    <2> QED BY <2>1 DEF Commits
  <1>10. CASE \E a \in Admins : HandlerSteps(a) \/ NewRequest(a)
    <2>1. job' = job /\ restart' = restart
      BY <1>10, HandlersDoNotRestart
    <2> QED BY <2>1 DEF Commits
  <1> QED BY <1>2, <1>3, <1>4, <1>5, <1>6, <1>7, <1>8, <1>9, <1>10, Zenon
          DEF Next, Environment, RestartSteps, JobSteps

\* When AddTraffic commits, whoever called it and whatever it was told to bill,
\* no client and no inbound stays enabled past its limit or its expiry.
THEOREM CommitsEnforce == Spec => EnforcedAtCommit
  <1>1. Spec => []TypeOK
    BY TypeCorrect
  <1>2. TypeOK /\ JobWaits /\ [Next]_vars =>
          [Commits => /\ DepletedIn(stats', now) = {}
                      /\ \A i \in Keys(inbounds') :
                            inbounds'[i].enable => ~Depleted(inbounds'[i], now)]_vars
    BY CommitsAddTraffic, AddTrafficEnforces
  <1> QED BY <1>1, <1>2, JobWaitsInit, JobWaitsNext, PTL DEF Spec, EnforcedAtCommit

-----------------------------------------------------------------------------
(* Xray stays in step: the invariant.                                      *)

Wanted == GetXrayConfig(inbounds, stats)

\* The tables of a steady panel: a client is in the settings of its own
\* inbound; a row of stats has a settings entry, is enabled if its entry is,
\* and is never renewed.
Fit(ib, st) ==
    /\ \A i \in Inbounds : ib[i] # None =>
          \A e \in Emails : ib[i].clients[e] # None => Home[e] = i
    /\ \A e \in Emails : st[e] # None =>
          /\ InSettings(ib, e)
          /\ ib[Home[e]].clients[e].enable => st[e].enable
          /\ st[e].reset = 0

\* An entry of an inbound whose user the configuration has.
On(row, st, e) ==
    row.clients[e] # None /\ row.clients[e].enable /\ (st[e] # None => st[e].enable)

-----------------------------------------------------------------------------
(* The generated configuration.                                            *)

\* Every inbound takes its users through the API, so the configuration has,
\* for each enabled inbound, its entries that are on.
LEMMA ConfigAt ==
    ASSUME Steady, NEW ib \in InboundsType, NEW st, NEW i \in Inbounds
    PROVE  GetXrayConfig(ib, st)[i] =
              IF ib[i] # None /\ ib[i].enable THEN {e \in Emails : On(ib[i], st, e)} ELSE None
  <1>1. Kind[i] = "user"
    BY DEF Steady
  <1>2. i \in Keys(ib) <=> ib[i] # None
    BY DEF Keys, InboundsType
  <1>3. ASSUME ib[i] # None
        PROVE  Served(ib, st, i) = {e \in Emails : On(ib[i], st, e)}
    <2>1. ib[i] \in InboundRow
      BY <1>3 DEF InboundsType
    <2>2. DOMAIN ib[i].clients = Emails
      BY <2>1 DEF InboundRow
    <2> QED BY <1>1, <2>2 DEF Served, Keys, On
  <1> QED BY <1>2, <1>3 DEF GetXrayConfig

LEMMA ConfigType ==
    ASSUME NEW ib \in InboundsType, NEW st
    PROVE  GetXrayConfig(ib, st) \in Config
  <1>1. ASSUME NEW i \in Keys(ib)
        PROVE  Served(ib, st, i) \in SUBSET Emails
    BY <1>1 DEF Served, Keys, InboundsType, InboundRow
  <1> QED BY <1>1 DEF GetXrayConfig, Config

\* Configurations with the same inbounds and users are the same.
LEMMA ConfigsEqual ==
    ASSUME NEW live \in Config, NEW cfg \in Config, \A i \in Inbounds : live[i] = cfg[i]
    PROVE  live = cfg
  BY DEF Config

\* Tables that agree on which inbounds and which entries are on generate the
\* same configuration.
LEMMA SameConfig ==
    ASSUME Steady, NEW ib \in InboundsType, NEW st, NEW jb \in InboundsType, NEW su,
           NEW i \in Inbounds,
           jb[i] = None <=> ib[i] = None,
           ib[i] # None => /\ jb[i].enable = ib[i].enable
                           /\ \A e \in Emails : On(jb[i], su, e) <=> On(ib[i], st, e)
    PROVE  GetXrayConfig(jb, su)[i] = GetXrayConfig(ib, st)[i]
  <1>1. CASE ib[i] = None
    <2>1. GetXrayConfig(jb, su)[i] = None /\ GetXrayConfig(ib, st)[i] = None
      BY <1>1, ConfigAt
    <2> QED BY <2>1
  <1>2. CASE ib[i] # None
    <2>1. {e \in Emails : On(jb[i], su, e)} = {e \in Emails : On(ib[i], st, e)}
      BY <1>2
    <2>2. /\ GetXrayConfig(jb, su)[i] =
               IF jb[i].enable THEN {e \in Emails : On(jb[i], su, e)} ELSE None
          /\ GetXrayConfig(ib, st)[i] =
               IF ib[i].enable THEN {e \in Emails : On(ib[i], st, e)} ELSE None
      BY <1>2, ConfigAt
    <2> QED BY <1>2, <2>1, <2>2
  <1> QED BY <1>1, <1>2

\* Tables that differ in traffic, limits and expiries only.
Alike(ib, st, jb, su) ==
    /\ \A i \in Inbounds :
          /\ jb[i] = None <=> ib[i] = None
          /\ ib[i] # None =>
                /\ jb[i].enable = ib[i].enable
                /\ \A e \in Emails :
                      /\ jb[i].clients[e] = None <=> ib[i].clients[e] = None
                      /\ ib[i].clients[e] # None =>
                            jb[i].clients[e].enable = ib[i].clients[e].enable
    /\ \A e \in Emails :
          /\ su[e] = None <=> st[e] = None
          /\ st[e] # None => su[e].enable = st[e].enable /\ su[e].reset = st[e].reset

LEMMA AlikeFit ==
    ASSUME NEW ib, NEW st, NEW jb, NEW su, Alike(ib, st, jb, su), Fit(ib, st)
    PROVE  Fit(jb, su)
  <1>1. ASSUME NEW i \in Inbounds, jb[i] # None, NEW e \in Emails, jb[i].clients[e] # None
        PROVE  Home[e] = i
    BY <1>1 DEF Alike, Fit
  <1>2. ASSUME NEW e \in Emails, su[e] # None
        PROVE  /\ InSettings(jb, e)
               /\ jb[Home[e]].clients[e].enable => su[e].enable
               /\ su[e].reset = 0
    <2>1. Home[e] \in Inbounds
      BY ConstantsAssumption DEF ConstantsAssumption
    <2>2. st[e] # None /\ su[e].enable = st[e].enable /\ su[e].reset = st[e].reset
      BY <1>2 DEF Alike
    <2>3. /\ InSettings(ib, e)
          /\ ib[Home[e]].clients[e].enable => st[e].enable
          /\ st[e].reset = 0
      BY <2>2 DEF Fit
    <2>4. /\ jb[Home[e]] # None /\ jb[Home[e]].clients[e] # None
          /\ jb[Home[e]].clients[e].enable = ib[Home[e]].clients[e].enable
      BY <2>1, <2>3 DEF Alike, InSettings
    <2> QED BY <2>2, <2>3, <2>4 DEF InSettings
  <1> QED BY <1>1, <1>2 DEF Fit

LEMMA AlikeConfig ==
    ASSUME Steady, NEW ib \in InboundsType, NEW st, NEW jb \in InboundsType, NEW su,
           Alike(ib, st, jb, su)
    PROVE  GetXrayConfig(jb, su) = GetXrayConfig(ib, st)
  <1>1. ASSUME NEW i \in Inbounds
        PROVE  GetXrayConfig(jb, su)[i] = GetXrayConfig(ib, st)[i]
    <2>1. jb[i] = None <=> ib[i] = None
      BY DEF Alike
    <2>2. ASSUME ib[i] # None
          PROVE  /\ jb[i].enable = ib[i].enable
                 /\ \A e \in Emails : On(jb[i], su, e) <=> On(ib[i], st, e)
      BY <2>2 DEF Alike, On
    <2> QED BY <2>1, <2>2, SameConfig
  <1> QED BY <1>1, ConfigType, ConfigsEqual

-----------------------------------------------------------------------------
(* What AddTraffic does to steady tables.                                  *)

\* WithEntries replaces entries, and nothing else.
LEMMA WithEntriesAt ==
    ASSUME NEW ib \in InboundsType, NEW E, NEW entry, NEW i \in Inbounds
    PROVE  /\ ib[i] = None => WithEntries(ib, E, entry)[i] = None
           /\ ib[i] # None =>
                 /\ WithEntries(ib, E, entry)[i].enable = ib[i].enable
                 /\ \A e \in Emails : WithEntries(ib, E, entry)[i].clients[e] =
                       IF e \in E /\ ib[i].clients[e] # None THEN entry[e] ELSE ib[i].clients[e]
  <1> DEFINE clients == [e \in Emails |-> IF e \in E /\ ib[i].clients[e] # None
                                          THEN entry[e] ELSE ib[i].clients[e]]
  <1>1. WithEntries(ib, E, entry)[i] =
           IF ib[i] = None THEN None ELSE [ib[i] EXCEPT !.clients = clients]
    BY DEF WithEntries
  <1>2. ASSUME ib[i] # None
        PROVE  /\ [ib[i] EXCEPT !.clients = clients].enable = ib[i].enable
               /\ [ib[i] EXCEPT !.clients = clients].clients = clients
    <2>1. ib[i] \in InboundRow
      BY <1>2 DEF InboundsType
    <2> HIDE DEF clients
    <2> QED BY <2>1 DEF InboundRow
  <1>3. \A e \in Emails : clients[e] = IF e \in E /\ ib[i].clients[e] # None
                                       THEN entry[e] ELSE ib[i].clients[e]
    OBVIOUS
  <1> HIDE DEF clients
  <1> QED BY <1>1, <1>2, <1>3

\* Billing changes traffic and expiries only.
LEMMA BillingAlike ==
    ASSUME stats \in StatsType, inbounds \in InboundsType, now \in Nat, NEW d \in Traffic,
           Fit(inbounds, stats)
    PROVE  Alike(inbounds, stats, AfterBilling(d).inbounds, AfterBilling(d).stats)
  <1> DEFINE E       == Starting(d)
             entry   == [e \in E |-> [inbounds[Home[e]].clients[e] EXCEPT
                                         !.expiry = Started(inbounds[Home[e]].clients[e], now)]]
             row(e)  == IF e \in E THEN [stats[e] EXCEPT !.expiry = entry[e].expiry] ELSE stats[e]
             counted == [i \in Inbounds |-> IF inbounds[i] = None THEN None
                                            ELSE [inbounds[i] EXCEPT !.used = @ + d.inbound[i]]]
  <1>1. /\ AfterBilling(d).inbounds = WithEntries(counted, E, entry)
        /\ AfterBilling(d).stats =
             [e \in Emails |-> IF stats[e] = None THEN None ELSE Billed(row(e), d.user[e])]
    BY DEF AfterBilling
  <1>2. ASSUME NEW e \in E
        PROVE  /\ InSettings(inbounds, e)
               /\ e \in Emails /\ Home[e] \in Inbounds
               /\ inbounds[Home[e]].clients[e] \in Entry
               /\ entry[e].enable = inbounds[Home[e]].clients[e].enable /\ entry[e] \in Entry
    <2>1. e \in Emails /\ InSettings(inbounds, e)
      BY DEF Starting, Keys, StatsType
    <2>2. Home[e] \in Inbounds /\ inbounds[Home[e]].clients[e] \in Entry
      BY <2>1, HomeType
    <2> QED BY <2>1, <2>2 DEF Entry, Started
  <1>3. counted \in InboundsType
    <2> SUFFICES ASSUME NEW i \in Inbounds, inbounds[i] # None
                 PROVE  [inbounds[i] EXCEPT !.used = @ + d.inbound[i]] \in InboundRow
      BY DEF InboundsType
    <2>1. inbounds[i] \in InboundRow /\ d.inbound[i] \in Nat
      BY DEF InboundsType, Traffic
    <2>2. inbounds[i].used + d.inbound[i] \in Nat
      BY <2>1 DEF InboundRow
    <2> QED BY <2>1, <2>2 DEF InboundRow
  <1>4. ASSUME NEW i \in Inbounds
        PROVE  /\ counted[i] = None <=> inbounds[i] = None
               /\ inbounds[i] # None => /\ counted[i].enable = inbounds[i].enable
                                        /\ counted[i].clients = inbounds[i].clients
    <2>1. CASE inbounds[i] = None
      BY <2>1
    <2>2. CASE inbounds[i] # None
      <3>1. inbounds[i] \in InboundRow
        BY <2>2 DEF InboundsType
      <3>2. counted[i] = [inbounds[i] EXCEPT !.used = @ + d.inbound[i]]
        BY <2>2
      <3>3. counted[i].enable = inbounds[i].enable /\ counted[i].clients = inbounds[i].clients
        BY <3>1, <3>2 DEF InboundRow
      <3>4. counted[i] \in InboundRow \cup {None}
        BY <1>3 DEF InboundsType
      <3>5. counted[i] # None
        <4>1. [inbounds[i] EXCEPT !.used = @ + d.inbound[i]] \in InboundRow
          <5>1. inbounds[i].used + d.inbound[i] \in Nat
            BY <3>1 DEF InboundRow, Traffic
          <5> QED BY <3>1, <5>1 DEF InboundRow
        <4> QED BY <3>2, <4>1, ConstantsAssumption DEF ConstantsAssumption
      <3> QED BY <2>2, <3>3, <3>5
    <2> QED BY <2>1, <2>2
  <1> HIDE DEF E, entry, row, counted
  <1>5. ASSUME NEW e \in Emails, stats[e] # None
        PROVE  /\ Billed(row(e), d.user[e]) # None
               /\ Billed(row(e), d.user[e]).enable = stats[e].enable
               /\ Billed(row(e), d.user[e]).reset = stats[e].reset
    <2>1. stats[e] \in Row /\ d.user[e] \in Nat
      BY <1>5 DEF StatsType, Traffic
    <2>2. row(e) \in Row /\ row(e).enable = stats[e].enable /\ row(e).reset = stats[e].reset
      <3>1. CASE e \in E
        <4>1. entry[e].expiry \in Int
          BY <1>2, <3>1 DEF Entry
        <4>2. row(e) = [stats[e] EXCEPT !.expiry = entry[e].expiry]
          BY <3>1 DEF row
        <4> QED BY <2>1, <4>1, <4>2 DEF Row
      <3>2. CASE e \notin E
        BY <2>1, <3>2 DEF row
      <3> QED BY <3>1, <3>2
    <2>3. Billed(row(e), d.user[e]) \in Row
      BY <2>1, <2>2, BilledType
    <2>4. /\ Billed(row(e), d.user[e]).enable = row(e).enable
          /\ Billed(row(e), d.user[e]).reset = row(e).reset
      BY <2>2 DEF Billed, Row
    <2> QED BY <2>2, <2>3, <2>4, NoneAssumption
  <1>6. ASSUME NEW i \in Inbounds, inbounds[i] # None
        PROVE  /\ WithEntries(counted, E, entry)[i] # None
               /\ WithEntries(counted, E, entry)[i].enable = inbounds[i].enable
    <2>1. entry \in [E -> Entry]
      <3>1. entry = [e \in E |-> entry[e]]
        BY DEF entry
      <3> QED BY <1>2, <3>1
    <2>2. WithEntries(counted, E, entry) \in InboundsType
      BY <1>3, <2>1, WithEntriesType
    <2>3. counted[i] # None
      BY <1>4, <1>6
    <2>4. WithEntries(counted, E, entry)[i] # None
      <3>1. counted[i] \in InboundRow
        BY <1>3, <2>3 DEF InboundsType
      <3>2. WithEntries(counted, E, entry)[i] \in InboundRow
        <4>1. [e \in Emails |-> IF e \in E /\ counted[i].clients[e] # None
                                THEN entry[e] ELSE counted[i].clients[e]]
                \in [Emails -> Entry \cup {None}]
          BY <2>1, <3>1 DEF InboundRow
        <4> QED BY <2>3, <3>1, <4>1 DEF WithEntries, InboundRow
      <3> QED BY <3>2, ConstantsAssumption DEF ConstantsAssumption
    <2> QED BY <1>3, <1>4, <1>6, <2>3, <2>4, WithEntriesAt
  <1>7. ASSUME NEW i \in Inbounds, inbounds[i] # None, NEW e \in Emails
        PROVE  /\ WithEntries(counted, E, entry)[i].clients[e] = None <=> inbounds[i].clients[e] = None
               /\ inbounds[i].clients[e] # None =>
                     WithEntries(counted, E, entry)[i].clients[e].enable = inbounds[i].clients[e].enable
    <2>1. counted[i] # None /\ counted[i].clients = inbounds[i].clients
      BY <1>4, <1>7
    <2>2. WithEntries(counted, E, entry)[i].clients[e] =
             IF e \in E /\ inbounds[i].clients[e] # None THEN entry[e] ELSE inbounds[i].clients[e]
      BY <1>3, <2>1, WithEntriesAt
    <2>3. CASE e \in E /\ inbounds[i].clients[e] # None
      <3>1. Home[e] = i
        BY <1>7, <2>3 DEF Fit
      <3>2. entry[e] # None /\ entry[e].enable = inbounds[i].clients[e].enable
        BY <1>2, <2>3, <3>1, NoneAssumption
      <3> QED BY <2>2, <2>3, <3>2
    <2>4. CASE ~(e \in E /\ inbounds[i].clients[e] # None)
      BY <2>2, <2>4
    <2> QED BY <2>3, <2>4
  <1>8. ASSUME NEW i \in Inbounds, inbounds[i] = None
        PROVE  WithEntries(counted, E, entry)[i] = None
    BY <1>3, <1>4, <1>8, WithEntriesAt
  <1>9. ASSUME NEW e \in Emails
        PROVE  /\ AfterBilling(d).stats[e] = None <=> stats[e] = None
               /\ stats[e] # None => /\ AfterBilling(d).stats[e].enable = stats[e].enable
                                     /\ AfterBilling(d).stats[e].reset = stats[e].reset
    BY <1>1, <1>5
  <1> QED BY <1>1, <1>6, <1>7, <1>8, <1>9 DEF Alike

\* Nobody is renewed.
LEMMA NoRenewals ==
    ASSUME NEW t \in Tables, Fit(t.inbounds, t.stats)
    PROVE  Renewed(t) = {} /\ AfterRenewals(t) = t
  <1>1. t.stats \in StatsType /\ t.inbounds \in InboundsType
    BY DEF Tables
  <1>2. RenewableIn(t.stats, now) = {}
    <2> SUFFICES ASSUME NEW e \in Keys(t.stats) PROVE ~Renewable(t.stats[e], now)
      BY DEF RenewableIn
    <2>1. t.stats[e].reset = 0
      BY <1>1 DEF Fit, Keys, StatsType
    <2> QED BY <2>1 DEF Renewable
  <1>3. Renewed(t) = {}
    BY <1>2 DEF Renewed
  <1>4. ASSUME NEW entry
        PROVE  WithEntries(t.inbounds, {}, entry) = t.inbounds
    <2>1. ASSUME NEW i \in Inbounds
          PROVE  WithEntries(t.inbounds, {}, entry)[i] = t.inbounds[i]
      <3>1. CASE t.inbounds[i] = None
        BY <3>1 DEF WithEntries
      <3>2. CASE t.inbounds[i] # None
        <4>1. t.inbounds[i] \in InboundRow
          BY <1>1, <3>2 DEF InboundsType
        <4>2. [e \in Emails |-> IF e \in {} /\ t.inbounds[i].clients[e] # None
                                THEN entry[e] ELSE t.inbounds[i].clients[e]]
                = t.inbounds[i].clients
          BY <4>1 DEF InboundRow
        <4>3. [t.inbounds[i] EXCEPT !.clients = t.inbounds[i].clients] = t.inbounds[i]
          BY <4>1 DEF InboundRow
        <4>4. WithEntries(t.inbounds, {}, entry)[i] =
                [t.inbounds[i] EXCEPT !.clients =
                   [e \in Emails |-> IF e \in {} /\ t.inbounds[i].clients[e] # None
                                     THEN entry[e] ELSE t.inbounds[i].clients[e]]]
          BY <3>2 DEF WithEntries
        <4> QED BY <4>2, <4>3, <4>4
      <3> QED BY <3>1, <3>2
    <2>2. WithEntries(t.inbounds, {}, entry) = [i \in Inbounds |-> WithEntries(t.inbounds, {}, entry)[i]]
      BY DEF WithEntries
    <2> QED BY <1>1, <2>1, <2>2 DEF InboundsType
  <1>5. AfterRenewal(t.stats, {}, now) = t.stats
    BY <1>1 DEF AfterRenewal, StatsType
  <1>6. AfterRenewals(t) = [stats |-> t.stats, inbounds |-> t.inbounds]
    BY <1>3, <1>4, <1>5 DEF AfterRenewals
  <1> QED BY <1>3, <1>6 DEF Tables

\* Disabling clients switches off their rows and their entries.
LEMMA DisablingAt ==
    ASSUME NEW t \in Tables, Fit(t.inbounds, t.stats)
    PROVE  LET u == AfterDisabling(t) IN
           /\ Fit(u.inbounds, u.stats)
           /\ \A i \in Inbounds :
                 /\ u.inbounds[i] = None <=> t.inbounds[i] = None
                 /\ t.inbounds[i] # None =>
                       /\ u.inbounds[i].enable = t.inbounds[i].enable
                       /\ \A e \in Emails :
                             On(u.inbounds[i], u.stats, e) <=>
                                On(t.inbounds[i], t.stats, e) /\ ~(e \in Disabled(t) /\ Home[e] = i)
  <1> DEFINE u     == AfterDisabling(t)
             E     == {e \in Disabled(t) : InSettings(t.inbounds, e)}
             entry == [e \in E |-> [t.inbounds[Home[e]].clients[e] EXCEPT !.enable = FALSE]]
  <1>1. t.stats \in StatsType /\ t.inbounds \in InboundsType
    BY DEF Tables
  <1>2. u.stats = AfterDisable(t.stats, now) /\ u.inbounds = WithEntries(t.inbounds, E, entry)
    BY DEF AfterDisabling
  <1>3. Disabled(t) = DepletedIn(t.stats, now) /\ E = DepletedIn(t.stats, now)
    <2>1. ASSUME NEW e \in DepletedIn(t.stats, now)
          PROVE  InSettings(t.inbounds, e)
      BY <1>1 DEF DepletedIn, Keys, StatsType, Fit
    <2> QED BY <2>1 DEF Disabled, InSettings
  <1>4. ASSUME NEW e \in E
        PROVE  /\ e \in Emails /\ InSettings(t.inbounds, e) /\ Home[e] \in Inbounds
               /\ t.stats[e] # None /\ t.stats[e] \in Row
               /\ entry[e] # None /\ ~entry[e].enable
    <2>1. e \in Emails /\ t.stats[e] # None
      BY <1>1, <1>3 DEF DepletedIn, Keys, StatsType
    <2>2. Home[e] \in Inbounds /\ t.inbounds[Home[e]].clients[e] \in Entry
      BY <1>1, <2>1, ConstantsAssumption
         DEF ConstantsAssumption, InboundsType, InboundRow, InSettings
    <2>3. entry[e] \in Entry /\ ~entry[e].enable
      BY <2>2 DEF Entry
    <2> QED BY <1>1, <2>1, <2>2, <2>3, NoneAssumption DEF StatsType
  <1> HIDE DEF u, E, entry
  <1>5. ASSUME NEW e \in Emails
        PROVE  /\ u.stats[e] = None <=> t.stats[e] = None
               /\ e \in E => u.stats[e] \in Row /\ ~u.stats[e].enable /\ u.stats[e].reset = t.stats[e].reset
               /\ e \notin E => u.stats[e] = t.stats[e]
    <2>1. u.stats[e] = IF e \in E THEN [t.stats[e] EXCEPT !.enable = FALSE] ELSE t.stats[e]
      BY <1>1, <1>2, <1>3 DEF AfterDisable, StatsType
    <2>2. CASE e \in E
      <3>1. u.stats[e] \in Row /\ ~u.stats[e].enable /\ u.stats[e].reset = t.stats[e].reset
        BY <1>4, <2>1, <2>2 DEF Row
      <3> QED BY <1>4, <2>2, <3>1, NoneAssumption
    <2>3. CASE e \notin E
      BY <2>1, <2>3
    <2> QED BY <2>2, <2>3
  <1>6. ASSUME NEW i \in Inbounds
        PROVE  /\ u.inbounds[i] = None <=> t.inbounds[i] = None
               /\ t.inbounds[i] # None =>
                     /\ u.inbounds[i].enable = t.inbounds[i].enable
                     /\ \A e \in Emails : u.inbounds[i].clients[e] =
                           IF e \in E /\ t.inbounds[i].clients[e] # None
                           THEN entry[e] ELSE t.inbounds[i].clients[e]
    <2>1. CASE t.inbounds[i] = None
      BY <1>1, <1>2, <2>1, WithEntriesAt
    <2>2. CASE t.inbounds[i] # None
      <3>1. t.inbounds[i] \in InboundRow
        BY <1>1, <2>2 DEF InboundsType
      <3>2. u \in Tables
        BY AfterDisablingType DEF u
      <3>3. u.inbounds[i] # None
        <4> DEFINE clients == [e \in Emails |-> IF e \in E /\ t.inbounds[i].clients[e] # None
                                                THEN entry[e] ELSE t.inbounds[i].clients[e]]
        <4>1. u.inbounds[i] = [t.inbounds[i] EXCEPT !.clients = clients]
          BY <1>2, <2>2 DEF WithEntries
        <4>2. ASSUME NEW e \in E PROVE entry[e] \in Entry
          <5>1. Home[e] \in Inbounds /\ t.inbounds[Home[e]].clients[e] \in Entry
            BY <1>1, <1>4, ConstantsAssumption
               DEF ConstantsAssumption, InboundsType, InboundRow, InSettings
          <5> QED BY <5>1 DEF entry, Entry
        <4>3. clients \in [Emails -> Entry \cup {None}]
          BY <3>1, <4>2 DEF InboundRow
        <4> HIDE DEF clients
        <4>4. u.inbounds[i] \in InboundRow
          BY <3>1, <4>1, <4>3 DEF InboundRow
        <4> QED BY <4>4, ConstantsAssumption DEF ConstantsAssumption
      <3> QED BY <1>1, <1>2, <2>2, <3>3, WithEntriesAt
    <2> QED BY <2>1, <2>2
  <1>7. ASSUME NEW i \in Inbounds, t.inbounds[i] # None, NEW e \in Emails
        PROVE  /\ u.inbounds[i].clients[e] = None <=> t.inbounds[i].clients[e] = None
               /\ e \in E => ~On(u.inbounds[i], u.stats, e)
               /\ e \notin E => (On(u.inbounds[i], u.stats, e) <=> On(t.inbounds[i], t.stats, e))
    <2>1. u.inbounds[i].clients[e] =
             IF e \in E /\ t.inbounds[i].clients[e] # None
             THEN entry[e] ELSE t.inbounds[i].clients[e]
      BY <1>6, <1>7
    <2>2. CASE e \in E
      BY <1>4, <2>1, <2>2 DEF On
    <2>3. CASE e \notin E
      <3>1. u.inbounds[i].clients[e] = t.inbounds[i].clients[e] /\ u.stats[e] = t.stats[e]
        BY <1>5, <2>1, <2>3
      <3> QED BY <2>3, <3>1 DEF On
    <2> QED BY <2>2, <2>3
  <1>8. ASSUME NEW i \in Inbounds, t.inbounds[i] # None, NEW e \in Emails
        PROVE  On(u.inbounds[i], u.stats, e) <=>
                  On(t.inbounds[i], t.stats, e) /\ ~(e \in Disabled(t) /\ Home[e] = i)
    <2>1. CASE e \in E
      <3>1. On(t.inbounds[i], t.stats, e) => Home[e] = i
        BY <1>8 DEF On, Fit
      <3> QED BY <1>3, <1>7, <1>8, <2>1, <3>1
    <2>2. CASE e \notin E
      BY <1>3, <1>7, <1>8, <2>2
    <2> QED BY <2>1, <2>2
  <1>9. Fit(u.inbounds, u.stats)
    <2>1. ASSUME NEW i \in Inbounds, u.inbounds[i] # None, NEW e \in Emails,
                 u.inbounds[i].clients[e] # None
          PROVE  Home[e] = i
      BY <1>6, <1>7, <2>1 DEF Fit
    <2>2. ASSUME NEW e \in Emails, u.stats[e] # None
          PROVE  /\ InSettings(u.inbounds, e)
                 /\ u.inbounds[Home[e]].clients[e].enable => u.stats[e].enable
                 /\ u.stats[e].reset = 0
      <3>1. Home[e] \in Inbounds
        BY ConstantsAssumption DEF ConstantsAssumption
      <3>2. /\ t.stats[e] # None /\ t.stats[e].reset = 0 /\ InSettings(t.inbounds, e)
            /\ t.inbounds[Home[e]].clients[e].enable => t.stats[e].enable
        BY <1>5, <2>2 DEF Fit
      <3>3. InSettings(u.inbounds, e)
        BY <1>6, <1>7, <3>1, <3>2 DEF InSettings
      <3>4. CASE e \in E
        <4>1. u.inbounds[Home[e]].clients[e] = entry[e]
          BY <1>6, <3>1, <3>2, <3>4 DEF InSettings
        <4> QED BY <1>4, <1>5, <3>2, <3>3, <3>4, <4>1
      <3>5. CASE e \notin E
        <4>1. u.inbounds[Home[e]].clients[e] = t.inbounds[Home[e]].clients[e]
          BY <1>6, <3>1, <3>2, <3>5 DEF InSettings
        <4> QED BY <1>5, <3>2, <3>3, <3>5, <4>1
      <3> QED BY <3>4, <3>5
    <2> QED BY <2>1, <2>2 DEF Fit
  <1> QED BY <1>6, <1>8, <1>9 DEF u

\* Disabling inbounds switches them off.
LEMMA ClosingAt ==
    ASSUME NEW t \in Tables, Fit(t.inbounds, t.stats)
    PROVE  LET u == AfterClosing(t) IN
           /\ Fit(u.inbounds, u.stats)
           /\ u.stats = t.stats
           /\ \A i \in Inbounds :
                 /\ u.inbounds[i] = None <=> t.inbounds[i] = None
                 /\ t.inbounds[i] # None =>
                       /\ u.inbounds[i].enable <=> t.inbounds[i].enable /\ i \notin Spent(t)
                       /\ u.inbounds[i].clients = t.inbounds[i].clients
  <1> DEFINE u == AfterClosing(t)
  <1>1. t.stats \in StatsType /\ t.inbounds \in InboundsType
    BY DEF Tables
  <1>2. /\ u.stats = t.stats
        /\ u.inbounds = [i \in Inbounds |-> IF i \in Spent(t)
                                           THEN [t.inbounds[i] EXCEPT !.enable = FALSE]
                                           ELSE t.inbounds[i]]
    BY DEF AfterClosing, Tables
  <1> HIDE DEF u
  <1>3. ASSUME NEW i \in Inbounds
        PROVE  /\ u.inbounds[i] = None <=> t.inbounds[i] = None
               /\ t.inbounds[i] # None =>
                     /\ u.inbounds[i].enable <=> t.inbounds[i].enable /\ i \notin Spent(t)
                     /\ u.inbounds[i].clients = t.inbounds[i].clients
    <2>1. CASE i \in Spent(t)
      <3>1. t.inbounds[i] # None /\ t.inbounds[i] \in InboundRow
        BY <1>1, <2>1 DEF Spent, Keys, InboundsType
      <3>2. u.inbounds[i] = [t.inbounds[i] EXCEPT !.enable = FALSE]
        BY <1>2, <2>1
      <3>3. /\ u.inbounds[i] \in InboundRow /\ ~u.inbounds[i].enable
            /\ u.inbounds[i].clients = t.inbounds[i].clients
        BY <3>1, <3>2 DEF InboundRow
      <3>4. u.inbounds[i] # None
        BY <3>3, ConstantsAssumption DEF ConstantsAssumption
      <3> QED BY <2>1, <3>1, <3>3, <3>4
    <2>2. CASE i \notin Spent(t)
      <3>1. u.inbounds[i] = t.inbounds[i]
        BY <1>2, <2>2
      <3> QED BY <2>2, <3>1
    <2> QED BY <2>1, <2>2
  <1>4. ASSUME NEW e \in Emails, u.stats[e] # None
        PROVE  /\ InSettings(u.inbounds, e)
               /\ u.inbounds[Home[e]].clients[e].enable => u.stats[e].enable
               /\ u.stats[e].reset = 0
    <2>1. Home[e] \in Inbounds
      BY ConstantsAssumption DEF ConstantsAssumption
    <2>2. /\ InSettings(t.inbounds, e) /\ t.stats[e].reset = 0
          /\ t.inbounds[Home[e]].clients[e].enable => t.stats[e].enable
      BY <1>2, <1>4 DEF Fit
    <2>3. u.inbounds[Home[e]] # None /\ u.inbounds[Home[e]].clients = t.inbounds[Home[e]].clients
      BY <1>3, <2>1, <2>2 DEF InSettings
    <2> QED BY <1>2, <2>2, <2>3 DEF InSettings
  <1>5. Fit(u.inbounds, u.stats)
    <2>1. ASSUME NEW i \in Inbounds, u.inbounds[i] # None, NEW e \in Emails,
                 u.inbounds[i].clients[e] # None
          PROVE  Home[e] = i
      BY <1>3, <2>1 DEF Fit
    <2> QED BY <1>4, <2>1 DEF Fit
  <1> QED BY <1>2, <1>3, <1>5 DEF u

\* A call that is refused changes nothing; with the API up, none is.
LEMMA NoneFails ==
    ASSUME Steady, proc.state = "up", NEW C, NEW F \in Failing(C)
    PROVE  F = {}
  BY DEF Failing, Steady

LEMMA AllFail ==
    ASSUME proc.state # "up", NEW C, NEW F \in Failing(C)
    PROVE  F = C
  <1>1. Failing(C) = {C}
    BY DEF Failing
  <1> QED BY <1>1

LEMMA RefusedCalls ==
    ASSUME NEW live \in Config, NEW E, NEW F
    PROVE  /\ AfterAddUsers(live, {}, F) = live /\ AfterDropUsers(live, {}, F) = live
           /\ AfterAddUsers(live, E, E) = live /\ AfterDropUsers(live, E, E) = live
  <1>1. {e \in {} \ F : ByApi(e)} = {} /\ {e \in E \ E : ByApi(e)} = {}
    OBVIOUS
  <1>2. AddUsers(live, {}) = live
    <2>1. AddUsers(live, {}) \in Config
      BY DEF AddUsers, Config
    <2>2. ASSUME NEW j \in Inbounds PROVE AddUsers(live, {})[j] = live[j]
      BY DEF AddUsers, Config
    <2> QED BY <2>1, <2>2, ConfigsEqual
  <1>3. DropUsers(live, {}) = live
    <2>1. DropUsers(live, {}) \in Config
      BY DEF DropUsers, Config
    <2>2. ASSUME NEW j \in Inbounds PROVE DropUsers(live, {})[j] = live[j]
      BY DEF DropUsers, Config
    <2> QED BY <2>1, <2>2, ConfigsEqual
  <1> QED BY <1>1, <1>2, <1>3 DEF AfterAddUsers, AfterDropUsers

\* The clients of inbound i among E.
Among(E, i) == {e \in E : Home[e] = i}

\* AddUser and RemoveUser, when no call fails and every inbound takes them.
LEMMA AddedAt ==
    ASSUME Steady, NEW live \in Config, NEW E \in SUBSET Emails, NEW i \in Inbounds
    PROVE  AfterAddUsers(live, E, {})[i] =
              IF live[i] = None THEN None ELSE live[i] \cup Among(E, i)
  <1>1. {e \in E \ {} : ByApi(e)} = E
    BY ConstantsAssumption DEF Steady, ByApi, ConstantsAssumption
  <1> QED BY <1>1 DEF AfterAddUsers, AddUsers, Among

LEMMA DroppedAt ==
    ASSUME Steady, NEW live \in Config, NEW E \in SUBSET Emails, NEW i \in Inbounds
    PROVE  AfterDropUsers(live, E, {})[i] =
              IF live[i] = None THEN None ELSE live[i] \ Among(E, i)
  <1>1. {e \in E \ {} : ByApi(e)} = E
    BY ConstantsAssumption DEF Steady, ByApi, ConstantsAssumption
  <1> QED BY <1>1 DEF AfterDropUsers, DropUsers, Among

\* AddTraffic keeps the tables fit, and Xray in step if it was and is up;
\* with Xray not up it leaves the process alone.
LEMMA AddTrafficInStep ==
    ASSUME Steady, stats \in StatsType, inbounds \in InboundsType, proc \in ProcType, now \in Nat,
           NEW d \in Traffic, NEW n, NEW c, AddTraffic(d, n, c), Fit(inbounds, stats)
    PROVE  /\ Fit(inbounds', stats')
           /\ proc'.state = proc.state /\ proc'.cfg = proc.cfg
           /\ proc.state # "up" => proc' = proc
           /\ proc.state = "up" /\ proc.live = Wanted => proc'.live = GetXrayConfig(inbounds', stats')
  <1> DEFINE t1 == AfterBilling(d)
             t2 == AfterRenewals(t1)
             t3 == AfterDisabling(t2)
             t4 == AfterClosing(t3)
  <1>1. t1 \in Tables /\ t2 \in Tables /\ t3 \in Tables /\ t4 \in Tables
    BY AfterBillingType, AfterRenewalsType, AfterDisablingType, AfterClosingType
  <1>2. CommitTraffic(t1, t2, t3, t4, n, c)
    BY AddTrafficSteps, Zenon
  <1>3. Alike(inbounds, stats, t1.inbounds, t1.stats) /\ Fit(t1.inbounds, t1.stats)
    BY BillingAlike, AlikeFit, Zenon
  <1>4. Renewed(t1) = {} /\ t2 = t1
    BY <1>1, <1>3, NoRenewals
  <1> HIDE DEF t1, t2, t3, t4
  <1>5. /\ Fit(t3.inbounds, t3.stats)
        /\ \A i \in Inbounds :
              /\ t3.inbounds[i] = None <=> t1.inbounds[i] = None
              /\ t1.inbounds[i] # None =>
                    /\ t3.inbounds[i].enable = t1.inbounds[i].enable
                    /\ \A e \in Emails :
                          On(t3.inbounds[i], t3.stats, e) <=>
                             On(t1.inbounds[i], t1.stats, e) /\ ~(e \in Disabled(t2) /\ Home[e] = i)
    BY <1>1, <1>3, <1>4, DisablingAt DEF t3
  <1>6. /\ Fit(t4.inbounds, t4.stats) /\ t4.stats = t3.stats
        /\ \A i \in Inbounds :
              /\ t4.inbounds[i] = None <=> t3.inbounds[i] = None
              /\ t3.inbounds[i] # None =>
                    /\ t4.inbounds[i].enable <=> t3.inbounds[i].enable /\ i \notin Spent(t3)
                    /\ t4.inbounds[i].clients = t3.inbounds[i].clients
    BY <1>1, <1>5, ClosingAt DEF t4
  <1>7. stats' = t4.stats /\ inbounds' = t4.inbounds
    BY <1>2 DEF CommitTraffic
  <1> DEFINE adds  == {e \in Renewed(t1) : ~t1.stats[e].enable}
             drops == Disabled(t2)
             dels  == Spent(t3)
  <1>8. PICK FA \in Failing(adds), FD \in Failing(drops), FI \in Failing(dels) :
          proc' = IF NoApi THEN proc
                  ELSE [proc EXCEPT !.live = LiveInbounds(adds, FA, drops, FD, dels, FI)]
    BY <1>2, Zenon DEF CommitTraffic
  <1>9. adds = {} /\ drops \in SUBSET Emails
    BY <1>1, <1>4 DEF Disabled, DepletedIn, Keys, Tables, StatsType
  <1> HIDE DEF adds, drops, dels
  <1>10. proc.live \in Config
    BY DEF ProcType
  <1>11. ASSUME proc.state # "up"
         PROVE  proc' = proc
    <2>1. FD = drops /\ FI = dels
      BY <1>8, <1>11, AllFail
    <2>2. LiveUsers(adds, FA, drops, FD) = proc.live
      BY <1>9, <1>10, <2>1, RefusedCalls DEF LiveUsers
    <2>3. LiveInbounds(adds, FA, drops, FD, dels, FI) = proc.live
      BY <1>10, <2>1, <2>2 DEF LiveInbounds, Config
    <2>4. [proc EXCEPT !.live = proc.live] = proc
      BY DEF ProcType
    <2> QED BY <1>8, <2>3, <2>4
  <1>12. ASSUME proc.state = "up", proc.live = Wanted
         PROVE  proc'.live = GetXrayConfig(inbounds', stats')
    <2>1. FA = {} /\ FD = {} /\ FI = {}
      BY <1>8, <1>12, NoneFails
    <2>2. ~NoApi
      BY <1>12 DEF NoApi, NoPort
    <2>3. proc'.live = LiveInbounds(adds, FA, drops, FD, dels, FI)
      BY <1>8, <2>2 DEF ProcType
    <2>4. LiveUsers(adds, FA, drops, FD) = AfterDropUsers(proc.live, drops, {})
      BY <1>9, <1>10, <2>1, RefusedCalls DEF LiveUsers
    <2>5. proc.live = GetXrayConfig(t1.inbounds, t1.stats)
      BY <1>1, <1>3, <1>12, AlikeConfig DEF Wanted, Tables
    <2>6. ASSUME NEW i \in Inbounds
          PROVE  proc'.live[i] = GetXrayConfig(t4.inbounds, t4.stats)[i]
      <3>1. proc'.live[i] = IF i \in dels THEN None ELSE AfterDropUsers(proc.live, drops, {})[i]
        BY <2>1, <2>3, <2>4 DEF LiveInbounds
      <3>2. proc.live[i] = IF t1.inbounds[i] # None /\ t1.inbounds[i].enable
                           THEN {e \in Emails : On(t1.inbounds[i], t1.stats, e)} ELSE None
        BY <1>1, <2>5, ConfigAt DEF Tables
      <3>3. GetXrayConfig(t4.inbounds, t4.stats)[i] =
               IF t4.inbounds[i] # None /\ t4.inbounds[i].enable
               THEN {e \in Emails : On(t4.inbounds[i], t4.stats, e)} ELSE None
        BY <1>1, ConfigAt DEF Tables
      <3>4. AfterDropUsers(proc.live, drops, {})[i] =
               IF proc.live[i] = None THEN None ELSE proc.live[i] \ Among(drops, i)
        BY <1>9, <1>10, DroppedAt
      <3>5. CASE t1.inbounds[i] = None \/ ~t1.inbounds[i].enable
        <4>1. proc'.live[i] = None
          BY <3>1, <3>2, <3>4, <3>5
        <4>2. t4.inbounds[i] = None \/ ~t4.inbounds[i].enable
          BY <1>5, <1>6, <3>5
        <4> QED BY <3>3, <4>1, <4>2
      <3>6. CASE t1.inbounds[i] # None /\ t1.inbounds[i].enable /\ i \in dels
        BY <1>5, <1>6, <3>1, <3>3, <3>6 DEF dels
      <3>7. CASE t1.inbounds[i] # None /\ t1.inbounds[i].enable /\ i \notin dels
        <4>1. proc.live[i] = {e \in Emails : On(t1.inbounds[i], t1.stats, e)} /\ proc.live[i] # None
          <5>1. proc.live[i] = {e \in Emails : On(t1.inbounds[i], t1.stats, e)}
            BY <3>2, <3>7
          <5>2. proc.live[i] \in SUBSET Emails
            BY <5>1
          <5> QED BY <5>1, <5>2, ConstantsAssumption DEF ConstantsAssumption
        <4>2. proc'.live[i] =
                 {e \in Emails : On(t1.inbounds[i], t1.stats, e)} \ Among(drops, i)
          BY <3>1, <3>4, <3>7, <4>1
        <4>3. t4.inbounds[i] # None /\ t4.inbounds[i].enable
          BY <1>5, <1>6, <3>7 DEF dels
        <4>4. GetXrayConfig(t4.inbounds, t4.stats)[i] =
                 {e \in Emails : On(t4.inbounds[i], t4.stats, e)}
          BY <3>3, <4>3
        <4>5. ASSUME NEW e \in Emails
              PROVE  On(t4.inbounds[i], t4.stats, e) <=>
                        On(t1.inbounds[i], t1.stats, e) /\ ~(e \in drops /\ Home[e] = i)
          <5>1. On(t4.inbounds[i], t4.stats, e) <=> On(t3.inbounds[i], t3.stats, e)
            BY <1>5, <1>6, <3>7 DEF On
          <5> QED BY <1>5, <3>7, <5>1 DEF drops
        <4> QED BY <4>2, <4>4, <4>5 DEF Among
      <3> QED BY <3>5, <3>6, <3>7
    <2>7. proc'.live \in Config
      <3>1. LiveUsers(adds, FA, drops, FD) \in Config
        BY <1>9, <1>10, <2>4, UsersType
      <3> QED BY <2>3, <3>1 DEF LiveInbounds, Config
    <2>8. GetXrayConfig(t4.inbounds, t4.stats) \in Config
      BY <1>1, ConfigType DEF Tables
    <2> QED BY <1>7, <2>6, <2>7, <2>8, ConfigsEqual
  <1>13. proc'.state = proc.state /\ proc'.cfg = proc.cfg
    BY <1>8 DEF ProcType
  <1> QED BY <1>6, <1>7, <1>11, <1>12, <1>13

\* So does what is left of it after a panic.
LEMMA PanicTrafficFit ==
    ASSUME TypeOK, NEW d \in Traffic, PanicTraffic(d), Fit(inbounds, stats)
    PROVE  Fit(inbounds', stats')
  <1> DEFINE t1 == AfterBilling(d)
             t2 == AfterRenewals(t1)
             t3 == AfterDisabling(t2)
  <1>1. t1 \in Tables /\ t2 \in Tables /\ t3 \in Tables
    BY AfterBillingType, AfterRenewalsType, AfterDisablingType DEF TypeOK, StatsType, InboundsType
  <1>2. Fit(t1.inbounds, t1.stats)
    BY BillingAlike, AlikeFit, Zenon DEF TypeOK, StatsType, InboundsType
  <1>3. t2 = t1
    BY <1>1, <1>2, NoRenewals
  <1>4. Fit(t3.inbounds, t3.stats)
    BY <1>1, <1>2, <1>3, DisablingAt
  <1> HIDE DEF t1, t3
  <1>5. PICK kept \in {t2, t3} : stats' = kept.stats /\ inbounds' = kept.inbounds
    BY Zenon DEF PanicTraffic, t1, t3
  <1> QED BY <1>2, <1>3, <1>4, <1>5

-----------------------------------------------------------------------------
(* The invariant.                                                          *)

\* The row of inbound i with the entry of e replaced.
Edits(row, i, e, c) ==
    /\ row.enable = inbounds[i].enable
    /\ row.clients = [inbounds[i].clients EXCEPT ![e] = c]

\* What a request under way has read still is what the tables hold, but for
\* the traffic and for rows of stats that a reset has enabled.
Request(o) ==
    /\ o.kind = "AddClient" =>
          /\ inbounds[o.id] # None /\ o.id = Home[o.email] /\ ~InSettings(inbounds, o.email)
          /\ Edits(o.row, o.id, o.email, o.entry) /\ o.entry.reset = 0
    /\ o.kind = "UpdateClient" =>
          /\ InSettings(inbounds, o.email) /\ o.id = Home[o.email]
          /\ o.old = inbounds[o.id].clients[o.email]
          /\ Edits(o.row, o.id, o.email, o.entry) /\ o.entry.reset = 0
    /\ o.kind = "DelClient" =>
          /\ InSettings(inbounds, o.email) /\ o.id = Home[o.email]
          /\ o.api = inbounds[o.id].clients[o.email].enable
          /\ Edits(o.row, o.id, o.email, None)
    /\ o.kind = "SaveDelClient" =>
          /\ inbounds[o.id] # None
          /\ \E e \in Emails : Home[e] = o.id /\ stats[e] = None /\ Edits(o.row, o.id, e, None)
    /\ o.kind = "ResetClient" =>
          /\ stats[o.email] # None /\ o.row.reset = 0
          /\ inbounds[Home[o.email]].clients[o.email].enable => o.row.enable
    /\ o.kind = "DelInbound" => inbounds[o.id] # None /\ ~HasStats(o.id)
    /\ o.kind \in {"SetInboundEnable", "SyncInbound", "UpdateInbound"} =>
          inbounds[o.id] # None /\ o.row.clients = inbounds[o.id].clients
    /\ o.kind = "SyncInbound" => o.enable = inbounds[o.id].enable

RequestsFit == \A a \in Admins : op[a] # NoOp => Request(op[a])

\* What Xray serves between the steps of a request: DelInboundClient and
\* DelInbound alter Xray before they save, SetInboundEnable after.
Follows(o) ==
    /\ o.kind = "SaveDelClient" =>
          proc.live = GetXrayConfig([inbounds EXCEPT ![o.id] = o.row], stats)
    /\ o.kind = "DelInbound" =>
          proc.live = GetXrayConfig([inbounds EXCEPT ![o.id] = None], stats)
    /\ o.kind = "SyncInbound" => \A i \in Inbounds \ {o.id} : proc.live[i] = Wanted[i]
    /\ o.kind \notin {"SaveDelClient", "DelInbound", "SyncInbound"} => proc.live = Wanted

Quiet == \A a \in Admins : op[a] = NoOp

\* What Xray serves, when no restart is about to replace it.
ServesFit ==
    /\ Quiet /\ restart.pc \in {"idle", "done"} /\ proc.state \in {"booting", "up"}
          => proc.live = Wanted
    /\ \A a \in Admins : op[a] # NoOp /\ proc.state = "up" => Follows(op[a])

\* A restart, between its steps.  While Xray boots, and when a restart begins,
\* Xray serves what it was started with.
RestartFits ==
    /\ proc.state \in {"starting", "booting"} => proc.live = proc.cfg
    /\ proc.state = "starting" <=> restart.pc = "start"
    /\ restart.pc = "failed" => proc.state = "failed"
    /\ job.pc \in {"bill", "restart"} => proc.state \in {"up", "down"}
    /\ restart.pc = "read" /\ proc.state \in {"booting", "up"}
          => proc.live = Wanted \/ proc.live = proc.cfg
    /\ restart.pc = "swap" => restart.cfg = Wanted
    /\ restart.pc = "start" => proc.live = Wanted

Following ==
    /\ TypeOK /\ JobWaits /\ OneAtATime
    /\ Fit(inbounds, stats)
    /\ RequestsFit /\ RestartFits /\ ServesFit

\* A request under way is alone.
LEMMA RequestAlone ==
    ASSUME Following, NEW a \in Admins, op[a] # NoOp
    PROVE  /\ restart.pc = "idle" /\ job.pc = "idle" /\ waiting = {}
           /\ proc.state \in {"up", "down"}
           /\ \A b \in Admins \ {a} : op[b] = NoOp
  <1>1. job.pc = "idle" /\ ~RestartUnderWay /\ \A b \in Admins \ {a} : op[b] = NoOp
    BY DEF Following, OneAtATime
  <1>2. restart.pc = "idle" /\ waiting = {}
    BY <1>1 DEF RestartUnderWay, Following, JobWaits
  <1>3. proc.state \notin {"none", "booting", "failed"}
    BY <1>1 DEF RestartUnderWay
  <1>4. proc.state # "starting"
    BY <1>2 DEF Following, RestartFits
  <1>5. proc.state \in {"none", "starting", "booting", "up", "down", "failed"}
    BY DEF Following, TypeOK
  <1> QED BY <1>1, <1>2, <1>3, <1>4, <1>5

LEMMA OthersQuiet ==
    ASSUME Following,
           \/ restart.pc # "idle" \/ job.pc # "idle" \/ waiting # {}
           \/ proc.state \notin {"up", "down"}
    PROVE  Quiet
  BY RequestAlone DEF Quiet

\* A restart meets the traffic job only when the job has asked for it.
LEMMA RestartJob ==
    ASSUME Following, restart.pc # "idle"
    PROVE  job.pc \in {"idle", "wait"}
  BY DEF Following, JobWaits, OneAtATime, RestartUnderWay

-----------------------------------------------------------------------------
(* The steps that leave the tables and the requests alone.                 *)

\* What steps on the tables and on the requests have to show.
Fits == Fit(inbounds, stats) /\ RequestsFit /\ RestartFits /\ ServesFit

LEMMA SameTables ==
    ASSUME Following, UNCHANGED <<inbounds, stats, op>>
    PROVE  /\ Wanted' = Wanted /\ (Quiet' <=> Quiet)
           /\ Fit(inbounds, stats)' /\ RequestsFit'
  <1>1. Wanted' = Wanted
    BY DEF Wanted
  <1>2. Quiet' <=> Quiet
    BY DEF Quiet
  <1>3. Fit(inbounds, stats)'
    BY DEF Following
  <1>4. RequestsFit'
    <2>1. inbounds' = inbounds /\ stats' = stats /\ op' = op
      OBVIOUS
    <2>2. ASSUME NEW a \in Admins, Request(op[a])
          PROVE  Request(op[a])'
      <3>1. ASSUME NEW row, NEW i, NEW e, NEW c PROVE Edits(row, i, e, c)' <=> Edits(row, i, e, c)
        BY <2>1 DEF Edits
      <3>2. ASSUME NEW e PROVE InSettings(inbounds, e)' <=> InSettings(inbounds, e)
        BY <2>1 DEF InSettings
      <3>3. ASSUME NEW i PROVE HasStats(i)' <=> HasStats(i)
        BY <2>1 DEF HasStats
      <3> QED BY <2>1, <2>2, <3>1, <3>2, <3>3 DEF Request
    <2> QED BY <2>1, <2>2 DEF Following, RequestsFit
  <1> QED BY <1>1, <1>2, <1>3, <1>4

\* If they leave alone what Xray serves as well, little has to be shown.
LEMMA SameServed ==
    ASSUME Following, UNCHANGED <<inbounds, stats, op>>, proc'.live = proc.live,
           proc'.state = "up" => proc.state \in {"booting", "up"},
           RestartFits',
           /\ Quiet /\ restart'.pc \in {"idle", "done"} /\ proc'.state \in {"booting", "up"}
                => proc.live = Wanted
    PROVE  Fits'
  <1>1. /\ Wanted' = Wanted /\ (Quiet' <=> Quiet)
        /\ Fit(inbounds, stats)' /\ RequestsFit'
    BY SameTables
  <1>2. ASSUME NEW a \in Admins, op'[a] # NoOp, proc'.state = "up"
        PROVE  Follows(op[a])'
    <2>1. op[a] # NoOp /\ op'[a] = op[a]
      BY <1>2
    <2>2. proc.state = "up"
      BY <1>2, <2>1, RequestAlone
    <2>3. Follows(op[a])
      BY <2>1, <2>2 DEF Following, ServesFit
    <2> QED BY <1>1, <2>1, <2>3 DEF Follows
  <1>3. ServesFit'
    BY <1>1, <1>2 DEF ServesFit
  <1> QED BY <1>1, <1>3 DEF Fits

LEMMA RestartStepsFit ==
    ASSUME Following, RestartSteps \/ RestartFails
    PROVE  Fits'
  <1> USE DEF db, runtime, flags, bounds
  <1>1. Quiet
    BY OthersQuiet DEF RestartSteps, RestartFails, RestartRead, RestartSwap, RestartStarted,
       LeaveRestart
  <1>2. /\ restart \in [pc: {"idle", "read", "swap", "start", "done", "failed"}, by: Callers,
                        force: BOOLEAN, cfg: Config]
        /\ proc \in ProcType
    BY DEF Following, TypeOK, ProcType
  <1>3. CASE RestartRead
    <2>1. UNCHANGED <<inbounds, stats, op, proc, job>> /\ restart.pc = "read"
      BY <1>3 DEF RestartRead
    <2>2. Wanted' = Wanted
      BY <2>1 DEF Wanted
    <2>3. CASE Unchanged(Wanted)
      <3>1. restart'.pc = "done"
        BY <1>2, <1>3, <2>3 DEF RestartRead, Wanted
      <3>2. proc.state \in {"booting", "up"} /\ proc.cfg = Wanted
        BY <2>1, <2>3 DEF Unchanged, Running, Following, RestartFits
      <3>3. proc.live = Wanted
        BY <2>1, <3>2 DEF Following, RestartFits
      <3>4. RestartFits'
        BY <2>1, <2>2, <3>1, <3>2 DEF Following, RestartFits
      <3> QED BY <2>1, <3>3, <3>4, SameServed
    <2>4. CASE ~Unchanged(Wanted)
      <3>1. restart'.pc = "swap" /\ restart'.cfg = Wanted
        BY <1>2, <1>3, <2>4 DEF RestartRead, Wanted
      <3>2. RestartFits'
        BY <2>1, <2>2, <3>1 DEF Following, RestartFits
      <3> QED BY <2>1, <3>1, <3>2, SameServed
    <2> QED BY <2>3, <2>4
  <1>4. CASE RestartSwap
    <2>1. /\ UNCHANGED <<inbounds, stats, op, job>> /\ restart.pc = "swap" /\ restart'.pc = "start"
          /\ proc'.state = "starting" /\ proc'.live = restart.cfg /\ proc'.cfg = restart.cfg
      BY <1>2, <1>4 DEF RestartSwap
    <2>2. Wanted' = Wanted /\ Quiet' /\ Fit(inbounds, stats)' /\ RequestsFit'
      BY <1>1, <2>1, SameTables
    <2>3. restart.cfg = Wanted
      BY <2>1 DEF Following, RestartFits
    <2>4. job'.pc \in {"idle", "wait"}
      BY <2>1, RestartJob
    <2>5. RestartFits'
      BY <2>1, <2>2, <2>3, <2>4 DEF RestartFits
    <2>6. ServesFit'
      BY <2>1, <2>2 DEF ServesFit, Quiet
    <2> QED BY <2>2, <2>5, <2>6 DEF Fits
  <1>5. CASE RestartStarted
    <2>1. /\ UNCHANGED <<inbounds, stats, op, job>> /\ restart.pc = "start" /\ restart'.pc = "done"
          /\ proc'.state = "booting" /\ proc'.live = proc.live /\ proc'.cfg = proc.cfg
      BY <1>2, <1>5 DEF RestartStarted, ProcType
    <2>2. proc.live = Wanted /\ proc.live = proc.cfg /\ job'.pc \in {"idle", "wait"}
      BY <2>1, RestartJob DEF Following, RestartFits
    <2>3. RestartFits'
      BY <2>1, <2>2 DEF RestartFits
    <2> QED BY <2>1, <2>2, <2>3, SameServed
  <1>6. CASE RestartFails
    <2>1. /\ UNCHANGED <<inbounds, stats, op, job>> /\ restart.pc = "start" /\ restart'.pc = "failed"
          /\ proc'.state = "failed" /\ proc'.live = proc.live
      BY <1>2, <1>6 DEF RestartFails, ProcType
    <2>2. job'.pc \in {"idle", "wait"}
      BY <2>1, RestartJob
    <2>3. RestartFits'
      BY <2>1, <2>2 DEF RestartFits
    <2> QED BY <2>1, <2>3, SameServed
  <1>7. CASE LeaveRestart
    <2>1. /\ UNCHANGED <<inbounds, stats, op, proc>>
          /\ restart.pc \in {"done", "failed"} /\ restart'.pc = "idle"
      BY <1>7 DEF LeaveRestart, Idle
    <2>2. job'.pc \in {"idle", "wait", "flag"}
      <3>1. job.pc \in {"idle", "wait"}
        BY <2>1, RestartJob
      <3>2. job' = [job EXCEPT !.pc = "flag"] \/ job' = job
        BY <1>7 DEF LeaveRestart
      <3>3. job \in [pc: {"idle", "bill", "restart", "wait", "flag"}, need: BOOLEAN,
                     traffic: Traffic]
        BY DEF Following, TypeOK
      <3>4. [job EXCEPT !.pc = "flag"].pc = "flag"
        BY <3>3
      <3> QED BY <3>1, <3>2, <3>4
    <2>3. RestartFits'
      BY <2>1, <2>2 DEF RestartFits, Following
    <2>4. proc.state \in {"booting", "up"} => proc.live = Wanted
      BY <1>1, <2>1 DEF Following, RestartFits, ServesFit
    <2> QED BY <2>1, <2>3, <2>4, SameServed
  <1> QED BY <1>3, <1>4, <1>5, <1>6, <1>7 DEF RestartSteps

LEMMA SurroundingsFit ==
    ASSUME Following,
           \/ RestartCheck \/ CheckXrayRunning \/ StopXrayService \/ XrayCrashes \/ XrayAnswers
           \/ TimePasses \/ (\E e \in Emails : ClientUses(e)) \/ JobFetch \/ JobFlag
    PROVE  Fits'
  <1> USE DEF db, runtime, flags, bounds
  <1>1. proc \in ProcType
    BY DEF Following, TypeOK, ProcType
  <1>2. ASSUME UNCHANGED <<inbounds, stats, op, proc, restart>>, job'.pc \in {job.pc, "idle", "bill"},
               job'.pc = "bill" => job.pc = "bill" \/ proc.state = "up"
        PROVE  Fits'
    <2>1. Wanted' = Wanted
      BY <1>2 DEF Wanted
    <2>2. RestartFits'
      BY <1>2, <2>1 DEF Following, RestartFits
    <2>3. Quiet /\ restart'.pc \in {"idle", "done"} /\ proc'.state \in {"booting", "up"}
             => proc.live = Wanted
      BY <1>2 DEF Following, ServesFit
    <2> QED BY <1>2, <2>2, <2>3, SameServed
  <1>3. CASE RestartCheck \/ CheckXrayRunning \/ TimePasses \/ \E e \in Emails : ClientUses(e)
    BY <1>2, <1>3 DEF RestartCheck, CheckXrayRunning, TimePasses, ClientUses
  <1>4. CASE JobFetch
    BY <1>2, <1>4 DEF JobFetch
  <1>5. CASE JobFlag
    BY <1>2, <1>5 DEF JobFlag, NoJob
  <1>6. ASSUME UNCHANGED <<inbounds, stats, op, restart, job>>,
               proc' = [proc EXCEPT !.state = "down"], proc.state # "starting",
               restart.pc # "failed"
        PROVE  Fits'
    <2>1. Wanted' = Wanted
      BY <1>6 DEF Wanted
    <2>2. proc'.state = "down" /\ proc'.live = proc.live
      BY <1>1, <1>6 DEF ProcType
    <2>3. RestartFits'
      BY <1>6, <2>1, <2>2 DEF Following, RestartFits
    <2> QED BY <1>6, <2>2, <2>3, SameServed
  <1>7. CASE StopXrayService
    <2>1. restart.pc = "idle" /\ UNCHANGED <<inbounds, stats, op, restart, job>>
      BY <1>7 DEF StopXrayService
    <2>2. proc.state # "starting"
      BY <2>1 DEF Following, RestartFits
    <2>3. proc' = [proc EXCEPT !.state = "down"] \/ proc' = proc
      BY <1>7 DEF StopXrayService
    <2> QED BY <1>2, <1>6, <2>1, <2>2, <2>3
  <1>8. CASE XrayCrashes
    <2>1. /\ UNCHANGED <<inbounds, stats, op, restart, job>>
          /\ proc' = [proc EXCEPT !.state = "down"] /\ proc.state \in {"booting", "up"}
      BY <1>8 DEF XrayCrashes
    <2>2. proc.state # "starting" /\ restart.pc # "failed"
      BY <2>1 DEF Following, RestartFits
    <2> QED BY <1>6, <2>1, <2>2
  <1>9. CASE XrayAnswers
    <2>1. /\ UNCHANGED <<inbounds, stats, op, restart, job>> /\ proc.state = "booting"
          /\ proc'.state = "up" /\ proc'.live = proc.live /\ proc'.cfg = proc.cfg
      BY <1>1, <1>9 DEF XrayAnswers, ProcType
    <2>2. Wanted' = Wanted
      BY <2>1 DEF Wanted
    <2>3. RestartFits'
      BY <2>1, <2>2 DEF Following, RestartFits
    <2>4. Quiet /\ restart.pc \in {"idle", "done"} => proc.live = Wanted
      BY <2>1 DEF Following, ServesFit
    <2> QED BY <2>1, <2>3, <2>4, SameServed
  <1> QED BY <1>3, <1>4, <1>5, <1>7, <1>8, <1>9

-----------------------------------------------------------------------------
(* The steps that commit an AddTraffic, and the panics.                    *)

\* With no request under way, the tables and what Xray serves are all there is.
LEMMA QuietFits ==
    ASSUME Quiet, op' = op, Fit(inbounds', stats'), RestartFits',
           restart'.pc \in {"idle", "done"} /\ proc'.state \in {"booting", "up"}
              => proc'.live = GetXrayConfig(inbounds', stats')
    PROVE  Fits'
  <1>1. Quiet'
    BY DEF Quiet
  <1> QED BY <1>1 DEF Quiet, Fits, RequestsFit, ServesFit, Wanted

LEMMA EnterRestartFits ==
    ASSUME Steady, Following, Quiet, op' = op, job'.pc \in {job.pc, "wait"},
           NEW by, NEW force, EnterRestart(by, force), job'.pc \in {"idle", "wait"}
    PROVE  Fits'
  <1>1. PICK n \in BOOLEAN, c \in BOOLEAN : AddTraffic(NoTraffic, n, c)
    BY Zenon DEF EnterRestart
  <1>2. /\ Fit(inbounds', stats')
        /\ proc'.state = proc.state /\ proc'.cfg = proc.cfg
        /\ proc.state # "up" => proc' = proc
        /\ proc.state = "up" /\ proc.live = Wanted => proc'.live = GetXrayConfig(inbounds', stats')
    BY <1>1, AddTrafficInStep, NoTrafficType
       DEF Following, TypeOK, StatsType, InboundsType, ProcType
  <1>3. restart.pc = "idle" /\ restart'.pc = "read"
    BY DEF EnterRestart
  <1>4. proc.state = "up" => proc'.live = GetXrayConfig(inbounds', stats')
    BY <1>2, <1>3 DEF Following, ServesFit
  <1>5. RestartFits'
    BY <1>2, <1>3, <1>4 DEF Following, RestartFits, Wanted
  <1> QED BY <1>2, <1>3, <1>5, QuietFits

LEMMA CommitsFit ==
    ASSUME Steady, Following, OneAtATime', TypeOK',
           BootRestart \/ CronRestart \/ RestartXrayService \/ JobRestart \/ JobBill
    PROVE  Fits'
  <1>1. CASE BootRestart
    <2>1. /\ EnterRestart("boot", TRUE) /\ op' = op /\ job' = job /\ proc.state = "none"
          /\ restart'.pc = "read" /\ restart'.by = "boot"
      BY <1>1 DEF BootRestart, EnterRestart
    <2>2. Quiet
      BY <2>1, OthersQuiet
    <2>3. job'.pc = "idle"
      BY <2>1 DEF OneAtATime, RestartUnderWay
    <2> QED BY <2>1, <2>2, <2>3, EnterRestartFits
  <1>2. CASE CronRestart
    <2>1. PICK by \in waiting : EnterRestart(by, FALSE)
      BY <1>2 DEF CronRestart
    <2>2. op' = op /\ job' = job /\ restart'.pc = "read" /\ restart'.by = by /\ waiting # {}
      BY <1>2, <2>1 DEF CronRestart, EnterRestart
    <2>3. Quiet
      BY <2>2, OthersQuiet
    <2>4. job'.pc = "idle"
      BY <2>2 DEF Following, OneAtATime, RestartUnderWay
    <2> QED BY <2>1, <2>2, <2>3, <2>4, EnterRestartFits
  <1>3. CASE RestartXrayService
    <2>1. /\ EnterRestart("http", TRUE) /\ op' = op /\ job' = job
          /\ restart'.pc = "read" /\ restart'.by = "http"
      BY <1>3 DEF RestartXrayService, EnterRestart
    <2>2. RestartUnderWay'
      BY <2>1 DEF RestartUnderWay
    <2>3. Quiet
      BY <2>1, <2>2 DEF OneAtATime, Quiet
    <2>4. job'.pc = "idle"
      BY <2>2 DEF OneAtATime
    <2> QED BY <2>1, <2>3, <2>4, EnterRestartFits
  <1>4. CASE JobRestart
    <2>1. /\ EnterRestart("job", TRUE) /\ op' = op /\ job.pc = "restart"
          /\ job' = [job EXCEPT !.pc = "wait"]
      BY <1>4 DEF JobRestart
    <2>2. Quiet
      BY <2>1, OthersQuiet
    <2>3. job'.pc = "wait"
      BY <2>1 DEF Following, TypeOK
    <2> QED BY <2>1, <2>2, <2>3, EnterRestartFits
  <1>5. CASE JobBill
    <2>1. PICK n \in BOOLEAN, c \in BOOLEAN :
            /\ AddTraffic(job.traffic, n, c)
            /\ job' = [pc |-> IF c /\ RestartOnDisable THEN "restart" ELSE "flag",
                       need |-> n, traffic |-> NoTraffic]
      BY <1>5, Zenon DEF JobBill
    <2>2. op' = op /\ restart' = restart /\ job.pc = "bill"
      BY <1>5 DEF JobBill, bounds
    <2>3. Quiet /\ proc.state \in {"up", "down"}
      BY <2>2, OthersQuiet DEF Following, RestartFits
    <2>4. /\ Fit(inbounds', stats')
          /\ proc'.state = proc.state /\ proc'.cfg = proc.cfg
          /\ proc.state # "up" => proc' = proc
          /\ proc.state = "up" /\ proc.live = Wanted => proc'.live = GetXrayConfig(inbounds', stats')
      BY <2>1, AddTrafficInStep
         DEF Following, TypeOK, StatsType, InboundsType, ProcType
    <2>5. restart.pc = "idle"
      BY <2>2, RestartJob
    <2>6. proc.state = "up" => proc'.live = GetXrayConfig(inbounds', stats')
      BY <2>3, <2>4, <2>5 DEF Following, ServesFit
    <2>7. RestartFits'
      BY <2>2, <2>3, <2>4, <2>5 DEF RestartFits
    <2> QED BY <2>2, <2>3, <2>4, <2>6, <2>7, QuietFits
  <1> QED BY <1>1, <1>2, <1>3, <1>4, <1>5

LEMMA LoseMemoryFits ==
    ASSUME LoseMemory, Fit(inbounds', stats')
    PROVE  Fits'
  <1>1. \A a \in Admins : op'[a] = NoOp
    BY DEF LoseMemory, NoOp
  <1>2. proc'.state = "none" /\ restart'.pc = "idle" /\ job'.pc = "idle"
    BY DEF LoseMemory, Idle, NoJob
  <1>3. RestartFits'
    BY <1>2 DEF RestartFits
  <1>4. RequestsFit' /\ ServesFit'
    BY <1>1, <1>2 DEF RequestsFit, ServesFit
  <1> QED BY <1>3, <1>4 DEF Fits

LEMMA PanicsFit ==
    ASSUME Following, Panics \/ PanelDies \/ RestartServicePanics
    PROVE  Fits'
  <1>1. CASE Panics
    <2>1. LoseMemory /\ (PanicTraffic(job.traffic) \/ PanicTraffic(NoTraffic))
      BY <1>1 DEF Panics, JobPanics, RestartPanics
    <2>2. Fit(inbounds', stats')
      BY <2>1, PanicTrafficFit, NoTrafficType DEF Following, TypeOK
    <2> QED BY <2>1, <2>2, LoseMemoryFits
  <1>2. CASE PanelDies
    BY <1>2, LoseMemoryFits DEF PanelDies, db, Following
  <1>3. CASE RestartServicePanics
    <2>1. /\ PanicTraffic(NoTraffic) /\ restart.pc = "idle"
          /\ UNCHANGED <<op, proc, restart, job>>
      BY <1>3 DEF RestartServicePanics, runtime
    <2>2. NoPort
      BY <2>1 DEF PanicTraffic, TrafficPanics
    <2>3. proc.state = "failed"
      BY <2>1, <2>2 DEF NoPort, Following, RestartFits
    <2>4. Quiet
      BY <2>3, OthersQuiet
    <2>5. Fit(inbounds', stats')
      BY <2>1, PanicTrafficFit, NoTrafficType DEF Following
    <2>6. RestartFits'
      BY <2>1, <2>3 DEF Following, RestartFits
    <2> QED BY <2>1, <2>3, <2>4, <2>5, <2>6, QuietFits
  <1> QED BY <1>1, <1>2, <1>3

-----------------------------------------------------------------------------
(* The resets, which are single statements: they may fall between the      *)
(* steps of anything.                                                      *)

\* Rows of stats are only enabled.
Enables(su) ==
    \A e \in Emails :
        \/ su[e] = stats[e]
        \/ /\ stats[e] # None /\ su[e] # None
           /\ su[e].enable /\ su[e].reset = 0

LEMMA EnablesFit ==
    ASSUME Fit(inbounds, stats), NEW jb, NEW su, Enables(su),
           \A i \in Inbounds : /\ jb[i] = None <=> inbounds[i] = None
                               /\ inbounds[i] # None => jb[i].clients = inbounds[i].clients
    PROVE  Fit(jb, su)
  <1>1. ASSUME NEW i \in Inbounds, jb[i] # None, NEW e \in Emails, jb[i].clients[e] # None
        PROVE  Home[e] = i
    BY <1>1 DEF Fit
  <1>2. ASSUME NEW e \in Emails, su[e] # None
        PROVE  /\ InSettings(jb, e)
               /\ jb[Home[e]].clients[e].enable => su[e].enable
               /\ su[e].reset = 0
    <2>1. Home[e] \in Inbounds
      BY ConstantsAssumption DEF ConstantsAssumption
    <2>2. /\ stats[e] # None
          /\ su[e] = stats[e] \/ (su[e].enable /\ su[e].reset = 0)
      BY <1>2 DEF Enables
    <2>3. /\ InSettings(inbounds, e) /\ stats[e].reset = 0
          /\ inbounds[Home[e]].clients[e].enable => stats[e].enable
      BY <2>2 DEF Fit
    <2> QED BY <2>1, <2>2, <2>3 DEF InSettings
  <1> QED BY <1>1, <1>2 DEF Fit

\* The configuration of tables whose entries are off when their rows are.
LEMMA EnablesConfig ==
    ASSUME Steady, NEW ib \in InboundsType, NEW jb \in InboundsType, NEW su, Enables(su),
           \A i \in Inbounds :
              /\ jb[i] = None <=> ib[i] = None
              /\ ib[i] # None =>
                    /\ jb[i].enable = ib[i].enable /\ jb[i].clients = ib[i].clients
                    /\ \A e \in Emails :
                          ib[i].clients[e] # None /\ ib[i].clients[e].enable /\ stats[e] # None
                             => stats[e].enable
    PROVE  GetXrayConfig(jb, su) = GetXrayConfig(ib, stats)
  <1>1. ASSUME NEW i \in Inbounds
        PROVE  GetXrayConfig(jb, su)[i] = GetXrayConfig(ib, stats)[i]
    <2>1. jb[i] = None <=> ib[i] = None
      OBVIOUS
    <2>2. ASSUME ib[i] # None
          PROVE  /\ jb[i].enable = ib[i].enable
                 /\ \A e \in Emails : On(jb[i], su, e) <=> On(ib[i], stats, e)
      BY <2>2 DEF Enables, On
    <2> QED BY <2>1, <2>2, SameConfig
  <1> QED BY <1>1, ConfigType, ConfigsEqual

LEMMA EntryOff ==
    ASSUME Fit(inbounds, stats), NEW i \in Inbounds, inbounds[i] # None, NEW e \in Emails,
           inbounds[i].clients[e] # None, inbounds[i].clients[e].enable, stats[e] # None
    PROVE  stats[e].enable
  <1>1. Home[e] = i
    BY DEF Fit
  <1> QED BY <1>1 DEF Fit

\* The rows that handlers will save are typed.
LEMMA RowsTyped ==
    ASSUME TypeOK, NEW a \in Admins
    PROVE  /\ op[a].kind \in {"AddClient", "UpdateClient", "DelClient", "SaveDelClient",
                              "SetInboundEnable", "SyncInbound", "UpdateInbound"}
                => op[a].id \in Inbounds /\ op[a].row \in InboundRow
           /\ op[a].kind \in {"AddClient", "UpdateClient", "DelClient", "ResetClient"}
                => op[a].email \in Emails
           /\ op[a].kind = "DelInbound" => op[a].id \in Inbounds
           /\ op[a].kind = "ResetClient" => op[a].row \in Row
           /\ op[a].kind \in {"AddClient", "UpdateClient"} => op[a].entry \in Entry
           /\ op[a].kind = "UpdateClient" => op[a].old \in Entry
  BY OpCases DEF TypeOK

LEMMA ResetsFit ==
    ASSUME Steady, Following, TypeOK', UNCHANGED <<op, proc, restart, job>>, Enables(stats'),
           \A i \in Inbounds : /\ inbounds'[i] = None <=> inbounds[i] = None
                               /\ inbounds[i] # None =>
                                     /\ inbounds'[i].enable = inbounds[i].enable
                                     /\ inbounds'[i].clients = inbounds[i].clients
    PROVE  Fits'
  <1>1. /\ Fit(inbounds, stats) /\ TypeOK
        /\ inbounds \in InboundsType /\ inbounds' \in InboundsType
    BY DEF Following, TypeOK, InboundsType
  <1>2. Fit(inbounds', stats')
    BY <1>1, EnablesFit
  <1>3. Wanted' = Wanted
    <2>1. \A i \in Inbounds : inbounds[i] # None =>
             \A e \in Emails :
                inbounds[i].clients[e] # None /\ inbounds[i].clients[e].enable /\ stats[e] # None
                   => stats[e].enable
      BY <1>1, EntryOff
    <2> QED BY <1>1, <2>1, EnablesConfig DEF Wanted
  <1>4. ASSUME NEW a \in Admins, op[a] # NoOp
        PROVE  Request(op[a])'
    <2>0. PICK o : o = op[a]
      OBVIOUS
    <2>1. Request(o) /\ op'[a] = o
      BY <1>4, <2>0 DEF Following, RequestsFit
    <2>2. Home \in [Emails -> Inbounds]
      BY ConstantsAssumption DEF ConstantsAssumption
    <2>3. ASSUME NEW i \in Inbounds, inbounds[i] # None, NEW row, NEW e, NEW c,
                 Edits(row, i, e, c)
          PROVE  Edits(row, i, e, c)'
      BY <2>3 DEF Edits
    <2>4. \A e \in Emails : InSettings(inbounds', e) <=> InSettings(inbounds, e)
      BY <2>2 DEF InSettings
    <2>5. \A e \in Emails : stats'[e] = None <=> stats[e] = None
      BY DEF Enables
    <2>6. \A i \in Inbounds : HasStats(i)' <=> HasStats(i)
      BY <1>1, <2>5 DEF HasStats, Keys, TypeOK
    <2>7. \A e \in Emails : InSettings(inbounds, e) =>
             inbounds'[Home[e]].clients[e] = inbounds[Home[e]].clients[e]
      BY <2>2 DEF InSettings
    <2>8. CASE o.kind = "AddClient"
      <3>1. /\ o.id \in Inbounds /\ o.email \in Emails /\ inbounds[o.id] # None
            /\ o.id = Home[o.email] /\ ~InSettings(inbounds, o.email)
            /\ Edits(o.row, o.id, o.email, o.entry) /\ o.entry.reset = 0
        BY <1>1, <2>1, <2>8, RowsTyped, <2>0 DEF Request
      <3> QED BY <2>1, <2>3, <2>4, <2>8, <3>1 DEF Request
    <2>9. CASE o.kind = "UpdateClient"
      <3>1. /\ o.id \in Inbounds /\ o.email \in Emails /\ inbounds[o.id] # None
            /\ InSettings(inbounds, o.email) /\ o.id = Home[o.email]
            /\ o.old = inbounds[o.id].clients[o.email]
            /\ Edits(o.row, o.id, o.email, o.entry) /\ o.entry.reset = 0
        BY <1>1, <2>1, <2>9, RowsTyped, <2>0 DEF Request, InSettings
      <3> QED BY <2>1, <2>3, <2>4, <2>7, <2>9, <3>1 DEF Request
    <2>10. CASE o.kind = "DelClient"
      <3>1. /\ o.id \in Inbounds /\ o.email \in Emails /\ inbounds[o.id] # None
            /\ InSettings(inbounds, o.email) /\ o.id = Home[o.email]
            /\ o.api = inbounds[o.id].clients[o.email].enable
            /\ Edits(o.row, o.id, o.email, None)
        BY <1>1, <2>1, <2>10, RowsTyped, <2>0 DEF Request, InSettings
      <3> QED BY <2>1, <2>3, <2>4, <2>7, <2>10, <3>1 DEF Request
    <2>11. CASE o.kind = "SaveDelClient"
      <3>1. o.id \in Inbounds /\ inbounds[o.id] # None
        BY <1>1, <2>1, <2>11, RowsTyped, <2>0 DEF Request
      <3>2. PICK e \in Emails : Home[e] = o.id /\ stats[e] = None /\ Edits(o.row, o.id, e, None)
        BY <2>1, <2>11 DEF Request
      <3>3. stats'[e] = None /\ Edits(o.row, o.id, e, None)'
        BY <2>3, <2>5, <3>1, <3>2
      <3> QED BY <2>1, <2>11, <3>1, <3>2, <3>3 DEF Request
    <2>12. CASE o.kind = "ResetClient"
      <3>1. /\ o.email \in Emails /\ stats[o.email] # None /\ o.row.reset = 0
            /\ inbounds[Home[o.email]].clients[o.email].enable => o.row.enable
        BY <1>1, <2>1, <2>12, RowsTyped, <2>0 DEF Request
      <3>2. InSettings(inbounds, o.email)
        BY <1>1, <3>1 DEF Fit
      <3> QED BY <2>1, <2>5, <2>7, <2>12, <3>1, <3>2 DEF Request
    <2>13. CASE o.kind = "DelInbound"
      <3>1. o.id \in Inbounds /\ inbounds[o.id] # None /\ ~HasStats(o.id)
        BY <1>1, <2>1, <2>13, RowsTyped, <2>0 DEF Request
      <3> QED BY <2>1, <2>6, <2>13, <3>1 DEF Request
    <2>14. CASE o.kind \in {"SetInboundEnable", "SyncInbound", "UpdateInbound"}
      <3>1. /\ o.id \in Inbounds /\ inbounds[o.id] # None /\ o.row.clients = inbounds[o.id].clients
            /\ o.kind = "SyncInbound" => o.enable = inbounds[o.id].enable
        BY <1>1, <2>1, <2>14, RowsTyped, <2>0 DEF Request
      <3> QED BY <2>1, <2>14, <3>1 DEF Request
    <2> QED BY <2>1, <2>8, <2>9, <2>10, <2>11, <2>12, <2>13, <2>14 DEF Request
  <1>5. ASSUME NEW a \in Admins, op[a] # NoOp, proc.state = "up"
        PROVE  Follows(op[a])'
    <2>0. PICK o : o = op[a]
      OBVIOUS
    <2>1. Follows(o) /\ Request(o) /\ op'[a] = o
      BY <1>5, <2>0 DEF Following, RequestsFit, ServesFit
    <2>2. ASSUME o.kind = "SaveDelClient"
          PROVE  GetXrayConfig([inbounds' EXCEPT ![o.id] = o.row], stats') =
                    GetXrayConfig([inbounds EXCEPT ![o.id] = o.row], stats)
      <3>1. o.id \in Inbounds /\ o.row \in InboundRow /\ o.row # None
        BY <1>1, <2>2, RowsTyped, <2>0, ConstantsAssumption DEF ConstantsAssumption
      <3> DEFINE ib == [inbounds EXCEPT ![o.id] = o.row]
                 jb == [inbounds' EXCEPT ![o.id] = o.row]
      <3>2. ib \in InboundsType /\ jb \in InboundsType
        BY <1>1, <3>1 DEF InboundsType
      <3>3. PICK e0 \in Emails : Home[e0] = o.id /\ stats[e0] = None /\ Edits(o.row, o.id, e0, None)
        BY <2>1, <2>2 DEF Request
      <3>4. inbounds[o.id] # None /\ inbounds[o.id] \in InboundRow
        BY <1>1, <2>1, <2>2, <3>1 DEF Request, InboundsType
      <3>5. ASSUME NEW e \in Emails, o.row.clients[e] # None, o.row.clients[e].enable, stats[e] # None
            PROVE  stats[e].enable
        <4>1. o.row.clients[e] = inbounds[o.id].clients[e]
          BY <3>3, <3>4, <3>5 DEF Edits, InboundRow
        <4> QED BY <1>1, <3>1, <3>4, <3>5, <4>1, EntryOff
      <3>6. ASSUME NEW i \in Inbounds
            PROVE  /\ jb[i] = None <=> ib[i] = None
                   /\ ib[i] # None =>
                        /\ jb[i].enable = ib[i].enable /\ jb[i].clients = ib[i].clients
                        /\ \A e \in Emails :
                              ib[i].clients[e] # None /\ ib[i].clients[e].enable /\ stats[e] # None
                                 => stats[e].enable
        <4>1. CASE i = o.id
          <5>1. ib[i] = o.row /\ jb[i] = o.row
            BY <1>1, <4>1 DEF InboundsType
          <5> QED BY <3>5, <5>1
        <4>2. CASE i # o.id
          <5>1. ib[i] = inbounds[i] /\ jb[i] = inbounds'[i]
            BY <1>1, <4>2 DEF InboundsType
          <5> QED BY <1>1, <5>1, EntryOff
        <4> QED BY <4>1, <4>2
      <3> HIDE DEF ib, jb
      <3>7. GetXrayConfig(jb, stats') = GetXrayConfig(ib, stats)
        BY <3>2, <3>6, EnablesConfig
      <3> QED BY <3>7 DEF ib, jb
    <2>3. ASSUME o.kind = "DelInbound"
          PROVE  GetXrayConfig([inbounds' EXCEPT ![o.id] = None], stats') =
                    GetXrayConfig([inbounds EXCEPT ![o.id] = None], stats)
      <3> DEFINE ib == [inbounds EXCEPT ![o.id] = None]
                 jb == [inbounds' EXCEPT ![o.id] = None]
      <3>1. ib \in InboundsType /\ jb \in InboundsType
        BY <1>1 DEF InboundsType
      <3>2. ASSUME NEW i \in Inbounds
            PROVE  /\ jb[i] = None <=> ib[i] = None
                   /\ ib[i] # None =>
                        /\ jb[i].enable = ib[i].enable /\ jb[i].clients = ib[i].clients
                        /\ \A e \in Emails :
                              ib[i].clients[e] # None /\ ib[i].clients[e].enable /\ stats[e] # None
                                 => stats[e].enable
        <4>1. CASE i = o.id
          <5>1. ib[i] = None /\ jb[i] = None
            BY <1>1, <4>1 DEF InboundsType
          <5> QED BY <5>1
        <4>2. CASE i # o.id
          <5>1. ib[i] = inbounds[i] /\ jb[i] = inbounds'[i]
            BY <1>1, <4>2 DEF InboundsType
          <5> QED BY <1>1, <5>1, EntryOff
        <4> QED BY <4>1, <4>2
      <3> HIDE DEF ib, jb
      <3>3. GetXrayConfig(jb, stats') = GetXrayConfig(ib, stats)
        BY <3>1, <3>2, EnablesConfig
      <3> QED BY <3>3 DEF ib, jb
    <2> QED BY <1>3, <2>1, <2>2, <2>3 DEF Follows
  <1>6. RequestsFit'
    BY <1>4 DEF RequestsFit
  <1>7. ServesFit'
    BY <1>3, <1>5 DEF Following, ServesFit, Quiet
  <1>8. RestartFits'
    BY <1>3 DEF Following, RestartFits
  <1> QED BY <1>2, <1>6, <1>7, <1>8 DEF Fits

-----------------------------------------------------------------------------
(* The requests.                                                           *)

\* A request begins alone, when nothing else is under way.
LEMMA BeginsAlone ==
    ASSUME Following, OneAtATime', NEW a \in Admins, op[a] = NoOp, op'[a] # NoOp,
           UNCHANGED <<restart, job, waiting>>, proc'.state = proc.state,
           \A b \in Admins \ {a} : op'[b] = op[b]
    PROVE  /\ Quiet /\ restart.pc = "idle" /\ job.pc = "idle" /\ proc.state \in {"up", "down"}
           /\ \A b \in Admins \ {a} : op'[b] = NoOp
  <1>1. ~RestartUnderWay' /\ job'.pc = "idle" /\ \A b \in Admins \ {a} : op'[b] = NoOp
    BY DEF OneAtATime
  <1>2. restart.pc = "idle"
    BY <1>1 DEF RestartUnderWay, Following, JobWaits
  <1>3. proc.state \notin {"none", "booting", "failed"}
    BY <1>1 DEF RestartUnderWay
  <1>4. proc.state # "starting"
    BY <1>2 DEF Following, RestartFits
  <1>5. proc.state \in {"none", "starting", "booting", "up", "down", "failed"}
    BY DEF Following, TypeOK
  <1> QED BY <1>1, <1>2, <1>3, <1>4, <1>5 DEF Quiet

\* A step of the one request under way.
LEMMA HandlerFits ==
    ASSUME NEW a \in Admins, \A b \in Admins \ {a} : op'[b] = NoOp,
           restart'.pc = "idle", job'.pc = "idle", proc'.state \in {"up", "down"},
           Fit(inbounds', stats'),
           op'[a] # NoOp => Request(op[a])',
           proc'.state = "up" => Follows(op[a])'
    PROVE  Fits'
  <1>1. RequestsFit'
    BY DEF RequestsFit
  <1>2. RestartFits'
    BY DEF RestartFits
  <1>3. ASSUME Quiet', proc'.state = "up" PROVE proc'.live = Wanted'
    BY <1>3 DEF Quiet, Follows, NoOp
  <1>4. ServesFit'
    BY <1>3 DEF ServesFit
  <1> QED BY <1>1, <1>2, <1>4 DEF Fits

\* The last step of a request.
LEMMA DoneFits ==
    ASSUME Following, NEW a \in Admins, op[a] # NoOp, NEW need, Done(a, need),
           proc'.state = proc.state, Fit(inbounds', stats'),
           proc'.state = "up" => proc'.live = GetXrayConfig(inbounds', stats')
    PROVE  Fits'
  <1>1. /\ restart.pc = "idle" /\ job.pc = "idle" /\ proc.state \in {"up", "down"}
        /\ \A b \in Admins \ {a} : op[b] = NoOp
    BY RequestAlone
  <1>2. restart' = restart /\ job' = job /\ \A b \in Admins : op'[b] = NoOp
    BY <1>1 DEF Done, Following, TypeOK
  <1>3. proc'.state = "up" => Follows(op[a])'
    BY <1>2 DEF Follows, NoOp, Wanted
  <1> QED BY <1>1, <1>2, <1>3, HandlerFits

LEMMA FailsFit ==
    ASSUME Following, NEW a \in Admins, op[a] # NoOp, Fails(a), Follows(op[a]) => proc.live = Wanted
    PROVE  Fits'
  <1>1. Done(a, FALSE) /\ UNCHANGED <<inbounds, stats, proc>>
    BY DEF Fails, db
  <1>2. Fit(inbounds', stats')
    BY <1>1 DEF Following
  <1>3. proc'.state = "up" => proc'.live = GetXrayConfig(inbounds', stats')
    BY <1>1 DEF Following, ServesFit, Wanted
  <1> QED BY <1>1, <1>2, <1>3, DoneFits

\* A request that only reads its rows.
LEMMA BeginFits ==
    ASSUME Following, OneAtATime', NEW a \in Admins, op[a] = NoOp, NEW r, Reads(a, r),
           r # NoOp, Request(r), r.kind \notin {"SaveDelClient", "DelInbound", "SyncInbound"}
    PROVE  Fits'
  <1>1. op'[a] = r /\ \A b \in Admins \ {a} : op'[b] = op[b]
    BY DEF Reads, Following, TypeOK
  <1>2. UNCHANGED <<inbounds, stats, proc, restart, job, waiting>>
    BY DEF Reads, db, runtime
  <1>3. /\ Quiet /\ restart.pc = "idle" /\ job.pc = "idle" /\ proc.state \in {"up", "down"}
        /\ \A b \in Admins \ {a} : op'[b] = NoOp
    BY <1>1, <1>2, BeginsAlone
  <1>4. Fit(inbounds', stats') /\ Wanted' = Wanted
    BY <1>2 DEF Following, Wanted
  <1>5. Request(op[a])'
    <2>1. inbounds' = inbounds /\ stats' = stats
      BY <1>2
    <2>2. ASSUME NEW row, NEW i, NEW e, NEW c PROVE Edits(row, i, e, c)' <=> Edits(row, i, e, c)
      BY <2>1 DEF Edits
    <2>3. ASSUME NEW e PROVE InSettings(inbounds, e)' <=> InSettings(inbounds, e)
      BY <2>1 DEF InSettings
    <2>4. ASSUME NEW i PROVE HasStats(i)' <=> HasStats(i)
      BY <2>1 DEF HasStats
    <2> QED BY <1>1, <2>1, <2>2, <2>3, <2>4 DEF Request
  <1>6. proc'.state = "up" => Follows(op[a])'
    BY <1>1, <1>2, <1>3, <1>4 DEF Following, ServesFit, Follows
  <1> QED BY <1>2, <1>3, <1>4, <1>5, <1>6, HandlerFits

LEMMA BeginsFit ==
    ASSUME Steady, Following, OneAtATime', NEW a \in Admins,
           \/ \E e \in Emails, c \in Entries : BeginAddClient(a, e, c) \/ BeginUpdateClient(a, e, c)
           \/ \E e \in Emails : BeginDelClient(a, e) \/ BeginResetClient(a, e)
           \/ \E i \in Inbounds : BeginSetInboundEnable(a, i)
           \/ \E i \in Inbounds, f \in Forms : OpenInboundForm(a, i, f)
    PROVE  Fits'
  <1>1. Home \in [Emails -> Inbounds] /\ \A c \in Entries : c.reset = 0
    BY ConstantsAssumption DEF ConstantsAssumption, Steady
  <1>2. inbounds \in InboundsType /\ stats \in StatsType /\ Fit(inbounds, stats)
    BY DEF Following, TypeOK, InboundsType, StatsType
  <1>3. ASSUME NEW i \in Inbounds, inbounds[i] # None, NEW e \in Emails, NEW c
        PROVE  Edits([inbounds[i] EXCEPT !.clients[e] = c], i, e, c)
    <2>1. inbounds[i] \in InboundRow
      BY <1>2, <1>3 DEF InboundsType
    <2> QED BY <2>1 DEF Edits, InboundRow
  <1>4. ASSUME NEW e \in Emails, NEW c \in Entries, BeginAddClient(a, e, c)
        PROVE  Fits'
    <2>1. PICK r : r = [kind |-> "AddClient", id |-> Home[e], email |-> e, entry |-> c,
                        row |-> [inbounds[Home[e]] EXCEPT !.clients[e] = c]]
      OBVIOUS
    <2>2. /\ op[a] = NoOp /\ Reads(a, r) /\ inbounds[Home[e]] # None /\ ~InSettings(inbounds, e)
      BY <1>4, <2>1 DEF BeginAddClient, Accept
    <2>3. /\ r.kind = "AddClient" /\ r.id = Home[e] /\ r.email = e /\ r.entry = c
          /\ r.row = [inbounds[Home[e]] EXCEPT !.clients[e] = c]
      BY <2>1
    <2>4. Edits(r.row, r.id, r.email, r.entry) /\ r.entry.reset = 0
      BY <1>1, <1>3, <2>2, <2>3
    <2>5. Request(r)
      BY <2>2, <2>3, <2>4 DEF Request
    <2> QED BY <2>2, <2>3, <2>5, BeginFits DEF NoOp
  <1>5. ASSUME NEW e \in Emails, NEW c \in Entries, BeginUpdateClient(a, e, c)
        PROVE  Fits'
    <2>1. PICK r : r = [kind |-> "UpdateClient", id |-> Home[e], email |-> e, entry |-> c,
                        old |-> inbounds[Home[e]].clients[e],
                        row |-> [inbounds[Home[e]] EXCEPT !.clients[e] = c]]
      OBVIOUS
    <2>2. /\ op[a] = NoOp /\ Reads(a, r) /\ InSettings(inbounds, e) /\ inbounds[Home[e]] # None
      BY <1>5, <2>1 DEF BeginUpdateClient, Accept, InSettings
    <2>3. /\ r.kind = "UpdateClient" /\ r.id = Home[e] /\ r.email = e /\ r.entry = c
          /\ r.old = inbounds[Home[e]].clients[e]
          /\ r.row = [inbounds[Home[e]] EXCEPT !.clients[e] = c]
      BY <2>1
    <2>4. Edits(r.row, r.id, r.email, r.entry) /\ r.entry.reset = 0
      BY <1>1, <1>3, <2>2, <2>3
    <2>5. Request(r)
      BY <2>2, <2>3, <2>4 DEF Request
    <2> QED BY <2>2, <2>3, <2>5, BeginFits DEF NoOp
  <1>6. ASSUME NEW e \in Emails, BeginDelClient(a, e)
        PROVE  Fits'
    <2>1. PICK r : r = [kind |-> "DelClient", id |-> Home[e], email |-> e,
                        api |-> inbounds[Home[e]].clients[e].enable,
                        row |-> [inbounds[Home[e]] EXCEPT !.clients[e] = None]]
      OBVIOUS
    <2>2. /\ op[a] = NoOp /\ Reads(a, r) /\ InSettings(inbounds, e) /\ inbounds[Home[e]] # None
      BY <1>6, <2>1 DEF BeginDelClient, Accept, InSettings
    <2>3. /\ r.kind = "DelClient" /\ r.id = Home[e] /\ r.email = e
          /\ r.api = inbounds[Home[e]].clients[e].enable
          /\ r.row = [inbounds[Home[e]] EXCEPT !.clients[e] = None]
      BY <2>1
    <2>4. Edits(r.row, r.id, r.email, None)
      BY <1>1, <1>3, <2>2, <2>3
    <2>5. Request(r)
      BY <2>2, <2>3, <2>4 DEF Request
    <2> QED BY <2>2, <2>3, <2>5, BeginFits DEF NoOp
  <1>7. ASSUME NEW e \in Emails, BeginResetClient(a, e)
        PROVE  Fits'
    <2>1. PICK r : r = [kind |-> "ResetClient", email |-> e, row |-> stats[e]]
      OBVIOUS
    <2>2. op[a] = NoOp /\ Reads(a, r) /\ stats[e] # None
      BY <1>7, <2>1 DEF BeginResetClient, Accept
    <2>3. r.kind = "ResetClient" /\ r.email = e /\ r.row = stats[e]
      BY <2>1
    <2>4. r.row.reset = 0 /\ (inbounds[Home[e]].clients[e].enable => r.row.enable)
      BY <1>2, <2>2, <2>3 DEF Fit
    <2>5. Request(r)
      BY <2>2, <2>3, <2>4 DEF Request
    <2> QED BY <2>2, <2>3, <2>5, BeginFits DEF NoOp
  <1>8. ASSUME NEW i \in Inbounds, BeginSetInboundEnable(a, i)
        PROVE  Fits'
    <2>1. PICK r : r = [kind |-> "SetInboundEnable", id |-> i, enable |-> ~inbounds[i].enable,
                        row |-> inbounds[i]]
      OBVIOUS
    <2>2. op[a] = NoOp /\ Reads(a, r) /\ inbounds[i] # None
      BY <1>8, <2>1 DEF BeginSetInboundEnable, Accept
    <2>3. r.kind = "SetInboundEnable" /\ r.id = i /\ r.row = inbounds[i]
      BY <2>1
    <2>4. Request(r)
      BY <2>2, <2>3 DEF Request
    <2> QED BY <2>2, <2>3, <2>4, BeginFits DEF NoOp
  <1>9. ASSUME NEW i \in Inbounds, NEW f \in Forms, OpenInboundForm(a, i, f)
        PROVE  Fits'
    <2>1. PICK r : r = [kind |-> "UpdateInbound", id |-> i,
                        row |-> [inbounds[i] EXCEPT !.enable = f.enable, !.total = f.total,
                                                    !.expiry = f.expiry]]
      OBVIOUS
    <2>2. op[a] = NoOp /\ Reads(a, r) /\ inbounds[i] # None
      BY <1>9, <2>1 DEF OpenInboundForm, Accept
    <2>3. inbounds[i] \in InboundRow
      BY <1>2, <2>2 DEF InboundsType
    <2>4. r.kind = "UpdateInbound" /\ r.id = i /\ r.row.clients = inbounds[i].clients
      BY <2>1, <2>3 DEF InboundRow
    <2>5. Request(r)
      BY <2>2, <2>4 DEF Request
    <2> QED BY <2>2, <2>4, <2>5, BeginFits DEF NoOp
  <1> QED BY <1>4, <1>5, <1>6, <1>7, <1>8, <1>9

-----------------------------------------------------------------------------
(* The requests about one client.                                          *)

\* The row of inbound i, saved with the entry of e replaced by c, and the
\* rows of stats, of which only that of e has changed.
LEMMA EditedType ==
    ASSUME NEW ib \in InboundsType, NEW i \in Inbounds, NEW row \in InboundRow
    PROVE  /\ [ib EXCEPT ![i] = row] \in InboundsType
           /\ [ib EXCEPT ![i] = row][i] = row /\ row # None
           /\ \A j \in Inbounds \ {i} : [ib EXCEPT ![i] = row][j] = ib[j]
  BY ConstantsAssumption DEF ConstantsAssumption, InboundsType

Edited(e, row, c, su) ==
    /\ inbounds[Home[e]] # None /\ Edits(row, Home[e], e, c)
    /\ \A x \in Emails \ {e} : su[x] = stats[x]

LEMMA EditedFit ==
    ASSUME Fit(inbounds, stats), inbounds \in InboundsType,
           NEW e \in Emails, NEW row \in InboundRow, NEW c, NEW su, Edited(e, row, c, su),
           su[e] # None => c # None /\ (c.enable => su[e].enable) /\ su[e].reset = 0
    PROVE  Fit([inbounds EXCEPT ![Home[e]] = row], su)
  <1> USE DEF Edited
  <1>1. Home \in [Emails -> Inbounds] /\ Home[e] \in Inbounds
    BY ConstantsAssumption DEF ConstantsAssumption
  <1>2. PICK jb : jb = [inbounds EXCEPT ![Home[e]] = row]
    OBVIOUS
  <1>3. /\ jb[Home[e]] = row /\ row # None
        /\ \A j \in Inbounds \ {Home[e]} : jb[j] = inbounds[j]
    BY <1>1, <1>2, EditedType
  <1>4. row.clients[e] = c /\ \A x \in Emails \ {e} : row.clients[x] = inbounds[Home[e]].clients[x]
    <2>1. inbounds[Home[e]] \in InboundRow
      BY <1>1 DEF InboundsType
    <2> QED BY <2>1 DEF Edits, InboundRow
  <1>5. ASSUME NEW i \in Inbounds, jb[i] # None, NEW x \in Emails, jb[i].clients[x] # None
        PROVE  Home[x] = i
    <2>1. CASE i = Home[e] /\ x = e
      BY <2>1
    <2>2. CASE i = Home[e] /\ x # e
      BY <1>1, <1>3, <1>4, <1>5, <2>2 DEF Fit
    <2>3. CASE i # Home[e]
      BY <1>3, <1>5, <2>3 DEF Fit
    <2> QED BY <2>1, <2>2, <2>3
  <1>6. ASSUME NEW x \in Emails, su[x] # None
        PROVE  /\ InSettings(jb, x)
               /\ jb[Home[x]].clients[x].enable => su[x].enable
               /\ su[x].reset = 0
    <2>1. CASE x = e
      BY <1>3, <1>4, <1>6, <2>1 DEF InSettings
    <2>2. CASE x # e
      <3>1. /\ InSettings(inbounds, x) /\ su[x] = stats[x] /\ stats[x].reset = 0
            /\ inbounds[Home[x]].clients[x].enable => stats[x].enable
        BY <1>6, <2>2 DEF Fit
      <3>2. jb[Home[x]] # None /\ jb[Home[x]].clients[x] = inbounds[Home[x]].clients[x]
        <4>1. CASE Home[x] = Home[e]
          BY <1>3, <1>4, <2>2, <4>1
        <4>2. CASE Home[x] # Home[e]
          BY <1>1, <1>3, <3>1, <4>2 DEF InSettings
        <4> QED BY <4>1, <4>2
      <3> QED BY <3>1, <3>2 DEF InSettings
    <2> QED BY <2>1, <2>2
  <1>7. Fit(jb, su)
    BY <1>5, <1>6 DEF Fit
  <1> QED BY <1>2, <1>7

\* Xray serves what it should, but for e, which it serves or not.
Switched(live, e, c, su) ==
    \A j \in Inbounds : live[j] =
       IF j # Home[e] THEN Wanted[j]
       ELSE IF Wanted[j] = None THEN None
       ELSE (Wanted[j] \ {e})
            \cup {x \in {e} : c # None /\ c.enable /\ (su[e] # None => su[e].enable)}

LEMMA EditedConfig ==
    ASSUME Steady, Fit(inbounds, stats), inbounds \in InboundsType,
           NEW e \in Emails, NEW row \in InboundRow, NEW c, NEW su, Edited(e, row, c, su),
           NEW live \in Config, Switched(live, e, c, su)
    PROVE  live = GetXrayConfig([inbounds EXCEPT ![Home[e]] = row], su)
  <1> USE DEF Edited, Switched
  <1>1. Home \in [Emails -> Inbounds] /\ Home[e] \in Inbounds
    BY ConstantsAssumption DEF ConstantsAssumption
  <1>2. PICK jb : jb = [inbounds EXCEPT ![Home[e]] = row]
    OBVIOUS
  <1>3. /\ jb \in InboundsType /\ jb[Home[e]] = row /\ row # None
        /\ \A j \in Inbounds \ {Home[e]} : jb[j] = inbounds[j]
    <2>1. /\ jb[Home[e]] = row /\ row # None
          /\ \A j \in Inbounds \ {Home[e]} : jb[j] = inbounds[j]
      BY <1>1, <1>2, EditedType
    <2>2. jb \in InboundsType
      BY <1>1, <1>2 DEF InboundsType
    <2> QED BY <2>1, <2>2
  <1>4. /\ row.clients[e] = c /\ row.enable = inbounds[Home[e]].enable
        /\ \A x \in Emails \ {e} : row.clients[x] = inbounds[Home[e]].clients[x]
    <2>1. inbounds[Home[e]] \in InboundRow
      BY <1>1 DEF InboundsType
    <2> QED BY <2>1 DEF Edits, InboundRow
  <1>5. ASSUME NEW j \in Inbounds
        PROVE  live[j] = GetXrayConfig(jb, su)[j]
    <2>1. CASE j # Home[e]
      <3>1. jb[j] = inbounds[j]
        BY <1>3, <2>1
      <3>2. ASSUME inbounds[j] # None, NEW x \in Emails
            PROVE  On(inbounds[j], su, x) <=> On(inbounds[j], stats, x)
        <4>1. CASE x = e
          <5>1. inbounds[j].clients[e] = None
            BY <2>1, <3>2 DEF Fit
          <5> QED BY <4>1, <5>1 DEF On
        <4>2. CASE x # e
          BY <4>2 DEF On
        <4> QED BY <4>1, <4>2
      <3>3. GetXrayConfig(jb, su)[j] = GetXrayConfig(inbounds, stats)[j]
        BY <1>3, <3>1, <3>2, SameConfig
      <3> QED BY <2>1, <3>3 DEF Wanted
    <2>2. CASE j = Home[e] /\ ~row.enable
      <3>1. Wanted[j] = None
        <4>1. inbounds[j] # None /\ ~inbounds[j].enable
          BY <1>4, <2>2
        <4>2. GetXrayConfig(inbounds, stats)[j] =
                 IF inbounds[j] # None /\ inbounds[j].enable
                 THEN {x \in Emails : On(inbounds[j], stats, x)} ELSE None
          BY ConfigAt
        <4> QED BY <4>1, <4>2 DEF Wanted
      <3>2. jb[j] = row
        BY <1>3, <2>2
      <3>3. ASSUME NEW tb \in InboundsType PROVE ~tb[j].enable => GetXrayConfig(tb, su)[j] = None
        <4>1. GetXrayConfig(tb, su)[j] =
                 IF tb[j] # None /\ tb[j].enable THEN {x \in Emails : On(tb[j], su, x)} ELSE None
          BY ConfigAt
        <4> QED BY <4>1
      <3>4. GetXrayConfig(jb, su)[j] = None
        BY <1>3, <2>2, <3>2, <3>3
      <3> QED BY <2>2, <3>1, <3>4
    <2>3. CASE j = Home[e] /\ row.enable
      <3>0. /\ inbounds[j] # None /\ inbounds[j].enable
            /\ jb[j] = row /\ row # None
        BY <1>3, <1>4, <2>3
      <3>8. ASSUME NEW tb \in InboundsType, NEW tu
            PROVE  tb[j] # None /\ tb[j].enable
                      => GetXrayConfig(tb, tu)[j] = {x \in Emails : On(tb[j], tu, x)}
        BY ConfigAt
      <3>1. Wanted[j] = {x \in Emails : On(inbounds[j], stats, x)}
        BY <3>0, <3>8 DEF Wanted
      <3>2. Wanted[j] \in SUBSET Emails
        BY <3>1
      <3>3. Wanted[j] # None
        BY <3>2, ConstantsAssumption DEF ConstantsAssumption
      <3>4. GetXrayConfig(jb, su)[j] = {x \in Emails : On(row, su, x)}
        BY <1>3, <2>3, <3>0, <3>8
      <3>5. On(row, su, e) <=> c # None /\ c.enable /\ (su[e] # None => su[e].enable)
        BY <1>4 DEF On
      <3>6. ASSUME NEW x \in Emails \ {e}
            PROVE  On(row, su, x) <=> On(inbounds[j], stats, x)
        BY <1>4, <2>3 DEF On
      <3>7. live[j] = (Wanted[j] \ {e})
               \cup {x \in {e} : c # None /\ c.enable /\ (su[e] # None => su[e].enable)}
        BY <2>3, <3>3
      <3> QED BY <3>1, <3>4, <3>5, <3>6, <3>7
    <2> QED BY <2>1, <2>2, <2>3
  <1>6. live = GetXrayConfig(jb, su)
    BY <1>3, <1>5, ConfigType, ConfigsEqual
  <1> QED BY <1>2, <1>6

\* The user of e is in the configuration if its entry and its row are on.
LEMMA WantedUser ==
    ASSUME Steady, inbounds \in InboundsType, NEW i \in Inbounds, Wanted[i] # None, NEW e \in Wanted[i]
    PROVE  inbounds[i] # None /\ On(inbounds[i], stats, e)
  <1>1. inbounds[i] # None /\ inbounds[i].enable /\ Wanted[i] = {x \in Emails : On(inbounds[i], stats, x)}
    BY ConfigAt DEF Wanted
  <1> QED BY <1>1

\* What a step of the one request under way finds.
LEMMA AtWorkFacts ==
    ASSUME Steady, Following, NEW a \in Admins, op[a] # NoOp
    PROVE  /\ inbounds \in InboundsType /\ stats \in StatsType /\ proc \in ProcType
           /\ proc.live \in Config /\ Fit(inbounds, stats) /\ Request(op[a])
           /\ proc.state \in {"up", "down"} /\ ~NoApi /\ Wanted \in Config
           /\ proc.state = "up" => Follows(op[a])
           /\ \A live : SetLive(live) => proc'.live = live /\ proc'.state = proc.state
           /\ \A C : \A F \in Failing(C) : proc.state = "up" => F = {}
  <1>1. inbounds \in InboundsType /\ stats \in StatsType /\ proc \in ProcType
    BY DEF Following, TypeOK, InboundsType, StatsType, ProcType
  <1>2. proc.state \in {"up", "down"}
    BY RequestAlone
  <1>3. ~NoApi
    BY <1>2 DEF NoApi, NoPort
  <1>4. Wanted \in Config
    BY <1>1, ConfigType DEF Wanted
  <1>5. \A live : SetLive(live) => proc'.live = live /\ proc'.state = proc.state
    BY <1>1 DEF SetLive, ProcType
  <1>6. \A C : \A F \in Failing(C) : proc.state = "up" => F = {}
    BY NoneFails
  <1>7. Fit(inbounds, stats) /\ Request(op[a]) /\ (proc.state = "up" => Follows(op[a]))
    BY DEF Following, RequestsFit, ServesFit
  <1> QED BY <1>1, <1>2, <1>3, <1>4, <1>5, <1>6, <1>7 DEF ProcType

LEMMA AddClientFits ==
    ASSUME Steady, Following, NEW a \in Admins, FinishAddClient(a)
    PROVE  Fits'
  <1>1. op[a] # NoOp /\ op[a].kind = "AddClient"
    BY DEF FinishAddClient, NoOp
  <1>2. PICK o : o = op[a]
    OBVIOUS
  <1>3. PICK E : E = IF o.entry.enable /\ Kind[o.id] = "user" THEN {o.email} ELSE {}
    OBVIOUS
  <1>4. /\ inbounds \in InboundsType /\ stats \in StatsType /\ proc \in ProcType
        /\ proc.live \in Config /\ Fit(inbounds, stats) /\ Request(o)
        /\ proc.state \in {"up", "down"} /\ ~NoApi /\ Wanted \in Config
        /\ proc.state = "up" => Follows(o)
        /\ \A live : SetLive(live) => proc'.live = live /\ proc'.state = proc.state
        /\ \A C : \A F \in Failing(C) : proc.state = "up" => F = {}
    BY <1>1, <1>2, AtWorkFacts
  <1>5. /\ o.id \in Inbounds /\ o.row \in InboundRow /\ o.email \in Emails /\ o.entry \in Entry
    BY <1>1, <1>2, RowsTyped DEF Following
  <1>6. /\ inbounds[o.id] # None /\ o.id = Home[o.email] /\ ~InSettings(inbounds, o.email)
        /\ Edits(o.row, o.id, o.email, o.entry) /\ o.entry.reset = 0
    BY <1>1, <1>2, <1>4 DEF Request
  <1>7. E = IF o.entry.enable THEN {o.email} ELSE {}
    BY <1>3, <1>5 DEF Steady
  <1>8. /\ stats' = IF inbounds[o.id] = None THEN stats ELSE WithStat(o.email, o.entry)
        /\ SaveInbound(o.row, o.id)
        /\ \E F \in Failing(E) : /\ SetLive(AfterAddUsers(proc.live, E, F))
                                 /\ \E need : Done(a, need)
    BY <1>2, <1>3, <1>4, Zenon DEF FinishAddClient
  <1>9. stats[o.email] = None
    BY <1>4, <1>5, <1>6 DEF Fit
  <1>10. stats' = [stats EXCEPT ![o.email] = NewRow(o.entry)]
    BY <1>6, <1>8, <1>9 DEF WithStat
  <1>11. /\ \A x \in Emails \ {o.email} : stats'[x] = stats[x]
         /\ stats'[o.email] = NewRow(o.entry)
    BY <1>4, <1>5, <1>10 DEF StatsType
  <1>12. /\ stats'[o.email].enable = o.entry.enable /\ stats'[o.email].reset = 0
         /\ o.entry # None
    BY <1>5, <1>6, <1>11, NoneAssumption DEF NewRow
  <1>13. inbounds' = [inbounds EXCEPT ![Home[o.email]] = o.row]
    BY <1>6, <1>8 DEF SaveInbound
  <1>19. Edited(o.email, o.row, o.entry, stats')
    BY <1>6, <1>11 DEF Edited
  <1>14. Fit(inbounds', stats')
    BY <1>4, <1>5, <1>12, <1>13, <1>19, EditedFit
  <1>15. PICK F \in Failing(E) : /\ SetLive(AfterAddUsers(proc.live, E, F))
                                 /\ \E need : Done(a, need)
    BY <1>8
  <1>16. proc'.live = AfterAddUsers(proc.live, E, F) /\ proc'.state = proc.state
    BY <1>4, <1>15
  <1>17. ASSUME proc.state = "up"
         PROVE  proc'.live = GetXrayConfig(inbounds', stats')
    <2>1. proc.live = Wanted /\ F = {}
      BY <1>1, <1>2, <1>4, <1>15, <1>17 DEF Follows
    <2>2. E \in SUBSET Emails
      BY <1>5, <1>7
    <2>3. proc'.live \in Config
      BY <1>4, <1>16, <2>2, UsersType
    <2>4. ASSUME NEW j \in Inbounds
          PROVE  proc'.live[j] = IF Wanted[j] = None THEN None
                                 ELSE Wanted[j] \cup Among(E, j)
      <3>1. AfterAddUsers(Wanted, E, {})[j] =
               IF Wanted[j] = None THEN None ELSE Wanted[j] \cup Among(E, j)
        <4>1. Wanted \in Config
          BY <1>4
        <4> QED BY <2>2, <4>1, AddedAt
      <3> QED BY <1>16, <2>1, <3>1
    <2>5. ASSUME NEW j \in Inbounds
          PROVE  proc'.live[j] =
                    IF j # Home[o.email] THEN Wanted[j]
                    ELSE IF Wanted[j] = None THEN None
                    ELSE (Wanted[j] \ {o.email}) \cup (IF o.entry.enable THEN {o.email} ELSE {})
      <3>1. CASE j # Home[o.email]
        <4>1. Among(E, j) = {}
          BY <1>7, <3>1 DEF Among
        <4>2. Wanted[j] \cup {} = Wanted[j] \/ Wanted[j] = None
          BY <1>4 DEF Config
        <4> QED BY <2>4, <3>1, <4>1, <4>2
      <3>2. CASE j = Home[o.email] /\ Wanted[j] # None
        <4>1. o.email \notin Wanted[j]
          BY <1>4, <1>6, <3>2, WantedUser DEF On, InSettings
        <4>2. Among(E, j) = E
          BY <1>7, <3>2 DEF Among
        <4>3. Wanted[j] \in SUBSET Emails
          BY <1>4, <3>2 DEF Config
        <4>4. Wanted[j] \cup E = (Wanted[j] \ {o.email}) \cup (IF o.entry.enable THEN {o.email} ELSE {})
          BY <1>7, <4>1, <4>3
        <4> QED BY <2>4, <3>2, <4>2, <4>4
      <3>3. CASE j = Home[o.email] /\ Wanted[j] = None
        BY <2>4, <3>3
      <3> QED BY <3>1, <3>2, <3>3
    <2>7. {x \in {o.email} : o.entry # None /\ o.entry.enable
                             /\ (stats'[o.email] # None => stats'[o.email].enable)}
             = IF o.entry.enable THEN {o.email} ELSE {}
      BY <1>12
    <2>8. Switched(proc'.live, o.email, o.entry, stats')
      BY <2>5, <2>7 DEF Switched
    <2> QED BY <1>4, <1>5, <1>13, <1>19, <2>3, <2>8, EditedConfig
  <1>18. PICK need : Done(a, need)
    BY <1>15
  <1> QED BY <1>1, <1>14, <1>16, <1>17, <1>18, DoneFits

LEMMA UpdateClientFits ==
    ASSUME Steady, Following, NEW a \in Admins, FinishUpdateClient(a)
    PROVE  Fits'
  <1>1. op[a] # NoOp /\ op[a].kind = "UpdateClient"
    BY DEF FinishUpdateClient, NoOp
  <1>2. PICK o : o = op[a]
    OBVIOUS
  <1>3. PICK D, E : /\ D = IF o.old.enable THEN {o.email} ELSE {}
                    /\ E = IF o.entry.enable THEN {o.email} ELSE {}
    OBVIOUS
  <1>4. /\ inbounds \in InboundsType /\ stats \in StatsType /\ proc \in ProcType
        /\ proc.live \in Config /\ Fit(inbounds, stats) /\ Request(o)
        /\ proc.state \in {"up", "down"} /\ ~NoApi /\ Wanted \in Config
        /\ proc.state = "up" => Follows(o)
        /\ \A live : SetLive(live) => proc'.live = live /\ proc'.state = proc.state
        /\ \A C : \A F \in Failing(C) : proc.state = "up" => F = {}
    BY <1>1, <1>2, AtWorkFacts
  <1>5. /\ o.id \in Inbounds /\ o.row \in InboundRow /\ o.email \in Emails
        /\ o.entry \in Entry /\ o.old \in Entry
    BY <1>1, <1>2, RowsTyped DEF Following
  <1>6. /\ InSettings(inbounds, o.email) /\ o.id = Home[o.email]
        /\ o.old = inbounds[o.id].clients[o.email]
        /\ Edits(o.row, o.id, o.email, o.entry) /\ o.entry.reset = 0
    BY <1>1, <1>2, <1>4 DEF Request
  <1>7. Kind[o.id] = "user"
    BY <1>5 DEF Steady
  <1>8. /\ stats' = [stats EXCEPT ![o.email] = IF @ = None THEN None ELSE UpdatedRow(@, o.entry)]
        /\ SaveInbound(o.row, o.id)
        /\ \E FD \in Failing(D), FE \in Failing(E) :
              /\ SetLive(AfterAddUsers(AfterDropUsers(proc.live, D, FD), E, FE))
              /\ \E need : Done(a, need)
    BY <1>2, <1>3, <1>4, <1>7, Zenon DEF FinishUpdateClient
  <1>9. /\ \A x \in Emails \ {o.email} : stats'[x] = stats[x]
        /\ stats'[o.email] # None => /\ stats'[o.email].enable = o.entry.enable
                                     /\ stats'[o.email].reset = 0
    <2>1. /\ \A x \in Emails \ {o.email} : stats'[x] = stats[x]
          /\ stats'[o.email] = IF stats[o.email] = None THEN None
                               ELSE UpdatedRow(stats[o.email], o.entry)
      BY <1>4, <1>5, <1>8 DEF StatsType
    <2>2. stats[o.email] # None => stats[o.email] \in Row
      BY <1>4, <1>5 DEF StatsType
    <2> QED BY <1>6, <2>1, <2>2 DEF UpdatedRow, Row
  <1>10. o.entry # None
    BY <1>5, NoneAssumption
  <1>11. Edited(o.email, o.row, o.entry, stats')
    BY <1>6, <1>9 DEF Edited, InSettings
  <1>12. inbounds' = [inbounds EXCEPT ![Home[o.email]] = o.row]
    BY <1>6, <1>8 DEF SaveInbound
  <1>13. Fit(inbounds', stats')
    BY <1>4, <1>5, <1>9, <1>10, <1>11, <1>12, EditedFit
  <1>14. PICK FD \in Failing(D), FE \in Failing(E) :
            /\ SetLive(AfterAddUsers(AfterDropUsers(proc.live, D, FD), E, FE))
            /\ \E need : Done(a, need)
    BY <1>8
  <1>15. /\ proc'.live = AfterAddUsers(AfterDropUsers(proc.live, D, FD), E, FE)
         /\ proc'.state = proc.state
    BY <1>4, <1>14
  <1>16. ASSUME proc.state = "up"
         PROVE  proc'.live = GetXrayConfig(inbounds', stats')
    <2>1. proc.live = Wanted /\ FD = {} /\ FE = {}
      BY <1>1, <1>2, <1>4, <1>14, <1>16 DEF Follows
    <2>2. D \in SUBSET Emails /\ E \in SUBSET Emails
      BY <1>3, <1>5
    <2>3. PICK dropped \in Config : dropped = AfterDropUsers(proc.live, D, {})
      BY <1>4, <2>2, UsersType
    <2>4. proc'.live = AfterAddUsers(dropped, E, {})
      BY <1>15, <2>1, <2>3
    <2>5. proc'.live \in Config
      BY <2>2, <2>4, UsersType
    <2>6. ASSUME NEW j \in Inbounds
          PROVE  proc'.live[j] = IF Wanted[j] = None THEN None
                                 ELSE (Wanted[j] \ Among(D, j)) \cup Among(E, j)
      <3>2. dropped[j] = IF Wanted[j] = None THEN None ELSE Wanted[j] \ Among(D, j)
        BY <1>4, <2>1, <2>2, <2>3, <2>6, DroppedAt
      <3>3. proc'.live[j] = IF dropped[j] = None THEN None ELSE dropped[j] \cup Among(E, j)
        <4>1. AfterAddUsers(dropped, E, {})[j] =
                 IF dropped[j] = None THEN None ELSE dropped[j] \cup Among(E, j)
          BY <2>2, AddedAt
        <4> QED BY <2>4, <4>1
      <3>4. Wanted[j] # None => (Wanted[j] \ Among(D, j)) # None
        <4>1. Wanted[j] # None => (Wanted[j] \ Among(D, j)) \in SUBSET Emails
          BY <1>4 DEF Config
        <4> QED BY <4>1, ConstantsAssumption DEF ConstantsAssumption
      <3> QED BY <3>2, <3>3, <3>4
    <2>7. ASSUME NEW j \in Inbounds
          PROVE  proc'.live[j] =
                    IF j # Home[o.email] THEN Wanted[j]
                    ELSE IF Wanted[j] = None THEN None
                    ELSE (Wanted[j] \ {o.email}) \cup E
      <3>1. CASE j # Home[o.email]
        <4>1. Among(D, j) = {} /\ Among(E, j) = {}
          BY <1>3, <3>1 DEF Among
        <4>2. (Wanted[j] \ {}) \cup {} = Wanted[j] \/ Wanted[j] = None
          BY <1>4 DEF Config
        <4> QED BY <2>6, <3>1, <4>1, <4>2
      <3>2. CASE j = Home[o.email] /\ Wanted[j] # None
        <4>1. Among(D, j) = D /\ Among(E, j) = E
          BY <1>3, <3>2 DEF Among
        <4>2. ~o.old.enable => o.email \notin Wanted[j]
          BY <1>4, <1>6, <3>2, WantedUser DEF On
        <4>3. Wanted[j] \ D = Wanted[j] \ {o.email}
          <5>1. Wanted[j] \in SUBSET Emails
            BY <1>4, <3>2 DEF Config
          <5> QED BY <1>3, <4>2, <5>1
        <4> QED BY <2>6, <3>2, <4>1, <4>3
      <3>3. CASE j = Home[o.email] /\ Wanted[j] = None
        BY <2>6, <3>3
      <3> QED BY <3>1, <3>2, <3>3
    <2>8. {x \in {o.email} : o.entry # None /\ o.entry.enable
                             /\ (stats'[o.email] # None => stats'[o.email].enable)} = E
      BY <1>3, <1>9, <1>10
    <2>9. Switched(proc'.live, o.email, o.entry, stats')
      BY <2>7, <2>8 DEF Switched
    <2> QED BY <1>4, <1>5, <1>11, <1>12, <2>5, <2>9, EditedConfig
  <1>17. PICK need : Done(a, need)
    BY <1>14
  <1> QED BY <1>1, <1>13, <1>15, <1>16, <1>17, DoneFits


LEMMA DelClientStatFits ==
    ASSUME Steady, Following, NEW a \in Admins, DelClientStat(a)
    PROVE  Fits'
  <1>1. op[a] # NoOp /\ op[a].kind = "DelClient"
    BY DEF DelClientStat, NoOp
  <1>2. PICK o : o = op[a]
    OBVIOUS
  <1>3. CASE Fails(a)
    BY <1>1, <1>3, FailsFit DEF Follows
  <1>4. /\ inbounds \in InboundsType /\ stats \in StatsType /\ proc \in ProcType
        /\ proc.live \in Config /\ Fit(inbounds, stats) /\ Request(o)
        /\ proc.state \in {"up", "down"} /\ ~NoApi /\ Wanted \in Config
        /\ proc.state = "up" => Follows(o)
        /\ \A live : SetLive(live) => proc'.live = live /\ proc'.state = proc.state
        /\ \A C : \A F \in Failing(C) : proc.state = "up" => F = {}
    BY <1>1, <1>2, AtWorkFacts
  <1>5. o.id \in Inbounds /\ o.row \in InboundRow /\ o.email \in Emails
    BY <1>1, <1>2, RowsTyped DEF Following
  <1>6. /\ InSettings(inbounds, o.email) /\ o.id = Home[o.email] /\ inbounds[o.id] # None
        /\ o.api = inbounds[o.id].clients[o.email].enable
        /\ Edits(o.row, o.id, o.email, None)
    BY <1>1, <1>2, <1>4 DEF Request, InSettings
  <1>7. Kind[o.id] = "user"
    BY <1>5 DEF Steady
  <1>8. CASE ~Fails(a)
    <2>1. PICK E : E = IF o.api /\ stats[o.email].enable THEN {o.email} ELSE {}
      OBVIOUS
    <2>2. /\ stats[o.email] # None /\ stats' = [stats EXCEPT ![o.email] = None]
          /\ UNCHANGED <<inbounds, restart, job>>
          /\ \E F \in Failing(E) :
                /\ SetLive(AfterDropUsers(proc.live, E, F))
                /\ \E n : op' = [op EXCEPT ![a] = [kind |-> "SaveDelClient", id |-> o.id,
                                                   row |-> o.row, need |-> n]]
      <3>1. UNCHANGED inbounds
        BY <1>4, <1>8, Zenon DEF DelClientStat
      <3>2. E = IF (o.api /\ stats[o.email].enable) /\ Kind[o.id] = "user" THEN {o.email} ELSE {}
        BY <1>7, <2>1
      <3> QED BY <1>2, <1>4, <1>8, <3>1, <3>2, Zenon DEF DelClientStat
    <2>3. /\ \A x \in Emails \ {o.email} : stats'[x] = stats[x]
          /\ stats'[o.email] = None
      BY <1>4, <1>5, <2>2 DEF StatsType
    <2>4. PICK F \in Failing(E) :
            /\ SetLive(AfterDropUsers(proc.live, E, F))
            /\ \E n : op' = [op EXCEPT ![a] = [kind |-> "SaveDelClient", id |-> o.id,
                                               row |-> o.row, need |-> n]]
      BY <2>2
    <2>5. /\ op'[a].kind = "SaveDelClient" /\ op'[a].id = o.id /\ op'[a].row = o.row
          /\ \A b \in Admins \ {a} : op'[b] = op[b]
      BY <2>4 DEF Following, TypeOK
    <2>6. proc'.live = AfterDropUsers(proc.live, E, F) /\ proc'.state = proc.state
      BY <1>4, <2>4
    <2>7. Fit(inbounds', stats')
      <3>1. ASSUME NEW x \in Emails, stats'[x] # None
            PROVE  stats'[x] = stats[x]
        BY <2>3, <3>1
      <3> QED BY <1>4, <2>2, <3>1 DEF Fit
    <2>8. Request(op[a])'
      <3>1. Edits(o.row, o.id, o.email, None)'
        BY <1>6, <2>2 DEF Edits
      <3> QED BY <1>5, <1>6, <2>2, <2>3, <2>5, <3>1 DEF Request
    <2>9. ASSUME proc.state = "up"
          PROVE  proc'.live = GetXrayConfig([inbounds EXCEPT ![Home[o.email]] = o.row], stats')
      <3>1. proc.live = Wanted /\ F = {}
        BY <1>1, <1>2, <1>4, <2>4, <2>9 DEF Follows
      <3>2. E \in SUBSET Emails
        BY <1>5, <2>1
      <3>3. proc'.live \in Config
        BY <1>4, <2>6, <3>2, UsersType
      <3>4. ASSUME NEW j \in Inbounds
            PROVE  proc'.live[j] = IF Wanted[j] = None THEN None
                                   ELSE Wanted[j] \ Among(E, j)
        <4>1. AfterDropUsers(Wanted, E, {})[j] =
                 IF Wanted[j] = None THEN None ELSE Wanted[j] \ Among(E, j)
          BY <1>4, <3>2, DroppedAt
        <4> QED BY <2>6, <3>1, <4>1
      <3>5. ASSUME NEW j \in Inbounds
            PROVE  proc'.live[j] = IF j # Home[o.email] THEN Wanted[j]
                                   ELSE IF Wanted[j] = None THEN None
                                   ELSE (Wanted[j] \ {o.email}) \cup {}
        <4>1. CASE j # Home[o.email]
          <5>1. Among(E, j) = {}
            BY <2>1, <4>1 DEF Among
          <5>2. Wanted[j] \ {} = Wanted[j] \/ Wanted[j] = None
            BY <1>4 DEF Config
          <5> QED BY <3>4, <4>1, <5>1, <5>2
        <4>2. CASE j = Home[o.email] /\ Wanted[j] # None
          <5>1. Among(E, j) = E
            BY <2>1, <4>2 DEF Among
          <5>2. E = {} => o.email \notin Wanted[j]
            BY <1>4, <1>6, <2>1, <2>2, <4>2, WantedUser DEF On
          <5>3. Wanted[j] \in SUBSET Emails
            BY <1>4, <4>2 DEF Config
          <5>4. Wanted[j] \ E = (Wanted[j] \ {o.email}) \cup {}
            BY <2>1, <5>2, <5>3
          <5> QED BY <3>4, <4>2, <5>1, <5>4
        <4>3. CASE j = Home[o.email] /\ Wanted[j] = None
          BY <3>4, <4>3
        <4> QED BY <4>1, <4>2, <4>3
      <3>6. {x \in {o.email} : None # None /\ None.enable
                               /\ (stats'[o.email] # None => stats'[o.email].enable)} = {}
        OBVIOUS
      <3>7. Switched(proc'.live, o.email, None, stats')
        BY <3>5, <3>6 DEF Switched
      <3>8. Edited(o.email, o.row, None, stats')
        BY <1>6, <2>3 DEF Edited
      <3> QED BY <1>4, <1>5, <3>3, <3>7, <3>8, EditedConfig
    <2>10. proc'.state = "up" => Follows(op[a])'
      BY <1>6, <2>2, <2>5, <2>6, <2>9 DEF Follows
    <2>11. /\ restart.pc = "idle" /\ job.pc = "idle"
           /\ \A b \in Admins \ {a} : op[b] = NoOp
      BY <1>1, RequestAlone
    <2>12. /\ restart'.pc = "idle" /\ job'.pc = "idle" /\ proc'.state \in {"up", "down"}
           /\ \A b \in Admins \ {a} : op'[b] = NoOp
      BY <1>4, <2>2, <2>5, <2>6, <2>11
    <2> QED BY <2>7, <2>8, <2>10, <2>12, HandlerFits
  <1> QED BY <1>3, <1>8

LEMMA SaveDelClientFits ==
    ASSUME Steady, Following, NEW a \in Admins, SaveDelClient(a)
    PROVE  Fits'
  <1>1. op[a] # NoOp /\ op[a].kind = "SaveDelClient"
    BY DEF SaveDelClient, NoOp
  <1>2. PICK o : o = op[a]
    OBVIOUS
  <1>3. /\ inbounds \in InboundsType /\ Fit(inbounds, stats) /\ Request(o)
        /\ proc.state = "up" => Follows(o)
    BY <1>1, <1>2, AtWorkFacts
  <1>4. o.row \in InboundRow
    BY <1>1, <1>2, RowsTyped DEF Following
  <1>5. PICK e \in Emails : Home[e] = o.id /\ stats[e] = None /\ Edits(o.row, o.id, e, None)
    BY <1>1, <1>2, <1>3 DEF Request
  <1>6. Edited(e, o.row, None, stats)
    BY <1>1, <1>2, <1>3, <1>5 DEF Request, Edited
  <1>7. /\ inbounds' = [inbounds EXCEPT ![Home[e]] = o.row]
        /\ UNCHANGED <<stats, proc>> /\ Done(a, o.need)
    BY <1>2, <1>5 DEF SaveDelClient, SaveInbound
  <1>8. Fit(inbounds', stats')
    BY <1>3, <1>4, <1>5, <1>6, <1>7, EditedFit
  <1>9. proc'.state = "up" => proc'.live = GetXrayConfig(inbounds', stats')
    BY <1>1, <1>2, <1>3, <1>5, <1>7 DEF Follows
  <1> QED BY <1>1, <1>7, <1>8, <1>9, DoneFits


LEMMA ResetClientFits ==
    ASSUME Steady, Following, NEW a \in Admins, FinishResetClient(a)
    PROVE  Fits'
  <1>1. op[a] # NoOp /\ op[a].kind = "ResetClient"
    <2>1. op[a].kind = "ResetClient"
      BY DEF FinishResetClient
    <2> QED BY <2>1 DEF NoOp
  <1>2. PICK o : o = op[a]
    OBVIOUS
  <1>3. CASE Fails(a)
    BY <1>1, <1>3, FailsFit DEF Follows
  <1>4. /\ inbounds \in InboundsType /\ stats \in StatsType /\ proc \in ProcType
        /\ proc.live \in Config /\ Fit(inbounds, stats) /\ Request(o)
        /\ proc.state = "up" => Follows(o)
        /\ \A live : SetLive(live) => proc'.live = live /\ proc'.state = proc.state
    BY <1>1, <1>2, AtWorkFacts
  <1>5. o.email \in Emails /\ o.row \in Row
    BY <1>1, <1>2, RowsTyped DEF Following
  <1>6. /\ stats[o.email] # None /\ o.row.reset = 0
        /\ inbounds[Home[o.email]].clients[o.email].enable => o.row.enable
    BY <1>1, <1>2, <1>4 DEF Request
  <1>7. CASE ~Fails(a)
    <2>1. PICK E : E = IF /\ ~o.row.enable
                          /\ InSettings(inbounds, o.email)
                          /\ inbounds[Home[o.email]].clients[o.email].enable
                       THEN {o.email} ELSE {}
      OBVIOUS
    <2>2. E = {}
      BY <1>6, <2>1
    <2>3. /\ stats' = [stats EXCEPT ![o.email] = ResetRow(o.row)]
          /\ UNCHANGED inbounds
          /\ \E F \in Failing(E) :
                /\ SetLive(AfterAddUsers(proc.live, E, F))
                /\ \E need : Done(a, need)
      BY <1>2, <1>7, <2>1, Zenon DEF FinishResetClient
    <2>4. PICK F \in Failing(E) : /\ SetLive(AfterAddUsers(proc.live, E, F))
                                  /\ \E need : Done(a, need)
      BY <2>3
    <2>5. proc'.live = proc.live /\ proc'.state = proc.state
      BY <1>4, <2>2, <2>4, RefusedCalls
    <2>6. PICK su : su = stats'
      OBVIOUS
    <2>7. Enables(su)
      <3>1. /\ su[o.email] = ResetRow(o.row)
            /\ \A x \in Emails \ {o.email} : su[x] = stats[x]
        BY <1>4, <1>5, <2>3, <2>6 DEF StatsType
      <3>2. ResetRow(o.row) # None /\ ResetRow(o.row).enable /\ ResetRow(o.row).reset = 0
        <4>1. ResetRow(o.row) \in Row
          BY <1>5, ResetRowType
        <4> QED BY <1>5, <1>6, <4>1, NoneAssumption DEF ResetRow, Row
      <3> QED BY <1>6, <3>1, <3>2 DEF Enables
    <2>8. Fit(inbounds, su)
      BY <1>4, <2>7, EnablesFit
    <2>9. GetXrayConfig(inbounds, su) = Wanted
      <3>1. \A i \in Inbounds : inbounds[i] # None =>
               \A e \in Emails :
                  inbounds[i].clients[e] # None /\ inbounds[i].clients[e].enable /\ stats[e] # None
                     => stats[e].enable
        BY <1>4, EntryOff
      <3> QED BY <1>4, <2>7, <3>1, EnablesConfig DEF Wanted
    <2>10. Fit(inbounds', stats')
      BY <2>3, <2>6, <2>8
    <2>11. proc'.state = "up" => proc'.live = GetXrayConfig(inbounds', stats')
      BY <1>1, <1>2, <1>4, <2>3, <2>5, <2>6, <2>9 DEF Follows
    <2>12. PICK need : Done(a, need)
      BY <2>4
    <2> QED BY <1>1, <2>5, <2>10, <2>11, <2>12, DoneFits
  <1> QED BY <1>3, <1>7

\* A reset of one row of stats that exists.
LEMMA ResetRowEnables ==
    ASSUME Fit(inbounds, stats), stats \in StatsType, NEW e \in Emails, stats[e] # None
    PROVE  /\ ResetRow(stats[e]) # None
           /\ ResetRow(stats[e]).enable /\ ResetRow(stats[e]).reset = 0
  <1>1. stats[e] \in Row /\ stats[e].reset = 0
    BY DEF StatsType, Fit
  <1>2. ResetRow(stats[e]) \in Row
    BY <1>1, ResetRowType
  <1> QED BY <1>1, <1>2, NoneAssumption DEF ResetRow, Row

LEMMA StatementsFit ==
    ASSUME Steady, Following, TypeOK', NEW a \in Admins,
           \/ \E e \in Emails : ResetClientTrafficByEmail(a, e)
           \/ \E i \in Inbounds : ResetAllClientTraffics(a, i) \/ PeriodicTrafficReset(a, i)
           \/ ResetAllTraffics(a)
    PROVE  Fits'
  <1>1. inbounds \in InboundsType /\ stats \in StatsType /\ Fit(inbounds, stats)
    BY DEF Following, TypeOK, InboundsType, StatsType
  <1>2. ASSUME NEW i \in Inbounds PROVE Enables(ResetOf(i))
    BY <1>1, ResetRowEnables DEF ResetOf, Enables
  <1>3. Enables(stats)
    BY DEF Enables
  <1>4. ASSUME NEW i \in Inbounds, inbounds[i] # None
        PROVE  /\ [inbounds[i] EXCEPT !.used = 0] # None
               /\ [inbounds[i] EXCEPT !.used = 0].enable = inbounds[i].enable
               /\ [inbounds[i] EXCEPT !.used = 0].clients = inbounds[i].clients
    <2>1. inbounds[i] \in InboundRow
      BY <1>1, <1>4 DEF InboundsType
    <2>2. [inbounds[i] EXCEPT !.used = 0] \in InboundRow
      BY <2>1 DEF InboundRow
    <2> QED BY <2>1, <2>2, ConstantsAssumption DEF InboundRow, ConstantsAssumption
  <1>5. ASSUME NEW e \in Emails, ResetClientTrafficByEmail(a, e)
        PROVE  Fits'
    <2>1. /\ UNCHANGED <<inbounds, op, proc, restart, job>> /\ stats[e] # None
          /\ stats' = [stats EXCEPT ![e] = ResetRow(stats[e])]
      BY <1>5 DEF ResetClientTrafficByEmail, runtime
    <2>2. /\ stats'[e] = ResetRow(stats[e])
          /\ \A x \in Emails \ {e} : stats'[x] = stats[x]
      BY <1>1, <2>1 DEF StatsType
    <2>3. Enables(stats')
      BY <1>1, <2>1, <2>2, ResetRowEnables DEF Enables
    <2> QED BY <2>1, <2>3, ResetsFit
  <1>6. ASSUME NEW i \in Inbounds, ResetAllClientTraffics(a, i)
        PROVE  Fits'
    <2>1. UNCHANGED <<inbounds, op, proc, restart, job>> /\ stats' = ResetOf(i)
      BY <1>6 DEF ResetAllClientTraffics, runtime
    <2> QED BY <1>2, <2>1, ResetsFit
  <1>7. ASSUME NEW i \in Inbounds, PeriodicTrafficReset(a, i)
        PROVE  Fits'
    <2>1. /\ UNCHANGED <<op, proc, restart, job>> /\ stats' = ResetOf(i) /\ inbounds[i] # None
          /\ inbounds' = [inbounds EXCEPT ![i] = [inbounds[i] EXCEPT !.used = 0]]
      BY <1>1, <1>7 DEF PeriodicTrafficReset, runtime, InboundsType
    <2>2. ASSUME NEW j \in Inbounds
          PROVE  /\ inbounds'[j] = None <=> inbounds[j] = None
                 /\ inbounds[j] # None => /\ inbounds'[j].enable = inbounds[j].enable
                                          /\ inbounds'[j].clients = inbounds[j].clients
      <3>1. inbounds'[j] = IF j = i THEN [inbounds[i] EXCEPT !.used = 0] ELSE inbounds[j]
        BY <1>1, <2>1 DEF InboundsType
      <3> QED BY <1>4, <2>1, <3>1
    <2>3. Enables(stats')
      BY <1>2, <2>1
    <2> QED BY <2>1, <2>2, <2>3, ResetsFit
  <1>8. CASE ResetAllTraffics(a)
    <2>1. /\ UNCHANGED <<op, proc, restart, job, stats>>
          /\ inbounds' = [i \in Inbounds |->
                             IF inbounds[i] = None THEN None ELSE [inbounds[i] EXCEPT !.used = 0]]
      BY <1>8 DEF ResetAllTraffics, runtime
    <2>2. ASSUME NEW j \in Inbounds
          PROVE  /\ inbounds'[j] = None <=> inbounds[j] = None
                 /\ inbounds[j] # None => /\ inbounds'[j].enable = inbounds[j].enable
                                          /\ inbounds'[j].clients = inbounds[j].clients
      BY <1>4, <2>1
    <2>3. Enables(stats')
      BY <1>3, <2>1
    <2> QED BY <2>1, <2>2, <2>3, ResetsFit
  <1> QED BY <1>5, <1>6, <1>7, <1>8

-----------------------------------------------------------------------------
(* The requests about one inbound.                                         *)

LEMMA BeginDelInboundFits ==
    ASSUME Steady, Following, OneAtATime', NEW a \in Admins, NEW i \in Inbounds,
           BeginDelInbound(a, i)
    PROVE  Fits'
  <1>1. /\ inbounds \in InboundsType /\ stats \in StatsType /\ Fit(inbounds, stats)
        /\ proc \in ProcType /\ proc.live \in Config
    BY DEF Following, TypeOK, InboundsType, StatsType, ProcType
  <1>2. /\ op[a] = NoOp /\ inbounds[i] # None
        /\ UNCHANGED <<inbounds, restart, job, waiting>>
        /\ stats' = [e \in Emails |-> IF Home[e] = i THEN None ELSE stats[e]]
    BY DEF BeginDelInbound, Accept
  <1>3. PICK I : I = IF inbounds[i].enable THEN {i} ELSE {}
    OBVIOUS
  <1>4. \E F \in Failing(I) :
           /\ SetLive(IF inbounds[i].enable THEN AfterDelInbound(proc.live, i, F) ELSE proc.live)
           /\ \E n : op' = [op EXCEPT ![a] = [kind |-> "DelInbound", id |-> i, need |-> n]]
    BY <1>3, Zenon DEF BeginDelInbound
  <1>5. PICK F \in Failing(I) :
           /\ SetLive(IF inbounds[i].enable THEN AfterDelInbound(proc.live, i, F) ELSE proc.live)
           /\ \E n : op' = [op EXCEPT ![a] = [kind |-> "DelInbound", id |-> i, need |-> n]]
    BY <1>4
  <1>6. /\ op'[a].kind = "DelInbound" /\ op'[a].id = i /\ op'[a] # NoOp
        /\ \A b \in Admins \ {a} : op'[b] = op[b]
    BY <1>5 DEF Following, TypeOK, NoOp
  <1>7. /\ proc'.state = proc.state
        /\ proc'.live = IF inbounds[i].enable THEN AfterDelInbound(proc.live, i, F) ELSE proc.live
    BY <1>1, <1>5 DEF SetLive, ProcType
  <1>8. /\ Quiet /\ restart.pc = "idle" /\ job.pc = "idle" /\ proc.state \in {"up", "down"}
        /\ \A b \in Admins \ {a} : op'[b] = NoOp
    BY <1>2, <1>6, <1>7, BeginsAlone
  <1>9. Fit(inbounds', stats')
    <2>1. ASSUME NEW e \in Emails, stats'[e] # None PROVE stats'[e] = stats[e]
      BY <1>2, <2>1
    <2> QED BY <1>1, <1>2, <2>1 DEF Fit
  <1>10. Request(op[a])'
    <2>1. ~HasStats(i)'
      BY <1>2 DEF HasStats, Keys
    <2> QED BY <1>2, <1>6, <2>1 DEF Request
  <1>11. ASSUME proc.state = "up"
         PROVE  proc'.live = GetXrayConfig([inbounds EXCEPT ![i] = None], stats')
    <2>1. PICK jb, su : jb = [inbounds EXCEPT ![i] = None] /\ su = stats'
      OBVIOUS
    <2>2. jb \in InboundsType /\ jb[i] = None /\ \A j \in Inbounds \ {i} : jb[j] = inbounds[j]
      BY <1>1, <2>1 DEF InboundsType
    <2>3. proc.live = Wanted /\ F = {}
      BY <1>5, <1>8, <1>11, NoneFails DEF Following, ServesFit
    <2>4. ASSUME NEW j \in Inbounds \ {i}
          PROVE  GetXrayConfig(jb, su)[j] = Wanted[j]
      <3>1. ASSUME inbounds[j] # None, NEW x \in Emails
            PROVE  On(inbounds[j], su, x) <=> On(inbounds[j], stats, x)
        <4>1. CASE Home[x] = i
          <5>1. inbounds[j].clients[x] = None
            BY <1>1, <2>4, <3>1, <4>1 DEF Fit
          <5> QED BY <5>1 DEF On
        <4>2. CASE Home[x] # i
          <5>1. su[x] = stats[x]
            BY <1>2, <2>1, <4>2
          <5> QED BY <5>1 DEF On
        <4> QED BY <4>1, <4>2
      <3>2. jb[j] = inbounds[j]
        BY <2>2, <2>4
      <3>3. GetXrayConfig(jb, su)[j] = GetXrayConfig(inbounds, stats)[j]
        BY <1>1, <2>2, <3>1, <3>2, SameConfig
      <3> QED BY <3>3 DEF Wanted
    <2>5. GetXrayConfig(jb, su)[i] = None
      BY <2>2, ConfigAt
    <2>6. ~inbounds[i].enable => Wanted[i] = None
      BY <1>1, ConfigAt DEF Wanted
    <2>7. ASSUME NEW j \in Inbounds
          PROVE  proc'.live[j] = IF j = i THEN None ELSE Wanted[j]
      <3>1. CASE inbounds[i].enable
        <4>1. proc'.live = [Wanted EXCEPT ![i] = None]
          BY <1>7, <2>3, <3>1 DEF AfterDelInbound
        <4> QED BY <1>1, <2>3, <4>1 DEF Config
      <3>2. CASE ~inbounds[i].enable
        BY <1>7, <2>3, <2>6, <3>2
      <3> QED BY <3>1, <3>2
    <2>8. proc'.live \in Config
      BY <1>1, <1>7, InboundCallsType
    <2>9. GetXrayConfig(jb, su) \in Config
      BY <2>2, ConfigType
    <2>10. \A j \in Inbounds : proc'.live[j] = GetXrayConfig(jb, su)[j]
      BY <2>4, <2>5, <2>7
    <2>11. proc'.live = GetXrayConfig(jb, su)
      BY <2>8, <2>9, <2>10, ConfigsEqual
    <2> QED BY <2>1, <2>11
  <1>12. proc'.state = "up" => Follows(op[a])'
    BY <1>2, <1>6, <1>7, <1>11 DEF Follows
  <1> QED BY <1>2, <1>7, <1>8, <1>9, <1>10, <1>12, HandlerFits

LEMMA FinishDelInboundFits ==
    ASSUME Steady, Following, NEW a \in Admins, FinishDelInbound(a)
    PROVE  Fits'
  <1>1. op[a] # NoOp /\ op[a].kind = "DelInbound"
    BY DEF FinishDelInbound, NoOp
  <1>2. PICK o : o = op[a]
    OBVIOUS
  <1>3. /\ inbounds \in InboundsType /\ stats \in StatsType /\ Fit(inbounds, stats) /\ Request(o)
        /\ proc.state = "up" => Follows(o)
    BY <1>1, <1>2, AtWorkFacts
  <1>4. o.id \in Inbounds /\ inbounds[o.id] # None /\ ~HasStats(o.id)
    BY <1>1, <1>2, <1>3, RowsTyped DEF Request, Following
  <1>5. /\ inbounds' = [inbounds EXCEPT ![o.id] = None]
        /\ UNCHANGED <<stats, proc>> /\ Done(a, o.need)
    BY <1>2, <1>4 DEF FinishDelInbound
  <1>6. Fit(inbounds', stats')
    <2>1. inbounds'[o.id] = None /\ \A j \in Inbounds \ {o.id} : inbounds'[j] = inbounds[j]
      BY <1>3, <1>4, <1>5 DEF InboundsType
    <2>2. ASSUME NEW e \in Emails, stats[e] # None PROVE Home[e] \in Inbounds \ {o.id}
      <3>1. Home[e] # o.id
        BY <1>3, <1>4, <2>2 DEF HasStats, Keys, StatsType
      <3> QED BY <3>1, ConstantsAssumption DEF ConstantsAssumption
    <2> QED BY <1>3, <1>5, <2>1, <2>2 DEF Fit, InSettings
  <1>7. proc'.state = "up" => proc'.live = GetXrayConfig(inbounds', stats')
    BY <1>1, <1>2, <1>3, <1>5 DEF Follows
  <1> QED BY <1>1, <1>5, <1>6, <1>7, DoneFits


\* Inbound i with another enable flag or another row, its clients the same.
Resaved(i, row) == inbounds[i] # None /\ row.clients = inbounds[i].clients

LEMMA SameClientsFit ==
    ASSUME Fit(inbounds, stats), inbounds \in InboundsType, NEW i \in Inbounds,
           NEW row \in InboundRow, Resaved(i, row), NEW jb, jb = [inbounds EXCEPT ![i] = row]
    PROVE  /\ Fit(jb, stats) /\ jb \in InboundsType
           /\ \A j \in Inbounds \ {i} : jb[j] = inbounds[j]
  <1> USE DEF Resaved
  <1>2. /\ jb[i] = row /\ row # None /\ \A j \in Inbounds \ {i} : jb[j] = inbounds[j]
    BY EditedType
  <1>3. jb \in InboundsType
    BY DEF InboundsType
  <1>4. Enables(stats)
    BY DEF Enables
  <1>5. \A j \in Inbounds : /\ jb[j] = None <=> inbounds[j] = None
                            /\ inbounds[j] # None => jb[j].clients = inbounds[j].clients
    BY <1>2
  <1>6. Fit(jb, stats)
    BY <1>4, <1>5, EnablesFit
  <1> QED BY <1>2, <1>3, <1>6

\* The other inbounds are configured as before.
LEMMA OthersWanted ==
    ASSUME Steady, inbounds \in InboundsType, NEW jb \in InboundsType, NEW i \in Inbounds,
           \A j \in Inbounds \ {i} : jb[j] = inbounds[j]
    PROVE  \A j \in Inbounds \ {i} : GetXrayConfig(jb, stats)[j] = Wanted[j]
  <1> SUFFICES ASSUME NEW j \in Inbounds \ {i}
               PROVE  GetXrayConfig(jb, stats)[j] = Wanted[j]
    OBVIOUS
  <1>1. jb[j] = inbounds[j]
    OBVIOUS
  <1>2. GetXrayConfig(jb, stats)[j] = GetXrayConfig(inbounds, stats)[j]
    BY <1>1, SameConfig
  <1> QED BY <1>2 DEF Wanted

\* An inbound that is dropped from Xray and, if enabled, rebuilt is as the
\* configuration has it.
LEMMA Rebuilt ==
    ASSUME Steady, NEW jb \in InboundsType, NEW i \in Inbounds, NEW row \in InboundRow,
           jb[i] # None, row.clients = jb[i].clients, NEW live \in Config,
           \A j \in Inbounds \ {i} : live[j] = GetXrayConfig(jb, stats)[j]
    PROVE  /\ jb[i].enable =>
                AfterAddInbound(AfterDelInbound(live, i, {}), i, RuntimeUsers(row, stats), {})
                   = GetXrayConfig(jb, stats)
           /\ ~jb[i].enable => AfterDelInbound(live, i, {}) = GetXrayConfig(jb, stats)
  <1>1. PICK cfg \in Config : cfg = GetXrayConfig(jb, stats)
    BY ConfigType
  <1>2. PICK dropped : dropped = AfterDelInbound(live, i, {})
    OBVIOUS
  <1>3. /\ dropped \in Config /\ dropped[i] = None
        /\ \A j \in Inbounds \ {i} : dropped[j] = cfg[j]
    BY <1>1, <1>2 DEF AfterDelInbound, Config
  <1>4. cfg[i] = IF jb[i].enable THEN {e \in Emails : On(jb[i], stats, e)} ELSE None
    BY <1>1, ConfigAt
  <1>5. ASSUME ~jb[i].enable
        PROVE  dropped = cfg
    <2>1. \A j \in Inbounds : dropped[j] = cfg[j]
      BY <1>3, <1>4, <1>5
    <2> QED BY <1>3, <2>1, ConfigsEqual
  <1>6. ASSUME jb[i].enable
        PROVE  AfterAddInbound(dropped, i, RuntimeUsers(row, stats), {}) = cfg
    <2>1. RuntimeUsers(row, stats) = cfg[i]
      <3>1. DOMAIN row.clients = Emails
        BY DEF InboundRow
      <3> QED BY <1>4, <1>6, <3>1 DEF RuntimeUsers, Keys, On
    <2>2. Delivered(i, RuntimeUsers(row, stats)) = cfg[i]
      BY <2>1 DEF Delivered, Steady
    <2>3. AfterAddInbound(dropped, i, RuntimeUsers(row, stats), {}) = [dropped EXCEPT ![i] = cfg[i]]
      BY <1>3, <2>2 DEF AfterAddInbound, AddInboundError
    <2>4. PICK built : built = [dropped EXCEPT ![i] = cfg[i]]
      OBVIOUS
    <2>5. built \in Config
      BY <1>3, <2>4 DEF Config
    <2>6. \A j \in Inbounds : built[j] = cfg[j]
      BY <1>3, <2>4 DEF Config
    <2>7. built = cfg
      BY <2>5, <2>6, ConfigsEqual
    <2> QED BY <2>3, <2>4, <2>7
  <1> QED BY <1>1, <1>2, <1>5, <1>6

LEMMA SetEnableFits ==
    ASSUME Steady, Following, NEW a \in Admins, SetEnable(a)
    PROVE  Fits'
  <1>1. op[a] # NoOp /\ op[a].kind = "SetInboundEnable"
    BY DEF SetEnable, NoOp
  <1>2. PICK o : o = op[a]
    OBVIOUS
  <1>3. /\ inbounds \in InboundsType /\ Fit(inbounds, stats) /\ Request(o)
        /\ proc.state \in {"up", "down"}
        /\ proc.state = "up" => Follows(o)
    BY <1>1, <1>2, AtWorkFacts
  <1>4. o \in [kind: {"SetInboundEnable", "SyncInbound"}, id: Inbounds, enable: BOOLEAN,
               row: InboundRow]
    BY <1>1, <1>2, OpCases DEF Following, TypeOK
  <1>5. inbounds[o.id] # None /\ o.row.clients = inbounds[o.id].clients
    BY <1>1, <1>2, <1>3 DEF Request
  <1>6. PICK row : row = [inbounds[o.id] EXCEPT !.enable = o.enable]
    OBVIOUS
  <1>7. row \in InboundRow /\ row.clients = inbounds[o.id].clients /\ row.enable = o.enable
    <2>1. inbounds[o.id] \in InboundRow
      BY <1>3, <1>4, <1>5 DEF InboundsType
    <2> QED BY <1>4, <1>6, <2>1 DEF InboundRow
  <1>8. /\ inbounds' = [inbounds EXCEPT ![o.id] = row]
        /\ op' = [op EXCEPT ![a].kind = "SyncInbound"]
        /\ UNCHANGED <<stats, proc, restart, job>>
    BY <1>2, <1>3, <1>4, <1>5, <1>6 DEF SetEnable, runtime, InboundsType
  <1>9. /\ Fit(inbounds', stats') /\ inbounds' \in InboundsType /\ inbounds'[o.id] = row
        /\ row # None /\ \A j \in Inbounds \ {o.id} : inbounds'[j] = inbounds[j]
    <2>1. PICK jb : jb = [inbounds EXCEPT ![o.id] = row]
      OBVIOUS
    <2>3. Resaved(o.id, row)
      BY <1>5, <1>7 DEF Resaved
    <2>2. /\ Fit(jb, stats) /\ jb \in InboundsType /\ jb[o.id] = row
          /\ row # None /\ \A j \in Inbounds \ {o.id} : jb[j] = inbounds[j]
      <3>0. o.id \in Inbounds
        BY <1>4
      <3>1. Fit(jb, stats)
        BY <1>3, <1>7, <2>1, <2>3, <3>0, SameClientsFit
      <3>2. jb \in InboundsType
        BY <1>3, <1>7, <2>1, <2>3, <3>0, SameClientsFit
      <3>3. jb[o.id] = row /\ row # None
        BY <1>3, <1>7, <2>1, <3>0, ConstantsAssumption DEF ConstantsAssumption, InboundsType
      <3>4. \A j \in Inbounds \ {o.id} : jb[j] = inbounds[j]
        BY <1>3, <1>7, <2>1, <2>3, <3>0, SameClientsFit
      <3> QED BY <3>1, <3>2, <3>3, <3>4
    <2> QED BY <1>8, <2>1, <2>2
  <1>10. /\ op'[a].kind = "SyncInbound" /\ op'[a].id = o.id /\ op'[a].row = o.row
         /\ op'[a].enable = o.enable /\ \A b \in Admins \ {a} : op'[b] = op[b]
    <2>1. op'[a] = [o EXCEPT !.kind = "SyncInbound"] /\ \A b \in Admins \ {a} : op'[b] = op[b]
      BY <1>2, <1>8 DEF Following, TypeOK
    <2> QED BY <1>4, <2>1
  <1>11. Request(op[a])'
    BY <1>5, <1>7, <1>9, <1>10 DEF Request
  <1>12. ASSUME proc.state = "up", NEW j \in Inbounds \ {o.id}
         PROVE  proc.live[j] = Wanted'[j]
    <2>1. proc.live = Wanted
      BY <1>1, <1>2, <1>3, <1>12 DEF Follows
    <2>2. PICK jb \in InboundsType : jb = inbounds'
      BY <1>9
    <2>3. GetXrayConfig(jb, stats)[j] = Wanted[j]
      BY <1>3, <1>4, <1>9, <2>2, OthersWanted
    <2> QED BY <1>8, <2>1, <2>2, <2>3 DEF Wanted
  <1>13. proc'.state = "up" => Follows(op[a])'
    BY <1>8, <1>10, <1>12 DEF Follows
  <1>14. /\ restart.pc = "idle" /\ job.pc = "idle"
         /\ \A b \in Admins \ {a} : op[b] = NoOp
    BY <1>1, RequestAlone
  <1>15. /\ restart'.pc = "idle" /\ job'.pc = "idle" /\ proc'.state \in {"up", "down"}
         /\ \A b \in Admins \ {a} : op'[b] = NoOp
    BY <1>3, <1>8, <1>10, <1>14
  <1> QED BY <1>9, <1>11, <1>13, <1>15, HandlerFits

LEMMA SyncInboundFits ==
    ASSUME Steady, Following, NEW a \in Admins, SyncInbound(a)
    PROVE  Fits'
  <1>1. op[a] # NoOp /\ op[a].kind = "SyncInbound"
    BY DEF SyncInbound, NoOp
  <1>2. PICK o : o = op[a]
    OBVIOUS
  <1>3. /\ inbounds \in InboundsType /\ Fit(inbounds, stats) /\ Request(o)
        /\ proc \in ProcType /\ proc.live \in Config /\ ~NoApi
        /\ proc.state = "up" => Follows(o)
        /\ \A live : SetLive(live) => proc'.live = live /\ proc'.state = proc.state
        /\ \A C : \A F \in Failing(C) : proc.state = "up" => F = {}
    BY <1>1, <1>2, AtWorkFacts
  <1>4. o.id \in Inbounds /\ o.row \in InboundRow
    BY <1>1, <1>2, RowsTyped DEF Following
  <1>5. /\ inbounds[o.id] # None /\ o.row.clients = inbounds[o.id].clients
        /\ o.enable = inbounds[o.id].enable
    BY <1>1, <1>2, <1>3 DEF Request
  <1>6. PICK C : C = IF o.enable THEN {o.id} ELSE {}
    OBVIOUS
  <1>7. /\ UNCHANGED <<inbounds, stats>>
        /\ \E FD \in Failing({o.id}), FA \in Failing(C) :
              /\ SetLive(IF o.enable
                         THEN AfterAddInbound(AfterDelInbound(proc.live, o.id, FD), o.id,
                                              RuntimeUsers(o.row, stats), FA)
                         ELSE AfterDelInbound(proc.live, o.id, FD))
              /\ \E need : Done(a, need)
    <2>1. UNCHANGED <<inbounds, stats>>
      BY DEF SyncInbound, db
    <2>2. PICK FD \in Failing({o.id}), FA \in Failing(C) :
            LET live == AfterDelInbound(proc.live, o.id, FD) IN
            IF o.enable
            THEN /\ SetLive(AfterAddInbound(live, o.id, RuntimeUsers(o.row, stats), FA))
                 /\ Done(a, o.id \in FD \/ AddInboundError(live, o.id, FA))
            ELSE /\ SetLive(live)
                 /\ Done(a, o.id \in FD)
      BY <1>2, <1>3, <1>6, Zenon DEF SyncInbound
    <2>3. CASE o.enable
      BY <2>1, <2>2, <2>3
    <2>4. CASE ~o.enable
      BY <2>1, <2>2, <2>4
    <2> QED BY <2>3, <2>4
  <1>8. PICK FD \in Failing({o.id}), FA \in Failing(C) :
              /\ SetLive(IF o.enable
                         THEN AfterAddInbound(AfterDelInbound(proc.live, o.id, FD), o.id,
                                              RuntimeUsers(o.row, stats), FA)
                         ELSE AfterDelInbound(proc.live, o.id, FD))
              /\ \E need : Done(a, need)
    BY <1>7
  <1>9. /\ proc'.state = proc.state
        /\ proc'.live = IF o.enable
                        THEN AfterAddInbound(AfterDelInbound(proc.live, o.id, FD), o.id,
                                             RuntimeUsers(o.row, stats), FA)
                        ELSE AfterDelInbound(proc.live, o.id, FD)
    BY <1>3, <1>8
  <1>10. ASSUME proc.state = "up"
         PROVE  proc'.live = GetXrayConfig(inbounds', stats')
    <2>1. FD = {} /\ FA = {}
      BY <1>3, <1>8, <1>10
    <2>2. \A j \in Inbounds \ {o.id} : proc.live[j] = GetXrayConfig(inbounds, stats)[j]
      BY <1>1, <1>2, <1>3, <1>10 DEF Follows, Wanted
    <2>3. /\ inbounds[o.id].enable =>
                AfterAddInbound(AfterDelInbound(proc.live, o.id, {}), o.id,
                                RuntimeUsers(o.row, stats), {}) = GetXrayConfig(inbounds, stats)
          /\ ~inbounds[o.id].enable =>
                AfterDelInbound(proc.live, o.id, {}) = GetXrayConfig(inbounds, stats)
      BY <1>3, <1>4, <1>5, <2>2, Rebuilt
    <2>4. CASE o.enable
      BY <1>5, <1>7, <1>9, <2>1, <2>3, <2>4
    <2>5. CASE ~o.enable
      BY <1>5, <1>7, <1>9, <2>1, <2>3, <2>5
    <2> QED BY <2>4, <2>5
  <1>11. PICK need : Done(a, need)
    BY <1>8
  <1>12. Fit(inbounds', stats')
    BY <1>3, <1>7
  <1> QED BY <1>1, <1>9, <1>10, <1>11, <1>12, DoneFits

LEMMA UpdateInboundFits ==
    ASSUME Steady, Following, NEW a \in Admins, UpdateInbound(a)
    PROVE  Fits'
  <1>1. op[a] # NoOp /\ op[a].kind = "UpdateInbound"
    BY DEF UpdateInbound, NoOp
  <1>2. PICK o : o = op[a]
    OBVIOUS
  <1>3. /\ inbounds \in InboundsType /\ stats \in StatsType /\ Fit(inbounds, stats) /\ Request(o)
        /\ proc \in ProcType /\ proc.live \in Config /\ ~NoApi
        /\ proc.state = "up" => Follows(o)
        /\ \A live : SetLive(live) => proc'.live = live /\ proc'.state = proc.state
        /\ \A C : \A F \in Failing(C) : proc.state = "up" => F = {}
    BY <1>1, <1>2, AtWorkFacts
  <1>4. o.id \in Inbounds /\ o.row \in InboundRow
    BY <1>1, <1>2, RowsTyped DEF Following
  <1>5. inbounds[o.id] # None /\ o.row.clients = inbounds[o.id].clients
    BY <1>1, <1>2, <1>3 DEF Request
  <1>6. Duplicates(o.id, o.row.clients) = {}
    BY <1>5 DEF Duplicates
  <1>7. StatsFor(o.id, o.row.clients) = stats
    <2>1. StatsFor(o.id, o.row.clients) = [e \in Emails |-> stats[e]]
      BY <1>5 DEF StatsFor
    <2> QED BY <1>3, <2>1 DEF StatsType
  <1>8. PICK C : C = IF o.row.enable THEN {o.id} ELSE {}
    OBVIOUS
  <1>9. /\ stats' = StatsFor(o.id, o.row.clients) /\ SaveInbound(o.row, o.id)
        /\ \E FD \in Failing({o.id}), FA \in Failing(C) :
              LET live  == AfterDelInbound(proc.live, o.id, FD)
                  users == RuntimeUsers(o.row, stats')
              IN  IF o.row.enable
                  THEN /\ SetLive(AfterAddInbound(live, o.id, users, FA))
                       /\ Done(a, AddInboundError(live, o.id, FA))
                  ELSE SetLive(live) /\ Done(a, FALSE)
    BY <1>2, <1>3, <1>5, <1>6, <1>8, Zenon DEF UpdateInbound
  <1>10. stats' = stats /\ inbounds' = [inbounds EXCEPT ![o.id] = o.row]
    BY <1>7, <1>9 DEF SaveInbound
  <1>11. /\ Fit(inbounds', stats') /\ inbounds' \in InboundsType /\ inbounds'[o.id] = o.row
         /\ o.row # None /\ \A j \in Inbounds \ {o.id} : inbounds'[j] = inbounds[j]
    <2>1. PICK jb : jb = [inbounds EXCEPT ![o.id] = o.row]
      OBVIOUS
    <2>3. Resaved(o.id, o.row)
      BY <1>5 DEF Resaved
    <2>2. /\ Fit(jb, stats) /\ jb \in InboundsType /\ jb[o.id] = o.row
          /\ o.row # None /\ \A j \in Inbounds \ {o.id} : jb[j] = inbounds[j]
      <3>1. Fit(jb, stats)
        BY <1>3, <1>4, <2>1, <2>3, SameClientsFit
      <3>2. jb \in InboundsType
        BY <1>3, <1>4, <2>1, <2>3, SameClientsFit
      <3>3. jb[o.id] = o.row /\ o.row # None
        BY <1>3, <1>4, <2>1, ConstantsAssumption DEF ConstantsAssumption, InboundsType
      <3>4. \A j \in Inbounds \ {o.id} : jb[j] = inbounds[j]
        BY <1>3, <1>4, <2>1, <2>3, SameClientsFit
      <3> QED BY <3>1, <3>2, <3>3, <3>4
    <2> QED BY <1>10, <2>1, <2>2
  <1>12. PICK FD \in Failing({o.id}), FA \in Failing(C) :
              LET live  == AfterDelInbound(proc.live, o.id, FD)
                  users == RuntimeUsers(o.row, stats')
              IN  IF o.row.enable
                  THEN /\ SetLive(AfterAddInbound(live, o.id, users, FA))
                       /\ Done(a, AddInboundError(live, o.id, FA))
                  ELSE SetLive(live) /\ Done(a, FALSE)
    BY <1>9
  <1>13. /\ o.row.enable =>
               SetLive(AfterAddInbound(AfterDelInbound(proc.live, o.id, FD), o.id,
                                       RuntimeUsers(o.row, stats), FA))
         /\ ~o.row.enable => SetLive(AfterDelInbound(proc.live, o.id, FD))
         /\ \E need : Done(a, need)
    BY <1>10, <1>12
  <1>14. /\ proc'.state = proc.state
         /\ o.row.enable =>
               proc'.live = AfterAddInbound(AfterDelInbound(proc.live, o.id, FD), o.id,
                                            RuntimeUsers(o.row, stats), FA)
         /\ ~o.row.enable => proc'.live = AfterDelInbound(proc.live, o.id, FD)
    <2>1. CASE o.row.enable
      BY <1>3, <1>13, <2>1
    <2>2. CASE ~o.row.enable
      BY <1>3, <1>13, <2>2
    <2> QED BY <2>1, <2>2
  <1>15. ASSUME proc.state = "up"
         PROVE  proc'.live = GetXrayConfig(inbounds', stats')
    <2>1. FD = {} /\ FA = {}
      BY <1>3, <1>12, <1>15
    <2>2. PICK jb \in InboundsType : jb = inbounds'
      BY <1>11
    <2>3. \A j \in Inbounds \ {o.id} : proc.live[j] = GetXrayConfig(jb, stats)[j]
      <3>1. proc.live = Wanted
        BY <1>1, <1>2, <1>3, <1>15 DEF Follows
      <3>2. \A j \in Inbounds \ {o.id} : GetXrayConfig(jb, stats)[j] = Wanted[j]
        BY <1>3, <1>4, <1>11, <2>2, OthersWanted
      <3> QED BY <3>1, <3>2
    <2>4. jb[o.id] = o.row /\ jb[o.id] # None
      BY <1>11, <2>2
    <2>5. /\ jb[o.id].enable =>
                AfterAddInbound(AfterDelInbound(proc.live, o.id, {}), o.id,
                                RuntimeUsers(o.row, stats), {}) = GetXrayConfig(jb, stats)
          /\ ~jb[o.id].enable =>
                AfterDelInbound(proc.live, o.id, {}) = GetXrayConfig(jb, stats)
      BY <1>3, <1>4, <2>3, <2>4, Rebuilt
    <2>6. proc'.live = GetXrayConfig(jb, stats)
      BY <1>14, <2>1, <2>4, <2>5
    <2> QED BY <1>10, <2>2, <2>6
  <1>16. PICK need : Done(a, need)
    BY <1>13
  <1> QED BY <1>1, <1>11, <1>14, <1>15, <1>16, DoneFits


-----------------------------------------------------------------------------
(* The theorems.                                                           *)

LEMMA InitFollowing == Steady /\ Init => Following
  <1> SUFFICES ASSUME Steady, Init PROVE Following
    OBVIOUS
  <1>1. TypeOK /\ JobWaits
    BY InitType, JobWaitsInit
  <1>2. \A a \in Admins : op[a] = NoOp
    BY DEF Init
  <1>3. restart.pc = "idle" /\ job.pc = "idle" /\ proc.state = "none"
    BY DEF Init, Idle, NoJob
  <1>4. OneAtATime
    BY <1>2, <1>3 DEF OneAtATime
  <1>5. Fit(inbounds, stats)
    <2>1. inbounds \in InboundsType /\ inbounds = FirstInbounds
      BY <1>1 DEF Init, TypeOK, InboundsType
    <2>2. ASSUME NEW i \in Inbounds, inbounds[i] # None, NEW e \in Emails,
                 inbounds[i].clients[e] # None
          PROVE  Home[e] = i /\ inbounds[i].clients[e].reset = 0
      <3>1. inbounds[i] \in InboundRow
        BY <2>1, <2>2 DEF InboundsType
      <3>2. i \in Keys(FirstInbounds) /\ e \in Keys(FirstInbounds[i].clients)
        BY <2>1, <2>2, <3>1 DEF Keys, InboundsType, InboundRow
      <3> QED BY <2>1, <3>2, ConstantsAssumption DEF ConstantsAssumption, Steady
    <2>3. ASSUME NEW e \in Emails, stats[e] # None
          PROVE  /\ InSettings(inbounds, e)
                 /\ inbounds[Home[e]].clients[e].enable => stats[e].enable
                 /\ stats[e].reset = 0
      <3>1. /\ InSettings(inbounds, e)
            /\ stats[e] = NewRow(inbounds[Home[e]].clients[e])
        BY <2>1, <2>3 DEF Init
      <3>2. Home[e] \in Inbounds
        BY ConstantsAssumption DEF ConstantsAssumption
      <3>3. inbounds[Home[e]].clients[e].reset = 0
        BY <2>2, <3>1, <3>2 DEF InSettings
      <3> QED BY <3>1, <3>3 DEF NewRow
    <2> QED BY <2>2, <2>3 DEF Fit
  <1>6. RequestsFit /\ RestartFits /\ ServesFit
    BY <1>2, <1>3 DEF RequestsFit, RestartFits, ServesFit
  <1> QED BY <1>1, <1>4, <1>5, <1>6 DEF Following

LEMMA NewRequestFits ==
    ASSUME Steady, Following, TypeOK', OneAtATime', NEW a \in Admins, NewRequest(a)
    PROVE  Fits'
  <1>1. CASE \E i \in Inbounds, f \in Forms, e \in Emails, c \in Entries : AddInbound(a, i, f, e, c)
    BY <1>1 DEF AddInbound, Accept, Steady
  <1>2. CASE \E i \in Inbounds : BeginDelInbound(a, i)
    BY <1>2, BeginDelInboundFits
  <1>3. CASE \/ \E e \in Emails : ResetClientTrafficByEmail(a, e)
             \/ \E i \in Inbounds : ResetAllClientTraffics(a, i) \/ PeriodicTrafficReset(a, i)
             \/ ResetAllTraffics(a)
    BY <1>3, StatementsFit
  <1>4. CASE \/ \E e \in Emails, c \in Entries : BeginAddClient(a, e, c) \/ BeginUpdateClient(a, e, c)
             \/ \E e \in Emails : BeginDelClient(a, e) \/ BeginResetClient(a, e)
             \/ \E i \in Inbounds : BeginSetInboundEnable(a, i)
             \/ \E i \in Inbounds, f \in Forms : OpenInboundForm(a, i, f)
    BY <1>4, BeginsFit
  <1> QED BY <1>1, <1>2, <1>3, <1>4, Zenon DEF NewRequest

LEMMA NextFollowing == Steady /\ Following /\ [Next /\ OneAtATime']_vars => Following'
  <1> SUFFICES ASSUME Steady, Following, [Next /\ OneAtATime']_vars PROVE Following'
    OBVIOUS
  <1>1. TypeOK' /\ JobWaits'
    <2>1. [Next]_vars
      OBVIOUS
    <2> QED BY <2>1, NextType, JobWaitsNext DEF Following
  <1>2. CASE UNCHANGED vars
    <2>1. UNCHANGED <<inbounds, stats, proc, restart, job, waiting, op>>
      BY <1>2 DEF vars
    <2>2. OneAtATime'
      BY <2>1 DEF OneAtATime, RestartUnderWay, Following
    <2>3. Wanted' = Wanted /\ (Quiet' <=> Quiet) /\ Fit(inbounds, stats)' /\ RequestsFit'
      BY <2>1, SameTables
    <2>4. RestartFits'
      BY <2>1, <2>3 DEF RestartFits, Following
    <2>5. Fits'
      BY <2>1, <2>4, SameServed DEF Following, ServesFit
    <2> QED BY <1>1, <2>2, <2>5 DEF Following, Fits
  <1>3. ASSUME Next, OneAtATime'
        PROVE  Fits'
    <2>1. CASE BootRestart \/ CronRestart \/ RestartXrayService \/ JobRestart \/ JobBill
      BY <1>1, <1>3, <2>1, CommitsFit
    <2>2. CASE RestartSteps \/ RestartFails
      BY <2>2, RestartStepsFit
    <2>3. CASE \/ RestartCheck \/ CheckXrayRunning \/ StopXrayService \/ XrayCrashes \/ XrayAnswers
               \/ TimePasses \/ (\E e \in Emails : ClientUses(e)) \/ JobFetch \/ JobFlag
      BY <2>3, SurroundingsFit
    <2>4. CASE Panics \/ PanelDies \/ RestartServicePanics
      BY <2>4, PanicsFit
    <2>5. ASSUME NEW a \in Admins, HandlerSteps(a)
          PROVE  Fits'
      BY <2>5, AddClientFits, UpdateClientFits, DelClientStatFits, SaveDelClientFits,
         ResetClientFits, FinishDelInboundFits, SetEnableFits, SyncInboundFits, UpdateInboundFits,
         Zenon DEF HandlerSteps
    <2>6. ASSUME NEW a \in Admins, NewRequest(a)
          PROVE  Fits'
      BY <1>1, <1>3, <2>6, NewRequestFits
    <2> QED BY <1>3, <2>1, <2>2, <2>3, <2>4, <2>5, <2>6, Zenon DEF Next, Environment, JobSteps
  <1>4. CASE Next /\ OneAtATime'
    BY <1>1, <1>3, <1>4 DEF Following, Fits
  <1> QED BY <1>2, <1>4

\* Only GetXrayConfig and the comparison that follows it skip a restart.
LEMMA SkipsByComparison ==
    ASSUME Following, Next, restart.pc = "read", restart'.pc = "done"
    PROVE  RestartRead /\ Unchanged(Wanted)
  <1>1. CASE BootRestart \/ CronRestart \/ RestartXrayService \/ JobRestart
    BY <1>1 DEF BootRestart, CronRestart, RestartXrayService, JobRestart, EnterRestart
  <1>2. CASE RestartRead
    <2>1. restart' = IF Unchanged(Wanted) THEN [restart EXCEPT !.pc = "done"]
                     ELSE [restart EXCEPT !.pc = "swap", !.cfg = Wanted]
      BY <1>2 DEF RestartRead, Wanted
    <2>2. [restart EXCEPT !.pc = "swap", !.cfg = Wanted].pc = "swap"
      BY DEF Following, TypeOK
    <2> QED BY <1>2, <2>1, <2>2
  <1>3. CASE RestartSwap \/ RestartStarted \/ RestartFails \/ LeaveRestart
    BY <1>3 DEF RestartSwap, RestartStarted, RestartFails, LeaveRestart
  <1>4. CASE Panics \/ PanelDies
    BY <1>4 DEF Panics, JobPanics, RestartPanics, PanelDies, LoseMemory, Idle
  <1>5. CASE \/ RestartServicePanics \/ StopXrayService \/ XrayCrashes \/ XrayAnswers \/ TimePasses
             \/ (\E e \in Emails : ClientUses(e)) \/ RestartCheck \/ CheckXrayRunning
             \/ JobFetch \/ JobBill \/ JobFlag
    <2>1. restart' = restart
      BY <1>5 DEF RestartServicePanics, StopXrayService, XrayCrashes, XrayAnswers, TimePasses,
                  ClientUses, RestartCheck, CheckXrayRunning, JobFetch, JobBill, JobFlag
    <2> QED BY <2>1
  <1>6. CASE \E a \in Admins : HandlerSteps(a) \/ NewRequest(a)
    BY <1>6, HandlersDoNotRestart
  <1> QED BY <1>1, <1>2, <1>3, <1>4, <1>5, <1>6, Zenon
          DEF Next, Environment, RestartSteps, JobSteps

\* As long as nothing overlaps - and no renewal, no inbound created with
\* clients and no refusing API intervenes - Xray serves exactly what the
\* configuration generated from the database would serve, whenever nothing is
\* in flight and no restart is due: whatever crashes, failed starts, lost
\* restarts, panics and half-done requests came before.
THEOREM StaysInStep == ASSUME Steady PROVE SerialSpec => []InStep
  <1>1. Init => Following
    BY InitFollowing
  <1>2. Following /\ [Next /\ OneAtATime']_vars => Following'
    BY NextFollowing
  <1>3. Following => InStep
    BY DEF Following, ServesFit, InStep, AllIdle, Quiet, Wanted
  <1> QED BY <1>1, <1>2, <1>3, PTL DEF SerialSpec

\* Then a RestartXray(false) that leaves Xray alone, because its configuration
\* is the one it was started with, leaves it serving that configuration.
THEOREM RestartsSkippedInStep == ASSUME Steady PROVE SerialSpec => SkipsInStep
  <1>1. Init => Following
    BY InitFollowing
  <1>2. Following /\ [Next /\ OneAtATime']_vars => Following'
    BY NextFollowing
  <1>3. Following /\ [Next /\ OneAtATime']_vars
           => [restart.pc = "read" /\ restart'.pc = "done"
                 => proc.live = GetXrayConfig(inbounds, stats)]_vars
    <2> SUFFICES ASSUME Following, Next, restart.pc = "read", restart'.pc = "done"
                 PROVE  proc.live = Wanted
      BY DEF Wanted
    <2>1. Unchanged(Wanted)
      BY SkipsByComparison
    <2>2. proc.state \in {"booting", "up"} /\ proc.cfg = Wanted
      BY <2>1 DEF Unchanged, Running, Following, RestartFits
    <2> QED BY <2>2 DEF Following, RestartFits
  <1> QED BY <1>1, <1>2, <1>3, PTL DEF SerialSpec, SkipsInStep


=============================================================================
