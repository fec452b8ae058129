---------------------------- MODULE MtprotoSidecars ----------------------------
(***************************************************************************)
(* The mtg sidecars of the MTProto inbounds: the process manager           *)
(* (mtproto/manager.go), the table of clients with its handlers and its    *)
(* traffic (web/service/mtproto_service.go) and the job that reconciles    *)
(* and bills every ten seconds (web/job/mtproto_job.go).                   *)
(*                                                                         *)
(* Manager.mu makes Ensure, Remove, Reconcile, StopAll and the two halves  *)
(* of a collection atomic.  Every SQL statement is one step: nothing here  *)
(* opens a transaction.  What a handler or the job has read in one step    *)
(* may be out of date in the next.                                         *)
(***************************************************************************)
EXTENDS Integers, FiniteSets

CONSTANTS
  Inbounds,     \* ids of mtproto inbounds
  Clients,      \* UUIDs, numbered in the order of their rows' ids
  Home,         \* the inbound of a client
  Domains,      \* fronting domains, which a client's secret embeds
  Ports,        \* loopback ports for the stats endpoints
  Admins,       \* concurrent HTTP handlers
  Forms,        \* what administrators enter for a client
  Workload,     \* the requests they send
  FirstRows,    \* mtproto_clients at the start
  MaxTime, MaxUse, MaxEdits, MaxFaults,   \* bounds on the environment
  All,          \* the key of the counters of single-secret mtg
  None

Form == [enable : BOOLEAN, total : Nat, expiry : Nat, reset : Nat]

Row == [enable : BOOLEAN, used : Nat, allTime : Nat, total : Nat,
        expiry : Nat, reset : Nat, secret : Domains]

InboundRow == [enable : BOOLEAN, domain : Domains]

Requests == {"AddClient", "UpdateClient", "DeleteClient", "ToggleClient", "ResetClient",
             "ResetAll", "DelDepleted", "UpdateInbound", "DelInbound", "SetInboundEnable"}

ASSUME ConstantsAssumption ==
  /\ Clients \subseteq Nat /\ Home \in [Clients -> Inbounds]
  /\ Forms \subseteq Form /\ Workload \subseteq Requests
  /\ FirstRows \in [Clients -> Row \cup {None}]
  /\ \A c \in Clients : FirstRows[c] # None => FirstRows[c].used <= FirstRows[c].allTime
  /\ IsFiniteSet(Inbounds)
  /\ MaxTime \in Nat /\ MaxUse \in Nat /\ MaxEdits \in Nat /\ MaxFaults \in Nat
  /\ None \notin Row \cup InboundRow \cup Inbounds \cup Nat \cup Requests
  /\ All \notin Clients

VARIABLES
  now,       \* time.Now(), in days
  multi,     \* MultiUserSupported(): mtg-multi is installed
  inbounds,  \* the mtproto rows of table inbounds
  rows,      \* table mtproto_clients
  procs,     \* Manager.procs, with what each process serves and has counted
  orphans,   \* what mtg processes of an earlier run of the panel serve
  swept,     \* Manager.swept
  job,       \* MtprotoJob.Run
  op,        \* the request each handler serves
  consumed,  \* history: traffic each client really used, what it was billed before included
  edits, faults

vars == <<now, multi, inbounds, rows, procs, orphans, swept, job, op, consumed, edits, faults>>

Keys(f) == {x \in DOMAIN f : f[x] # None}

-------------------------------------------------------------------------------
(***************************************************************************)
(* Instances: what a sidecar should serve.                                 *)
(***************************************************************************)
Due(r) == r.expiry > 0 /\ r.expiry <= now
Exhausted(r) == r.total > 0 /\ r.used >= r.total
Depleted(r) == Exhausted(r) \/ Due(r)
Active(r) == r.enable /\ ~Due(r)

\* The clients that mtg-multi or, of the first client only, mtg serves.
First(S) == {s \in S : \A t \in S : s[1] <= t[1]}
ActiveClients(S) == IF multi THEN S ELSE First(S)

\* The instance of inbound i by the rows that were read: clients with their
\* secrets; the empty set where InstanceFromInbound returns false.
Instance(i, table) ==
  ActiveClients({<<c, table[c].secret>> : c \in {d \in Keys(table) : Home[d] = i /\ Active(table[d])}})

Desired == [i \in Inbounds |->
              IF inbounds[i] # None /\ inbounds[i].enable THEN Instance(i, rows) ELSE {}]

-------------------------------------------------------------------------------
(***************************************************************************)
(* The process manager.                                                    *)
(***************************************************************************)
\* last is lastByClient, or the single pair lastUp and lastDown under All.
Process == [serves : SUBSET (Clients \X Domains), port : Ports, running : BOOLEAN,
            count : [Clients -> Nat], last : [Clients \cup {All} -> Nat \cup {None}]]

NewProcess(S, port) ==
  [serves |-> S, port |-> port, running |-> TRUE,
   count |-> [c \in Clients |-> 0], last |-> [k \in Clients \cup {All} |-> None]]

\* Slip: a live sidecar is kept whatever it serves.
KeepsIfAlive(i, S) == procs[i] # None /\ procs[i].running

KeepsAsIs(i, S) == procs[i] # None /\ procs[i].serves = S /\ procs[i].running

\* What becomes of the entry of inbound i: ensureLocked keeps the process, or
\* stops it and starts another; a process that does not start is forgotten, to
\* be tried again by the next reconciliation.
Ensured(i, S, fails, port) ==
  IF S = {} THEN None
  ELSE IF KeepsAsIs(i, S) THEN procs[i]
  ELSE IF fails THEN None ELSE NewProcess(S, port)

\* FreeLocalPort (external): two live processes do not share a port.  With mtg a
\* port that a collection still has to ask is not handed out again meanwhile;
\* with mtg-multi, whose counters carry names, it may be.
Asked == IF multi THEN {} ELSE {job.snaps[i].port : i \in Keys(job.snaps)}

PortsDiffer(ps) ==
  /\ \A i, j \in Keys(ps) : ps[i].running /\ ps[j].running /\ ps[i].port = ps[j].port => i = j
  /\ \A i \in Keys(ps) : ps[i] # procs[i] => ps[i].port \notin Asked

Fault(n) == faults + n <= MaxFaults /\ faults' = faults + n

\* The processes of is are driven to S, the others left alone.
Drive(is, S) ==
  \E failing \in SUBSET {i \in is : S[i] # {} /\ ~KeepsAsIs(i, S[i])}, port \in [is -> Ports] :
    /\ procs' = [i \in Inbounds |->
                   IF i \in is THEN Ensured(i, S[i], i \in failing, port[i]) ELSE procs[i]]
    /\ PortsDiffer(procs')
    /\ Fault(Cardinality(failing))

SweepOrphans == swept' = TRUE /\ orphans' = IF swept THEN orphans ELSE {}

Reconcile(desired) == SweepOrphans /\ Drive(Inbounds, desired)

Ensure(i, S) == SweepOrphans /\ Drive({i}, [j \in {i} |-> S])

Remove(i) == procs' = [procs EXCEPT ![i] = None] /\ UNCHANGED <<orphans, swept, faults>>

ReconcileInbound(i, S) == IF S = {} THEN Remove(i) ELSE Ensure(i, S)

-------------------------------------------------------------------------------
(***************************************************************************)
(* The job.                                                                *)
(***************************************************************************)
NoDeltas == [c \in Clients |-> 0]

Idle == [pc |-> "idle", desired |-> [i \in Inbounds |-> {}], snaps |-> [i \in Inbounds |-> None],
         at |-> None, read |-> [k \in Clients \cup {All} |-> None],
         deltas |-> NoDeltas, renewing |-> [c \in Clients |-> None], changed |-> FALSE]

JobLeaves == UNCHANGED <<now, multi, inbounds, op, consumed, edits>>
ManagerLeaves == UNCHANGED <<procs, orphans, swept, faults>>

\* buildDesired, at the start of a run and again after enforcement.
JobBuild ==
  /\ job.pc \in {"idle", "rebuild"}
  /\ job' = [Idle EXCEPT !.pc = "reconcile", !.desired = Desired, !.changed = job.changed]
  /\ ManagerLeaves /\ UNCHANGED rows /\ JobLeaves

JobReconcile ==
  /\ job.pc = "reconcile"
  /\ Reconcile(job.desired)
  /\ job' = IF job.changed THEN Idle ELSE [Idle EXCEPT !.pc = "snapshot"]
  /\ UNCHANGED rows /\ JobLeaves

\* CollectTraffic notes the ports and the counters under the lock ...
JobSnapshot ==
  /\ job.pc = "snapshot"
  /\ job' = [job EXCEPT !.pc = "scrape",
               !.snaps = [i \in Inbounds |-> IF procs[i] # None /\ procs[i].running
                            THEN [port |-> procs[i].port, serves |-> procs[i].serves,
                                  last |-> procs[i].last]
                            ELSE None]]
  /\ ManagerLeaves /\ UNCHANGED rows /\ JobLeaves

\* ... asks each port without it: whoever has the port by now answers (external:
\* mtg-multi lists the clients that had traffic, and may list the idle); there
\* may be no answer in time, or none with a counter ...
Listening(port) == {j \in Keys(procs) : procs[j].running /\ procs[j].port = port}

Sole(S) == (CHOOSE s \in S : TRUE)[1]

Counters(p, serves, idle) ==
  [k \in Clients \cup {All} |->
     CASE k = All -> IF multi THEN None ELSE p.count[Sole(p.serves)]
       [] k # All /\ multi /\ (\E d \in Domains : <<k, d>> \in serves)
                    /\ (\E d \in Domains : <<k, d>> \in p.serves)
                    /\ (p.count[k] > 0 \/ idle) -> p.count[k]
       [] OTHER -> None]

JobScrape(i) ==
  /\ job.pc = "scrape" /\ job.snaps[i] # None
  /\ \/ \E j \in Listening(job.snaps[i].port), idle \in BOOLEAN :
          job' = [job EXCEPT !.pc = "write", !.at = i,
                             !.read = Counters(procs[j], job.snaps[i].serves, idle)]
     \/ job' = [job EXCEPT !.snaps[i] = None]
  /\ ManagerLeaves /\ UNCHANGED rows /\ JobLeaves

\* Slip: a counter that went back bills a negative amount.
Difference(snap, read, k) ==
  IF read[k] = None \/ snap.last[k] = None THEN 0 ELSE read[k] - snap.last[k]

Delta(snap, read, k) ==
  IF read[k] = None \/ snap.last[k] = None \/ read[k] < snap.last[k] THEN 0
  ELSE read[k] - snap.last[k]

DeltaOf(snap, read, c) ==
  IF multi THEN Delta(snap, read, c)
  ELSE IF c = Sole(snap.serves) THEN Delta(snap, read, All) ELSE 0

\* Slip: the first reading stays the baseline.
FirstBaseline(p, read) ==
  [p EXCEPT !.last = [k \in DOMAIN read |-> IF @[k] = None THEN read[k] ELSE @[k]]]

Rebased(p, read) == [p EXCEPT !.last = read]

\* ... and writes what it read into whatever process the inbound has now.
JobWrite ==
  LET i == job.at
  IN /\ job.pc = "write"
     /\ procs' = IF procs[i] = None THEN procs ELSE [procs EXCEPT ![i] = Rebased(@, job.read)]
     /\ job' = [job EXCEPT !.pc = "scrape", !.snaps[i] = None, !.at = None,
                           !.read = Idle.read,
                           !.deltas = [c \in Clients |->
                              @[c] + DeltaOf(job.snaps[i], job.read, c)]]
     /\ UNCHANGED <<orphans, swept, faults, rows>> /\ JobLeaves

\* RecordTraffic: the deltas are added, then the expired clients that renew
\* are looked up.
Billed(r, d) == [r EXCEPT !.used = @ + d, !.allTime = @ + d]

JobBill ==
  LET billed == [c \in Clients |-> IF rows[c] = None THEN None ELSE Billed(rows[c], job.deltas[c])]
  IN /\ job.pc = "scrape" /\ Keys(job.snaps) = {}
     /\ rows' = billed
     /\ job' = [job EXCEPT !.pc = "renew", !.deltas = NoDeltas,
                  !.renewing = [c \in Clients |->
                     IF billed[c] # None /\ billed[c].reset > 0 /\ Due(billed[c])
                     THEN billed[c] ELSE None]]
     /\ ManagerLeaves /\ JobLeaves

NextExpiry(r) == r.expiry + ((now - r.expiry) \div r.reset + 1) * r.reset

\* Renewal by the rows as they were looked up.
Renewed(r, found) ==
  [r EXCEPT !.expiry = NextExpiry(found), !.used = 0, !.enable = @ \/ ~found.enable]

JobRenew ==
  /\ job.pc = "renew"
  /\ rows' = [c \in Clients |->
                IF rows[c] # None /\ job.renewing[c] # None
                THEN Renewed(rows[c], job.renewing[c]) ELSE rows[c]]
  /\ job' = [job EXCEPT !.pc = "disable", !.renewing = Idle.renewing,
                        !.changed = \E c \in Keys(job.renewing) : ~job.renewing[c].enable]
  /\ ManagerLeaves /\ JobLeaves

Invalid == {c \in Keys(rows) : rows[c].enable /\ Depleted(rows[c])}

JobDisable ==
  /\ job.pc = "disable"
  /\ rows' = [c \in Clients |->
                IF c \in Invalid THEN [rows[c] EXCEPT !.enable = FALSE] ELSE rows[c]]
  /\ job' = IF job.changed \/ Invalid # {} THEN [Idle EXCEPT !.pc = "rebuild", !.changed = TRUE]
            ELSE Idle
  /\ ManagerLeaves /\ JobLeaves

Job == \/ JobBuild \/ JobReconcile \/ JobSnapshot \/ (\E i \in Inbounds : JobScrape(i))
       \/ JobWrite \/ JobBill \/ JobRenew \/ JobDisable

-------------------------------------------------------------------------------
(***************************************************************************)
(* The handlers.  A request goes through "write", its statements, "list",  *)
(* the rows read for the sidecar, and "apply", the call of the manager.    *)
(***************************************************************************)
NoOp == [kind |-> None, pc |-> "free", client |-> None, ib |-> None, row |-> None,
         depleted |-> {}, affected |-> {}, at |-> None, serves |-> {}, reheal |-> FALSE]

HandlersLeave == UNCHANGED <<now, multi, consumed, job>>

Begun(kind) == [NoOp EXCEPT !.kind = kind, !.pc = "write"]

Request(h, kind, o) ==
  /\ op[h] = NoOp /\ kind \in Workload
  /\ edits < MaxEdits /\ edits' = edits + 1
  /\ op' = [op EXCEPT ![h] = o]
  /\ ManagerLeaves /\ HandlersLeave

Reads == UNCHANGED <<inbounds, rows>>

\* UUIDs are new: not that of a row that a request or the job still holds.
Held(c) == (\E h \in Admins : op[h].client = c) \/ job.renewing[c] # None

NewRow(f, domain) == [enable |-> f.enable, used |-> 0, allTime |-> 0, total |-> f.total,
                      expiry |-> f.expiry, reset |-> f.reset, secret |-> domain]

BeginAddClient(h, c, f) ==
  LET ib == inbounds[Home[c]]
  IN /\ ib # None /\ rows[c] = None /\ ~Held(c)
     /\ Request(h, "AddClient",
          [Begun("AddClient") EXCEPT !.client = c, !.ib = ib, !.row = NewRow(f, ib.domain),
                                     !.affected = {Home[c]}])
     /\ Reads

\* The row to be saved takes the counters as they are read here.
BeginUpdateClient(h, c, f) ==
  LET ib == inbounds[Home[c]]
  IN /\ ib # None /\ rows[c] # None
     /\ Request(h, "UpdateClient",
          [Begun("UpdateClient") EXCEPT
             !.client = c, !.ib = ib, !.affected = {Home[c]},
             !.row = [NewRow(f, ib.domain) EXCEPT !.used = rows[c].used,
                                                  !.allTime = rows[c].allTime]])
     /\ Reads

BeginClientRequest(h, c) ==
  \E kind \in {"DeleteClient", "ResetClient"} :
    /\ rows[c] # None
    /\ Request(h, kind, [Begun(kind) EXCEPT !.client = c, !.affected = {Home[c]}])
    /\ Reads

BeginToggleClient(h, c, f) ==
  /\ rows[c] # None
  /\ Request(h, "ToggleClient",
       [Begun("ToggleClient") EXCEPT !.client = c, !.affected = {Home[c]},
                                     !.row = [rows[c] EXCEPT !.enable = f.enable]])
  /\ Reads

\* inboundId < 0 stands for all of them.
Scopes == {{i} : i \in Inbounds} \cup {Inbounds}

ResetAllClientTraffics(h) ==
  \E scope \in Scopes :
    /\ Request(h, "ResetAll", NoOp)
    /\ rows' = [c \in Clients |-> IF rows[c] # None /\ Home[c] \in scope
                                  THEN [rows[c] EXCEPT !.used = 0] ELSE rows[c]]
    /\ UNCHANGED inbounds

BeginDelDepleted(h) ==
  \E scope \in Scopes :
    LET found == {c \in Keys(rows) : Home[c] \in scope /\ rows[c].reset = 0 /\ Depleted(rows[c])}
    IN /\ found # {}
       /\ Request(h, "DelDepleted", [Begun("DelDepleted") EXCEPT
                                        !.depleted = found, !.affected = {Home[c] : c \in found}])
       /\ Reads

BeginUpdateInbound(h, i, ib) ==
  /\ inbounds[i] # None
  /\ Request(h, "UpdateInbound",
       [Begun("UpdateInbound") EXCEPT !.ib = ib, !.affected = {i},
                                      !.reheal = ib.domain # inbounds[i].domain])
  /\ Reads

\* The sidecar is stopped at once; the rows follow.
BeginDelInbound(h, i) ==
  /\ inbounds[i] # None
  /\ Request(h, "DelInbound", [Begun("DelInbound") EXCEPT !.affected = {i}, !.pc = "remove"])
  /\ Reads

\* The switch of an inbound reaches the sidecar by the job.
SetInboundEnable(h, i, enable) ==
  /\ inbounds[i] # None /\ inbounds[i].enable # enable
  /\ Request(h, "SetInboundEnable", NoOp)
  /\ inbounds' = [inbounds EXCEPT ![i].enable = enable]
  /\ UNCHANGED rows

Begin(h) ==
  \/ \E c \in Clients, f \in Forms :
       BeginAddClient(h, c, f) \/ BeginUpdateClient(h, c, f) \/ BeginToggleClient(h, c, f)
  \/ \E c \in Clients : BeginClientRequest(h, c)
  \/ ResetAllClientTraffics(h) \/ BeginDelDepleted(h)
  \/ \E i \in Inbounds, ib \in InboundRow : BeginUpdateInbound(h, i, ib)
  \/ \E i \in Inbounds, b \in BOOLEAN : BeginDelInbound(h, i) \/ SetInboundEnable(h, i, b)

StatementLeaves == ManagerLeaves /\ HandlersLeave /\ UNCHANGED edits

\* Create, and gorm's Save, which inserts a row that was deleted meanwhile.
SaveRow(h) ==
  LET o == op[h]
  IN /\ o.kind \in {"AddClient", "UpdateClient"} /\ o.pc = "write"
     /\ rows' = [rows EXCEPT ![o.client] = o.row]
     /\ op' = [op EXCEPT ![h].pc = "list"]
     /\ UNCHANGED inbounds /\ StatementLeaves

\* The statements that name columns leave the others as they are by now.
AlterRow(h) ==
  LET o == op[h]
      altered == CASE o.kind = "DeleteClient" -> None
                   [] o.kind = "ResetClient" -> [rows[o.client] EXCEPT !.used = 0]
                   [] o.kind = "ToggleClient" -> [rows[o.client] EXCEPT !.enable = o.row.enable]
  IN /\ o.kind \in {"DeleteClient", "ToggleClient", "ResetClient"} /\ o.pc = "write"
     /\ rows' = IF rows[o.client] = None THEN rows ELSE [rows EXCEPT ![o.client] = altered]
     /\ op' = [op EXCEPT ![h].pc = "list"]
     /\ UNCHANGED inbounds /\ StatementLeaves

\* One DELETE per client found, whatever became of it since.
DeleteDepleted(h) ==
  /\ op[h].kind = "DelDepleted" /\ op[h].pc = "write"
  /\ IF op[h].depleted = {}
       THEN op' = [op EXCEPT ![h].pc = "list"] /\ UNCHANGED rows
       ELSE \E c \in op[h].depleted :
              /\ op' = [op EXCEPT ![h].depleted = @ \ {c}]
              /\ rows' = [rows EXCEPT ![c] = None]
  /\ UNCHANGED inbounds /\ StatementLeaves

\* Save of the inbound; a new domain rebuilds the secrets of its clients.
SaveInbound(h) ==
  /\ op[h].kind = "UpdateInbound" /\ op[h].pc = "write"
  /\ \E i \in op[h].affected :
       /\ inbounds' = [inbounds EXCEPT ![i] = op[h].ib]
       /\ rows' = [c \in Clients |-> IF rows[c] # None /\ Home[c] = i /\ op[h].reheal
                                     THEN [rows[c] EXCEPT !.secret = op[h].ib.domain]
                                     ELSE rows[c]]
  /\ op' = [op EXCEPT ![h].pc = "list"]
  /\ StatementLeaves

DelInboundStep(h) ==
  \E i \in op[h].affected :
    /\ op[h].kind = "DelInbound"
    /\ \/ /\ op[h].pc = "remove" /\ Remove(i)
          /\ op' = [op EXCEPT ![h].pc = "write"] /\ UNCHANGED <<inbounds, rows>>
       \/ /\ op[h].pc = "write" /\ ManagerLeaves
          /\ rows' = [c \in Clients |-> IF Home[c] = i THEN None ELSE rows[c]]
          /\ op' = [op EXCEPT ![h].pc = "delete"] /\ UNCHANGED inbounds
       \/ /\ op[h].pc = "delete" /\ ManagerLeaves
          /\ inbounds' = [inbounds EXCEPT ![i] = None]
          /\ op' = [op EXCEPT ![h] = NoOp] /\ UNCHANGED rows
    /\ HandlersLeave /\ UNCHANGED edits

\* The inbound a reconciliation goes by: as it was read at the start, or now.
\* Without one a toggle or a reset leaves the sidecar alone, the others stop it.
Known(h, i) == IF op[h].kind \in {"AddClient", "UpdateClient"} THEN op[h].ib ELSE inbounds[i]

ListClients(h) ==
  /\ op[h].pc = "list"
  /\ \E i \in op[h].affected :
       op' = IF Known(h, i) = None /\ op[h].kind \in {"ToggleClient", "ResetClient"}
             THEN [op EXCEPT ![h] = NoOp]
             ELSE [op EXCEPT ![h].pc = "apply", ![h].at = i,
                             ![h].serves = IF Known(h, i) # None /\ Known(h, i).enable
                                           THEN Instance(i, rows) ELSE {}]
  /\ Reads /\ StatementLeaves

Reconciling(h) ==
  LET o == op[h] rest == o.affected \ {o.at}
  IN /\ o.pc = "apply"
     /\ ReconcileInbound(o.at, o.serves)
     /\ op' = [op EXCEPT ![h] = IF rest = {} THEN NoOp
                                ELSE [o EXCEPT !.pc = "list", !.affected = rest]]
     /\ Reads /\ HandlersLeave /\ UNCHANGED edits

Handle(h) == SaveRow(h) \/ AlterRow(h) \/ DeleteDepleted(h) \/ SaveInbound(h)
             \/ DelInboundStep(h) \/ ListClients(h) \/ Reconciling(h)

-------------------------------------------------------------------------------
(***************************************************************************)
(* The environment.                                                        *)
(***************************************************************************)
\* The secrets of S admit client c.
Admits(S, c) == \E d \in Domains : <<c, d>> \in S

Use(c) ==
  /\ consumed[c] < MaxUse /\ consumed' = [consumed EXCEPT ![c] = @ + 1]
  /\ \/ \E i \in Keys(procs) :
          /\ procs[i].running /\ Admits(procs[i].serves, c)
          /\ procs' = [procs EXCEPT ![i].count[c] = @ + 1]
     \/ (\E S \in orphans : Admits(S, c)) /\ UNCHANGED procs
  /\ UNCHANGED <<now, multi, inbounds, rows, orphans, swept, job, op, edits, faults>>

Tick ==
  /\ now < MaxTime /\ now' = now + 1
  /\ UNCHANGED <<multi, inbounds, rows, procs, orphans, swept, job, op, consumed, edits, faults>>

SidecarDies(i) ==
  /\ procs[i] # None /\ procs[i].running /\ Fault(1)
  /\ procs' = [procs EXCEPT ![i].running = FALSE]
  /\ UNCHANGED <<now, multi, inbounds, rows, orphans, swept, job, op, consumed, edits>>

\* The panel dies and starts again: its sidecars live on unknown to it.
PanelDies ==
  /\ Fault(1)
  /\ orphans' = orphans \cup {procs[i].serves : i \in {k \in Keys(procs) : procs[k].running}}
  /\ procs' = [i \in Inbounds |-> None] /\ swept' = FALSE
  /\ job' = Idle /\ op' = [h \in Admins |-> NoOp]
  /\ UNCHANGED <<now, multi, inbounds, rows, consumed, edits>>

\* A reload of the web server stops every sidecar; a run of the job and the
\* requests under way go on.
StopAll ==
  /\ edits < MaxEdits /\ edits' = edits + 1
  /\ procs' = [i \in Inbounds |-> None]
  /\ UNCHANGED <<now, multi, inbounds, rows, orphans, swept, job, op, consumed, faults>>

Init ==
  /\ now = 1 /\ multi \in BOOLEAN
  /\ inbounds \in [Inbounds -> {ib \in InboundRow : ib.enable}]
  /\ rows = FirstRows
  /\ procs = [i \in Inbounds |-> None] /\ orphans = {} /\ swept = FALSE
  /\ job = Idle /\ op = [h \in Admins |-> NoOp]
  /\ consumed = [c \in Clients |-> IF FirstRows[c] = None THEN 0 ELSE FirstRows[c].allTime]
  /\ edits = 0 /\ faults = 0

Next ==
  \/ Job
  \/ \E h \in Admins : Begin(h) \/ Handle(h)
  \/ \E c \in Clients : Use(c)
  \/ \E i \in Inbounds : SidecarDies(i)
  \/ Tick \/ PanelDies \/ StopAll

Spec == Init /\ [][Next]_vars

\* The scheduler fires the job for ever; handlers run to their end.
Fairness == WF_vars(Job) /\ \A h \in Admins : WF_vars(Handle(h))

FairSpec == Spec /\ Fairness

-------------------------------------------------------------------------------
Op == [kind : Requests \cup {None}, pc : {"free", "remove", "write", "delete", "list", "apply"},
       client : Clients \cup {None}, ib : InboundRow \cup {None}, row : Row \cup {None},
       depleted : SUBSET Clients, affected : SUBSET Inbounds, at : Inbounds \cup {None},
       serves : SUBSET (Clients \X Domains), reheal : BOOLEAN]

TypeOK ==
  /\ now \in Nat /\ multi \in BOOLEAN
  /\ inbounds \in [Inbounds -> InboundRow \cup {None}]
  /\ rows \in [Clients -> Row \cup {None}]
  /\ procs \in [Inbounds -> Process \cup {None}]
  /\ orphans \subseteq SUBSET (Clients \X Domains) /\ swept \in BOOLEAN
  /\ op \in [Admins -> Op]
  /\ consumed \in [Clients -> Nat] /\ edits \in Nat /\ faults \in Nat

\* No client is billed for more than it used, whether the counters it had were
\* reset, its sidecar restarted in the middle of a collection, a stale row was
\* saved over it, or the panel died.
NeverOverbilled ==
  \A c \in Keys(rows) : rows[c].used <= rows[c].allTime /\ rows[c].allTime <= consumed[c]

\* The sidecars are those that the database asks for, and nothing serves beside.
InStep ==
  /\ orphans = {}
  /\ \A i \in Inbounds :
       IF Desired[i] = {} THEN procs[i] = None
       ELSE procs[i] # None /\ procs[i].running /\ procs[i].serves = Desired[i]

\* Whatever a stale list, a crash or a failed start did, when nothing more
\* happens the sidecars come to be in step with the database, and no client past
\* a limit is served.
Converges == <>[](InStep /\ Invalid = {})
===============================================================================
