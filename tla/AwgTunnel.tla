------------------------------- MODULE AwgTunnel -------------------------------
(***************************************************************************)
(* The AmneziaWG tunnel and its clients: web/service/awg_service.go over   *)
(* awg/manager.go and shared/wgengine.  web/service/wg_service.go is the   *)
(* same program for native WireGuard.                                      *)
(*                                                                         *)
(* Nothing here takes a lock.  Each handler, the traffic job and the start *)
(* of the panel read rows in one step, write them in another, and then     *)
(* apply the server's configuration: list the clients, write the file,     *)
(* look whether the interface is up, and sync it or bring it up.           *)
(***************************************************************************)
EXTENDS Integers, FiniteSets

CONSTANTS
  Clients,      \* rows of awg_clients, each with a key of its own
  Params,       \* what an interface is made with
  DefaultParams,
  Admins,       \* concurrent HTTP handlers
  Job, Boot,    \* the traffic job and StartIfEnabled
  Forms,        \* what administrators enter for a client
  Workload,     \* the requests they send
  Modes,        \* subset of {"kernel", "userspace"}
  FirstTables,  \* awg_clients at the start, one of these
  MaxTime, MaxUse,  \* bounds on the environment
  MaxEvents,        \* and on requests and faults together
  None

Actors == Admins \cup {Job, Boot}

\* expiry < 0: that many days from the first traffic on.
Form == [enable : BOOLEAN, total : Nat, expiry : Int, reset : Nat]

\* used is upload + download, last is LastPeerUp + LastPeerDown.
Row == [enable : BOOLEAN, total : Nat, expiry : Int, reset : Nat,
        used : Nat, allTime : Nat, last : Nat]

\* Of the params, bounced stands for the obfuscation and the Xray routing, link for
\* MTU, address, PostUp and PostDown.  The port and the private key are in neither:
\* awg syncconf applies them as it applies the peers.
Server == [enable : BOOLEAN, params : Params]

Config == [peers : SUBSET Clients, params : Params]

\* count[c] is the peer's transfer counter, None if c is no peer.
Tunnel == [count : [Clients -> Nat \cup {None}], params : Params]

Requests == {"AddClient", "UpdateClient", "ToggleClient", "DeleteClient", "DelDepleted",
             "ResetClient", "ResetAll", "ToggleServer", "SaveServer", "DeleteAll",
             "ResetToDefaults"}

ASSUME ConstantsAssumption ==
  /\ DefaultParams \in Params
  /\ \A p \in Params : {"bounced", "link"} \subseteq DOMAIN p
  /\ Job # Boot /\ Job \notin Admins /\ Boot \notin Admins
  /\ Forms \subseteq Form /\ Workload \subseteq Requests
  /\ Modes \subseteq {"kernel", "userspace"}
  /\ FirstTables \subseteq [Clients -> Row \cup {None}]
  /\ \A table \in FirstTables, c \in Clients :
       table[c] # None => table[c].used <= table[c].allTime
  /\ MaxTime \in Nat /\ MaxUse \in Nat /\ MaxEvents \in Nat

ASSUME NoneAssumption ==
  None \notin Row \cup Config \cup Tunnel \cup Server \cup Clients \cup Nat \cup Requests

VARIABLES
  mode,      \* userspaceMode()
  now,       \* time.Now(), in days
  server,    \* table awg_servers
  rows,      \* table awg_clients
  conf,      \* the configuration file, or lastConf in userspace
  tunnel,    \* the interface, or the entry of wgengine's registry
  op,        \* what each actor is doing, with what it has read
  consumed,  \* history: traffic each client really used
  smooth,    \* history: no two actors were at work at the same time and no call failed
  behind,    \* history: the link was saved anew since the interface was made
  events

vars == <<mode, now, server, rows, conf, tunnel, op, consumed, smooth, behind, events>>

Present(f) == {x \in DOMAIN f : f[x] # None}

NoCounts == [c \in Clients |-> None]

Idle == [kind |-> None, pc |-> "free", client |-> None, row |-> None, server |-> None,
         found |-> {}, config |-> None, stats |-> NoCounts, read |-> NoCounts,
         dirty |-> FALSE]

Started == [Idle EXCEPT !.pc = "boot", !.kind = "Start"]

Busy(a) == op[a].pc # "free"

\* Each step belongs to one actor.
Go(a, to) == op' = [op EXCEPT ![a] = to]

Finish(a) == Go(a, Idle)

Happens == events < MaxEvents /\ events' = events + 1

NoFault == UNCHANGED <<smooth, events>>

\* A call of the system that fails, or the panel that dies.
Fault == Happens /\ smooth' = FALSE

Leaves == UNCHANGED <<mode, now, consumed>>

Tables == <<server, rows>>
System == <<conf, tunnel, behind, smooth, events>>
Interface == <<conf, tunnel, behind>>
Device == <<tunnel, behind>>

-------------------------------------------------------------------------------
(***************************************************************************)
(* The interface (awg-quick and awg are external, as is the userspace      *)
(* device).                                                                *)
(***************************************************************************)
Counter(config, c) == IF c \in config.peers THEN 0 ELSE None

InterfaceUp(config) ==
  [count |-> [c \in Clients |-> Counter(config, c)], params |-> config.params]

\* An interface is made, or made again, or removed.
Replace(made) == tunnel' = made /\ behind' = FALSE

\* awg syncconf keeps the peers that stay and what the interface was made with, for
\* awg-quick strip leaves MTU, addresses and scripts out of what it is given;
\* wgengine.Reload builds a new device.
SyncConfig(config) ==
  IF mode = "userspace" THEN InterfaceUp(config)
  ELSE [tunnel EXCEPT !.count = [c \in Clients |->
          IF c \in config.peers /\ @[c] # None THEN @[c] ELSE Counter(config, c)]]

(***************************************************************************)
(* applyServerConfig, by the server as the caller read it.                 *)
(***************************************************************************)
Enabled == {c \in Present(rows) : rows[c].enable}

ListClients(a) ==
  /\ op[a].pc = "list"
  /\ Go(a, [op[a] EXCEPT !.pc = "write", !.kind = None, !.server = None,
            !.config = [peers |-> Enabled, params |-> op[a].server.params]])
  /\ UNCHANGED Tables /\ UNCHANGED System /\ Leaves

\* The file is written, and read again for an interface that is up.
WriteServerConfig(a) ==
  /\ op[a].pc = "write"
  /\ conf' = op[a].config
  /\ Go(a, IF tunnel # None THEN [op[a] EXCEPT !.pc = "sync"]
           ELSE [op[a] EXCEPT !.pc = "up", !.config = None])
  /\ UNCHANGED Tables /\ NoFault /\ UNCHANGED Device /\ Leaves

\* DelDepletedClients goes on to its next client.
AfterApply(a) ==
  Go(a, IF op[a].found = {} THEN Idle ELSE [op[a] EXCEPT !.pc = "delete", !.config = None])

\* The config that was read is applied; where that fails the kernel's interface
\* is bounced, and in userspace the old device stays.
Sync(a) ==
  /\ op[a].pc = "sync"
  /\ \/ /\ mode = "kernel" => tunnel # None
        /\ tunnel' = SyncConfig(op[a].config)
        /\ behind' = IF mode = "kernel" THEN behind ELSE FALSE
        /\ AfterApply(a) /\ NoFault
     \/ /\ mode = "kernel" /\ (IF tunnel = None THEN NoFault ELSE Fault)
        /\ Replace(None)
        /\ Go(a, [op[a] EXCEPT !.pc = "up", !.config = None])
     \/ /\ mode = "userspace" /\ Fault /\ UNCHANGED Device
        /\ AfterApply(a)
  /\ UNCHANGED Tables /\ UNCHANGED conf /\ Leaves

\* awg-quick refuses an interface that exists by now; wgengine.Up replaces it.
BringUp(a) ==
  /\ op[a].pc = "up"
  /\ \/ /\ IF conf = None \/ (mode = "kernel" /\ tunnel # None) THEN UNCHANGED Device
           ELSE Replace(InterfaceUp(conf))
        /\ NoFault
     \/ Fault /\ UNCHANGED Device
  /\ AfterApply(a)
  /\ UNCHANGED Tables /\ UNCHANGED conf /\ Leaves

Apply(a) == ListClients(a) \/ WriteServerConfig(a) \/ Sync(a) \/ BringUp(a)

-------------------------------------------------------------------------------
(***************************************************************************)
(* UpdateTrafficStats, StartIfEnabled.                                     *)
(***************************************************************************)
Due(r) == r.expiry > 0 /\ r.expiry <= now
Exhausted(r) == r.total > 0 /\ r.used >= r.total
Depleted(r) == Exhausted(r) \/ Due(r)

Begins(a) == smooth' = (smooth /\ \A b \in Actors \ {a} : ~Busy(b))

JobStats ==
  /\ ~Busy(Job) /\ server.enable /\ tunnel # None
  /\ Begins(Job)
  /\ Go(Job, [op[Job] EXCEPT !.kind = "Traffic", !.pc = "rows", !.server = server,
                             !.stats = tunnel.count])
  /\ UNCHANGED Tables /\ UNCHANGED Interface /\ UNCHANGED events /\ Leaves

JobRows ==
  /\ op[Job].pc = "rows"
  /\ Go(Job, [op[Job] EXCEPT !.pc = "bill", !.read = rows])
  /\ UNCHANGED Tables /\ UNCHANGED System /\ Leaves

\* Slip: a counter below its baseline bills a negative amount.
Difference(count, last) == count - last

Delta(count, last) == IF count - last < 0 THEN count ELSE count - last

\* Slip: the baseline is left where it was.
Added(r, old, count) ==
  [r EXCEPT !.used = old.used + Delta(count, old.last),
            !.allTime = old.allTime + Delta(count, old.last)]

\* The new values come from the row as it was read; the other columns stay.
Billed(r, old, count) ==
  IF count = old.last THEN r
  ELSE [r EXCEPT !.used = old.used + Delta(count, old.last),
                 !.allTime = old.allTime + Delta(count, old.last), !.last = count]

BilledRows(o) ==
  [c \in Clients |->
     IF rows[c] = None \/ o.read[c] = None \/ o.stats[c] = None THEN rows[c]
     ELSE Billed(rows[c], o.read[c], o.stats[c])]

\* The renewals are looked up after the transaction.
Renewals(table) ==
  [c \in Clients |-> IF table[c] # None /\ table[c].reset > 0 /\ Due(table[c])
                     THEN table[c] ELSE None]

JobBill ==
  LET o == op[Job]
  IN /\ o.pc = "bill"
     /\ rows' = BilledRows(o)
     /\ Go(Job, [o EXCEPT !.pc = "renew", !.stats = NoCounts, !.read = Renewals(BilledRows(o))])
     /\ UNCHANGED server /\ UNCHANGED System /\ Leaves

NextExpiry(r) == r.expiry + ((now - r.expiry) \div r.reset + 1) * r.reset

RenewedRows(found) ==
  [c \in Clients |->
     IF rows[c] = None \/ found[c] = None THEN rows[c]
     ELSE [rows[c] EXCEPT !.expiry = NextExpiry(found[c]), !.used = 0,
                          !.enable = @ \/ ~found[c].enable]]

\* Whoever waits for its first traffic and had some is looked up after that.
Waiting(table) ==
  [c \in Clients |-> IF table[c] # None /\ table[c].enable /\ table[c].expiry < 0
                        /\ table[c].used > 0
                     THEN table[c] ELSE None]

JobRenew ==
  LET o == op[Job]
      waiting == Waiting(RenewedRows(o.read))
  IN /\ o.pc = "renew"
     /\ rows' = RenewedRows(o.read)
     /\ Go(Job, [o EXCEPT !.pc = IF Present(waiting) = {} THEN "disable" ELSE "delayed",
                          !.read = waiting,
                          !.dirty = \E c \in Present(o.read) : ~o.read[c].enable])
     /\ UNCHANGED server /\ UNCHANGED System /\ Leaves

StartedRows(found) ==
  [c \in Clients |-> IF rows[c] = None \/ found[c] = None THEN rows[c]
                     ELSE [rows[c] EXCEPT !.expiry = now - found[c].expiry]]

JobDelayed ==
  /\ op[Job].pc = "delayed"
  /\ rows' = StartedRows(op[Job].read)
  /\ Go(Job, [op[Job] EXCEPT !.pc = "disable", !.read = NoCounts])
  /\ UNCHANGED server /\ UNCHANGED System /\ Leaves

Invalid == {c \in Enabled : Depleted(rows[c])}

JobDisable ==
  /\ op[Job].pc = "disable"
  /\ rows' = [c \in Clients |->
                IF c \in Invalid THEN [rows[c] EXCEPT !.enable = FALSE] ELSE rows[c]]
  /\ Go(Job, IF op[Job].dirty \/ Invalid # {}
             THEN [op[Job] EXCEPT !.pc = "list", !.dirty = FALSE] ELSE Idle)
  /\ UNCHANGED server /\ UNCHANGED System /\ Leaves

Traffic == JobStats \/ JobRows \/ JobBill \/ JobRenew \/ JobDelayed \/ JobDisable

StartIfEnabled ==
  /\ op[Boot].pc = "boot"
  /\ Go(Boot, IF server.enable /\ tunnel = None
              THEN [op[Boot] EXCEPT !.pc = "list", !.server = server] ELSE Idle)
  /\ UNCHANGED Tables /\ UNCHANGED System /\ Leaves

-------------------------------------------------------------------------------
(***************************************************************************)
(* The handlers.                                                           *)
(***************************************************************************)
Request(a, kind, to) ==
  /\ ~Busy(a) /\ kind \in Workload
  /\ Happens
  /\ Begins(a)
  /\ Go(a, to)
  /\ UNCHANGED Interface /\ Leaves

At(kind, pc) == [Idle EXCEPT !.kind = kind, !.pc = pc]

Entered(r, f) == [r EXCEPT !.enable = f.enable, !.total = f.total,
                           !.expiry = f.expiry, !.reset = f.reset]

NewRow(f) == [enable |-> f.enable, total |-> f.total, expiry |-> f.expiry, reset |-> f.reset,
              used |-> 0, allTime |-> 0, last |-> 0]

\* A new client has a new key: not one that anything else still refers to.
Known(c) ==
  \/ rows[c] # None \/ consumed[c] > 0
  \/ tunnel # None /\ tunnel.count[c] # None
  \/ conf # None /\ c \in conf.peers
  \/ \E a \in Actors : \/ op[a].client = c \/ op[a].read[c] # None \/ c \in op[a].found
                       \/ op[a].config # None /\ c \in op[a].config.peers

BeginAddClient(a, c, f) ==
  /\ ~Known(c)
  /\ Request(a, "AddClient", [At("AddClient", "save") EXCEPT
                               !.client = c, !.row = NewRow(f), !.server = server])
  /\ UNCHANGED Tables

\* The row that UpdateClient will save: the one a toggle read with its flag, or
\* the one the browser read with what was entered, where the baseline is not.
RowToSave(kind, r, f) ==
  IF kind = "ToggleClient" THEN [r EXCEPT !.enable = f.enable]
  ELSE [Entered(r, f) EXCEPT !.last = 0]

BeginUpdateClient(a, c, f) ==
  \E kind \in {"ToggleClient", "UpdateClient"} :
    /\ rows[c] # None
    /\ Request(a, kind, [At(kind, "save") EXCEPT
                           !.client = c, !.row = RowToSave(kind, rows[c], f)])
    /\ UNCHANGED Tables

BeginDeleteClient(a, c) ==
  /\ rows[c] # None
  /\ Request(a, "DeleteClient", [At("DeleteClient", "delete") EXCEPT !.found = {c}])
  /\ UNCHANGED Tables

BeginDelDepleted(a) ==
  LET found == {c \in Present(rows) : rows[c].reset = 0 /\ Depleted(rows[c])}
  IN /\ found # {}
     /\ Request(a, "DelDepleted", [At("DelDepleted", "delete") EXCEPT !.found = found])
     /\ UNCHANGED Tables

ResetClientTraffic(a, c) ==
  /\ rows[c] # None
  /\ Request(a, "ResetClient", Idle)
  /\ rows' = [rows EXCEPT ![c].used = 0]
  /\ UNCHANGED server

\* The clients are enabled again; the UPDATE of the counters has no condition,
\* which gorm (external) refuses: the counters stay and nothing is applied.
ResetAllClientTraffics(a) ==
  /\ Request(a, "ResetAll", Idle)
  /\ rows' = [c \in Clients |->
       IF rows[c] # None /\ ~rows[c].enable /\ rows[c].total > 0
          /\ (rows[c].expiry = 0 \/ rows[c].expiry > now)
       THEN [rows[c] EXCEPT !.enable = TRUE] ELSE rows[c]]
  /\ UNCHANGED server

\* The column is updated in the same breath as the server is read.
ToggleServer(a, enable) ==
  /\ Request(a, "ToggleServer",
             [At("ToggleServer", IF enable THEN "list" ELSE "down") EXCEPT
                !.server = [server EXCEPT !.enable = enable]])
  /\ server' = [server EXCEPT !.enable = enable]
  /\ UNCHANGED rows

\* The settings page sends back the whole server that it once loaded.
BeginSaveServer(a, params) ==
  /\ Request(a, "SaveServer", [At("SaveServer", "save server") EXCEPT
                                !.server = [server EXCEPT !.params = params]])
  /\ UNCHANGED Tables

\* DeleteAllClients, on the way of a deleted inbound, and ResetToDefaults.
BeginClear(a) ==
  \E kind \in {"DeleteAll", "ResetToDefaults"} :
    /\ Request(a, kind, [At(kind, IF server.enable THEN "down" ELSE "clear") EXCEPT
                           !.server = server])
    /\ UNCHANGED Tables

Begin(a) ==
  \/ \E c \in Clients, f \in Forms : BeginAddClient(a, c, f) \/ BeginUpdateClient(a, c, f)
  \/ \E c \in Clients : BeginDeleteClient(a, c) \/ ResetClientTraffic(a, c)
  \/ BeginDelDepleted(a) \/ ResetAllClientTraffics(a) \/ BeginClear(a)
  \/ \E b \in BOOLEAN : ToggleServer(a, b)
  \/ \E params \in Params : BeginSaveServer(a, params)

\* Create, and gorm's Save, which inserts a row that is gone; an inserted row is
\* enabled, FALSE giving way to the column's default (external).
Inserted(r) == [r EXCEPT !.enable = TRUE]

SaveClient(a) ==
  LET c == op[a].client
  IN /\ op[a].pc = "save"
     /\ rows' = [rows EXCEPT ![c] = IF @ = None THEN Inserted(op[a].row) ELSE op[a].row]
     /\ Go(a, [op[a] EXCEPT !.pc = IF op[a].kind = "AddClient" THEN "enable" ELSE "server",
               !.row = None, !.client = None])
     /\ UNCHANGED server /\ UNCHANGED System /\ Leaves

\* The first client switches the server on.
AutoEnable(a) ==
  /\ op[a].pc = "enable"
  /\ server' = IF op[a].server.enable THEN server ELSE [server EXCEPT !.enable = TRUE]
  /\ Go(a, [op[a] EXCEPT !.pc = "list"])
  /\ UNCHANGED rows /\ UNCHANGED System /\ Leaves

\* A client that was saved is applied if the server, read now, is enabled.
ReadServer(a) ==
  /\ op[a].pc = "server"
  /\ Go(a, IF server.enable THEN [op[a] EXCEPT !.pc = "list", !.server = server] ELSE Idle)
  /\ UNCHANGED Tables /\ UNCHANGED System /\ Leaves

\* DeleteClient reads the server before it deletes: one client, or those found.
DeleteFound(a) ==
  /\ op[a].pc = "delete"
  /\ \/ \E c \in op[a].found :
          /\ rows' = [rows EXCEPT ![c] = None]
          /\ Go(a, [op[a] EXCEPT
                    !.found = @ \ {c}, !.server = server,
                    !.pc = IF rows[c] # None /\ server.enable THEN "list" ELSE "delete"])
     \/ op[a].found = {} /\ Finish(a) /\ UNCHANGED rows
  /\ UNCHANGED server /\ UNCHANGED System /\ Leaves

\* Slip: the interface is not bounced for parameters that need it.
NeverDirty(s) == FALSE

\* MTU, addresses, PostUp and PostDown are not among the settings compared.
Dirty(s) == s.params.bounced # server.params.bounced

SaveServer(a) ==
  LET s == op[a].server
  IN /\ op[a].pc = "save server"
     /\ server' = s
     /\ Go(a, IF s.enable
              THEN [op[a] EXCEPT !.pc = IF Dirty(s) /\ tunnel # None THEN "down" ELSE "list"]
              ELSE Idle)
     /\ behind' = IF tunnel # None /\ s.params.link # server.params.link THEN TRUE ELSE behind
     /\ UNCHANGED rows /\ NoFault /\ UNCHANGED <<conf, tunnel>> /\ Leaves

InterfaceDown(a) ==
  /\ op[a].pc = "down"
  /\ \/ Replace(None) /\ NoFault
     \/ tunnel # None /\ Fault /\ UNCHANGED Device
  /\ Go(a, CASE op[a].kind = "ToggleServer" -> Idle
              [] op[a].kind = "SaveServer" -> [op[a] EXCEPT !.pc = "list"]
              [] OTHER -> [op[a] EXCEPT !.pc = "clear"])
  /\ UNCHANGED Tables /\ UNCHANGED conf /\ Leaves

DeleteRows(a) ==
  /\ op[a].pc = "clear"
  /\ rows' = NoCounts
  /\ Go(a, [op[a] EXCEPT !.pc = "disable server"])
  /\ UNCHANGED server /\ UNCHANGED System /\ Leaves

\* DeleteAllClients clears the flag, ResetToDefaults removes the file (and with it
\* a userspace device) and saves the whole server (but for the IPv6 address, which
\* it leaves as it is).
DisableServer(a) ==
  /\ op[a].pc = "disable server"
  /\ IF op[a].kind = "DeleteAll"
       THEN server' = [server EXCEPT !.enable = FALSE] /\ UNCHANGED Interface
       ELSE /\ server' = [enable |-> FALSE, params |-> DefaultParams]
            /\ conf' = None
            /\ IF mode = "userspace" THEN Replace(None) ELSE UNCHANGED Device
  /\ Finish(a)
  /\ UNCHANGED rows /\ NoFault /\ Leaves

Handle(a) == SaveClient(a) \/ AutoEnable(a) \/ ReadServer(a) \/ DeleteFound(a) \/ SaveServer(a)
             \/ InterfaceDown(a) \/ DeleteRows(a) \/ DisableServer(a)

-------------------------------------------------------------------------------
(***************************************************************************)
(* The environment.                                                        *)
(***************************************************************************)
Use(c) ==
  /\ tunnel # None /\ tunnel.count[c] # None
  /\ consumed[c] < MaxUse /\ consumed' = [consumed EXCEPT ![c] = @ + 1]
  /\ tunnel' = [tunnel EXCEPT !.count[c] = @ + 1]
  /\ UNCHANGED Tables /\ UNCHANGED <<mode, now, conf, op, behind, smooth, events>>

Tick ==
  /\ now < MaxTime /\ now' = now + 1
  /\ UNCHANGED Tables /\ UNCHANGED System /\ UNCHANGED <<mode, op, consumed>>

\* The panel dies, alone or with its host, and starts again.  A kernel interface
\* outlives the panel; a userspace device and its configuration do not.
PanelDies ==
  /\ Fault
  /\ \/ Replace(None)
     \/ mode = "kernel" /\ tunnel # None /\ UNCHANGED Device
  /\ conf' = IF mode = "kernel" THEN conf ELSE None
  /\ op' = [a \in Actors |-> IF a = Boot THEN Started ELSE Idle]
  /\ UNCHANGED Tables /\ Leaves

\* The panel starts; the first client it was given switched the server on.
Init ==
  /\ mode \in Modes /\ now = 1
  /\ rows \in FirstTables
  /\ server = [enable |-> Present(rows) # {}, params |-> DefaultParams]
  /\ conf = None /\ tunnel = None
  /\ op = [a \in Actors |-> IF a = Boot THEN Started ELSE Idle]
  /\ consumed = [c \in Clients |-> IF rows[c] = None THEN 0 ELSE rows[c].allTime]
  /\ smooth = TRUE /\ behind = FALSE /\ events = 0

Next ==
  \/ Traffic \/ StartIfEnabled
  \/ \E a \in Actors : Apply(a)
  \/ \E a \in Admins : Begin(a) \/ Handle(a)
  \/ \E c \in Clients : Use(c)
  \/ Tick \/ PanelDies

Spec == Init /\ [][Next]_vars

-------------------------------------------------------------------------------
Kinds == Requests \cup {"Start", "Traffic", None}

Pcs == {"free", "boot", "list", "write", "sync", "up", "rows", "bill", "renew",
        "delayed", "disable", "save", "enable", "server", "delete", "save server", "down",
        "clear", "disable server"}

Op == [kind : Kinds, pc : Pcs, client : Clients \cup {None}, row : Row \cup {None},
       server : Server \cup {None}, found : SUBSET Clients, config : Config \cup {None},
       stats : [Clients -> Nat \cup {None}], read : [Clients -> Row \cup {None}],
       dirty : BOOLEAN]

TypeOK ==
  /\ mode \in Modes /\ now \in Nat
  /\ server \in Server /\ rows \in [Clients -> Row \cup {None}]
  /\ conf \in Config \cup {None} /\ tunnel \in Tunnel \cup {None}
  /\ op \in [Actors -> Op]
  /\ consumed \in [Clients -> Nat] /\ smooth \in BOOLEAN /\ behind \in BOOLEAN
  /\ events \in Nat

\* No client is billed for more than it used since it exists, nor for more since
\* its last reset than altogether, whatever bounces of the interface, restarts,
\* and stale rows saved over it by a toggle or the job did to the baseline of
\* awg_service.go:735.
BilledOnce ==
  \A c \in Present(rows) : rows[c].used <= rows[c].allTime /\ rows[c].allTime <= consumed[c]

Quiet == smooth /\ \A a \in Actors : ~Busy(a)

\* As long as requests and job runs did not overlap and no call failed, the
\* interface, once nothing is under way, is up exactly when the server is enabled,
\* has no peer that is not enabled, and runs with the server's parameters: except
\* that a kernel interface keeps the MTU, the addresses and the scripts it was made
\* with if others were saved since, for SaveServer bounces it only for obfuscation
\* and Xray routing (awg_service.go:122-131) and awg-quick strip drops the rest.
TunnelInStep ==
  Quiet => /\ server.enable <=> tunnel # None
           /\ tunnel # None =>
                /\ Present(tunnel.count) \subseteq Enabled
                /\ tunnel.params.bounced = server.params.bounced
                /\ tunnel.params.link # server.params.link => mode = "kernel" /\ behind
===============================================================================
