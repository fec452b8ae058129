----------------------------- MODULE PortForwards -----------------------------
(***************************************************************************)
(* Addresses and forwarded ports of the AmneziaWG clients in kernel mode:  *)
(* shared/ipam, shared/portfwd and what web/service/awg_service.go does    *)
(* with them; web/service/wg_service.go does the same for WireGuard.       *)
(*                                                                         *)
(* A forwarding rule reaches the firewall in two ways.  The configuration  *)
(* file lists the rules of the enabled clients in PostUp and in PostDown,  *)
(* which run when the interface goes up and down, but not when it is       *)
(* synced; and a handler that finds the interface up revokes and applies   *)
(* the rules of its own client.  Nothing takes a lock.                     *)
(*                                                                         *)
(* What these rows have of accounting is AwgTunnel's: here a client either *)
(* has limits, and may lose or get back its flag at any time, or has none. *)
(***************************************************************************)
EXTENDS Integers, FiniteSets

CONSTANTS
  Clients,      \* rows of awg_clients, each with a UUID of its own
  Ports,        \* lists of ports, as Normalize leaves them
  Exts,         \* names of external interfaces
  Admins,       \* concurrent HTTP handlers
  Job, Boot,    \* the traffic job and StartIfEnabled
  Forms,        \* what administrators enter for a client
  Workload,     \* the requests they send
  Bits4, Bits6, \* host bits of IPv4Pool and, unless None, of IPv6Pool
  ServerAddr,   \* the server's own place in both
  MaxEvents,    \* bound on requests, runs of the job, faults and restarts
  None

Actors == Admins \cup {Job, Boot}

Requests == {"AddClient", "UpdateClient", "ToggleClient", "DeleteClient", "DelDepleted",
             "ResetAll", "ToggleServer", "SaveServer", "DeleteAll", "ResetToDefaults"}

-------------------------------------------------------------------------------
(***************************************************************************)
(* Allocation.  An address is its offset in the pool.                      *)
(***************************************************************************)
HostCount(bits) == 2 ^ bits

\* Neither the network, nor .1, nor the broadcast address.
Hosts4 == 2 .. HostCount(Bits4) - 2

\* int64(1) << hostBits is negative for 63 bits and zero for more; at most 65536
\* are tried.
Hosts6 ==
  IF Bits6 = None \/ Bits6 > 62 THEN {}
  ELSE IF Bits6 > 16 THEN 2 .. 65535 ELSE 2 .. HostCount(Bits6) - 1

NextFree(hosts, used) ==
  LET free == hosts \ (used \cup {ServerAddr})
  IN IF free = {} THEN None ELSE CHOOSE i \in free : \A j \in free : i <= j

\* A list of ports and the flag are the client's own; limits: it has a quota or
\* an expiry.
Form == [enable : BOOLEAN, ports : Ports \cup {None}, limits : BOOLEAN]

Row == [enable : BOOLEAN, ports : Ports \cup {None}, limits : BOOLEAN,
        addr : Hosts4, addr6 : Hosts6 \cup {None}]

Server == [enable : BOOLEAN, ext : Exts]

\* The iptables lines that one client's list of ports makes, with its UUID as comment.
Rule == [client : Clients, addr : Hosts4, ports : Ports, ext : Exts]

Config == [forwards : SUBSET Rule]

ASSUME ConstantsAssumption ==
  /\ Job # Boot /\ Job \notin Admins /\ Boot \notin Admins
  /\ Forms \subseteq Form /\ Workload \subseteq Requests
  /\ Bits4 \in 0 .. 32 /\ Bits6 \in 0 .. 128 \cup {None}
  /\ ServerAddr \in Nat /\ MaxEvents \in Nat

ASSUME NoneAssumption ==
  None \notin Row \cup Clients \cup Ports \cup Server \cup Nat \cup Config \cup Requests

VARIABLES
  server,   \* table awg_servers
  rows,     \* table awg_clients
  conf,     \* the rules in PostUp and PostDown of the configuration file
  up,       \* whether the interface is
  rules,    \* the firewall: how many copies of each rule
  op,       \* what each actor is doing, with what it has read
  apart,    \* history: no two requests were at work at the same time
  smooth,   \* history since the host started: nothing overlapped, no call failed
  told,     \* history since the host started: whoever changed which rules there should
            \* be told the firewall
  events

vars == <<server, rows, conf, up, rules, op, apart, smooth, told, events>>

Tables == <<server, rows>>
System == <<conf, up, rules>>
History == <<apart, smooth, told, events>>

Present == {c \in Clients : rows[c] # None}

\* Slip: the addresses of disabled clients are given away.
EnabledAddresses == {rows[c].addr : c \in {d \in Present : rows[d].enable}}

Used4 == {rows[c].addr : c \in Present}
Used6 == {rows[c].addr6 : c \in Present}

Idle == [kind |-> None, pc |-> "free", client |-> None, row |-> None, old |-> None,
         server |-> None, wasUp |-> FALSE, found |-> {}, config |-> None, dirty |-> FALSE]

Busy(a) == op[a].pc # "free"

Quiet == \A a \in Actors : ~Busy(a)

\* Each step belongs to one actor.
Go(a, to) == op' = [op EXCEPT ![a] = to]

Happens == events < MaxEvents /\ events' = events + 1

\* A call of the system that fails.
Fault == Happens /\ smooth' = FALSE /\ UNCHANGED <<apart, told>>

-------------------------------------------------------------------------------
(***************************************************************************)
(* The firewall.  iptables is external: -A appends a copy, -D removes one  *)
(* and fails if there is none.                                             *)
(***************************************************************************)
RuleFor(c, r, ext) ==
  IF r # None /\ r.enable /\ r.ports # None
  THEN {[client |-> c, addr |-> r.addr, ports |-> r.ports, ext |-> ext]} ELSE {}

RulesOf(table, ext) == UNION {RuleFor(c, table[c], ext) : c \in Clients}

Wanted == RulesOf(rows, server.ext)

Applied(bag, s) == [r \in Rule |-> IF r \in s THEN bag[r] + 1 ELSE bag[r]]

\* Slip: a rule is counted out that is not there.
RevokedBlindly(bag, s) == [r \in Rule |-> IF r \in s THEN bag[r] - 1 ELSE bag[r]]

Revoked(bag, s) == [r \in Rule |-> IF r \in s /\ bag[r] > 0 THEN bag[r] - 1 ELSE bag[r]]

\* awg-quick (external) may give up PostDown at the first command that fails.
PostDown(bag, s) ==
  IF \A r \in s : bag[r] > 0 THEN {Revoked(bag, s)} ELSE {Revoked(bag, t) : t \in SUBSET s}

(***************************************************************************)
(* applyServerConfig, by the server as the caller read it.                 *)
(***************************************************************************)
\* Callers that will change the firewall look first whether the interface is up.
SeeIfUp(a) ==
  /\ op[a].pc = "look"
  /\ Go(a, [op[a] EXCEPT !.pc = "list", !.wasUp = up])
  /\ UNCHANGED Tables /\ UNCHANGED System /\ UNCHANGED History

ListClients(a) ==
  /\ op[a].pc = "list"
  /\ Go(a, [op[a] EXCEPT !.pc = "write",
                       !.config = [forwards |-> RulesOf(rows, op[a].server.ext)]])
  /\ UNCHANGED Tables /\ UNCHANGED System /\ UNCHANGED History

WriteServerConfig(a) ==
  /\ op[a].pc = "write"
  /\ conf' = op[a].config
  /\ Go(a, [op[a] EXCEPT !.pc = IF up THEN "sync" ELSE "up", !.config = None])
  /\ UNCHANGED Tables /\ UNCHANGED <<up, rules>> /\ UNCHANGED History

\* DelDepletedClients goes on to its next client.
GoOn(o) == IF o.found = {} THEN Idle ELSE [Idle EXCEPT !.pc = "find", !.found = o.found]

\* Whether it could be applied or not, the caller goes on.
AfterApply(a) == Go(a, IF op[a].wasUp THEN [op[a] EXCEPT !.pc = "diff"] ELSE GoOn(op[a]))

BringDown ==
  IF up /\ conf # None THEN up' = FALSE /\ rules' \in PostDown(rules, conf.forwards)
  ELSE UNCHANGED <<up, rules>>

\* A sync touches the peers alone; where it fails the interface is bounced.
Sync(a) ==
  /\ op[a].pc = "sync"
  /\ \/ up /\ AfterApply(a) /\ UNCHANGED <<up, rules>> /\ UNCHANGED History
     \/ /\ BringDown /\ (IF up THEN Fault ELSE UNCHANGED History)
        /\ Go(a, [op[a] EXCEPT !.pc = "up"])
  /\ UNCHANGED Tables /\ UNCHANGED conf

BringUp(a) ==
  /\ op[a].pc = "up"
  /\ \/ /\ IF up \/ conf = None THEN UNCHANGED <<up, rules>>
           ELSE up' = TRUE /\ rules' = Applied(rules, conf.forwards)
        /\ UNCHANGED History
     \/ Fault /\ UNCHANGED <<up, rules>>
  /\ AfterApply(a)
  /\ UNCHANGED Tables /\ UNCHANGED conf

\* Slip: of an edited client the new rules are revoked, not those it had.
RenewedDiff(o) ==
  Applied(Revoked(rules, RuleFor(o.client, o.row, o.server.ext)),
          RuleFor(o.client, o.row, o.server.ext))

\* applyForwardingDiff: what the client had is revoked, what it has now applied.
Diff(o) ==
  Applied(Revoked(rules, RuleFor(o.client, o.old, o.server.ext)),
          RuleFor(o.client, o.row, o.server.ext))

ApplyForwardingDiff(a) ==
  /\ op[a].pc = "diff"
  /\ \/ rules' = Diff(op[a]) /\ UNCHANGED History
     \/ UNCHANGED rules /\ Fault
  /\ Go(a, GoOn(op[a]))
  /\ UNCHANGED Tables /\ UNCHANGED <<conf, up>>

Apply(a) == SeeIfUp(a) \/ ListClients(a) \/ WriteServerConfig(a) \/ Sync(a) \/ BringUp(a)
            \/ ApplyForwardingDiff(a)

-------------------------------------------------------------------------------
(***************************************************************************)
(* The handlers.                                                           *)
(***************************************************************************)
At(kind, pc) == [Idle EXCEPT !.kind = kind, !.pc = pc]

Request(a, kind, to) ==
  /\ ~Busy(a) /\ kind \in Workload
  /\ Happens
  /\ apart' = (apart /\ \A b \in Admins : ~Busy(b))
  /\ smooth' = (smooth /\ Quiet)
  /\ Go(a, to)
  /\ UNCHANGED System /\ UNCHANGED told

NewRow(f) ==
  [enable |-> f.enable, ports |-> f.ports, limits |-> f.limits,
   addr |-> NextFree(Hosts4, Used4),
   addr6 |-> IF Bits6 = None THEN None ELSE NextFree(Hosts6, Used6)]

\* A pool that has no address left refuses the client.
Refused == NextFree(Hosts4, Used4) = None \/ (Bits6 # None /\ NextFree(Hosts6, Used6) = None)

\* A new client has a new UUID: not one that anything still refers to.
Known(c) ==
  \/ rows[c] # None
  \/ \E r \in Rule : r.client = c /\ (rules[r] > 0 \/ (conf # None /\ r \in conf.forwards))
  \/ \E a \in Actors : \/ op[a].client = c \/ c \in op[a].found
                       \/ op[a].config # None /\ \E r \in op[a].config.forwards : r.client = c

\* The clients and the server are read, the address is chosen, nothing is written yet.
BeginAddClient(a, c, f) ==
  /\ ~Known(c) /\ ~Refused
  /\ Request(a, "AddClient",
             [At("AddClient", "save") EXCEPT !.client = c, !.row = NewRow(f), !.server = server])
  /\ UNCHANGED Tables

\* The row that will be saved: the one a toggle read with its flag, or the one the
\* browser read with what was entered.
RowToSave(kind, r, f) ==
  IF kind = "ToggleClient" THEN [r EXCEPT !.enable = f.enable]
  ELSE [r EXCEPT !.enable = f.enable, !.ports = f.ports, !.limits = f.limits]

BeginUpdateClient(a, c, f) ==
  \E kind \in {"ToggleClient", "UpdateClient"} :
    /\ rows[c] # None
    /\ Request(a, kind, [At(kind, "old") EXCEPT
                           !.client = c, !.row = RowToSave(kind, rows[c], f)])
    /\ UNCHANGED Tables

BeginDeleteClient(a, c) ==
  /\ rows[c] # None
  /\ Request(a, "DeleteClient", [At("DeleteClient", "find") EXCEPT !.found = {c}])
  /\ UNCHANGED Tables

\* Only what has limits can be depleted.
BeginDelDepleted(a) ==
  \E found \in SUBSET {c \in Present : rows[c].limits} :
    /\ found # {}
    /\ Request(a, "DelDepleted", [At("DelDepleted", "find") EXCEPT !.found = found])
    /\ UNCHANGED Tables

Flipped(cs) == [c \in Clients |-> IF c \in cs THEN [rows[c] EXCEPT !.enable = ~@] ELSE rows[c]]

\* The flag of a client with forwarded ports says which rules there should be.
Silent(cs) == \A c \in cs : rows[c].ports = None

\* Clients with limits are enabled again; the UPDATE that follows has no condition,
\* which gorm (external) refuses: nothing is applied.
ResetAllClientTraffics(a) ==
  \E cs \in SUBSET {c \in Present : rows[c].limits /\ ~rows[c].enable} :
    /\ ~Busy(a) /\ "ResetAll" \in Workload
    /\ Happens
    /\ rows' = Flipped(cs)
    /\ apart' = (apart /\ \A b \in Admins : ~Busy(b))
    /\ smooth' = (smooth /\ Quiet)
    /\ told' = (told /\ Silent(cs))
    /\ UNCHANGED System /\ UNCHANGED <<server, op>>

\* The column is updated in the same breath as the server is read.
ToggleServer(a, enable) ==
  /\ Request(a, "ToggleServer",
             [At("ToggleServer", IF enable THEN "list" ELSE "down") EXCEPT
                !.server = [server EXCEPT !.enable = enable]])
  /\ server' = [server EXCEPT !.enable = enable]
  /\ UNCHANGED rows

\* The settings page sends back the server that it once loaded; dirty: something
\* that is not shown here differs, for which the interface is bounced.
BeginSaveServer(a, ext, dirty) ==
  /\ Request(a, "SaveServer", [At("SaveServer", "save server") EXCEPT
                                !.server = [server EXCEPT !.ext = ext], !.dirty = dirty])
  /\ UNCHANGED Tables

\* DeleteAllClients, on the way of a deleted inbound, and ResetToDefaults.
BeginClear(a) ==
  \E kind \in {"DeleteAll", "ResetToDefaults"} :
    /\ Request(a, kind, [At(kind, IF server.enable THEN "down" ELSE "clear") EXCEPT
                           !.server = server])
    /\ UNCHANGED Tables

Begin(a) ==
  \/ \E c \in Clients, f \in Forms : BeginAddClient(a, c, f) \/ BeginUpdateClient(a, c, f)
  \/ \E c \in Clients : BeginDeleteClient(a, c)
  \/ BeginDelDepleted(a) \/ ResetAllClientTraffics(a) \/ BeginClear(a)
  \/ \E b \in BOOLEAN : ToggleServer(a, b)
  \/ \E ext \in Exts, dirty \in BOOLEAN : BeginSaveServer(a, ext, dirty)

ReadOld(a) ==
  /\ op[a].pc = "old"
  /\ Go(a, [op[a] EXCEPT !.pc = "save", !.old = rows[op[a].client]])
  /\ UNCHANGED Tables /\ UNCHANGED System /\ UNCHANGED History

\* Create, and gorm's Save, which inserts a row that is gone; an inserted row is
\* enabled, FALSE giving way to the column's default (external).
SavedRow(o) == IF rows[o.client] = None THEN [o.row EXCEPT !.enable = TRUE] ELSE o.row

SaveClient(a) ==
  LET o == op[a]
  IN /\ o.pc = "save"
     /\ rows' = [rows EXCEPT ![o.client] = SavedRow(o)]
     /\ Go(a, [o EXCEPT !.pc = IF o.kind = "AddClient" THEN "enable" ELSE "server",
                        !.row = SavedRow(o)])
     /\ UNCHANGED server /\ UNCHANGED System /\ UNCHANGED History

\* The first client switches the server on.
AutoEnable(a) ==
  /\ op[a].pc = "enable"
  /\ server' = IF op[a].server.enable THEN server ELSE [server EXCEPT !.enable = TRUE]
  /\ Go(a, [op[a] EXCEPT !.pc = "look"])
  /\ UNCHANGED rows /\ UNCHANGED System /\ UNCHANGED History

ReadServer(a) ==
  /\ op[a].pc = "server"
  /\ Go(a, IF server.enable THEN [op[a] EXCEPT !.pc = "look", !.server = server] ELSE Idle)
  /\ UNCHANGED Tables /\ UNCHANGED System /\ UNCHANGED History

\* DeleteClient reads the client and the server: one client, or those found.
FindClient(a) ==
  /\ op[a].pc = "find"
  /\ \E c \in op[a].found :
       Go(a, IF rows[c] = None THEN GoOn([op[a] EXCEPT !.found = @ \ {c}])
             ELSE [op[a] EXCEPT !.pc = "delete", !.client = c, !.old = rows[c],
                                !.server = server, !.found = @ \ {c}])
  /\ UNCHANGED Tables /\ UNCHANGED System /\ UNCHANGED History

DeleteRow(a) ==
  LET o == op[a]
  IN /\ o.pc = "delete"
     /\ rows' = [rows EXCEPT ![o.client] = None]
     /\ Go(a, IF o.server.enable THEN [o EXCEPT !.pc = "look"] ELSE GoOn(o))
     /\ UNCHANGED server /\ UNCHANGED System /\ UNCHANGED History

\* Without a bounce the rules stay those of the old external interface.
SaveServer(a) ==
  LET s == op[a].server
  IN /\ op[a].pc = "save server"
     /\ server' = s
     /\ Go(a, IF ~s.enable THEN Idle
              ELSE [op[a] EXCEPT !.pc = IF op[a].dirty /\ up THEN "down" ELSE "list"])
     /\ told' = (told /\ (s.ext # server.ext /\ up => op[a].dirty \/ Wanted = {}))
     /\ UNCHANGED rows /\ UNCHANGED System /\ UNCHANGED <<apart, smooth, events>>

InterfaceDown(a) ==
  /\ op[a].pc = "down"
  /\ \/ BringDown /\ UNCHANGED History
     \/ up /\ Fault /\ UNCHANGED <<up, rules>>
  /\ Go(a, CASE op[a].kind = "ToggleServer" -> Idle
              [] op[a].kind = "SaveServer" -> [op[a] EXCEPT !.pc = "list"]
              [] OTHER -> [op[a] EXCEPT !.pc = "clear"])
  /\ UNCHANGED Tables /\ UNCHANGED conf

DeleteRows(a) ==
  /\ op[a].pc = "clear"
  /\ rows' = [c \in Clients |-> None]
  /\ Go(a, [op[a] EXCEPT !.pc = "disable server"])
  /\ UNCHANGED server /\ UNCHANGED System /\ UNCHANGED History

\* DeleteAllClients clears the flag; ResetToDefaults removes the file and saves the
\* server, whose external interface it keeps.
DisableServer(a) ==
  /\ op[a].pc = "disable server"
  /\ IF op[a].kind = "DeleteAll"
       THEN server' = [server EXCEPT !.enable = FALSE] /\ UNCHANGED conf
       ELSE server' = [op[a].server EXCEPT !.enable = FALSE] /\ conf' = None
  /\ Go(a, Idle)
  /\ UNCHANGED rows /\ UNCHANGED <<up, rules>> /\ UNCHANGED History

Handle(a) ==
  ReadOld(a) \/ SaveClient(a) \/ AutoEnable(a) \/ ReadServer(a) \/ FindClient(a)
  \/ DeleteRow(a) \/ SaveServer(a) \/ InterfaceDown(a) \/ DeleteRows(a) \/ DisableServer(a)

-------------------------------------------------------------------------------
(***************************************************************************)
(* The traffic job, the start of the panel, and the host.                  *)
(***************************************************************************)
JobStart ==
  /\ ~Busy(Job) /\ server.enable /\ up
  /\ Happens
  /\ Go(Job, [At("Traffic", "flags") EXCEPT !.server = server])
  /\ smooth' = (smooth /\ Quiet)
  /\ UNCHANGED Tables /\ UNCHANGED System /\ UNCHANGED <<apart, told>>

\* autoRenewClients gives flags back, disableInvalidClients takes them away.
JobFlags ==
  /\ op[Job].pc = "flags"
  /\ \E cs \in SUBSET {c \in Present : rows[c].limits} :
       /\ rows' = Flipped(cs)
       /\ Go(Job, IF cs = {} THEN Idle ELSE [op[Job] EXCEPT !.pc = "list"])
       /\ told' = (told /\ Silent(cs))
  /\ UNCHANGED server /\ UNCHANGED System /\ UNCHANGED <<apart, smooth, events>>

StartIfEnabled ==
  /\ op[Boot].pc = "boot"
  /\ Go(Boot, IF server.enable /\ ~up
              THEN [op[Boot] EXCEPT !.pc = "list", !.server = server] ELSE Idle)
  /\ UNCHANGED Tables /\ UNCHANGED System /\ UNCHANGED History

Starting == [a \in Actors |-> IF a = Boot THEN At("Start", "boot") ELSE Idle]

\* The panel dies and starts again: the interface and the firewall stay.
PanelRestarts ==
  /\ Happens
  /\ op' = Starting
  /\ smooth' = (smooth /\ Quiet)
  /\ UNCHANGED Tables /\ UNCHANGED System /\ UNCHANGED <<apart, told>>

\* The host does: neither of them stays.
HostRestarts ==
  /\ Happens
  /\ op' = Starting /\ up' = FALSE /\ rules' = [r \in Rule |-> 0]
  /\ smooth' = TRUE /\ told' = TRUE
  /\ UNCHANGED Tables /\ UNCHANGED <<conf, apart>>

Init ==
  /\ server \in [enable : {FALSE}, ext : Exts]
  /\ rows = [c \in Clients |-> None]
  /\ conf = None /\ up = FALSE /\ rules = [r \in Rule |-> 0]
  /\ op = Starting
  /\ apart = TRUE /\ smooth = TRUE /\ told = TRUE /\ events = 0

Next ==
  \/ JobStart \/ JobFlags \/ StartIfEnabled
  \/ \E a \in Actors : Apply(a)
  \/ \E a \in Admins : Begin(a) \/ Handle(a)
  \/ PanelRestarts \/ HostRestarts

Spec == Init /\ [][Next]_vars

-------------------------------------------------------------------------------
Kinds == Requests \cup {"Start", "Traffic", None}

Pcs == {"free", "boot", "flags", "look", "list", "write", "sync", "up", "diff", "old", "save",
        "enable", "server", "find", "delete", "save server", "down", "clear", "disable server"}

Op == [kind : Kinds, pc : Pcs, client : Clients \cup {None}, row : Row \cup {None},
       old : Row \cup {None}, server : Server \cup {None}, wasUp : BOOLEAN,
       found : SUBSET Clients, config : Config \cup {None}, dirty : BOOLEAN]

TypeOK ==
  /\ server \in Server /\ rows \in [Clients -> Row \cup {None}]
  /\ conf \in Config \cup {None} /\ up \in BOOLEAN /\ rules \in [Rule -> Nat]
  /\ op \in [Actors -> Op]
  /\ apart \in BOOLEAN /\ smooth \in BOOLEAN /\ told \in BOOLEAN /\ events \in Nat

\* As long as no two requests overlapped, every client has addresses of its own,
\* which are not the server's, whatever clients came and went, were toggled by the
\* job, or were under way when the panel or its host died.
OwnAddresses ==
  apart => \A c \in Present :
             /\ rows[c].addr # ServerAddr /\ rows[c].addr6 # ServerAddr
             /\ \A d \in Present \ {c} :
                  /\ rows[c].addr # rows[d].addr
                  /\ rows[c].addr6 # None => rows[c].addr6 # rows[d].addr6

\* Once nothing is under way, the firewall has each rule of the enabled clients
\* once, and no other, if the interface is up, and none if it is down: unless, since
\* the host started, two actors were at work at the same time, a call failed, or code
\* that applies no rule changed the flag of a client with forwarded ports or the
\* external interface (the job, awg_service.go:838, SaveServer, awg_service.go:111).
ForwardsInStep ==
  Quiet /\ smooth /\ told =>
    \A r \in Rule : rules[r] = IF up /\ r \in Wanted THEN 1 ELSE 0
===============================================================================
