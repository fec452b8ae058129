------------------------------- MODULE AwgProofs -------------------------------
(***************************************************************************)
(* For every value of its constants, AwgTunnel keeps its types; it bills   *)
(* no traffic twice as long as no form of a client is saved (UpdateClient  *)
(* zeroes the baseline of the row it saves); and its interface agrees with *)
(* the tables as long as nothing overlapped or failed.                     *)
(***************************************************************************)
EXTENDS AwgTunnel, TLAPS

WithServer == {"list", "enable", "save server", "down", "rows", "bill", "renew", "delayed",
               "disable"}

\* What an actor must have read by the time it is where it is.
Ready(o) ==
  /\ o.pc \in WithServer => o.server # None
  /\ o.pc \in {"write", "sync"} => o.config # None
  /\ o.pc = "save" => o.client # None /\ o.row # None
  /\ o.pc = "save" /\ o.kind = "AddClient" => o.server # None
  /\ o.pc = "renew" => \A c \in Clients : o.read[c] # None => o.read[c].reset > 0

AllReady == \A a \in Actors : Ready(op[a])

\* A row without traffic.
Zero == [enable |-> TRUE, total |-> 0, expiry |-> 0, reset |-> 0,
         used |-> 0, allTime |-> 0, last |-> 0]

\* The rows that are, or may yet become, the client's row.
RowsOf(c) ==
  ({rows[c], op[Job].read[c], Zero}
     \cup {op[a].row : a \in {b \in Actors : op[b].client = c}}) \ {None}

Count(c) == IF tunnel = None THEN None ELSE tunnel.count[c]

\* What a counter may still add to a bill with this baseline.
Owed(count, last) == IF count = None THEN 0 ELSE Delta(count, last)

\* What the interface counts beyond the row's baseline, directly or by way of what
\* the job has read, was not billed yet.
Covered(r, used, seen, count) ==
  /\ r.used <= r.allTime
  /\ r.allTime + Owed(count, r.last) <= used
  /\ seen # None => r.allTime + Delta(seen, r.last) + Owed(count, seen) <= used

BillsCovered ==
  \A c \in Clients : \A r \in RowsOf(c) :
    Covered(r, consumed[c], op[Job].stats[c], Count(c))

--------------------------------------------------------------------------------
(* Types.                                                                  *)

Inv == TypeOK /\ AllReady

LEMMA NoneIsNothing ==
    /\ None \notin Row /\ None \notin Config /\ None \notin Tunnel /\ None \notin Server
    /\ None \notin Clients /\ None \notin Nat
  BY NoneAssumption DEF NoneAssumption

LEMMA IdleOk == Idle \in Op /\ Ready(Idle)
  BY DEF Idle, Op, Ready, NoCounts, Kinds, Pcs, WithServer

LEMMA StartedOk == Started \in Op /\ Ready(Started)
  BY DEF Started, Idle, Op, Ready, NoCounts, Kinds, Pcs, WithServer

\* An operation that moves on, with what it has read or without its config.
LEMMA Moved ==
    ASSUME NEW o \in Op, NEW p \in Pcs
    PROVE  /\ [o EXCEPT !.pc = p] \in Op
           /\ [o EXCEPT !.pc = p, !.config = None] \in Op
  <1>1. [o EXCEPT !.pc = p] \in Op
    BY DEF Op
  <1>2. [o EXCEPT !.pc = p, !.config = None] \in Op
    BY DEF Op
  <1> QED BY <1>1, <1>2

LEMMA Unconfigured ==
    ASSUME NEW o \in Op, NEW p \in {"up", "delete"}
    PROVE  /\ [o EXCEPT !.pc = p, !.config = None] \in Op
           /\ Ready([o EXCEPT !.pc = p, !.config = None])
  <1>1. p \in Pcs
    BY DEF Pcs
  <1>2. Ready([o EXCEPT !.pc = p, !.config = None])
    BY DEF Op, Ready, WithServer
  <1> QED BY <1>1, <1>2, Moved

\* An actor that goes somewhere it may be.
LEMMA Going ==
    ASSUME Inv, NEW a \in Actors, NEW to \in Op, Ready(to), Go(a, to)
    PROVE  op' \in [Actors -> Op] /\ AllReady'
  BY DEF Inv, TypeOK, AllReady, Go, Ready

LEMMA Finishing ==
    ASSUME Inv, NEW a \in Actors, Finish(a)
    PROVE  op' \in [Actors -> Op] /\ AllReady'
  BY IdleOk, Going DEF Finish

LEMMA OpType ==
    ASSUME Inv, NEW a \in Actors
    PROVE  op[a] \in Op /\ Ready(op[a])
  BY DEF Inv, TypeOK, AllReady

LEMMA FaultType ==
    ASSUME Inv, NoFault \/ Fault
    PROVE  smooth' \in BOOLEAN /\ events' \in Nat
  <1>1. smooth \in BOOLEAN /\ events \in Nat
    BY DEF Inv, TypeOK
  <1>2. CASE NoFault
    BY <1>1, <1>2 DEF NoFault
  <1>3. CASE Fault
    <2>1. smooth' = FALSE /\ events' = events + 1
      BY <1>3 DEF Fault, Happens
    <2>2. events' \in Nat
      BY <1>1, <2>1
    <2> QED BY <2>1, <2>2
  <1> QED BY <1>2, <1>3

LEMMA DeltaType ==
    ASSUME NEW m \in Nat, NEW n \in Nat
    PROVE  Delta(m, n) \in Nat
  BY DEF Delta

LEMMA InterfaceUpType ==
    ASSUME NEW config \in Config
    PROVE  InterfaceUp(config) \in Tunnel
  BY DEF Config, InterfaceUp, Tunnel, Counter

LEMMA SyncConfigType ==
    ASSUME Inv, NEW config \in Config, mode = "userspace" \/ tunnel # None
    PROVE  SyncConfig(config) \in Tunnel
  <1>1. CASE mode = "userspace"
    BY <1>1, InterfaceUpType DEF SyncConfig
  <1>2. CASE mode # "userspace"
    <2>1. tunnel \in Tunnel
      BY <1>2 DEF Inv, TypeOK
    <2> QED BY <1>2, <2>1 DEF SyncConfig, Tunnel, Config, Counter
  <1> QED BY <1>1, <1>2

LEMMA AfterApplyType ==
    ASSUME Inv, NEW a \in Actors, AfterApply(a)
    PROVE  op' \in [Actors -> Op] /\ AllReady'
  <1>1. /\ [op[a] EXCEPT !.pc = "delete", !.config = None] \in Op
        /\ Ready([op[a] EXCEPT !.pc = "delete", !.config = None])
    BY OpType, Unconfigured
  <1> QED BY <1>1, IdleOk, Going DEF AfterApply

LEMMA EnabledType ==
    ASSUME Inv PROVE Enabled \in SUBSET Clients
  BY DEF Inv, TypeOK, Enabled, Present

LEMMA ApplyType ==
    ASSUME Inv, NEW a \in Actors, Apply(a)
    PROVE  Inv'
  <1> USE DEF Leaves, Tables, System, Device, Replace
  <1>0. op[a] \in Op /\ Ready(op[a])
    BY OpType
  <1>1. CASE ListClients(a)
    <2> DEFINE config == [peers |-> Enabled, params |-> op[a].server.params]
               to     == [op[a] EXCEPT !.pc = "write", !.kind = None, !.server = None,
                                       !.config = config]
    <2>1. config \in Config
      BY <1>0, <1>1, EnabledType DEF ListClients, Ready, WithServer, Op, Server, Config
    <2> HIDE DEF config
    <2>2. to \in Op
      BY <1>0, <2>1 DEF Op, Kinds, Pcs
    <2>3. Ready(to)
      BY <1>0, <2>1, NoneIsNothing DEF Op, Ready, WithServer
    <2>4. Go(a, to)
      BY <1>1 DEF ListClients, config
    <2> QED BY <1>1, <2>2, <2>3, <2>4, Going DEF ListClients, Inv, TypeOK
  <1>2. CASE WriteServerConfig(a)
    <2> DEFINE to == IF tunnel # None THEN [op[a] EXCEPT !.pc = "sync"]
                     ELSE [op[a] EXCEPT !.pc = "up", !.config = None]
    <2>1. op[a].config \in Config
      BY <1>0, <1>2 DEF WriteServerConfig, Ready, Op
    <2>2. to \in Op /\ Ready(to)
      <3>1. [op[a] EXCEPT !.pc = "sync"] \in Op
        BY <1>0, Moved DEF Pcs
      <3>2. Ready([op[a] EXCEPT !.pc = "sync"])
        BY <1>0, <2>1, NoneIsNothing DEF Op, Ready, WithServer
      <3> QED BY <1>0, <3>1, <3>2, Unconfigured
    <2>3. Go(a, to)
      BY <1>2 DEF WriteServerConfig
    <2> QED BY <1>2, <2>1, <2>2, <2>3, Going DEF WriteServerConfig, NoFault, Inv, TypeOK
  <1>3. CASE Sync(a)
    <2> DEFINE to == [op[a] EXCEPT !.pc = "up", !.config = None]
    <2>1. op[a].config \in Config
      BY <1>0, <1>3 DEF Sync, Ready, Op
    <2>2. to \in Op /\ Ready(to)
      BY <1>0, Unconfigured
    <2> HIDE DEF to
    <2>3. op' \in [Actors -> Op] /\ AllReady'
      BY <1>3, <2>2, Going, AfterApplyType DEF Sync, to
    <2>4. tunnel' \in Tunnel \cup {None}
      <3>1. mode = "userspace" \/ mode = "kernel"
        BY ConstantsAssumption DEF ConstantsAssumption, Inv, TypeOK
      <3> QED BY <1>3, <2>1, <3>1, SyncConfigType DEF Sync, Inv, TypeOK
    <2>5. smooth' \in BOOLEAN /\ events' \in Nat
      <3>1. NoFault \/ Fault
        BY <1>3 DEF Sync
      <3> QED BY <3>1, FaultType
    <2> QED BY <1>3, <2>3, <2>4, <2>5 DEF Sync, Inv, TypeOK
  <1>4. CASE BringUp(a)
    <2>1. tunnel' \in Tunnel \cup {None}
      BY <1>4, InterfaceUpType DEF BringUp, Inv, TypeOK
    <2>2. smooth' \in BOOLEAN /\ events' \in Nat
      <3>1. NoFault \/ Fault
        BY <1>4 DEF BringUp
      <3> QED BY <3>1, FaultType
    <2>3. op' \in [Actors -> Op] /\ AllReady'
      BY <1>4, AfterApplyType DEF BringUp
    <2> QED BY <1>4, <2>1, <2>2, <2>3 DEF BringUp, Inv, TypeOK
  <1> QED BY <1>1, <1>2, <1>3, <1>4 DEF Apply

LEMMA BeginsType ==
    ASSUME Inv, NEW a \in Actors, Begins(a)
    PROVE  smooth' \in BOOLEAN
  BY DEF Begins

\* A table with every client that is there, and every enabled one enabled.
Keeps(table) ==
  \A c \in Clients : rows[c] # None => table[c] # None /\ (rows[c].enable => table[c].enable)

LEMMA BilledRowsType ==
    ASSUME Inv
    PROVE  /\ BilledRows(op[Job]) \in [Clients -> Row \cup {None}]
           /\ Keeps(BilledRows(op[Job]))
  <1>1. op[Job] \in Op
    BY OpType DEF Actors
  <1>2. rows \in [Clients -> Row \cup {None}]
    BY DEF Inv, TypeOK
  <1>3. ASSUME NEW r \in Row, NEW old \in Row, NEW n \in Nat
        PROVE  Billed(r, old, n) \in Row /\ Billed(r, old, n).enable = r.enable
    <2>1. Delta(n, old.last) \in Nat
      BY DeltaType DEF Row
    <2>2. old.used + Delta(n, old.last) \in Nat /\ old.allTime + Delta(n, old.last) \in Nat
      BY <2>1 DEF Row
    <2> QED BY <2>2 DEF Billed, Row
  <1>4. op[Job].read \in [Clients -> Row \cup {None}]
        /\ op[Job].stats \in [Clients -> Nat \cup {None}]
    BY <1>1 DEF Op
  <1>5. ASSUME NEW c \in Clients
        PROVE  /\ BilledRows(op[Job])[c] \in Row \cup {None}
               /\ rows[c] # None => /\ BilledRows(op[Job])[c] # None
                                    /\ BilledRows(op[Job])[c].enable = rows[c].enable
    <2>1. CASE rows[c] = None \/ op[Job].read[c] = None \/ op[Job].stats[c] = None
      BY <1>2, <2>1 DEF BilledRows
    <2>2. CASE rows[c] # None /\ op[Job].read[c] # None /\ op[Job].stats[c] # None
      <3>1. rows[c] \in Row /\ op[Job].read[c] \in Row /\ op[Job].stats[c] \in Nat
        BY <1>2, <1>4, <2>2
      <3>2. BilledRows(op[Job])[c] = Billed(rows[c], op[Job].read[c], op[Job].stats[c])
        BY <2>2 DEF BilledRows
      <3>3. LET r == Billed(rows[c], op[Job].read[c], op[Job].stats[c])
            IN r \in Row /\ r.enable = rows[c].enable
        BY <1>3, <3>1
      <3> QED BY <3>2, <3>3, NoneIsNothing
    <2> QED BY <2>1, <2>2
  <1> QED BY <1>5 DEF BilledRows, Keeps

\* A renewed expiry is one: reset is not zero.
LEMMA NextExpiryType ==
    ASSUME Inv, NEW r \in Row, r.reset > 0
    PROVE  NextExpiry(r) \in Int
  <1>1. now \in Nat /\ r.expiry \in Int /\ r.reset \in Nat
    BY DEF Inv, TypeOK, Row
  <1>2. (now - r.expiry) \div r.reset \in Int
    BY <1>1
  <1> QED BY <1>1, <1>2 DEF NextExpiry

LEMMA RenewedRowsType ==
    ASSUME Inv, op[Job].pc = "renew"
    PROVE  /\ RenewedRows(op[Job].read) \in [Clients -> Row \cup {None}]
           /\ Keeps(RenewedRows(op[Job].read))
  <1> DEFINE found == op[Job].read
  <1>1. op[Job] \in Op /\ Ready(op[Job])
    BY OpType DEF Actors
  <1>2. rows \in [Clients -> Row \cup {None}] /\ found \in [Clients -> Row \cup {None}]
    BY <1>1 DEF Inv, TypeOK, Op
  <1>3. \A c \in Clients : found[c] # None => found[c] \in Row /\ found[c].reset > 0
    BY <1>1, <1>2 DEF Ready
  <1> HIDE DEF found
  <1> SUFFICES ASSUME NEW c \in Clients, rows[c] # None, found[c] # None
               PROVE  LET r == [rows[c] EXCEPT !.expiry = NextExpiry(found[c]), !.used = 0,
                                               !.enable = @ \/ ~found[c].enable]
                      IN r \in Row /\ (rows[c].enable => r.enable)
    BY <1>2, NoneIsNothing DEF RenewedRows, found, Keeps
  <1>4. NextExpiry(found[c]) \in Int
    BY <1>3, NextExpiryType
  <1>5. rows[c] \in Row
    BY <1>2
  <1>6. (rows[c].enable \/ ~found[c].enable) \in BOOLEAN
    OBVIOUS
  <1> QED BY <1>4, <1>5, <1>6 DEF Row

LEMMA StartedRowsType ==
    ASSUME Inv
    PROVE  /\ StartedRows(op[Job].read) \in [Clients -> Row \cup {None}]
           /\ Keeps(StartedRows(op[Job].read))
  <1>1. op[Job] \in Op
    BY OpType DEF Actors
  <1>2. rows \in [Clients -> Row \cup {None}] /\ op[Job].read \in [Clients -> Row \cup {None}]
        /\ now \in Nat
    BY <1>1 DEF Inv, TypeOK, Op
  <1>3. ASSUME NEW c \in Clients, rows[c] # None, op[Job].read[c] # None
        PROVE  LET r == [rows[c] EXCEPT !.expiry = now - op[Job].read[c].expiry]
               IN r \in Row /\ r.enable = rows[c].enable
    BY <1>2, <1>3 DEF Row
  <1> QED BY <1>2, <1>3, NoneIsNothing DEF StartedRows, Keeps

LEMMA TrafficType ==
    ASSUME Inv, Traffic
    PROVE  Inv'
  <1> USE DEF Leaves, Tables, System, Interface
  <1>0. Job \in Actors
    BY DEF Actors
  <1>a. op[Job] \in Op /\ Ready(op[Job])
    BY <1>0, OpType
  <1>b. rows \in [Clients -> Row \cup {None}]
    BY DEF Inv, TypeOK
  <1>1. CASE JobStats
    <2> DEFINE to == [op[Job] EXCEPT !.kind = "Traffic", !.pc = "rows", !.server = server,
                                     !.stats = tunnel.count]
    <2>1. tunnel.count \in [Clients -> Nat \cup {None}] /\ server \in Server
      BY <1>1 DEF JobStats, Inv, TypeOK, Tunnel
    <2>2. to \in Op
      BY <1>a, <2>1 DEF Op, Kinds, Pcs
    <2>3. Ready(to)
      BY <1>a, <2>1, NoneIsNothing DEF Op, Ready, WithServer
    <2>4. Go(Job, to)
      BY <1>1 DEF JobStats
    <2>5. op' \in [Actors -> Op] /\ AllReady'
      BY <1>0, <2>2, <2>3, <2>4, Going
    <2>6. smooth' \in BOOLEAN
      BY <1>0, <1>1, BeginsType DEF JobStats
    <2> QED BY <1>1, <2>5, <2>6 DEF JobStats, Inv, TypeOK
  <1>2. CASE JobRows
    <2> DEFINE to == [op[Job] EXCEPT !.pc = "bill", !.read = rows]
    <2>1. to \in Op
      BY <1>a, <1>b DEF Op, Pcs
    <2>2. Ready(to)
      BY <1>2, <1>a DEF JobRows, Op, Ready, WithServer
    <2>3. op' \in [Actors -> Op] /\ AllReady'
      BY <1>0, <1>2, <2>1, <2>2, Going DEF JobRows
    <2> QED BY <1>2, <2>3 DEF JobRows, Inv, TypeOK
  <1>3. CASE JobBill
    <2> DEFINE billed == BilledRows(op[Job])
               to     == [op[Job] EXCEPT !.pc = "renew", !.stats = NoCounts,
                                         !.read = Renewals(billed)]
    <2>1. billed \in [Clients -> Row \cup {None}]
      BY BilledRowsType
    <2>2. rows' = billed /\ Go(Job, to)
      BY <1>3 DEF JobBill
    <2> HIDE DEF billed
    <2>3. Renewals(billed) \in [Clients -> Row \cup {None}] /\ NoCounts \in [Clients -> {None}]
      BY <2>1 DEF Renewals, NoCounts
    <2>4. to \in Op
      BY <1>a, <2>3 DEF Op, Pcs
    <2>5. \A c \in Clients : Renewals(billed)[c] # None => Renewals(billed)[c].reset > 0
      BY DEF Renewals
    <2>6. Ready(to)
      BY <1>3, <1>a, <2>5 DEF JobBill, Op, Ready, WithServer
    <2>7. op' \in [Actors -> Op] /\ AllReady'
      BY <1>0, <2>2, <2>4, <2>6, Going
    <2> QED BY <1>3, <2>1, <2>2, <2>7 DEF JobBill, Inv, TypeOK
  <1>4. CASE JobRenew
    <2> DEFINE renewed == RenewedRows(op[Job].read)
               waiting == Waiting(renewed)
               dirty   == \E c \in Present(op[Job].read) : ~op[Job].read[c].enable
               pc      == IF Present(waiting) = {} THEN "disable" ELSE "delayed"
               to      == [op[Job] EXCEPT !.pc = pc, !.read = waiting, !.dirty = dirty]
    <2>1. renewed \in [Clients -> Row \cup {None}]
      BY <1>4, RenewedRowsType DEF JobRenew
    <2>2. rows' = renewed /\ Go(Job, to)
      BY <1>4 DEF JobRenew
    <2> HIDE DEF renewed
    <2>3. waiting \in [Clients -> Row \cup {None}]
      BY <2>1 DEF Waiting
    <2> HIDE DEF waiting
    <2>4. dirty \in BOOLEAN
      OBVIOUS
    <2>p. pc \in {"disable", "delayed"} /\ pc \in Pcs
      BY DEF Pcs
    <2> HIDE DEF dirty, pc
    <2>5. to \in Op
      BY <1>a, <2>3, <2>4, <2>p DEF Op
    <2>6. Ready(to)
      <3>1. op[Job].server # None
        BY <1>4, <1>a DEF JobRenew, Ready, WithServer
      <3> QED BY <1>a, <2>p, <3>1 DEF Op, Ready
    <2>7. op' \in [Actors -> Op] /\ AllReady'
      BY <1>0, <2>2, <2>5, <2>6, Going
    <2> QED BY <1>4, <2>1, <2>2, <2>7 DEF JobRenew, Inv, TypeOK
  <1>5. CASE JobDelayed
    <2> DEFINE to == [op[Job] EXCEPT !.pc = "disable", !.read = NoCounts]
    <2>1. to \in Op
      <3>1. "disable" \in Pcs /\ NoCounts \in [Clients -> Row \cup {None}]
        BY DEF Pcs, NoCounts
      <3> QED BY <1>a, <3>1 DEF Op
    <2>2. Ready(to)
      BY <1>5, <1>a DEF JobDelayed, Op, Ready, WithServer
    <2>3. op' \in [Actors -> Op] /\ AllReady'
      BY <1>0, <1>5, <2>1, <2>2, Going DEF JobDelayed
    <2> QED BY <1>5, <2>3, StartedRowsType DEF JobDelayed, Inv, TypeOK
  <1>6. CASE JobDisable
    <2> DEFINE to == [op[Job] EXCEPT !.pc = "list", !.dirty = FALSE]
    <2>1. to \in Op
      BY <1>a DEF Op, Pcs
    <2>2. Ready(to)
      BY <1>6, <1>a DEF JobDisable, Op, Ready, WithServer
    <2>3. Go(Job, IF op[Job].dirty \/ Invalid # {} THEN to ELSE Idle)
      BY <1>6 DEF JobDisable
    <2>4. op' \in [Actors -> Op] /\ AllReady'
      BY <1>0, <2>1, <2>2, <2>3, IdleOk, Going
    <2>5. rows' \in [Clients -> Row \cup {None}]
      <3>1. \A c \in Invalid : rows[c] \in Row
        BY <1>b DEF Invalid, Enabled, Present
      <3>2. \A c \in Invalid : [rows[c] EXCEPT !.enable = FALSE] \in Row
        BY <3>1 DEF Row
      <3>3. /\ \A c \in Clients :
                 rows'[c] = IF c \in Invalid THEN [rows[c] EXCEPT !.enable = FALSE] ELSE rows[c]
            /\ DOMAIN rows' = Clients /\ rows' = [c \in Clients |-> rows'[c]]
        BY <1>6 DEF JobDisable
      <3>4. \A c \in Clients : rows'[c] \in Row \cup {None}
        BY <1>b, <3>2, <3>3
      <3> QED BY <3>3, <3>4
    <2> QED BY <1>6, <2>4, <2>5 DEF JobDisable, Inv, TypeOK
  <1> QED BY <1>1, <1>2, <1>3, <1>4, <1>5, <1>6 DEF Traffic

LEMMA RequestType ==
    ASSUME Inv, NEW a \in Actors, NEW kind, NEW to \in Op, Ready(to), Request(a, kind, to)
    PROVE  /\ op' \in [Actors -> Op] /\ AllReady'
           /\ smooth' \in BOOLEAN /\ events' \in Nat
           /\ UNCHANGED <<mode, now, conf, tunnel, behind, consumed>>
  <1>1. op' \in [Actors -> Op] /\ AllReady'
    BY Going DEF Request
  <1>2. smooth' \in BOOLEAN
    BY BeginsType DEF Request
  <1>3. events \in Nat /\ events' = events + 1
    BY DEF Request, Happens, Inv, TypeOK
  <1>4. events' \in Nat
    BY <1>3
  <1> QED BY <1>1, <1>2, <1>4 DEF Request, Interface, Leaves

\* An actor at the beginning of a request has read nothing yet.
LEMMA AtType ==
    ASSUME NEW kind \in Requests, NEW pc \in Pcs
    PROVE  /\ At(kind, pc) \in Op /\ At(kind, pc).pc = pc /\ At(kind, pc).kind = kind
           /\ \A c \in Clients : At(kind, pc).read[c] = None
  <1>1. kind \in Kinds
    BY DEF Kinds
  <1>2. Idle \in Op /\ Idle.read = NoCounts
    BY IdleOk DEF Idle
  <1> QED BY <1>1, <1>2 DEF At, Op, NoCounts

LEMMA BeginType ==
    ASSUME Inv, NEW a \in Admins, Begin(a)
    PROVE  Inv'
  <1> USE DEF Tables
  <1>0. a \in Actors
    BY DEF Actors
  <1>a. server \in Server /\ rows \in [Clients -> Row \cup {None}]
    BY DEF Inv, TypeOK
  <1>b. ASSUME NEW f \in Forms PROVE f \in Form
    BY <1>b, ConstantsAssumption DEF ConstantsAssumption
  <1>c. ASSUME NEW kind, NEW to \in Op, Ready(to), Request(a, kind, to),
               server' \in Server, rows' \in [Clients -> Row \cup {None}]
        PROVE  Inv'
    BY <1>0, <1>c, RequestType DEF Inv, TypeOK
  <1>1. ASSUME NEW c \in Clients, NEW f \in Forms, BeginAddClient(a, c, f)
        PROVE  Inv'
    <2> DEFINE to == [At("AddClient", "save") EXCEPT
                        !.client = c, !.row = NewRow(f), !.server = server]
    <2>1. NewRow(f) \in Row
      BY <1>b DEF NewRow, Form, Row
    <2>2. to \in Op /\ Ready(to)
      <3>1. "AddClient" \in Requests /\ "save" \in Pcs
        BY DEF Requests, Pcs
      <3>2. At("AddClient", "save") \in Op /\ At("AddClient", "save").pc = "save"
            /\ At("AddClient", "save").kind = "AddClient"
            /\ \A x \in Clients : At("AddClient", "save").read[x] = None
        BY <3>1, AtType
      <3>3. to \in Op
        BY <3>2, <1>a, <2>1 DEF Op
      <3> QED BY <3>2, <1>a, <2>1, NoneIsNothing DEF Op, Ready, WithServer
    <2> QED BY <1>1, <1>a, <1>c, <2>2 DEF BeginAddClient
  <1>2. ASSUME NEW c \in Clients, NEW f \in Forms, BeginUpdateClient(a, c, f)
        PROVE  Inv'
    <2>1. PICK kind \in {"ToggleClient", "UpdateClient"} :
            /\ rows[c] # None
            /\ Request(a, kind, [At(kind, "save") EXCEPT
                                   !.client = c, !.row = RowToSave(kind, rows[c], f)])
            /\ UNCHANGED Tables
      BY <1>2 DEF BeginUpdateClient
    <2> DEFINE row == RowToSave(kind, rows[c], f)
               to  == [At(kind, "save") EXCEPT !.client = c, !.row = row]
    <2>2. row \in Row
      <3>1. rows[c] \in Row /\ f \in Form
        BY <1>a, <1>b, <2>1
      <3>2. Entered(rows[c], f) \in Row
        BY <3>1 DEF Entered, Form, Row
      <3> QED BY <3>1, <3>2 DEF RowToSave, Form, Row
    <2> HIDE DEF row
    <2>3. to \in Op /\ Ready(to)
      <3>1. kind \in Requests /\ "save" \in Pcs
        BY DEF Requests, Pcs
      <3>2. At(kind, "save") \in Op /\ At(kind, "save").pc = "save"
            /\ At(kind, "save").kind = kind
            /\ \A x \in Clients : At(kind, "save").read[x] = None
        BY <3>1, AtType
      <3>3. to \in Op
        BY <3>2, <2>2 DEF Op
      <3> QED BY <3>2, <2>2, NoneIsNothing DEF Op, Ready, WithServer
    <2> QED BY <1>a, <1>c, <2>1, <2>3 DEF row
  <1>3. ASSUME NEW c \in Clients, BeginDeleteClient(a, c)
        PROVE  Inv'
    <2> DEFINE to == [At("DeleteClient", "delete") EXCEPT !.found = {c}]
    <2>1. to \in Op /\ Ready(to)
      <3>1. "DeleteClient" \in Requests /\ "delete" \in Pcs
        BY DEF Requests, Pcs
      <3>2. At("DeleteClient", "delete") \in Op /\ At("DeleteClient", "delete").pc = "delete"
            /\ \A x \in Clients : At("DeleteClient", "delete").read[x] = None
        BY <3>1, AtType
      <3>3. to \in Op
        BY <3>2 DEF Op
      <3> QED BY <3>2, NoneIsNothing DEF Op, Ready, WithServer
    <2> QED BY <1>3, <1>a, <1>c, <2>1 DEF BeginDeleteClient
  <1>4. ASSUME NEW c \in Clients, ResetClientTraffic(a, c)
        PROVE  Inv'
    <2>1. rows' \in [Clients -> Row \cup {None}]
      BY <1>4, <1>a DEF ResetClientTraffic, Row
    <2> QED BY <1>4, <1>a, <1>c, <2>1, IdleOk DEF ResetClientTraffic
  <1>5. CASE BeginDelDepleted(a)
    <2> DEFINE found == {c \in Present(rows) : rows[c].reset = 0 /\ Depleted(rows[c])}
               to    == [At("DelDepleted", "delete") EXCEPT !.found = found]
    <2>1. Request(a, "DelDepleted", to) /\ UNCHANGED Tables
      BY <1>5 DEF BeginDelDepleted
    <2>2. found \in SUBSET Clients
      BY <1>a DEF Present
    <2> HIDE DEF found
    <2>3. to \in Op /\ Ready(to)
      <3>1. "DelDepleted" \in Requests /\ "delete" \in Pcs
        BY DEF Requests, Pcs
      <3>2. At("DelDepleted", "delete") \in Op /\ At("DelDepleted", "delete").pc = "delete"
            /\ \A x \in Clients : At("DelDepleted", "delete").read[x] = None
        BY <3>1, AtType
      <3>3. to \in Op
        BY <3>2, <2>2 DEF Op
      <3> QED BY <3>2, <2>2, NoneIsNothing DEF Op, Ready, WithServer
    <2> QED BY <1>a, <1>c, <2>1, <2>3
  <1>6. CASE ResetAllClientTraffics(a)
    <2>1. rows' \in [Clients -> Row \cup {None}]
      BY <1>6, <1>a DEF ResetAllClientTraffics, Row
    <2> QED BY <1>6, <1>a, <1>c, <2>1, IdleOk DEF ResetAllClientTraffics
  <1>7. CASE BeginClear(a)
    <2>1. PICK kind \in {"DeleteAll", "ResetToDefaults"} :
            /\ Request(a, kind, [At(kind, IF server.enable THEN "down" ELSE "clear") EXCEPT
                                   !.server = server])
            /\ UNCHANGED Tables
      BY <1>7 DEF BeginClear
    <2> DEFINE pc == IF server.enable THEN "down" ELSE "clear"
               to == [At(kind, pc) EXCEPT !.server = server]
    <2>2. to \in Op /\ Ready(to)
      <3>1. kind \in Requests /\ pc \in Pcs
        BY DEF Requests, Pcs
      <3>2. At(kind, pc) \in Op /\ At(kind, pc).pc = pc
            /\ \A x \in Clients : At(kind, pc).read[x] = None
        BY <3>1, AtType
      <3>3. to \in Op
        BY <3>2, <1>a DEF Op
      <3> QED BY <3>2, <1>a, NoneIsNothing DEF Op, Ready, WithServer
    <2> QED BY <1>a, <1>c, <2>1, <2>2
  <1>8. ASSUME NEW b \in BOOLEAN, ToggleServer(a, b)
        PROVE  Inv'
    <2> DEFINE s  == [server EXCEPT !.enable = b]
               pc == IF b THEN "list" ELSE "down"
               to == [At("ToggleServer", pc) EXCEPT !.server = s]
    <2>1. s \in Server
      BY <1>a DEF Server
    <2>2. Request(a, "ToggleServer", to) /\ server' = s /\ UNCHANGED rows
      BY <1>8 DEF ToggleServer
    <2> HIDE DEF s
    <2>3. to \in Op /\ Ready(to)
      <3>1. "ToggleServer" \in Requests /\ pc \in Pcs
        BY DEF Requests, Pcs
      <3>2. At("ToggleServer", pc) \in Op /\ At("ToggleServer", pc).pc = pc
            /\ \A x \in Clients : At("ToggleServer", pc).read[x] = None
        BY <3>1, AtType
      <3>3. to \in Op
        BY <3>2, <2>1 DEF Op
      <3> QED BY <3>2, <2>1, NoneIsNothing DEF Op, Ready, WithServer
    <2> QED BY <1>a, <1>c, <2>1, <2>2, <2>3
  <1>9. ASSUME NEW params \in Params, BeginSaveServer(a, params)
        PROVE  Inv'
    <2> DEFINE s  == [server EXCEPT !.params = params]
               to == [At("SaveServer", "save server") EXCEPT !.server = s]
    <2>1. s \in Server
      BY <1>a DEF Server
    <2>2. Request(a, "SaveServer", to) /\ UNCHANGED Tables
      BY <1>9 DEF BeginSaveServer
    <2> HIDE DEF s
    <2>3. to \in Op /\ Ready(to)
      <3>1. "SaveServer" \in Requests /\ "save server" \in Pcs
        BY DEF Requests, Pcs
      <3>2. /\ At("SaveServer", "save server") \in Op
            /\ At("SaveServer", "save server").pc = "save server"
            /\ \A x \in Clients : At("SaveServer", "save server").read[x] = None
        BY <3>1, AtType
      <3>3. to \in Op
        BY <3>2, <2>1 DEF Op
      <3> QED BY <3>2, <2>1, NoneIsNothing DEF Op, Ready, WithServer
    <2> QED BY <1>a, <1>c, <2>2, <2>3
  <1> QED BY <1>1, <1>2, <1>3, <1>4, <1>5, <1>6, <1>7, <1>8, <1>9 DEF Begin

LEMMA HandleType ==
    ASSUME Inv, NEW a \in Admins, Handle(a)
    PROVE  Inv'
  <1> USE DEF Leaves, Tables, System, Interface, Device, Replace
  <1>0. a \in Actors
    BY DEF Actors
  <1>a. op[a] \in Op /\ Ready(op[a])
    BY <1>0, OpType
  <1>b. server \in Server /\ rows \in [Clients -> Row \cup {None}] /\ DefaultParams \in Params
    BY ConstantsAssumption DEF Inv, TypeOK, ConstantsAssumption
  <1>c. ASSUME NEW to \in Op, Ready(to), Go(a, to)
        PROVE  op' \in [Actors -> Op] /\ AllReady'
    BY <1>0, <1>c, Going
  <1>1. CASE SaveClient(a)
    <2> DEFINE pc == IF op[a].kind = "AddClient" THEN "enable" ELSE "server"
               to == [op[a] EXCEPT !.pc = pc, !.row = None, !.client = None]
    <2>1. op[a].pc = "save" /\ op[a].client \in Clients /\ op[a].row \in Row
      BY <1>a, <1>1 DEF SaveClient, Ready, Op
    <2>2. to \in Op
      <3>1. pc \in Pcs
        BY DEF Pcs
      <3> HIDE DEF pc
      <3> QED BY <1>a, <3>1 DEF Op
    <2>3. Ready(to)
      BY <1>a, <2>1 DEF Op, Ready, WithServer
    <2>4. Go(a, to)
      BY <1>1 DEF SaveClient
    <2>5. op' \in [Actors -> Op] /\ AllReady'
      BY <1>c, <2>2, <2>3, <2>4
    <2>6. Inserted(op[a].row) \in Row
      BY <2>1 DEF Inserted, Row
    <2>7. rows' \in [Clients -> Row \cup {None}]
      BY <1>1, <1>b, <2>1, <2>6 DEF SaveClient
    <2> QED BY <1>1, <2>5, <2>7 DEF SaveClient, Inv, TypeOK
  <1>2. CASE AutoEnable(a)
    <2> DEFINE to == [op[a] EXCEPT !.pc = "list"]
    <2>1. to \in Op
      BY <1>a DEF Op, Pcs
    <2>2. Ready(to)
      BY <1>a, <1>2 DEF AutoEnable, Op, Ready, WithServer
    <2>3. op' \in [Actors -> Op] /\ AllReady'
      BY <1>2, <1>c, <2>1, <2>2 DEF AutoEnable
    <2>4. server' \in Server
      BY <1>2, <1>b DEF AutoEnable, Server
    <2> QED BY <1>2, <2>3, <2>4 DEF AutoEnable, Inv, TypeOK
  <1>3. CASE ReadServer(a)
    <2> DEFINE to == [op[a] EXCEPT !.pc = "list", !.server = server]
    <2>1. to \in Op
      BY <1>a, <1>b DEF Op, Pcs
    <2>2. Ready(to)
      BY <1>a, <1>b, NoneIsNothing DEF Op, Ready, WithServer
    <2>3. op' \in [Actors -> Op] /\ AllReady'
      BY <1>3, <1>c, <2>1, <2>2, IdleOk DEF ReadServer
    <2> QED BY <1>3, <2>3 DEF ReadServer, Inv, TypeOK
  <1>4. CASE DeleteFound(a)
    <2>1. ASSUME NEW c \in op[a].found,
                 rows' = [rows EXCEPT ![c] = None],
                 Go(a, [op[a] EXCEPT
                          !.found = @ \ {c}, !.server = server,
                          !.pc = IF rows[c] # None /\ server.enable THEN "list" ELSE "delete"])
          PROVE  /\ op' \in [Actors -> Op] /\ AllReady'
                 /\ rows' \in [Clients -> Row \cup {None}]
      <3> DEFINE pc == IF rows[c] # None /\ server.enable THEN "list" ELSE "delete"
                 to == [op[a] EXCEPT !.found = @ \ {c}, !.server = server, !.pc = pc]
      <3>1. pc \in {"list", "delete"} /\ Go(a, to)
        BY <2>1
      <3> HIDE DEF pc
      <3>2. to \in Op
        BY <1>a, <1>b, <3>1 DEF Op, Pcs
      <3>3. Ready(to)
        BY <1>a, <1>b, <3>1, NoneIsNothing DEF Op, Ready, WithServer
      <3> QED BY <1>b, <1>c, <2>1, <3>1, <3>2, <3>3
    <2> QED BY <1>0, <1>4, <1>b, <2>1, Finishing DEF DeleteFound, Inv, TypeOK
  <1>5. CASE SaveServer(a)
    <2> DEFINE s  == op[a].server
               pc == IF Dirty(s) /\ tunnel # None THEN "down" ELSE "list"
               to == [op[a] EXCEPT !.pc = pc]
    <2>1. s \in Server /\ server' = s /\ Go(a, IF s.enable THEN to ELSE Idle)
      BY <1>a, <1>5 DEF SaveServer, Ready, WithServer, Op
    <2>2. pc \in {"down", "list"}
      OBVIOUS
    <2> HIDE DEF pc
    <2>3. to \in Op
      BY <1>a, <2>2 DEF Op, Pcs
    <2>4. Ready(to)
      BY <1>a, <2>1, <2>2, NoneIsNothing DEF Op, Ready, WithServer
    <2>5. op' \in [Actors -> Op] /\ AllReady'
      BY <1>c, <2>1, <2>3, <2>4, IdleOk
    <2> QED BY <1>5, <2>1, <2>5 DEF SaveServer, NoFault, Inv, TypeOK
  <1>6. CASE InterfaceDown(a)
    <2> DEFINE list  == [op[a] EXCEPT !.pc = "list"]
               clear == [op[a] EXCEPT !.pc = "clear"]
    <2>1. op[a].pc = "down" /\ (Go(a, Idle) \/ Go(a, list) \/ Go(a, clear))
      BY <1>6 DEF InterfaceDown
    <2>2. list \in Op /\ clear \in Op
      BY <1>a, Moved DEF Pcs
    <2>3. Ready(list) /\ Ready(clear)
      BY <1>a, <2>1 DEF Op, Ready, WithServer
    <2>4. op' \in [Actors -> Op] /\ AllReady'
      BY <1>c, <2>1, <2>2, <2>3, IdleOk
    <2>5. NoFault \/ Fault
      BY <1>6 DEF InterfaceDown
    <2>6. smooth' \in BOOLEAN /\ events' \in Nat
      BY <2>5, FaultType
    <2> QED BY <1>6, <2>4, <2>6 DEF InterfaceDown, Inv, TypeOK
  <1>7. CASE DeleteRows(a)
    <2> DEFINE to == [op[a] EXCEPT !.pc = "disable server"]
    <2>1. to \in Op /\ Ready(to)
      <3>1. to \in Op
        BY <1>a, Moved DEF Pcs
      <3>2. Ready(to)
        BY <1>a DEF Op, Ready, WithServer
      <3> QED BY <3>1, <3>2
    <2>2. op' \in [Actors -> Op] /\ AllReady'
      BY <1>7, <1>c, <2>1 DEF DeleteRows
    <2> QED BY <1>7, <2>2 DEF DeleteRows, NoCounts, Inv, TypeOK
  <1>8. CASE DisableServer(a)
    <2>1. op' \in [Actors -> Op] /\ AllReady'
      BY <1>0, <1>8, Finishing DEF DisableServer
    <2>2. server' \in Server
      <3>1. [server EXCEPT !.enable = FALSE] \in Server
            /\ [enable |-> FALSE, params |-> DefaultParams] \in Server
        BY <1>b DEF Server
      <3> QED BY <1>8, <3>1 DEF DisableServer
    <2>3. conf' \in Config \cup {None} /\ tunnel' \in Tunnel \cup {None}
      BY <1>8 DEF DisableServer, Inv, TypeOK
    <2> QED BY <1>8, <2>1, <2>2, <2>3 DEF DisableServer, NoFault, Inv, TypeOK
  <1> QED BY <1>1, <1>2, <1>3, <1>4, <1>5, <1>6, <1>7, <1>8 DEF Handle

LEMMA StartIfEnabledType ==
    ASSUME Inv, StartIfEnabled
    PROVE  Inv'
  <1> DEFINE to == [op[Boot] EXCEPT !.pc = "list", !.server = server]
  <1>1. Boot \in Actors /\ op[Boot] \in Op /\ Ready(op[Boot]) /\ server \in Server
    BY OpType DEF Actors, Inv, TypeOK
  <1>2. to \in Op
    BY <1>1 DEF Op, Pcs
  <1>3. Ready(to)
    BY <1>1, NoneIsNothing DEF Op, Ready, WithServer
  <1>4. op' \in [Actors -> Op] /\ AllReady'
    BY <1>1, <1>2, <1>3, IdleOk, Going DEF StartIfEnabled
  <1> QED BY <1>4 DEF StartIfEnabled, Tables, System, Leaves, Inv, TypeOK

LEMMA EnvironmentType ==
    ASSUME Inv, (\E c \in Clients : Use(c)) \/ Tick \/ PanelDies
    PROVE  Inv'
  <1> USE DEF Tables, System, Leaves, Device, Replace
  <1>1. ASSUME NEW c \in Clients, Use(c)
        PROVE  Inv'
    <2>1. tunnel \in Tunnel /\ tunnel.count[c] \in Nat /\ consumed \in [Clients -> Nat]
      BY <1>1 DEF Use, Inv, TypeOK, Tunnel
    <2>2. tunnel' \in Tunnel
      BY <1>1, <2>1 DEF Use, Tunnel
    <2>3. consumed' \in [Clients -> Nat]
      BY <1>1, <2>1 DEF Use
    <2>4. AllReady'
      BY <1>1 DEF Use, Inv, AllReady
    <2> QED BY <1>1, <2>2, <2>3, <2>4 DEF Use, Inv, TypeOK
  <1>2. CASE Tick
    <2>1. now \in Nat /\ now' = now + 1
      BY <1>2 DEF Tick, Inv, TypeOK
    <2>2. now' \in Nat
      BY <2>1
    <2>3. AllReady'
      BY <1>2 DEF Tick, Inv, AllReady
    <2> QED BY <1>2, <2>2, <2>3 DEF Tick, Inv, TypeOK
  <1>3. CASE PanelDies
    <2>1. op' \in [Actors -> Op] /\ AllReady'
      BY <1>3, IdleOk, StartedOk DEF PanelDies, AllReady
    <2>2. smooth' \in BOOLEAN /\ events' \in Nat
      BY <1>3, FaultType DEF PanelDies
    <2> QED BY <1>3, <2>1, <2>2 DEF PanelDies, Inv, TypeOK
  <1> QED BY <1>1, <1>2, <1>3

LEMMA InitType ==
    ASSUME Init
    PROVE  Inv
  <1>1. rows \in [Clients -> Row \cup {None}] /\ DefaultParams \in Params
    BY ConstantsAssumption DEF Init, ConstantsAssumption
  <1>2. op \in [Actors -> Op] /\ AllReady
    BY IdleOk, StartedOk DEF Init, AllReady
  <1>3. server \in Server
    BY <1>1 DEF Init, Server
  <1>4. consumed \in [Clients -> Nat]
    BY <1>1 DEF Init, Row
  <1> QED BY <1>1, <1>2, <1>3, <1>4 DEF Init, Inv, TypeOK

LEMMA NextType ==
    ASSUME Inv, [Next]_vars
    PROVE  Inv'
  <1>1. CASE UNCHANGED vars
    BY <1>1 DEF vars, Inv, TypeOK, AllReady
  <1>2. CASE Next
    BY <1>2, ApplyType, TrafficType, BeginType, HandleType, StartIfEnabledType,
       EnvironmentType DEF Next
  <1> QED BY <1>1, <1>2

\* The variables of AwgTunnel keep their types: counters, bills and baselines stay
\* natural numbers (Delta of awg_service.go:736 never bills a negative amount), a
\* renewed expiry is one, and whoever applies a configuration has read one.
THEOREM TypeCorrect == Spec => []TypeOK
  <1>1. Init => Inv
    BY InitType
  <1>2. Inv /\ [Next]_vars => Inv'
    BY NextType
  <1>3. Inv => TypeOK
    BY DEF Inv
  <1> QED BY <1>1, <1>2, <1>3, PTL DEF Spec

--------------------------------------------------------------------------------
(* Bills.                                                                  *)

\* A row that bills nothing that no known row of the client bills.
From(c, r) ==
  \E q \in RowsOf(c) : r.allTime = q.allTime /\ r.last = q.last /\ r.used \in {q.used, 0}

RowsFrom == \A c \in Clients : rows'[c] # None => From(c, rows'[c])

ReadFrom == \A c \in Clients : op'[Job].read[c] # None => From(c, op'[Job].read[c])

OpsFrom == \A a \in Actors, c \in Clients :
             op'[a].client = c /\ op'[a].row # None => From(c, op'[a].row)

StatsFrom == \A c \in Clients : op'[Job].stats[c] \in {op[Job].stats[c], None}

\* No traffic, and counters go on or start again.
CountsFrom == consumed' = consumed /\ \A c \in Clients : Count(c)' \in {Count(c), 0, None}

LEMMA RowsOfType ==
    ASSUME Inv, NEW c \in Clients
    PROVE  RowsOf(c) \subseteq Row
  <1>1. rows[c] \in Row \cup {None}
    BY DEF Inv, TypeOK
  <1>2. op[Job].read[c] \in Row \cup {None}
    BY OpType DEF Actors, Op
  <1>3. \A a \in Actors : op[a].row \in Row \cup {None}
    BY OpType DEF Op
  <1>4. Zero \in Row
    BY DEF Zero, Row
  <1> QED BY <1>1, <1>2, <1>3, <1>4 DEF RowsOf

LEMMA CountType ==
    ASSUME Inv, NEW c \in Clients
    PROVE  /\ Count(c) \in Nat \cup {None} /\ op[Job].stats[c] \in Nat \cup {None}
           /\ consumed[c] \in Nat
  <1>1. op[Job].stats[c] \in Nat \cup {None}
    BY OpType DEF Actors, Op
  <1>2. Count(c) \in Nat \cup {None}
    BY DEF Count, Tunnel, Inv, TypeOK
  <1> QED BY <1>1, <1>2 DEF Inv, TypeOK

LEMMA OwedType ==
    ASSUME NEW n \in Nat \cup {None}, NEW m \in Nat
    PROVE  Owed(n, m) \in Nat
  BY NoneIsNothing DEF Owed, Delta

\* A counter that starts again owes nothing.
LEMMA NothingOwed ==
    ASSUME NEW m \in Nat
    PROVE  Owed(0, m) = 0 /\ Owed(None, m) = 0
  BY NoneIsNothing DEF Owed, Delta

\* The rows to come are known ones.
LEMMA RowsOfFrom ==
    ASSUME Inv, RowsFrom, ReadFrom, OpsFrom, NEW c \in Clients, NEW r \in RowsOf(c)'
    PROVE  From(c, r)
  <1>1. CASE r = Zero
    <2>1. Zero \in Row /\ None \notin Row
      BY NoneIsNothing DEF Zero, Row
    <2> QED BY <1>1, <2>1 DEF From, RowsOf
  <1>2. CASE r # Zero
    <2>1. /\ r # None
          /\ \/ r = rows'[c] \/ r = op'[Job].read[c]
             \/ \E a \in Actors : op'[a].client = c /\ r = op'[a].row
      BY <1>2 DEF RowsOf
    <2> QED BY <2>1 DEF RowsFrom, ReadFrom, OpsFrom
  <1> QED BY <1>1, <1>2

\* A row that bills no more is covered by counters that owe no more.
LEMMA StillCovered ==
    ASSUME NEW q \in Row, NEW r, NEW k \in Nat,
           r.allTime = q.allTime, r.last = q.last, r.used \in {q.used, 0},
           NEW s \in Nat \cup {None}, NEW t \in {s, None},
           NEW n \in Nat \cup {None}, NEW m \in {n, 0, None},
           Covered(q, k, s, n)
    PROVE  Covered(r, k, t, m)
  <1>1. /\ q.used \in Nat /\ q.allTime \in Nat /\ q.last \in Nat
        /\ m \in Nat \cup {None} /\ t \in Nat \cup {None}
    BY DEF Row
  <1>2. r.used <= r.allTime
    BY <1>1 DEF Covered
  <1>3. \A l \in Nat : Owed(n, l) \in Nat /\ Owed(m, l) \in Nat /\ Owed(m, l) <= Owed(n, l)
    <2> SUFFICES ASSUME NEW l \in Nat
                 PROVE  Owed(n, l) \in Nat /\ Owed(m, l) \in Nat /\ Owed(m, l) <= Owed(n, l)
      OBVIOUS
    <2>1. Owed(n, l) \in Nat /\ Owed(m, l) \in Nat
      BY <1>1, OwedType
    <2>2. m = n \/ Owed(m, l) = 0
      BY NothingOwed
    <2> QED BY <2>1, <2>2
  <1>4. r.allTime + Owed(m, r.last) <= k
    BY <1>1, <1>3 DEF Covered
  <1>5. ASSUME t # None
        PROVE  r.allTime + Delta(t, r.last) + Owed(m, t) <= k
    <2>1. t = s /\ s # None /\ s \in Nat
      BY <1>5
    <2>2. q.allTime + Delta(s, q.last) + Owed(n, s) <= k
      BY <2>1 DEF Covered
    <2>3. Delta(s, q.last) \in Nat
      BY <1>1, <2>1, DeltaType
    <2> QED BY <1>1, <1>3, <2>1, <2>2, <2>3
  <1> QED BY <1>2, <1>4, <1>5 DEF Covered

LEMMA Kept ==
    ASSUME Inv, BillsCovered, RowsFrom, ReadFrom, OpsFrom, StatsFrom, CountsFrom
    PROVE  BillsCovered'
  <1> SUFFICES ASSUME NEW c \in Clients, NEW r \in RowsOf(c)'
               PROVE  Covered(r, consumed'[c], op'[Job].stats[c], Count(c)')
    BY DEF BillsCovered
  <1>1. PICK q \in RowsOf(c) : r.allTime = q.allTime /\ r.last = q.last /\ r.used \in {q.used, 0}
    BY RowsOfFrom DEF From
  <1>2. q \in Row
    BY <1>1, RowsOfType
  <1>3. Covered(q, consumed[c], op[Job].stats[c], Count(c))
    BY <1>1 DEF BillsCovered
  <1>4. /\ consumed'[c] = consumed[c] /\ op'[Job].stats[c] \in {op[Job].stats[c], None}
        /\ Count(c)' \in {Count(c), 0, None}
    BY DEF StatsFrom, CountsFrom
  <1> DEFINE s == op[Job].stats[c]
             t == op'[Job].stats[c]
             n == Count(c)
             m == Count(c)'
             k == consumed[c]
  <1>5. /\ s \in Nat \cup {None} /\ t \in {s, None} /\ n \in Nat \cup {None}
        /\ m \in {n, 0, None} /\ k \in Nat /\ Covered(q, k, s, n) /\ consumed'[c] = k
    BY <1>3, <1>4, CountType
  <1> HIDE DEF s, t, n, m, k
  <1>6. Covered(r, k, t, m)
    BY <1>1, <1>2, <1>5, StillCovered
  <1> QED BY <1>5, <1>6 DEF t, m

\* An actor that drops what it had read, or keeps it.
Carries(o, to) ==
  /\ to.row = None \/ (to.row = o.row /\ to.client = o.client)
  /\ to.read \in {o.read, NoCounts}
  /\ to.stats \in {o.stats, NoCounts}

LEMMA CarriesIdle == \A o : Carries(o, Idle)
  BY DEF Carries, Idle

LEMMA KnownFrom ==
    ASSUME NEW c \in Clients, NEW r \in RowsOf(c)
    PROVE  From(c, r)
  BY DEF From

LEMMA RowFrom ==
    ASSUME NEW c \in Clients, rows[c] # None
    PROVE  From(c, rows[c])
  BY DEF From, RowsOf

LEMMA UnchangedRowsFrom ==
    ASSUME rows' = rows
    PROVE  RowsFrom
  BY RowFrom DEF RowsFrom

LEMMA UnchangedCountsFrom ==
    ASSUME consumed' = consumed, tunnel' = tunnel \/ tunnel' = None
    PROVE  CountsFrom
  BY DEF CountsFrom, Count

LEMMA CarriedFrom ==
    ASSUME Inv, NEW a \in Actors, NEW to, Carries(op[a], to), Go(a, to)
    PROVE  ReadFrom /\ OpsFrom /\ StatsFrom
  <1>1. op \in [Actors -> Op] /\ op' = [op EXCEPT ![a] = to] /\ Job \in Actors
    BY DEF Inv, TypeOK, Go, Actors
  <1>2. \A b \in Actors : Carries(op[b], op'[b])
    BY <1>1 DEF Carries
  <1>3. \A c \in Clients : /\ op'[Job].read[c] \in {op[Job].read[c], None}
                           /\ op'[Job].stats[c] \in {op[Job].stats[c], None}
    BY <1>1, <1>2 DEF Carries, NoCounts
  <1>4. ReadFrom
    <2> SUFFICES ASSUME NEW c \in Clients, op'[Job].read[c] # None
                 PROVE  From(c, op'[Job].read[c])
      BY DEF ReadFrom
    <2>1. op'[Job].read[c] = op[Job].read[c] /\ op[Job].read[c] \in RowsOf(c)
      BY <1>3 DEF RowsOf
    <2> QED BY <2>1, KnownFrom
  <1>5. OpsFrom
    <2> SUFFICES ASSUME NEW b \in Actors, NEW c \in Clients,
                        op'[b].client = c, op'[b].row # None
                 PROVE  From(c, op'[b].row)
      BY DEF OpsFrom
    <2>1. op'[b].row = op[b].row /\ op[b].client = c
      BY <1>2 DEF Carries
    <2>2. op[b].row \in RowsOf(c)
      BY <2>1 DEF RowsOf
    <2> QED BY <2>1, <2>2, KnownFrom
  <1>6. StatsFrom
    BY <1>3 DEF StatsFrom
  <1> QED BY <1>4, <1>5, <1>6

LEMMA InterfaceUpCounts ==
    ASSUME NEW config, NEW c \in Clients
    PROVE  InterfaceUp(config).count[c] \in {0, None}
  BY DEF InterfaceUp, Counter

LEMMA SyncConfigCounts ==
    ASSUME Inv, NEW config, NEW c \in Clients, mode = "userspace" \/ tunnel # None
    PROVE  SyncConfig(config).count[c] \in {Count(c), 0, None}
  <1>1. CASE mode = "userspace"
    BY <1>1, InterfaceUpCounts DEF SyncConfig
  <1>2. CASE mode # "userspace"
    <2>1. tunnel \in Tunnel /\ tunnel # None
      BY <1>2 DEF Inv, TypeOK
    <2> QED BY <1>2, <2>1 DEF SyncConfig, Tunnel, Counter, Count
  <1> QED BY <1>1, <1>2

LEMMA AfterApplyFrom ==
    ASSUME Inv, NEW a \in Actors, AfterApply(a)
    PROVE  ReadFrom /\ OpsFrom /\ StatsFrom
  <1> DEFINE to == IF op[a].found = {} THEN Idle
                   ELSE [op[a] EXCEPT !.pc = "delete", !.config = None]
  <1>1. Carries(op[a], to)
    BY CarriesIdle, OpType DEF Carries, Op
  <1> QED BY <1>1, CarriedFrom DEF AfterApply

LEMMA ApplyCovered ==
    ASSUME Inv, BillsCovered, NEW a \in Actors, Apply(a)
    PROVE  BillsCovered'
  <1> USE DEF Leaves, Tables, System, Device, Replace
  <1>0. op[a] \in Op
    BY OpType
  <1>1. rows' = rows /\ consumed' = consumed
    BY DEF Apply, ListClients, WriteServerConfig, Sync, BringUp
  <1>2. CASE ListClients(a)
    <2> DEFINE to == [op[a] EXCEPT
                        !.pc = "write", !.kind = None, !.server = None,
                        !.config = [peers |-> Enabled, params |-> op[a].server.params]]
    <2>1. Carries(op[a], to) /\ Go(a, to) /\ tunnel' = tunnel
      BY <1>0, <1>2 DEF ListClients, Carries, Op
    <2> QED BY <1>1, <2>1, CarriedFrom, UnchangedRowsFrom, UnchangedCountsFrom, Kept
  <1>3. CASE WriteServerConfig(a)
    <2> DEFINE to == IF tunnel # None THEN [op[a] EXCEPT !.pc = "sync"]
                     ELSE [op[a] EXCEPT !.pc = "up", !.config = None]
    <2>1. Carries(op[a], to) /\ Go(a, to) /\ tunnel' = tunnel
      BY <1>0, <1>3 DEF WriteServerConfig, Carries, Op
    <2> QED BY <1>1, <2>1, CarriedFrom, UnchangedRowsFrom, UnchangedCountsFrom, Kept
  <1>4. CASE Sync(a)
    <2> DEFINE to == [op[a] EXCEPT !.pc = "up", !.config = None]
    <2>1. Carries(op[a], to)
      BY <1>0 DEF Carries, Op
    <2>2. AfterApply(a) \/ Go(a, to)
      BY <1>4 DEF Sync
    <2>3. ReadFrom /\ OpsFrom /\ StatsFrom
      BY <2>1, <2>2, AfterApplyFrom, CarriedFrom
    <2>4. mode = "userspace" \/ mode = "kernel"
      BY ConstantsAssumption DEF ConstantsAssumption, Inv, TypeOK
    <2>5. \/ tunnel' \in {None, tunnel}
          \/ /\ mode = "userspace" \/ tunnel # None
             /\ tunnel' = SyncConfig(op[a].config)
      BY <1>4, <2>4 DEF Sync
    <2>6. CountsFrom
      BY <1>1, <2>5, SyncConfigCounts DEF CountsFrom, Count
    <2> QED BY <1>1, <2>3, <2>6, UnchangedRowsFrom, Kept
  <1>5. CASE BringUp(a)
    <2>1. tunnel' = tunnel \/ tunnel' = InterfaceUp(conf)
      BY <1>5 DEF BringUp
    <2>2. CountsFrom
      BY <1>1, <2>1, InterfaceUpCounts DEF CountsFrom, Count
    <2>3. ReadFrom /\ OpsFrom /\ StatsFrom
      BY <1>5, AfterApplyFrom DEF BringUp
    <2> QED BY <1>1, <2>2, <2>3, UnchangedRowsFrom, Kept
  <1> QED BY <1>2, <1>3, <1>4, <1>5 DEF Apply

\* What the job reads of a peer's counter is what the row owes, and no more.
LEMMA StatsCovered ==
    ASSUME Inv, BillsCovered, JobStats
    PROVE  BillsCovered'
  <1> DEFINE to == [op[Job] EXCEPT !.kind = "Traffic", !.pc = "rows", !.server = server,
                                   !.stats = tunnel.count]
  <1>1. /\ Go(Job, to) /\ rows' = rows /\ tunnel' = tunnel /\ consumed' = consumed
        /\ tunnel # None /\ Job \in Actors
    BY DEF JobStats, Tables, Interface, Leaves, Actors
  <1>2. op \in [Actors -> Op] /\ op[Job] \in Op
    BY <1>1, OpType DEF Inv, TypeOK
  <1>3. \A a \in Actors : op'[a].row = op[a].row /\ op'[a].client = op[a].client
                          /\ op'[a].read = op[a].read
    BY <1>1, <1>2 DEF Go, Op
  <1>4. op'[Job].stats = tunnel.count
    BY <1>1, <1>2 DEF Go, Op
  <1> SUFFICES ASSUME NEW c \in Clients, NEW r \in RowsOf(c)'
               PROVE  Covered(r, consumed'[c], op'[Job].stats[c], Count(c)')
    BY DEF BillsCovered
  <1>5. r \in RowsOf(c)
    BY <1>1, <1>3 DEF RowsOf
  <1>6. Covered(r, consumed[c], op[Job].stats[c], Count(c)) /\ r \in Row
    BY <1>5, RowsOfType DEF BillsCovered
  <1>7. /\ Count(c)' = Count(c) /\ op'[Job].stats[c] = Count(c)
        /\ Count(c) \in Nat \cup {None} /\ consumed[c] \in Nat
    BY <1>1, <1>4, CountType DEF Count
  <1>8. ASSUME Count(c) # None
        PROVE  r.allTime + Delta(Count(c), r.last) + Owed(Count(c), Count(c)) <= consumed[c]
    <2> DEFINE sum == r.allTime + Delta(Count(c), r.last)
    <2>1. Owed(Count(c), Count(c)) = 0
      BY <1>7, <1>8 DEF Owed, Delta
    <2>2. sum <= consumed[c]
      BY <1>6, <1>8 DEF Covered, Owed
    <2>3. sum \in Nat
      <3>1. Count(c) \in Nat /\ r.allTime \in Nat /\ r.last \in Nat
        BY <1>6, <1>7, <1>8 DEF Row
      <3>2. Delta(Count(c), r.last) \in Nat
        BY <3>1, DeltaType
      <3> QED BY <3>1, <3>2
    <2> HIDE DEF sum
    <2>4. sum + Owed(Count(c), Count(c)) <= consumed[c]
      BY <2>1, <2>2, <2>3
    <2> QED BY <2>4 DEF sum
  <1> QED BY <1>1, <1>6, <1>7, <1>8 DEF Covered

\* A bill moves what the job has read from the counter to the row.
LEMMA BillCovered ==
    ASSUME NEW r \in Row, NEW old \in Row, NEW s \in Nat, NEW n \in Nat \cup {None},
           NEW k \in Nat, Covered(r, k, s, n), Covered(old, k, s, n)
    PROVE  Covered(Billed(r, old, s), k, None, n)
  <1>1. CASE s = old.last
    BY <1>1 DEF Covered, Billed
  <1>2. CASE s # old.last
    <2> DEFINE d == Delta(s, old.last)
               b == Billed(r, old, s)
    <2>1. b.used = old.used + d /\ b.allTime = old.allTime + d /\ b.last = s
      BY <1>2 DEF Billed, Row
    <2>2. old.used \in Nat /\ old.allTime \in Nat /\ d \in Nat /\ Owed(n, s) \in Nat
      BY DeltaType, OwedType DEF Row
    <2>3. old.used <= old.allTime /\ old.allTime + d + Owed(n, s) <= k
      BY NoneIsNothing DEF Covered
    <2> HIDE DEF d, b
    <2>4. b.used <= b.allTime /\ b.allTime + Owed(n, b.last) <= k
      BY <2>1, <2>2, <2>3
    <2> QED BY <2>4 DEF Covered, b
  <1> QED BY <1>1, <1>2

LEMMA BillsStayCovered ==
    ASSUME Inv, BillsCovered, JobBill
    PROVE  BillsCovered'
  <1> DEFINE billed == BilledRows(op[Job])
             to     == [op[Job] EXCEPT !.pc = "renew", !.stats = NoCounts,
                                       !.read = Renewals(billed)]
  <1>1. /\ Go(Job, to) /\ rows' = billed /\ tunnel' = tunnel /\ consumed' = consumed
        /\ Job \in Actors
    BY DEF JobBill, System, Leaves, Actors
  <1>2. op \in [Actors -> Op] /\ op[Job] \in Op
    BY <1>1, OpType DEF Inv, TypeOK
  <1>3. \A a \in Actors : op'[a].row = op[a].row /\ op'[a].client = op[a].client
    BY <1>1, <1>2 DEF Go, Op
  <1>4. op'[Job].stats = NoCounts /\ op'[Job].read = Renewals(billed)
    BY <1>1, <1>2 DEF Go, Op
  <1> HIDE DEF to
  <1> SUFFICES ASSUME NEW c \in Clients, NEW r \in RowsOf(c)'
               PROVE  Covered(r, consumed'[c], op'[Job].stats[c], Count(c)')
    BY DEF BillsCovered
  <1> DEFINE s == op[Job].stats[c]
             n == Count(c)
             k == consumed[c]
  <1>5. /\ s \in Nat \cup {None} /\ n \in Nat \cup {None} /\ k \in Nat
        /\ op'[Job].stats[c] = None /\ Count(c)' = n /\ consumed'[c] = k
    BY <1>1, <1>4, CountType DEF Count, NoCounts
  <1>6. \A q \in RowsOf(c) : q \in Row /\ Covered(q, k, s, n)
    BY RowsOfType DEF BillsCovered
  <1>7. \A q \in RowsOf(c) : Covered(q, k, None, n)
    BY <1>6 DEF Covered
  <1>8. CASE r \in RowsOf(c)
    BY <1>5, <1>7, <1>8
  <1>9. CASE r \notin RowsOf(c)
    <2>1. r = billed[c] /\ r # None
      <3>1. r # None /\ r \in {rows'[c], op'[Job].read[c]}
        BY <1>3, <1>9 DEF RowsOf
      <3>2. op'[Job].read[c] \in {billed[c], None}
        BY <1>4 DEF Renewals
      <3> QED BY <1>1, <3>1, <3>2
    <2>2. rows[c] # None /\ op[Job].read[c] # None /\ s # None
          /\ r = Billed(rows[c], op[Job].read[c], s)
      <3>1. rows[c] = None \/ rows[c] \in RowsOf(c)
        BY DEF RowsOf
      <3> QED BY <1>9, <2>1, <3>1 DEF BilledRows
    <2>3. rows[c] \in RowsOf(c) /\ op[Job].read[c] \in RowsOf(c)
      BY <2>2 DEF RowsOf
    <2> HIDE DEF s, n, k
    <2>4. Covered(r, k, None, n)
      BY <1>5, <1>6, <2>2, <2>3, BillCovered
    <2> QED BY <1>5, <2>4
  <1> QED BY <1>8, <1>9

LEMMA TrafficCovered ==
    ASSUME Inv, BillsCovered, Traffic
    PROVE  BillsCovered'
  <1> USE DEF Leaves, Tables, System
  <1>0. Job \in Actors /\ op \in [Actors -> Op] /\ op[Job] \in Op
    BY OpType DEF Actors, Inv, TypeOK
  <1>1. ASSUME tunnel' = tunnel, consumed' = consumed, RowsFrom,
               NEW pc, NEW read, NEW dirty,
               \A c \in Clients : read[c] # None => From(c, read[c]),
               Go(Job, [op[Job] EXCEPT !.pc = pc, !.read = read, !.dirty = dirty])
        PROVE  BillsCovered'
    <2>1. op'[Job].read = read /\ op'[Job].stats = op[Job].stats
          /\ \A a \in Actors : op'[a].row = op[a].row /\ op'[a].client = op[a].client
      BY <1>0, <1>1 DEF Go, Op
    <2>2. ReadFrom /\ StatsFrom
      BY <1>1, <2>1 DEF ReadFrom, StatsFrom
    <2>3. OpsFrom
      BY <2>1, KnownFrom DEF OpsFrom, RowsOf
    <2> QED BY <1>1, <2>2, <2>3, UnchangedCountsFrom, Kept
  <1>2. CASE JobStats
    BY <1>2, StatsCovered
  <1>3. CASE JobRows
    <2>1. [op[Job] EXCEPT !.pc = "bill", !.read = rows]
            = [op[Job] EXCEPT !.pc = "bill", !.read = rows, !.dirty = op[Job].dirty]
      BY <1>0 DEF Op
    <2>2. RowsFrom /\ \A c \in Clients : rows[c] # None => From(c, rows[c])
      BY <1>3, UnchangedRowsFrom, RowFrom DEF JobRows
    <2>3. /\ tunnel' = tunnel /\ consumed' = consumed
          /\ Go(Job, [op[Job] EXCEPT !.pc = "bill", !.read = rows, !.dirty = op[Job].dirty])
      BY <1>3, <2>1 DEF JobRows
    <2> QED BY <1>1, <2>2, <2>3
  <1>4. CASE JobBill
    BY <1>4, BillsStayCovered
  <1>5. CASE JobRenew
    <2> DEFINE renewed == RenewedRows(op[Job].read)
               waiting == Waiting(renewed)
               pc      == IF Present(waiting) = {} THEN "disable" ELSE "delayed"
               dirty   == \E c \in Present(op[Job].read) : ~op[Job].read[c].enable
    <2>1. /\ rows' = renewed /\ tunnel' = tunnel /\ consumed' = consumed
          /\ Go(Job, [op[Job] EXCEPT !.pc = pc, !.read = waiting, !.dirty = dirty])
      BY <1>5 DEF JobRenew
    <2>2. \A c \in Clients : renewed[c] # None => From(c, renewed[c])
      <3> SUFFICES ASSUME NEW c \in Clients, renewed[c] # None
                   PROVE  From(c, renewed[c])
        OBVIOUS
      <3>1. rows[c] # None /\ rows[c] \in Row
        BY DEF RenewedRows, Inv, TypeOK
      <3>2. /\ renewed[c].allTime = rows[c].allTime /\ renewed[c].last = rows[c].last
            /\ renewed[c].used \in {rows[c].used, 0}
        BY <3>1 DEF RenewedRows, Row
      <3>3. rows[c] \in RowsOf(c)
        BY <3>1 DEF RowsOf
      <3> QED BY <3>2, <3>3 DEF From
    <2> HIDE DEF renewed
    <2>3. RowsFrom /\ \A c \in Clients : waiting[c] # None => From(c, waiting[c])
      BY <2>1, <2>2 DEF RowsFrom, Waiting
    <2> HIDE DEF waiting, pc, dirty
    <2> QED BY <1>1, <2>1, <2>3
  <1>6. CASE JobDelayed
    <2> DEFINE to == [op[Job] EXCEPT !.pc = "disable", !.read = NoCounts]
    <2>1. Go(Job, to) /\ tunnel' = tunnel /\ consumed' = consumed
      BY <1>6 DEF JobDelayed
    <2>2. Carries(op[Job], to)
      BY <1>0 DEF Carries, Op
    <2>3. RowsFrom
      <3> SUFFICES ASSUME NEW c \in Clients, rows'[c] # None
                   PROVE  From(c, rows'[c])
        BY DEF RowsFrom
      <3>1. rows[c] # None /\ rows[c] \in Row
        BY <1>6 DEF JobDelayed, StartedRows, Inv, TypeOK
      <3>2. /\ rows'[c].allTime = rows[c].allTime /\ rows'[c].last = rows[c].last
            /\ rows'[c].used = rows[c].used
        BY <1>6, <3>1 DEF JobDelayed, StartedRows, Row
      <3>3. rows[c] \in RowsOf(c)
        BY <3>1 DEF RowsOf
      <3> QED BY <3>2, <3>3 DEF From
    <2> QED BY <1>0, <2>1, <2>2, <2>3, CarriedFrom, UnchangedCountsFrom, Kept
  <1>7. CASE JobDisable
    <2> DEFINE to == IF op[Job].dirty \/ Invalid # {}
                     THEN [op[Job] EXCEPT !.pc = "list", !.dirty = FALSE] ELSE Idle
    <2>1. Go(Job, to) /\ tunnel' = tunnel /\ consumed' = consumed
      BY <1>7 DEF JobDisable
    <2>2. Carries(op[Job], to)
      BY <1>0, CarriesIdle DEF Carries, Op
    <2>3. RowsFrom
      <3> SUFFICES ASSUME NEW c \in Clients, rows'[c] # None
                   PROVE  From(c, rows'[c])
        BY DEF RowsFrom
      <3>1. rows[c] # None /\ rows[c] \in Row
        BY <1>7 DEF JobDisable, Invalid, Enabled, Present, Inv, TypeOK
      <3>2. /\ rows'[c].allTime = rows[c].allTime /\ rows'[c].last = rows[c].last
            /\ rows'[c].used = rows[c].used
        BY <1>7, <3>1 DEF JobDisable, Row
      <3>3. rows[c] \in RowsOf(c)
        BY <3>1 DEF RowsOf
      <3> QED BY <3>2, <3>3 DEF From
    <2> QED BY <1>0, <2>1, <2>2, <2>3, CarriedFrom, UnchangedCountsFrom, Kept
  <1> QED BY <1>2, <1>3, <1>4, <1>5, <1>6, <1>7 DEF Traffic

\* A new row bills nothing, and a toggled one what the row that was read does.
LEMMA BeginCovered ==
    ASSUME Inv, BillsCovered, "UpdateClient" \notin Workload, NEW a \in Admins, Begin(a)
    PROVE  BillsCovered'
  <1>0. a \in Actors /\ op \in [Actors -> Op] /\ rows \in [Clients -> Row \cup {None}]
    BY DEF Actors, Inv, TypeOK
  <1>1. ASSUME NEW kind, NEW to, Request(a, kind, to), Carries(op[a], to), RowsFrom
        PROVE  BillsCovered'
    BY <1>0, <1>1, CarriedFrom, UnchangedCountsFrom, Kept DEF Request, Interface, Leaves
  <1>2. ASSUME NEW kind, NEW to, NEW c \in Clients, Request(a, kind, to), rows' = rows,
               to.client = c, to.read = NoCounts, to.stats = NoCounts,
               From(c, to.row)
        PROVE  BillsCovered'
    <2>1. Go(a, to) /\ tunnel' = tunnel /\ consumed' = consumed
      BY <1>2 DEF Request, Interface, Leaves
    <2>2. \A b \in Actors : op'[b] = IF b = a THEN to ELSE op[b]
      BY <1>0, <2>1 DEF Go
    <2>3. Job \in Actors /\ (op'[Job] = op[Job] \/ op'[Job] = to)
      BY <2>2 DEF Actors
    <2>4. ReadFrom
      BY <1>2, <2>3, KnownFrom DEF ReadFrom, RowsOf, NoCounts
    <2>5. StatsFrom
      BY <1>2, <2>3 DEF StatsFrom, NoCounts
    <2>6. OpsFrom
      <3> SUFFICES ASSUME NEW b \in Actors, NEW x \in Clients,
                          op'[b].client = x, op'[b].row # None
                   PROVE  From(x, op'[b].row)
        BY DEF OpsFrom
      <3>1. CASE b = a
        BY <1>2, <2>2, <3>1
      <3>2. CASE b # a
        BY <2>2, <3>2, KnownFrom DEF RowsOf
      <3> QED BY <3>1, <3>2
    <2> QED BY <1>2, <2>1, <2>4, <2>5, <2>6, UnchangedRowsFrom, UnchangedCountsFrom, Kept
  <1>3. ASSUME NEW c \in Clients, NEW f \in Forms, BeginAddClient(a, c, f)
        PROVE  BillsCovered'
    <2> DEFINE to == [At("AddClient", "save") EXCEPT
                        !.client = c, !.row = NewRow(f), !.server = server]
    <2>1. Request(a, "AddClient", to) /\ rows' = rows
      BY <1>3 DEF BeginAddClient, Tables
    <2>2. to.client = c /\ to.read = NoCounts /\ to.stats = NoCounts /\ to.row = NewRow(f)
      BY DEF At, Idle
    <2>3. From(c, NewRow(f))
      <3>1. Zero \in Row
        BY DEF Zero, Row
      <3>2. Zero \in RowsOf(c)
        BY <3>1, NoneIsNothing DEF RowsOf
      <3> QED BY <3>2 DEF From, NewRow, Zero
    <2> HIDE DEF to
    <2> QED BY <1>2, <2>1, <2>2, <2>3
  <1>4. ASSUME NEW c \in Clients, NEW f \in Forms, BeginUpdateClient(a, c, f)
        PROVE  BillsCovered'
    <2> DEFINE row == RowToSave("ToggleClient", rows[c], f)
               to  == [At("ToggleClient", "save") EXCEPT !.client = c, !.row = row]
    <2>1. Request(a, "ToggleClient", to) /\ rows' = rows /\ rows[c] # None
      BY <1>4 DEF BeginUpdateClient, Tables, Request
    <2>2. to.client = c /\ to.read = NoCounts /\ to.stats = NoCounts /\ to.row = row
      BY DEF At, Idle
    <2>3. From(c, row)
      <3>1. rows[c] \in RowsOf(c) /\ rows[c] \in Row
        BY <1>0, <2>1 DEF RowsOf
      <3>2. row.allTime = rows[c].allTime /\ row.last = rows[c].last
            /\ row.used = rows[c].used
        BY <3>1 DEF RowToSave, Row
      <3> QED BY <3>1, <3>2 DEF From
    <2> HIDE DEF to, row
    <2> QED BY <1>2, <2>1, <2>2, <2>3
  <1>5. ASSUME NEW c \in Clients, BeginDeleteClient(a, c)
        PROVE  BillsCovered'
    <2> DEFINE to == [At("DeleteClient", "delete") EXCEPT !.found = {c}]
    <2>1. Request(a, "DeleteClient", to) /\ rows' = rows
      BY <1>5 DEF BeginDeleteClient, Tables
    <2>2. Carries(op[a], to)
      BY DEF Carries, At, Idle
    <2> QED BY <1>1, <2>1, <2>2, UnchangedRowsFrom
  <1>6. ASSUME NEW c \in Clients, ResetClientTraffic(a, c)
        PROVE  BillsCovered'
    <2>1. ASSUME NEW x \in Clients, rows'[x] # None
          PROVE  From(x, rows'[x])
      <3>1. rows[x] # None /\ rows[x] \in Row
        BY <1>0, <1>6, <2>1 DEF ResetClientTraffic
      <3>2. /\ rows'[x].allTime = rows[x].allTime /\ rows'[x].last = rows[x].last
            /\ rows'[x].used \in {rows[x].used, 0}
        BY <1>0, <1>6, <3>1 DEF ResetClientTraffic, Row
      <3> QED BY <3>1, <3>2 DEF From, RowsOf
    <2> QED BY <1>1, <1>6, <2>1, CarriesIdle DEF ResetClientTraffic, RowsFrom
  <1>7. CASE BeginDelDepleted(a)
    <2> DEFINE found == {c \in Present(rows) : rows[c].reset = 0 /\ Depleted(rows[c])}
               to    == [At("DelDepleted", "delete") EXCEPT !.found = found]
    <2>1. Request(a, "DelDepleted", to) /\ rows' = rows
      BY <1>7 DEF BeginDelDepleted, Tables
    <2>2. Carries(op[a], to)
      BY DEF Carries, At, Idle
    <2> QED BY <1>1, <2>1, <2>2, UnchangedRowsFrom
  <1>8. CASE ResetAllClientTraffics(a)
    <2>1. ASSUME NEW x \in Clients, rows'[x] # None
          PROVE  From(x, rows'[x])
      <3>1. rows[x] # None /\ rows[x] \in Row
        BY <1>0, <1>8, <2>1 DEF ResetAllClientTraffics
      <3>2. /\ rows'[x].allTime = rows[x].allTime /\ rows'[x].last = rows[x].last
            /\ rows'[x].used = rows[x].used
        BY <1>0, <1>8, <3>1 DEF ResetAllClientTraffics, Row
      <3> QED BY <3>1, <3>2 DEF From, RowsOf
    <2> QED BY <1>1, <1>8, <2>1, CarriesIdle DEF ResetAllClientTraffics, RowsFrom
  <1>9. CASE BeginClear(a)
    <2>1. PICK kind \in {"DeleteAll", "ResetToDefaults"} :
            /\ Request(a, kind, [At(kind, IF server.enable THEN "down" ELSE "clear") EXCEPT
                                   !.server = server])
            /\ UNCHANGED Tables
      BY <1>9 DEF BeginClear
    <2>2. Carries(op[a], [At(kind, IF server.enable THEN "down" ELSE "clear") EXCEPT
                            !.server = server])
      BY DEF Carries, At, Idle
    <2> QED BY <1>1, <2>1, <2>2, UnchangedRowsFrom DEF Tables
  <1>10. ASSUME NEW b \in BOOLEAN, ToggleServer(a, b)
         PROVE  BillsCovered'
    <2> DEFINE to == [At("ToggleServer", IF b THEN "list" ELSE "down") EXCEPT
                        !.server = [server EXCEPT !.enable = b]]
    <2>1. Request(a, "ToggleServer", to) /\ rows' = rows
      BY <1>10 DEF ToggleServer
    <2>2. Carries(op[a], to)
      BY DEF Carries, At, Idle
    <2> QED BY <1>1, <2>1, <2>2, UnchangedRowsFrom
  <1>11. ASSUME NEW params \in Params, BeginSaveServer(a, params)
         PROVE  BillsCovered'
    <2> DEFINE to == [At("SaveServer", "save server") EXCEPT
                        !.server = [server EXCEPT !.params = params]]
    <2>1. Request(a, "SaveServer", to) /\ rows' = rows
      BY <1>11 DEF BeginSaveServer, Tables
    <2>2. Carries(op[a], to)
      BY DEF Carries, At, Idle
    <2> QED BY <1>1, <2>1, <2>2, UnchangedRowsFrom
  <1> QED BY <1>3, <1>4, <1>5, <1>6, <1>7, <1>8, <1>9, <1>10, <1>11 DEF Begin

LEMMA HandleCovered ==
    ASSUME Inv, BillsCovered, NEW a \in Admins, Handle(a)
    PROVE  BillsCovered'
  <1> USE DEF Leaves, Tables, System, Interface, Device, Replace
  <1>0. a \in Actors /\ op[a] \in Op /\ Ready(op[a])
        /\ rows \in [Clients -> Row \cup {None}]
    BY OpType DEF Actors, Inv, TypeOK
  <1>1. ASSUME NEW to, Go(a, to), Carries(op[a], to), RowsFrom, consumed' = consumed,
               tunnel' = tunnel \/ tunnel' = None
        PROVE  BillsCovered'
    BY <1>0, <1>1, CarriedFrom, UnchangedCountsFrom, Kept
  <1>2. Carries(op[a], Idle)
    BY CarriesIdle
  <1>3. CASE SaveClient(a)
    <2> DEFINE c  == op[a].client
               to == [op[a] EXCEPT
                        !.pc = IF op[a].kind = "AddClient" THEN "enable" ELSE "server",
                        !.row = None, !.client = None]
    <2>1. Go(a, to) /\ tunnel' = tunnel /\ consumed' = consumed
      BY <1>3 DEF SaveClient
    <2>2. Carries(op[a], to)
      BY <1>0 DEF Carries, Op
    <2>3. c \in Clients /\ op[a].row \in Row
      BY <1>0, <1>3 DEF SaveClient, Ready, Op
    <2>4. From(c, op[a].row) /\ From(c, Inserted(op[a].row))
      <3>1. op[a].row \in RowsOf(c)
        BY <1>0, <2>3, NoneIsNothing DEF RowsOf
      <3> QED BY <2>3, <3>1 DEF From, Inserted, Row
    <2>5. ASSUME NEW x \in Clients, rows'[x] # None
          PROVE  From(x, rows'[x])
      <3>1. CASE x = c
        <4>1. rows'[c] \in {op[a].row, Inserted(op[a].row)}
          BY <1>0, <1>3, <2>3 DEF SaveClient
        <4> QED BY <2>4, <3>1, <4>1
      <3>2. CASE x # c
        BY <1>0, <1>3, <2>5, <3>2, RowFrom DEF SaveClient
      <3> QED BY <3>1, <3>2
    <2>6. RowsFrom
      BY <2>5 DEF RowsFrom
    <2> HIDE DEF to
    <2> QED BY <1>1, <2>1, <2>2, <2>6
  <1>4. CASE AutoEnable(a)
    <2>1. Carries(op[a], [op[a] EXCEPT !.pc = "list"])
      BY <1>0 DEF Carries, Op
    <2> QED BY <1>1, <1>4, <2>1, UnchangedRowsFrom DEF AutoEnable
  <1>5. CASE ReadServer(a)
    <2> DEFINE to == [op[a] EXCEPT !.pc = "list", !.server = server]
    <2>1. Carries(op[a], to)
      BY <1>0 DEF Carries, Op
    <2>2. Go(a, to) \/ Go(a, Idle)
      BY <1>5 DEF ReadServer
    <2> QED BY <1>1, <1>2, <1>5, <2>1, <2>2, UnchangedRowsFrom DEF ReadServer
  <1>6. CASE DeleteFound(a)
    <2>1. ASSUME NEW c \in op[a].found,
                 rows' = [rows EXCEPT ![c] = None],
                 Go(a, [op[a] EXCEPT
                          !.found = @ \ {c}, !.server = server,
                          !.pc = IF rows[c] # None /\ server.enable THEN "list" ELSE "delete"])
          PROVE  BillsCovered'
      <3> DEFINE to == [op[a] EXCEPT
                          !.found = @ \ {c}, !.server = server,
                          !.pc = IF rows[c] # None /\ server.enable THEN "list" ELSE "delete"]
      <3>1. Carries(op[a], to)
        BY <1>0 DEF Carries, Op
      <3>2. RowsFrom
        BY <1>0, <2>1, RowFrom DEF RowsFrom
      <3> QED BY <1>1, <1>6, <2>1, <3>1, <3>2 DEF DeleteFound
    <2> QED BY <1>1, <1>2, <1>6, <2>1, UnchangedRowsFrom DEF DeleteFound, Finish
  <1>7. CASE SaveServer(a)
    <2> DEFINE to == [op[a] EXCEPT !.pc = IF Dirty(op[a].server) /\ tunnel # None
                                          THEN "down" ELSE "list"]
    <2>1. Carries(op[a], to)
      BY <1>0 DEF Carries, Op
    <2>2. Go(a, to) \/ Go(a, Idle)
      BY <1>7 DEF SaveServer
    <2> QED BY <1>1, <1>2, <1>7, <2>1, <2>2, UnchangedRowsFrom DEF SaveServer
  <1>8. CASE InterfaceDown(a)
    <2> DEFINE list  == [op[a] EXCEPT !.pc = "list"]
               clear == [op[a] EXCEPT !.pc = "clear"]
    <2>1. Carries(op[a], list) /\ Carries(op[a], clear)
      BY <1>0 DEF Carries, Op
    <2>2. Go(a, Idle) \/ Go(a, list) \/ Go(a, clear)
      BY <1>8 DEF InterfaceDown
    <2> QED BY <1>1, <1>2, <1>8, <2>1, <2>2, UnchangedRowsFrom DEF InterfaceDown
  <1>9. CASE DeleteRows(a)
    <2>1. Carries(op[a], [op[a] EXCEPT !.pc = "disable server"])
      BY <1>0 DEF Carries, Op
    <2>2. RowsFrom
      BY <1>9 DEF DeleteRows, RowsFrom, NoCounts
    <2> QED BY <1>1, <1>9, <2>1, <2>2 DEF DeleteRows
  <1>10. CASE DisableServer(a)
    <2>1. tunnel' = tunnel \/ tunnel' = None
      BY <1>10 DEF DisableServer
    <2> QED BY <1>1, <1>2, <1>10, <2>1, UnchangedRowsFrom DEF DisableServer, Finish
  <1> QED BY <1>3, <1>4, <1>5, <1>6, <1>7, <1>8, <1>9, <1>10 DEF Handle

LEMMA StartIfEnabledCovered ==
    ASSUME Inv, BillsCovered, StartIfEnabled
    PROVE  BillsCovered'
  <1> DEFINE to == [op[Boot] EXCEPT !.pc = "list", !.server = server]
  <1>1. Boot \in Actors /\ op[Boot] \in Op
    BY OpType DEF Actors
  <1>2. Carries(op[Boot], to) /\ Carries(op[Boot], Idle)
    BY <1>1, CarriesIdle DEF Carries, Op
  <1>3. (Go(Boot, to) \/ Go(Boot, Idle)) /\ rows' = rows /\ tunnel' = tunnel
        /\ consumed' = consumed
    BY DEF StartIfEnabled, Tables, System, Leaves
  <1> QED BY <1>1, <1>2, <1>3, CarriedFrom, UnchangedRowsFrom, UnchangedCountsFrom, Kept

\* Traffic adds as much to what was used as it may add to a bill.
LEMMA UseCovered ==
    ASSUME Inv, BillsCovered, NEW x \in Clients, Use(x)
    PROVE  BillsCovered'
  <1>1. /\ rows' = rows /\ op' = op /\ tunnel \in Tunnel /\ tunnel # None
        /\ consumed \in [Clients -> Nat] /\ Count(x) \in Nat
        /\ tunnel' = [tunnel EXCEPT !.count[x] = @ + 1]
        /\ consumed' = [consumed EXCEPT ![x] = @ + 1]
    BY CountType DEF Use, Tables, Inv, TypeOK, Count
  <1>2. tunnel' # None
    <2>1. tunnel' \in Tunnel
      BY <1>1 DEF Tunnel, Count
    <2> QED BY <2>1, NoneIsNothing
  <1> SUFFICES ASSUME NEW c \in Clients, NEW r \in RowsOf(c)'
               PROVE  Covered(r, consumed'[c], op'[Job].stats[c], Count(c)')
    BY DEF BillsCovered
  <1>3. r \in RowsOf(c)
    BY <1>1 DEF RowsOf
  <1>4. Covered(r, consumed[c], op[Job].stats[c], Count(c)) /\ r \in Row
    BY <1>3, RowsOfType DEF BillsCovered
  <1>5. CASE c # x
    <2>1. Count(c)' = Count(c) /\ consumed'[c] = consumed[c]
      BY <1>1, <1>2, <1>5 DEF Count, Tunnel
    <2> QED BY <1>1, <1>4, <2>1
  <1>6. CASE c = x
    <2> DEFINE n == Count(c)
               k == consumed[c]
               s == op[Job].stats[c]
    <2>1. Count(c)' = n + 1 /\ consumed'[c] = k + 1
      BY <1>1, <1>2, <1>6 DEF Count, Tunnel
    <2>2. n \in Nat /\ k \in Nat /\ s \in Nat \cup {None}
      BY <1>1, <1>6, CountType
    <2> HIDE DEF n, k, s
    <2>3. \A l \in Nat : /\ Owed(n, l) \in Nat /\ Owed(n + 1, l) \in Nat
                         /\ Owed(n + 1, l) <= Owed(n, l) + 1
      BY <2>2, NoneIsNothing DEF Owed, Delta
    <2>4. r.used \in Nat /\ r.allTime \in Nat /\ r.last \in Nat
      BY <1>4 DEF Row
    <2>5. r.used <= r.allTime /\ r.allTime + Owed(n, r.last) <= k
      BY <1>4 DEF Covered, n, k
    <2>6. r.allTime + Owed(n + 1, r.last) <= k + 1
      BY <2>2, <2>3, <2>4, <2>5
    <2>7. ASSUME s # None
          PROVE  r.allTime + Delta(s, r.last) + Owed(n + 1, s) <= k + 1
      <3>1. s \in Nat /\ Delta(s, r.last) \in Nat
        BY <2>2, <2>4, <2>7, DeltaType
      <3>2. r.allTime + Delta(s, r.last) + Owed(n, s) <= k
        BY <1>4, <2>7 DEF Covered, n, k, s
      <3> QED BY <2>2, <2>3, <2>4, <3>1, <3>2
    <2>8. op'[Job].stats[c] = s
      BY <1>1 DEF s
    <2> QED BY <2>1, <2>5, <2>6, <2>7, <2>8 DEF Covered
  <1> QED BY <1>5, <1>6

LEMMA EnvironmentCovered ==
    ASSUME Inv, BillsCovered, (\E c \in Clients : Use(c)) \/ Tick \/ PanelDies
    PROVE  BillsCovered'
  <1>1. CASE Tick
    BY <1>1 DEF Tick, Tables, System, BillsCovered, RowsOf, Count
  <1>2. CASE PanelDies
    <2>1. \A a \in Actors : op'[a].row = None /\ op'[a].read = NoCounts
                            /\ op'[a].stats = NoCounts
      BY <1>2 DEF PanelDies, Started, Idle
    <2>2. ReadFrom /\ OpsFrom /\ StatsFrom
      BY <2>1 DEF ReadFrom, OpsFrom, StatsFrom, NoCounts, Actors
    <2>3. rows' = rows /\ consumed' = consumed /\ (tunnel' = tunnel \/ tunnel' = None)
      BY <1>2 DEF PanelDies, Tables, Leaves, Device, Replace
    <2> QED BY <2>2, <2>3, UnchangedRowsFrom, UnchangedCountsFrom, Kept
  <1> QED BY <1>1, <1>2, UseCovered

LEMMA InitCovered ==
    ASSUME Init
    PROVE  BillsCovered
  <1> SUFFICES ASSUME NEW c \in Clients, NEW r \in RowsOf(c)
               PROVE  Covered(r, consumed[c], op[Job].stats[c], Count(c))
    BY DEF BillsCovered
  <1>1. \A a \in Actors : op[a].row = None /\ op[a].read = NoCounts /\ op[a].stats = NoCounts
    BY DEF Init, Started, Idle
  <1>2. r = Zero \/ (r = rows[c] /\ r # None)
    BY <1>1 DEF RowsOf, NoCounts, Actors
  <1>3. Count(c) = None /\ op[Job].stats[c] = None
    <2>1. tunnel = None
      BY DEF Init
    <2> QED BY <1>1, <2>1 DEF Count, NoCounts, Actors
  <1>4. r.used \in Nat /\ r.allTime \in Nat /\ consumed[c] \in Nat
        /\ r.used <= r.allTime /\ r.allTime <= consumed[c]
    <2>1. rows[c] # None => rows[c] \in Row /\ rows[c].used <= rows[c].allTime
      BY ConstantsAssumption DEF Init, ConstantsAssumption
    <2>2. consumed[c] = IF rows[c] = None THEN 0 ELSE rows[c].allTime
      BY DEF Init
    <2> QED BY <1>2, <2>1, <2>2 DEF Zero, Row
  <1> QED BY <1>3, <1>4 DEF Covered, Owed

LEMMA NextCovered ==
    ASSUME Inv, BillsCovered, "UpdateClient" \notin Workload, [Next]_vars
    PROVE  BillsCovered'
  <1>1. CASE UNCHANGED vars
    <2>1. rows' = rows /\ op' = op /\ tunnel' = tunnel /\ consumed' = consumed
      BY <1>1 DEF vars
    <2> QED BY <2>1 DEF BillsCovered, RowsOf, Count
  <1>2. CASE Next
    <2>1. ASSUME NEW a \in Actors, Apply(a)
          PROVE  BillsCovered'
      BY <2>1, ApplyCovered
    <2>2. ASSUME NEW a \in Admins, Begin(a) \/ Handle(a)
          PROVE  BillsCovered'
      BY <2>2, BeginCovered, HandleCovered
    <2> QED BY <1>2, <2>1, <2>2, TrafficCovered, StartIfEnabledCovered, EnvironmentCovered
            DEF Next
  <1> QED BY <1>1, <1>2

\* The bill of a client never exceeds what it used (awg_service.go:735): across
\* bounces of the interface, restarts of the panel and rows that were read long ago,
\* with any number of clients and handlers, unless the form of a client is saved.
THEOREM BilledAtMostOnce ==
    ASSUME "UpdateClient" \notin Workload
    PROVE  Spec => []BilledOnce
  <1> DEFINE IInv == Inv /\ BillsCovered
  <1>1. Init => IInv
    BY InitType, InitCovered
  <1>2. IInv /\ [Next]_vars => IInv'
    BY NextType, NextCovered
  <1>3. IInv => BilledOnce
    <2> SUFFICES ASSUME Inv, BillsCovered, NEW c \in Present(rows)
                 PROVE  rows[c].used <= rows[c].allTime /\ rows[c].allTime <= consumed[c]
      BY DEF BilledOnce
    <2>1. c \in Clients /\ rows[c] \in RowsOf(c)
      BY DEF Present, RowsOf, Inv, TypeOK
    <2>2. rows[c].used <= rows[c].allTime
          /\ rows[c].allTime + Owed(Count(c), rows[c].last) <= consumed[c]
      BY <2>1 DEF BillsCovered, Covered
    <2>3. rows[c].allTime \in Nat /\ consumed[c] \in Nat
          /\ Owed(Count(c), rows[c].last) \in Nat
      BY <2>1, RowsOfType, CountType, OwedType DEF Row
    <2> QED BY <2>2, <2>3
  <1> QED BY <1>1, <1>2, <1>3, PTL DEF Spec
--------------------------------------------------------------------------------
(* The tunnel in step.                                                     *)

\* The configuration that applying the server now would write.
Wanted == [peers |-> Enabled, params |-> server.params]

\* A kernel interface is what a sync of it cannot change.
Fitting ==
  tunnel # None /\ mode = "kernel" =>
    /\ tunnel.params.bounced = server.params.bounced
    /\ tunnel.params.link # server.params.link => behind

Agrees ==
  /\ server.enable <=> tunnel # None
  /\ Fitting
  /\ tunnel # None /\ mode = "userspace" => tunnel.params = server.params
  /\ tunnel # None => Present(tunnel.count) \subseteq Enabled

Settled == {"free", "delete", "save", "save server", "rows", "bill", "renew", "delayed",
            "disable"}

\* How the tunnel, the tables and the file stand where an actor is that nobody
\* disturbs, and how what it has read compares with them.
AtWork(o) ==
  /\ o.pc \in Settled => Agrees
  /\ o.pc \in {"boot", "up", "clear", "disable server"} => tunnel = None
  /\ o.pc \in {"list", "write", "sync", "enable", "server"} => Fitting
  /\ o.pc \in {"list", "write", "sync", "up", "rows", "bill", "renew", "delayed", "disable"}
       => server.enable
  /\ o.pc \in {"list", "rows", "bill", "renew", "delayed", "disable", "enable"}
       => o.server.params = server.params
  /\ o.pc = "enable" /\ o.server.enable => server.enable
  /\ o.pc = "server" => (server.enable <=> tunnel # None)
  /\ o.pc = "save" /\ o.kind = "AddClient" => o.server = server
  /\ o.pc = "save server" => o.kind = "SaveServer" /\ o.server.enable = server.enable
  /\ o.pc = "down" /\ o.kind = "ToggleServer" => ~server.enable
  /\ o.pc = "down" /\ o.kind = "SaveServer" => server.enable /\ o.server = server
  /\ o.pc \in {"write", "sync"} => o.config = Wanted
  /\ o.pc = "sync" => tunnel # None
  /\ o.pc = "up" => conf = Wanted

Alone(a) == \A b \in Actors \ {a} : ~Busy(b)

\* While nothing overlapped or failed, at most one actor is at work, and the rest
\* stands as it should for the one that is.
StepByStep ==
  smooth => \A a \in Actors : /\ Busy(a) => Alone(a)
                              /\ Alone(a) => AtWork(op[a])

\* Whoever is at work is alone.
LEMMA Working ==
    ASSUME StepByStep, NEW a \in Actors, Busy(a), smooth
    PROVE  Alone(a) /\ AtWork(op[a])
  BY DEF StepByStep

\* Where everything agrees, an actor that goes on to nothing, or to delete, is right.
LEMMA Settles ==
    ASSUME NEW a \in Actors, op'[a].pc \in {"free", "delete"}, Agrees'
    PROVE  AtWork(op[a])'
  <1>1. op'[a].pc = "free" \/ op'[a].pc = "delete"
    OBVIOUS
  <1>2. CASE op'[a].pc = "free"
    BY <1>2 DEF AtWork, Settled
  <1>3. CASE op'[a].pc = "delete"
    BY <1>3 DEF AtWork, Settled
  <1> QED BY <1>1, <1>2, <1>3

LEMMA Stepped ==
    ASSUME Inv, StepByStep, NEW a \in Actors, NEW to, Go(a, to),
           smooth' => Alone(a), smooth' => AtWork(op[a])'
    PROVE  StepByStep'
  <1> SUFFICES ASSUME smooth', NEW b \in Actors
               PROVE  (Busy(b) => Alone(b))' /\ (Alone(b) => AtWork(op[b]))'
    BY DEF StepByStep
  <1>1. \A x \in Actors \ {a} : op'[x] = op[x] /\ op[x].pc = "free"
    BY DEF Go, Alone, Busy, Inv, TypeOK
  <1>2. CASE b = a
    <2>1. Alone(a)'
      BY <1>1 DEF Alone, Busy
    <2> QED BY <1>2, <2>1
  <1>3. CASE b # a
    <2>1. op'[b].pc = "free"
      BY <1>1, <1>3
    <2>2. ASSUME Alone(b)'
          PROVE  AtWork(op[b])'
      <3>1. op'[a].pc = "free"
        BY <1>3, <2>2 DEF Alone, Busy
      <3>2. Agrees'
        BY <3>1 DEF AtWork, Settled
      <3> QED BY <2>1, <3>2, Settles
    <2> QED BY <2>1, <2>2 DEF Busy
  <1> QED BY <1>2, <1>3

\* A step of an actor at work: if nothing fails, it finds things as they should be.
LEMMA WorkStep ==
    ASSUME Inv, StepByStep, NEW a \in Actors, NEW to, Busy(a), Go(a, to),
           smooth' => smooth, smooth' /\ AtWork(op[a]) => AtWork(op[a])'
    PROVE  StepByStep'
  <1>1. smooth' => Alone(a) /\ AtWork(op[a])
    BY Working
  <1> QED BY <1>1, Stepped

LEMMA FaultStops ==
    ASSUME NoFault \/ Fault
    PROVE  (smooth' => smooth) /\ (smooth' => NoFault)
  BY DEF NoFault, Fault

\* Who is done with applying, or goes on to delete, leaves everything in agreement.
LEMMA Applied ==
    ASSUME Inv, NEW a \in Actors, AfterApply(a)
    PROVE  /\ \E to : Go(a, to)
           /\ Agrees' => AtWork(op[a])'
  <1>1. op[a] \in Op /\ op' = [op EXCEPT ![a] = op'[a]]
        /\ op'[a].pc \in {"free", "delete"}
    BY OpType DEF AfterApply, Go, Inv, TypeOK, Idle, Op
  <1> QED BY <1>1, Settles DEF Go

LEMMA Finished ==
    ASSUME Inv, NEW a \in Actors, Go(a, Idle)
    PROVE  Agrees' => AtWork(op[a])'
  <1>1. op'[a].pc = "free"
    BY DEF Go, Inv, TypeOK, Idle
  <1> QED BY <1>1 DEF AtWork, Settled

\* A tunnel made from, or synced with, the configuration wanted.
LEMMA InterfaceUpAgrees ==
    ASSUME Inv, NEW config \in Config
    PROVE  /\ InterfaceUp(config) \in Tunnel /\ InterfaceUp(config) # None
           /\ InterfaceUp(config).params = config.params
           /\ Present(InterfaceUp(config).count) \subseteq config.peers
  <1>1. InterfaceUp(config) \in Tunnel
    BY InterfaceUpType
  <1>2. Present(InterfaceUp(config).count) \subseteq config.peers
    BY DEF InterfaceUp, Present, Counter
  <1> QED BY <1>1, <1>2, NoneIsNothing DEF InterfaceUp

LEMMA ModeType ==
    ASSUME Inv
    PROVE  mode = "kernel" \/ mode = "userspace"
  BY ConstantsAssumption DEF ConstantsAssumption, Inv, TypeOK

LEMMA SyncAgrees ==
    ASSUME Inv, NEW config \in Config, tunnel # None
    PROVE  /\ SyncConfig(config) # None
           /\ SyncConfig(config).params
                = IF mode = "userspace" THEN config.params ELSE tunnel.params
           /\ Present(SyncConfig(config).count) \subseteq config.peers
  <1>1. CASE mode = "userspace"
    BY <1>1, InterfaceUpAgrees DEF SyncConfig
  <1>2. CASE mode # "userspace"
    <2> DEFINE count == [c \in Clients |->
                 IF c \in config.peers /\ tunnel.count[c] # None THEN tunnel.count[c]
                 ELSE Counter(config, c)]
    <2>1. tunnel \in Tunnel /\ SyncConfig(config) = [tunnel EXCEPT !.count = count]
      BY <1>2 DEF SyncConfig, Inv, TypeOK
    <2>2. Present(count) \subseteq config.peers
      BY DEF Present, Counter
    <2> HIDE DEF count
    <2>3. SyncConfig(config).count = count /\ SyncConfig(config).params = tunnel.params
      BY <2>1 DEF Tunnel
    <2>4. SyncConfig(config) # None
      BY SyncConfigType, NoneIsNothing
    <2> QED BY <1>2, <2>2, <2>3, <2>4
  <1> QED BY <1>1, <1>2

LEMMA WantedType ==
    ASSUME Inv
    PROVE  Wanted \in Config /\ Wanted # None /\ Wanted.peers = Enabled
           /\ Wanted.params = server.params
  BY EnabledType, NoneIsNothing DEF Wanted, Config, Inv, TypeOK, Server

LEMMA SameTables ==
    ASSUME UNCHANGED Tables
    PROVE  Enabled' = Enabled /\ Wanted' = Wanted
  BY DEF Tables, Enabled, Wanted, Present

LEMMA ApplyInStep ==
    ASSUME Inv, StepByStep, NEW a \in Actors, Apply(a)
    PROVE  StepByStep'
  <1> USE DEF Leaves, System, Device, Replace
  <1>0. op[a] \in Op /\ DOMAIN op = Actors
    BY OpType DEF Inv, TypeOK
  <1>1. CASE ListClients(a)
    <2> DEFINE config == [peers |-> Enabled, params |-> op[a].server.params]
               to     == [op[a] EXCEPT !.pc = "write", !.kind = None, !.server = None,
                                       !.config = config]
    <2>1. op[a].pc = "list" /\ Go(a, to) /\ UNCHANGED Tables /\ UNCHANGED System
      BY <1>1 DEF ListClients
    <2>2. op'[a] = to
      BY <1>0, <2>1 DEF Go
    <2>3. op'[a].pc = "write" /\ op'[a].config = config
      BY <1>0, <2>2 DEF Op
    <2>4. Enabled' = Enabled /\ Wanted' = Wanted /\ server' = server
          /\ tunnel' = tunnel /\ mode' = mode /\ behind' = behind
      BY <1>1, <2>1, SameTables DEF ListClients, Tables
    <2>5. ASSUME AtWork(op[a])
          PROVE  AtWork(op[a])'
      <3>1. server.enable /\ Fitting /\ op[a].server.params = server.params
        BY <2>1, <2>5 DEF AtWork
      <3>2. config = Wanted
        BY <3>1 DEF Wanted
      <3>3. Fitting'
        BY <2>4, <3>1 DEF Fitting
      <3> HIDE DEF config
      <3> QED BY <2>3, <2>4, <3>1, <3>2, <3>3 DEF AtWork, Settled
    <2> HIDE DEF to
    <2> QED BY <2>1, <2>5, WorkStep DEF Busy
  <1>2. CASE WriteServerConfig(a)
    <2> DEFINE sync == [op[a] EXCEPT !.pc = "sync"]
               up   == [op[a] EXCEPT !.pc = "up", !.config = None]
               to   == IF tunnel # None THEN sync ELSE up
    <2>1. op[a].pc = "write" /\ Go(a, to) /\ UNCHANGED Tables /\ conf' = op[a].config
          /\ tunnel' = tunnel /\ mode' = mode /\ behind' = behind /\ smooth' = smooth
      BY <1>2 DEF WriteServerConfig, NoFault
    <2>2. op'[a] = to
      BY <1>0, <2>1 DEF Go
    <2>3. Enabled' = Enabled /\ Wanted' = Wanted /\ server' = server
      BY <2>1, SameTables DEF Tables
    <2>4. ASSUME AtWork(op[a])
          PROVE  AtWork(op[a])'
      <3>1. server.enable /\ Fitting /\ op[a].config = Wanted
        BY <2>1, <2>4 DEF AtWork
      <3>2. Fitting'
        BY <2>1, <2>3, <3>1 DEF Fitting
      <3>3. CASE tunnel # None
        <4>1. op'[a].pc = "sync" /\ op'[a].config = op[a].config
          BY <1>0, <2>2, <3>3 DEF Op
        <4> QED BY <2>1, <2>3, <3>1, <3>2, <3>3, <4>1 DEF AtWork, Settled
      <3>4. CASE tunnel = None
        <4>1. op'[a].pc = "up"
          BY <1>0, <2>2, <3>4 DEF Op
        <4> QED BY <2>1, <2>3, <3>1, <3>4, <4>1 DEF AtWork, Settled
      <3> QED BY <3>3, <3>4
    <2> HIDE DEF to
    <2> QED BY <2>1, <2>4, WorkStep DEF Busy
  <1>3. CASE Sync(a)
    <2>1. op[a].pc = "sync" /\ UNCHANGED Tables /\ (NoFault \/ Fault)
      BY <1>3 DEF Sync
    <2>2. \E to : Go(a, to)
      BY <1>3, Applied DEF Sync
    <2>3. Enabled' = Enabled /\ Wanted' = Wanted /\ server' = server
      BY <2>1, SameTables DEF Tables
    <2>4. smooth' => smooth
      BY <2>1, FaultStops
    <2>5. ASSUME smooth', AtWork(op[a])
          PROVE  AtWork(op[a])'
      <3>1. server.enable /\ Fitting /\ op[a].config = Wanted /\ tunnel # None
        BY <2>1, <2>5 DEF AtWork
      <3>2. tunnel' = SyncConfig(op[a].config) /\ AfterApply(a)
        BY <1>3, <2>5, <3>1 DEF Sync, Fault
      <3>3. mode' = mode /\ (mode = "kernel" => behind' = behind)
        BY <1>3, <2>5, <3>1 DEF Sync, Fault
      <3>4. /\ tunnel' # None /\ Present(tunnel'.count) \subseteq Enabled
            /\ tunnel'.params = IF mode = "userspace" THEN server.params ELSE tunnel.params
        BY <3>1, <3>2, SyncAgrees, WantedType
      <3>5. Agrees'
        BY <2>3, <3>1, <3>3, <3>4 DEF Agrees, Fitting, Present
      <3> QED BY <3>2, <3>5, Applied
    <2> QED BY <2>1, <2>2, <2>4, <2>5, WorkStep DEF Busy
  <1>4. CASE BringUp(a)
    <2>1. op[a].pc = "up" /\ UNCHANGED Tables /\ (NoFault \/ Fault) /\ AfterApply(a)
      BY <1>4 DEF BringUp
    <2>2. \E to : Go(a, to)
      BY <2>1, Applied
    <2>3. Enabled' = Enabled /\ Wanted' = Wanted /\ server' = server
      BY <2>1, SameTables DEF Tables
    <2>4. smooth' => smooth
      BY <2>1, FaultStops
    <2>5. ASSUME smooth', AtWork(op[a])
          PROVE  AtWork(op[a])'
      <3>1. server.enable /\ conf = Wanted /\ tunnel = None
        BY <2>1, <2>5 DEF AtWork, Settled
      <3>2. tunnel' = InterfaceUp(Wanted)
        BY <1>4, <2>5, <3>1, WantedType DEF BringUp, Fault
      <3>3. tunnel' # None /\ tunnel'.params = server.params
            /\ Present(tunnel'.count) \subseteq Enabled
        BY <3>2, InterfaceUpAgrees, WantedType
      <3>4. Agrees'
        BY <2>3, <3>1, <3>3 DEF Agrees, Fitting, Present
      <3> QED BY <2>1, <3>4, Applied
    <2> QED BY <2>1, <2>2, <2>4, <2>5, WorkStep DEF Busy
  <1> QED BY <1>1, <1>2, <1>3, <1>4 DEF Apply

\* Nobody is at work when somebody begins, and everything agrees.
LEMMA AtRest ==
    ASSUME StepByStep, NEW a \in Actors, ~Busy(a), Begins(a), smooth'
    PROVE  smooth /\ Alone(a) /\ Agrees
  <1>1. smooth /\ Alone(a)
    BY DEF Begins, Alone
  <1>2. AtWork(op[a]) /\ op[a].pc = "free"
    BY <1>1 DEF StepByStep, Busy
  <1> QED BY <1>1, <1>2 DEF AtWork, Settled

\* More enabled clients than the tunnel knows are not in its way.
LEMMA StillAgrees ==
    ASSUME Inv, Inv', Agrees, server' = server, tunnel' = tunnel, mode' = mode,
           behind' = behind, Keeps(rows')
    PROVE  Agrees'
  <1>1. DOMAIN rows = Clients /\ DOMAIN rows' = Clients
    BY DEF Inv, TypeOK
  <1>2. Enabled \subseteq Enabled'
    BY <1>1 DEF Enabled, Present, Keeps
  <1> QED BY <1>2 DEF Agrees, Fitting, Present

LEMMA NothingMoves ==
    ASSUME StepByStep, UNCHANGED <<server, rows, op, smooth, conf, tunnel, mode, behind>>
    PROVE  StepByStep'
  <1>1. Enabled' = Enabled /\ Wanted' = Wanted
    BY SameTables DEF Tables
  <1>2. (Agrees <=> Agrees') /\ (Fitting <=> Fitting')
    BY <1>1 DEF Agrees, Fitting, Present
  <1>3. \A a \in Actors : (Busy(a) <=> Busy(a)') /\ (Alone(a) <=> Alone(a)')
    BY DEF Busy, Alone
  <1>4. ASSUME NEW a \in Actors, AtWork(op[a])
        PROVE  AtWork(op[a])'
    BY <1>1, <1>2, <1>4 DEF AtWork, Settled
  <1> QED BY <1>3, <1>4 DEF StepByStep

LEMMA TrafficInStep ==
    ASSUME Inv, Inv', StepByStep, Traffic
    PROVE  StepByStep'
  <1> USE DEF Leaves, System, Interface
  <1>0. Job \in Actors /\ op[Job] \in Op /\ DOMAIN op = Actors
        /\ rows \in [Clients -> Row \cup {None}]
    BY OpType DEF Actors, Inv, TypeOK
  <1>1. CASE JobStats
    <2> DEFINE to == [op[Job] EXCEPT !.kind = "Traffic", !.pc = "rows", !.server = server,
                                     !.stats = tunnel.count]
    <2>1. /\ ~Busy(Job) /\ server.enable /\ tunnel # None /\ Begins(Job) /\ Go(Job, to)
          /\ rows' = rows /\ server' = server
          /\ tunnel' = tunnel /\ mode' = mode /\ behind' = behind
      BY <1>1 DEF JobStats, Tables, Interface
    <2>2. op'[Job] = to
      BY <1>0, <2>1 DEF Go
    <2>3. op'[Job].pc = "rows" /\ op'[Job].server = server
      BY <1>0, <2>2 DEF Op
    <2>4. ASSUME smooth'
          PROVE  Alone(Job) /\ AtWork(op[Job])'
      <3>1. Alone(Job) /\ Agrees
        BY <1>0, <2>1, <2>4, AtRest
      <3>2. Agrees'
        BY <2>1, <3>1, StillAgrees DEF Keeps
      <3> QED BY <2>1, <2>3, <3>1, <3>2 DEF AtWork, Settled
    <2> HIDE DEF to
    <2> QED BY <1>0, <2>1, <2>4, Stepped
  <1>2. ASSUME NEW from \in {"rows", "bill", "renew", "delayed"},
               NEW on \in {"bill", "renew", "delayed", "disable"}, NEW to \in Op,
               op[Job].pc = from, Go(Job, to), to.pc = on, to.server = op[Job].server,
               server' = server, tunnel' = tunnel, mode' = mode, behind' = behind,
               smooth' = smooth,
               Keeps(rows')
        PROVE  StepByStep'
    <2>1. op'[Job] = to
      BY <1>0, <1>2 DEF Go
    <2>2. ASSUME AtWork(op[Job])
          PROVE  AtWork(op[Job])'
      <3>1. Agrees /\ server.enable /\ op[Job].server.params = server.params
        BY <1>2, <2>2 DEF AtWork, Settled
      <3>2. Agrees'
        BY <1>2, <3>1, StillAgrees
      <3>3. server'.enable /\ op'[Job].server.params = server'.params /\ op'[Job].pc = on
        BY <1>2, <2>1, <3>1
      <3> QED BY <3>2, <3>3 DEF AtWork, Settled
    <2>3. Busy(Job)
      BY <1>2 DEF Busy
    <2> QED BY <1>0, <1>2, <2>2, <2>3, WorkStep
  <1>3. CASE JobRows
    <2> DEFINE to == [op[Job] EXCEPT !.pc = "bill", !.read = rows]
    <2>1. /\ op[Job].pc = "rows" /\ Go(Job, to) /\ rows' = rows /\ server' = server
          /\ tunnel' = tunnel /\ mode' = mode /\ behind' = behind /\ smooth' = smooth
      BY <1>3 DEF JobRows, Tables
    <2>2. to \in Op /\ to.pc = "bill" /\ to.server = op[Job].server
      BY <1>0 DEF Op, Pcs
    <2> HIDE DEF to
    <2> QED BY <1>2, <2>1, <2>2 DEF Keeps
  <1>4. CASE JobBill
    <2> DEFINE read == Renewals(BilledRows(op[Job]))
               to   == [op[Job] EXCEPT !.pc = "renew", !.stats = NoCounts, !.read = read]
    <2>1. /\ op[Job].pc = "bill" /\ Go(Job, to) /\ rows' = BilledRows(op[Job])
          /\ server' = server /\ smooth' = smooth
          /\ tunnel' = tunnel /\ mode' = mode /\ behind' = behind
      BY <1>4 DEF JobBill
    <2>2. read \in [Clients -> Row \cup {None}] /\ NoCounts \in [Clients -> {None}]
      BY BilledRowsType DEF Renewals, NoCounts
    <2> HIDE DEF read
    <2>3. to \in Op /\ to.pc = "renew" /\ to.server = op[Job].server
      BY <1>0, <2>2 DEF Op, Pcs
    <2> HIDE DEF to
    <2> QED BY <1>2, <2>1, <2>3, BilledRowsType
  <1>5. CASE JobRenew
    <2> DEFINE renewed == RenewedRows(op[Job].read)
               waiting == Waiting(renewed)
               dirty   == \E c \in Present(op[Job].read) : ~op[Job].read[c].enable
               pc      == IF Present(waiting) = {} THEN "disable" ELSE "delayed"
               to      == [op[Job] EXCEPT !.pc = pc, !.read = waiting, !.dirty = dirty]
    <2>1. /\ op[Job].pc = "renew" /\ Go(Job, to) /\ rows' = renewed
          /\ server' = server /\ smooth' = smooth
          /\ tunnel' = tunnel /\ mode' = mode /\ behind' = behind
      BY <1>5 DEF JobRenew
    <2>2. /\ renewed \in [Clients -> Row \cup {None}]
          /\ Keeps(renewed)
      BY <2>1, RenewedRowsType
    <2> HIDE DEF renewed
    <2>3. waiting \in [Clients -> Row \cup {None}]
      BY <2>2 DEF Waiting
    <2>4. dirty \in BOOLEAN
      OBVIOUS
    <2>5. pc \in {"disable", "delayed"} /\ pc \in Pcs
      BY DEF Pcs
    <2> HIDE DEF waiting, dirty, pc
    <2>6. to \in Op /\ to.pc = pc /\ to.server = op[Job].server
      BY <1>0, <2>3, <2>4, <2>5 DEF Op
    <2> HIDE DEF to
    <2> QED BY <1>2, <2>1, <2>2, <2>5, <2>6
  <1>6. CASE JobDelayed
    <2> DEFINE to == [op[Job] EXCEPT !.pc = "disable", !.read = NoCounts]
    <2>1. /\ op[Job].pc = "delayed" /\ Go(Job, to) /\ rows' = StartedRows(op[Job].read)
          /\ server' = server /\ smooth' = smooth
          /\ tunnel' = tunnel /\ mode' = mode /\ behind' = behind
      BY <1>6 DEF JobDelayed
    <2>2. "disable" \in Pcs /\ NoCounts \in [Clients -> Row \cup {None}]
      BY DEF Pcs, NoCounts
    <2>3. to \in Op /\ to.pc = "disable" /\ to.server = op[Job].server
      BY <1>0, <2>2 DEF Op
    <2> HIDE DEF to
    <2> QED BY <1>2, <2>1, <2>3, StartedRowsType
  <1>7. CASE JobDisable
    <2> DEFINE on == [op[Job] EXCEPT !.pc = "list", !.dirty = FALSE]
               to == IF op[Job].dirty \/ Invalid # {} THEN on ELSE Idle
    <2>1. /\ op[Job].pc = "disable" /\ Go(Job, to)
          /\ rows' = [c \in Clients |->
                        IF c \in Invalid THEN [rows[c] EXCEPT !.enable = FALSE] ELSE rows[c]]
          /\ server' = server /\ smooth' = smooth
          /\ tunnel' = tunnel /\ mode' = mode /\ behind' = behind
      BY <1>7 DEF JobDisable
    <2>2. ASSUME AtWork(op[Job])
          PROVE  AtWork(op[Job])'
      <3>1. Agrees /\ server.enable /\ op[Job].server.params = server.params
        BY <2>1, <2>2 DEF AtWork, Settled
      <3>2. CASE op[Job].dirty \/ Invalid # {}
        <4>1. op'[Job] = on
          BY <1>0, <2>1, <3>2 DEF Go
        <4>2. op'[Job].pc = "list" /\ op'[Job].server = op[Job].server
          BY <1>0, <4>1 DEF Op
        <4>3. Fitting'
          BY <2>1, <3>1 DEF Agrees, Fitting
        <4> QED BY <2>1, <3>1, <4>2, <4>3 DEF AtWork, Settled
      <3>3. CASE ~op[Job].dirty /\ Invalid = {}
        <4>1. Go(Job, Idle)
          BY <2>1, <3>3
        <4>2. Agrees'
          BY <2>1, <3>1, <3>3, StillAgrees DEF Keeps
        <4> QED BY <1>0, <4>1, <4>2, Finished
      <3> QED BY <3>2, <3>3
    <2>3. Busy(Job)
      BY <2>1 DEF Busy
    <2> HIDE DEF to
    <2> QED BY <1>0, <2>1, <2>2, <2>3, WorkStep
  <1> QED BY <1>1, <1>3, <1>4, <1>5, <1>6, <1>7 DEF Traffic

LEMMA StartIfEnabledInStep ==
    ASSUME Inv, StepByStep, StartIfEnabled
    PROVE  StepByStep'
  <1> DEFINE list == [op[Boot] EXCEPT !.pc = "list", !.server = server]
             to   == IF server.enable /\ tunnel = None THEN list ELSE Idle
  <1>1. Boot \in Actors /\ op[Boot] \in Op /\ DOMAIN op = Actors
    BY OpType DEF Actors, Inv, TypeOK
  <1>2. /\ op[Boot].pc = "boot" /\ Go(Boot, to) /\ server' = server
        /\ tunnel' = tunnel /\ mode' = mode /\ behind' = behind
        /\ smooth' = smooth
    BY DEF StartIfEnabled, Tables, System, Leaves
  <1>3. ASSUME AtWork(op[Boot])
        PROVE  AtWork(op[Boot])'
    <2>1. tunnel = None
      BY <1>2, <1>3 DEF AtWork
    <2>2. CASE server.enable
      <3>1. op'[Boot] = list
        BY <1>1, <1>2, <2>1, <2>2 DEF Go
      <3>2. op'[Boot].pc = "list" /\ op'[Boot].server = server
        BY <1>1, <3>1 DEF Op
      <3>3. Fitting'
        BY <1>2, <2>1 DEF Fitting
      <3> QED BY <1>2, <2>2, <3>2, <3>3 DEF AtWork, Settled
    <2>3. CASE ~server.enable
      <3>1. Go(Boot, Idle) /\ Agrees'
        BY <1>2, <2>1, <2>3 DEF Agrees, Fitting
      <3> QED BY <1>1, <3>1, Finished
    <2> QED BY <2>2, <2>3
  <1>4. Busy(Boot)
    BY <1>2 DEF Busy
  <1> HIDE DEF to
  <1> QED BY <1>1, <1>2, <1>3, <1>4, WorkStep

\* A request that begins while nobody is at work.
LEMMA RequestInStep ==
    ASSUME Inv, StepByStep, NEW a \in Actors, NEW kind, NEW to, Request(a, kind, to),
           Agrees => AtWork(op[a])'
    PROVE  StepByStep'
  <1>1. smooth' => Alone(a) /\ Agrees
    BY AtRest DEF Request
  <1> QED BY <1>1, Stepped DEF Request

LEMMA BeginInStep ==
    ASSUME Inv, Inv', StepByStep, NEW a \in Admins, Begin(a)
    PROVE  StepByStep'
  <1> USE DEF Tables
  <1>0. a \in Actors /\ server \in Server /\ rows \in [Clients -> Row \cup {None}]
        /\ DOMAIN op = Actors
    BY DEF Actors, Inv, TypeOK
  <1>1. ASSUME NEW kind, NEW to, Request(a, kind, to)
        PROVE  op'[a] = to /\ tunnel' = tunnel /\ mode' = mode /\ behind' = behind
    BY <1>0, <1>1 DEF Request, Go, Interface, Leaves
  <1>2. ASSUME NEW kind \in {"DeleteClient", "DelDepleted"}, NEW to,
               Request(a, kind, to), to.pc = "delete", UNCHANGED Tables
        PROVE  StepByStep'
    <2>1. op'[a].pc = "delete"
      BY <1>1, <1>2
    <2>2. Agrees => Agrees'
      BY <1>1, <1>2, StillAgrees DEF Keeps
    <2>3. Agrees => AtWork(op[a])'
      BY <1>0, <2>1, <2>2, Settles
    <2> QED BY <1>0, <1>2, <2>3, RequestInStep
  <1>3. ASSUME NEW kind, Request(a, kind, Idle), server' = server,
               Keeps(rows')
        PROVE  StepByStep'
    <2>1. Agrees => Agrees'
      BY <1>1, <1>3, StillAgrees
    <2>2. Agrees => AtWork(op[a])'
      BY <1>0, <1>3, <2>1, Finished DEF Request
    <2> QED BY <1>0, <1>3, <2>2, RequestInStep
  <1>4. ASSUME NEW c \in Clients, NEW f \in Forms, BeginAddClient(a, c, f)
        PROVE  StepByStep'
    <2> DEFINE to == [At("AddClient", "save") EXCEPT
                        !.client = c, !.row = NewRow(f), !.server = server]
    <2>1. Request(a, "AddClient", to) /\ UNCHANGED Tables
      BY <1>4 DEF BeginAddClient
    <2>2. to.pc = "save" /\ to.server = server
      BY DEF At, Idle
    <2>3. op'[a].pc = "save" /\ op'[a].server = server
      BY <1>1, <2>1, <2>2
    <2>4. Agrees => Agrees'
      BY <1>1, <2>1, StillAgrees DEF Keeps
    <2>5. Agrees => AtWork(op[a])'
      BY <2>1, <2>3, <2>4 DEF AtWork, Settled
    <2> HIDE DEF to
    <2> QED BY <1>0, <2>1, <2>5, RequestInStep
  <1>5. ASSUME NEW c \in Clients, NEW f \in Forms, BeginUpdateClient(a, c, f)
        PROVE  StepByStep'
    <2>1. PICK kind \in {"ToggleClient", "UpdateClient"} :
            /\ rows[c] # None
            /\ Request(a, kind, [At(kind, "save") EXCEPT
                                   !.client = c, !.row = RowToSave(kind, rows[c], f)])
            /\ UNCHANGED Tables
      BY <1>5 DEF BeginUpdateClient
    <2> DEFINE to == [At(kind, "save") EXCEPT
                        !.client = c, !.row = RowToSave(kind, rows[c], f)]
    <2>2. to.pc = "save" /\ to.kind = kind
      BY DEF At, Idle
    <2>3. op'[a].pc = "save" /\ op'[a].kind # "AddClient"
      BY <1>1, <2>1, <2>2
    <2>4. Agrees => Agrees'
      BY <1>1, <2>1, StillAgrees DEF Keeps
    <2>5. Agrees => AtWork(op[a])'
      BY <2>3, <2>4 DEF AtWork, Settled
    <2> HIDE DEF to
    <2> QED BY <1>0, <2>1, <2>5, RequestInStep DEF to
  <1>6. ASSUME NEW c \in Clients, BeginDeleteClient(a, c)
        PROVE  StepByStep'
    <2> DEFINE to == [At("DeleteClient", "delete") EXCEPT !.found = {c}]
    <2>1. Request(a, "DeleteClient", to) /\ UNCHANGED Tables
      BY <1>6 DEF BeginDeleteClient
    <2>2. to.pc = "delete"
      BY DEF At, Idle
    <2> HIDE DEF to
    <2> QED BY <1>2, <2>1, <2>2
  <1>7. ASSUME NEW c \in Clients, ResetClientTraffic(a, c)
        PROVE  StepByStep'
    <2>1. Request(a, "ResetClient", Idle) /\ server' = server /\ rows[c] # None
          /\ rows' = [rows EXCEPT ![c].used = 0]
      BY <1>7 DEF ResetClientTraffic
    <2>2. rows[c] \in Row /\ [rows[c] EXCEPT !.used = 0] \in Row
          /\ [rows[c] EXCEPT !.used = 0].enable = rows[c].enable
      BY <1>0, <2>1 DEF Row
    <2>3. Keeps(rows')
      BY <1>0, <2>1, <2>2, NoneIsNothing DEF Keeps
    <2> QED BY <1>3, <2>1, <2>3
  <1>8. CASE BeginDelDepleted(a)
    <2> DEFINE found == {c \in Present(rows) : rows[c].reset = 0 /\ Depleted(rows[c])}
               to    == [At("DelDepleted", "delete") EXCEPT !.found = found]
    <2>1. Request(a, "DelDepleted", to) /\ UNCHANGED Tables
      BY <1>8 DEF BeginDelDepleted
    <2>2. to.pc = "delete"
      BY DEF At, Idle
    <2> HIDE DEF to
    <2> QED BY <1>2, <2>1, <2>2
  <1>9. CASE ResetAllClientTraffics(a)
    <2>1. Request(a, "ResetAll", Idle) /\ server' = server
      BY <1>9 DEF ResetAllClientTraffics
    <2>2. ASSUME NEW x \in Clients, rows[x] # None
          PROVE  rows'[x] # None /\ (rows[x].enable => rows'[x].enable)
      <3>1. rows'[x] = rows[x] \/ rows'[x] = [rows[x] EXCEPT !.enable = TRUE]
        BY <1>9, <2>2 DEF ResetAllClientTraffics
      <3>2. rows[x] \in Row /\ [rows[x] EXCEPT !.enable = TRUE] \in Row
            /\ [rows[x] EXCEPT !.enable = TRUE].enable
        BY <1>0, <2>2 DEF Row
      <3> QED BY <2>2, <3>1, <3>2, NoneIsNothing
    <2>3. Keeps(rows')
      BY <2>2 DEF Keeps
    <2> QED BY <1>3, <2>1, <2>3
  <1>10. CASE BeginClear(a)
    <2>1. PICK kind \in {"DeleteAll", "ResetToDefaults"} :
            /\ Request(a, kind, [At(kind, IF server.enable THEN "down" ELSE "clear") EXCEPT
                                   !.server = server])
            /\ UNCHANGED Tables
      BY <1>10 DEF BeginClear
    <2> DEFINE pc == IF server.enable THEN "down" ELSE "clear"
               to == [At(kind, pc) EXCEPT !.server = server]
    <2>2. to.pc = pc /\ to.kind = kind
      BY DEF At, Idle
    <2>3. op'[a].pc = pc /\ op'[a].kind = kind
          /\ tunnel' = tunnel /\ mode' = mode /\ behind' = behind
      BY <1>1, <2>1, <2>2
    <2>4. ASSUME Agrees
          PROVE  AtWork(op[a])'
      <3>1. CASE server.enable
        <4>1. op'[a].pc = "down" /\ op'[a].kind # "ToggleServer"
              /\ op'[a].kind # "SaveServer"
          BY <2>3, <3>1
        <4> QED BY <4>1 DEF AtWork, Settled
      <3>2. CASE ~server.enable
        <4>1. op'[a].pc = "clear" /\ tunnel' = None
          BY <2>3, <2>4, <3>2 DEF Agrees
        <4> QED BY <4>1 DEF AtWork, Settled
      <3> QED BY <3>1, <3>2
    <2> HIDE DEF to
    <2> QED BY <1>0, <2>1, <2>4, RequestInStep DEF to
  <1>11. ASSUME NEW b \in BOOLEAN, ToggleServer(a, b)
         PROVE  StepByStep'
    <2> DEFINE s  == [server EXCEPT !.enable = b]
               pc == IF b THEN "list" ELSE "down"
               to == [At("ToggleServer", pc) EXCEPT !.server = s]
    <2>1. Request(a, "ToggleServer", to) /\ server' = s
      BY <1>11 DEF ToggleServer
    <2>2. s.enable = b /\ s.params = server.params
      BY <1>0 DEF Server
    <2> HIDE DEF s
    <2>3. to.pc = pc /\ to.kind = "ToggleServer" /\ to.server = s
      BY DEF At, Idle
    <2>4. op'[a].pc = pc /\ op'[a].kind = "ToggleServer" /\ op'[a].server = s
          /\ tunnel' = tunnel /\ mode' = mode /\ behind' = behind
      BY <1>1, <2>1, <2>3
    <2>5. ASSUME Agrees
          PROVE  AtWork(op[a])'
      <3>1. Fitting'
        BY <2>1, <2>2, <2>4, <2>5 DEF Agrees, Fitting
      <3>2. CASE b = TRUE
        <4>1. op'[a].pc = "list" /\ op'[a].server.params = server'.params /\ server'.enable
          BY <2>1, <2>2, <2>4, <3>2
        <4> QED BY <3>1, <4>1 DEF AtWork, Settled
      <3>3. CASE b = FALSE
        <4>1. op'[a].pc = "down" /\ op'[a].kind = "ToggleServer" /\ ~server'.enable
          BY <2>1, <2>2, <2>4, <3>3
        <4> QED BY <4>1 DEF AtWork, Settled
      <3> QED BY <3>2, <3>3
    <2> HIDE DEF to
    <2> QED BY <1>0, <2>1, <2>5, RequestInStep
  <1>12. ASSUME NEW params \in Params, BeginSaveServer(a, params)
         PROVE  StepByStep'
    <2> DEFINE s  == [server EXCEPT !.params = params]
               to == [At("SaveServer", "save server") EXCEPT !.server = s]
    <2>1. Request(a, "SaveServer", to) /\ UNCHANGED Tables
      BY <1>12 DEF BeginSaveServer
    <2>2. s.enable = server.enable
      BY <1>0 DEF Server
    <2> HIDE DEF s
    <2>3. to.pc = "save server" /\ to.kind = "SaveServer" /\ to.server = s
      BY DEF At, Idle
    <2>4. op'[a].pc = "save server" /\ op'[a].kind = "SaveServer"
          /\ op'[a].server.enable = server'.enable
      BY <1>1, <2>1, <2>2, <2>3
    <2>5. Agrees => Agrees'
      BY <1>1, <2>1, StillAgrees DEF Keeps
    <2>6. Agrees => AtWork(op[a])'
      BY <2>4, <2>5 DEF AtWork, Settled
    <2> HIDE DEF to
    <2> QED BY <1>0, <2>1, <2>6, RequestInStep
  <1> QED BY <1>4, <1>5, <1>6, <1>7, <1>8, <1>9, <1>10, <1>11, <1>12 DEF Begin

LEMMA HandleInStep ==
    ASSUME Inv, Inv', StepByStep, NEW a \in Admins, Handle(a)
    PROVE  StepByStep'
  <1> USE DEF Leaves, Tables, System, Interface, Device, Replace
  <1>0. /\ a \in Actors /\ op[a] \in Op /\ DOMAIN op = Actors
        /\ server \in Server /\ rows \in [Clients -> Row \cup {None}]
    BY OpType DEF Actors, Inv, TypeOK
  <1>1. ASSUME NEW to, Go(a, to)
        PROVE  op'[a] = to
    BY <1>0, <1>1 DEF Go
  <1>2. ASSUME NEW to, Go(a, to), Busy(a), smooth' => smooth,
               smooth' /\ AtWork(op[a]) => AtWork(op[a])'
        PROVE  StepByStep'
    BY <1>0, <1>2, WorkStep
  <1>3. CASE SaveClient(a)
    <2> DEFINE pc == IF op[a].kind = "AddClient" THEN "enable" ELSE "server"
               to == [op[a] EXCEPT !.pc = pc, !.row = None, !.client = None]
    <2>1. /\ op[a].pc = "save" /\ Go(a, to) /\ server' = server
          /\ tunnel' = tunnel /\ mode' = mode /\ behind' = behind
          /\ smooth' = smooth
      BY <1>3 DEF SaveClient
    <2>2. op'[a].pc = pc /\ op'[a].server = op[a].server
      BY <1>0, <1>1, <2>1 DEF Op
    <2>3. ASSUME AtWork(op[a])
          PROVE  AtWork(op[a])'
      <3>1. Agrees /\ (op[a].kind = "AddClient" => op[a].server = server)
        BY <2>1, <2>3 DEF AtWork, Settled
      <3>2. Fitting' /\ (server'.enable <=> tunnel' # None)
        BY <2>1, <3>1 DEF Agrees, Fitting
      <3>3. CASE op[a].kind = "AddClient"
        <4>1. op'[a].pc = "enable" /\ op'[a].server = server'
          BY <2>1, <2>2, <3>1, <3>3
        <4> QED BY <3>2, <4>1 DEF AtWork, Settled
      <3>4. CASE op[a].kind # "AddClient"
        <4>1. op'[a].pc = "server"
          BY <2>2, <3>4
        <4> QED BY <3>2, <4>1 DEF AtWork, Settled
      <3> QED BY <3>3, <3>4
    <2> HIDE DEF to
    <2> QED BY <1>2, <2>1, <2>3 DEF Busy
  <1>4. CASE AutoEnable(a)
    <2> DEFINE to == [op[a] EXCEPT !.pc = "list"]
    <2>1. /\ op[a].pc = "enable" /\ Go(a, to) /\ smooth' = smooth
          /\ tunnel' = tunnel /\ mode' = mode /\ behind' = behind
          /\ server' = IF op[a].server.enable THEN server ELSE [server EXCEPT !.enable = TRUE]
      BY <1>4 DEF AutoEnable
    <2>2. op'[a].pc = "list" /\ op'[a].server = op[a].server
      BY <1>0, <1>1, <2>1 DEF Op
    <2>3. ASSUME AtWork(op[a])
          PROVE  AtWork(op[a])'
      <3>1. /\ Fitting /\ op[a].server.params = server.params
            /\ op[a].server.enable => server.enable
        BY <2>1, <2>3 DEF AtWork, Settled
      <3>2. server'.enable /\ server'.params = server.params
        BY <1>0, <2>1, <3>1 DEF Server
      <3>3. Fitting'
        BY <2>1, <3>1, <3>2 DEF Fitting
      <3>4. op'[a].server.params = server'.params
        BY <2>2, <3>1, <3>2
      <3> QED BY <2>2, <3>2, <3>3, <3>4 DEF AtWork, Settled
    <2> HIDE DEF to
    <2> QED BY <1>2, <2>1, <2>3 DEF Busy
  <1>5. CASE ReadServer(a)
    <2> DEFINE list == [op[a] EXCEPT !.pc = "list", !.server = server]
               to   == IF server.enable THEN list ELSE Idle
    <2>1. /\ op[a].pc = "server" /\ Go(a, to) /\ server' = server
          /\ tunnel' = tunnel /\ mode' = mode /\ behind' = behind
          /\ smooth' = smooth
      BY <1>5 DEF ReadServer
    <2>2. ASSUME AtWork(op[a])
          PROVE  AtWork(op[a])'
      <3>1. Fitting /\ (server.enable <=> tunnel # None)
        BY <2>1, <2>2 DEF AtWork, Settled
      <3>2. CASE server.enable
        <4>1. op'[a] = list
          BY <1>1, <2>1, <3>2
        <4>2. op'[a].pc = "list" /\ op'[a].server = server
          BY <1>0, <4>1 DEF Op
        <4>3. Fitting'
          BY <2>1, <3>1 DEF Fitting
        <4> QED BY <2>1, <3>2, <4>2, <4>3 DEF AtWork, Settled
      <3>3. CASE ~server.enable
        <4>1. Go(a, Idle) /\ Agrees'
          BY <2>1, <3>1, <3>3 DEF Agrees, Fitting
        <4> QED BY <1>0, <4>1, Finished
      <3> QED BY <3>2, <3>3
    <2> HIDE DEF to
    <2> QED BY <1>2, <2>1, <2>2 DEF Busy
  <1>6. CASE DeleteFound(a)
    <2>1. op[a].pc = "delete" /\ server' = server /\ smooth' = smooth
          /\ tunnel' = tunnel /\ mode' = mode /\ behind' = behind
      BY <1>6 DEF DeleteFound
    <2>2. AtWork(op[a]) => Agrees
      BY <2>1 DEF AtWork, Settled
    <2>3. ASSUME NEW c \in op[a].found, rows' = [rows EXCEPT ![c] = None],
                 Go(a, [op[a] EXCEPT
                          !.found = @ \ {c}, !.server = server,
                          !.pc = IF rows[c] # None /\ server.enable THEN "list" ELSE "delete"])
          PROVE  StepByStep'
      <3> DEFINE pc == IF rows[c] # None /\ server.enable THEN "list" ELSE "delete"
                 to == [op[a] EXCEPT !.found = @ \ {c}, !.server = server, !.pc = pc]
      <3>1. Go(a, to)
        BY <2>3
      <3>2. op'[a].pc = pc /\ op'[a].server = server
        <4>1. op'[a] = to
          BY <1>1, <3>1
        <4> HIDE DEF pc
        <4> QED BY <1>0, <4>1 DEF Op
      <3>3. ASSUME Agrees
            PROVE  AtWork(op[a])'
        <4>1. CASE rows[c] # None /\ server.enable
          <5>1. op'[a].pc = "list" /\ server'.enable
                /\ op'[a].server.params = server'.params
            BY <2>1, <3>2, <4>1
          <5>2. Fitting'
            BY <2>1, <3>3 DEF Agrees, Fitting
          <5> QED BY <5>1, <5>2 DEF AtWork, Settled
        <4>2. CASE rows[c] = None
          <5>1. rows' = rows
            BY <1>0, <2>3, <4>2
          <5>2. Agrees'
            BY <2>1, <3>3, <5>1, StillAgrees DEF Keeps
          <5> QED BY <1>0, <3>2, <4>2, <5>2, Settles
        <4>3. CASE ~server.enable
          <5>1. Agrees'
            BY <2>1, <3>3, <4>3 DEF Agrees, Fitting
          <5> QED BY <1>0, <3>2, <4>3, <5>1, Settles
        <4> QED BY <4>1, <4>2, <4>3
      <3> HIDE DEF to
      <3> QED BY <1>2, <2>1, <2>2, <3>1, <3>3 DEF Busy
    <2>4. ASSUME Finish(a), UNCHANGED rows
          PROVE  StepByStep'
      <3>1. Agrees => Agrees'
        BY <2>1, <2>4, StillAgrees DEF Keeps
      <3>2. Go(a, Idle)
        BY <2>4 DEF Finish
      <3>3. Agrees => AtWork(op[a])'
        BY <1>0, <3>1, <3>2, Finished
      <3> QED BY <1>2, <2>1, <2>2, <3>2, <3>3 DEF Busy
    <2> QED BY <1>6, <2>3, <2>4 DEF DeleteFound
  <1>7. CASE SaveServer(a)
    <2> DEFINE s  == op[a].server
               pc == IF Dirty(s) /\ tunnel # None THEN "down" ELSE "list"
               go == [op[a] EXCEPT !.pc = pc]
               to == IF s.enable THEN go ELSE Idle
    <2>1. /\ op[a].pc = "save server" /\ Go(a, to) /\ server' = s /\ tunnel' = tunnel /\ mode' = mode
          /\ behind' = IF tunnel # None /\ s.params.link # server.params.link THEN TRUE
                       ELSE behind
          /\ smooth' = smooth
      BY <1>7 DEF SaveServer, NoFault
    <2>2. ASSUME AtWork(op[a])
          PROVE  AtWork(op[a])'
      <3>1. Agrees /\ op[a].kind = "SaveServer" /\ s.enable = server.enable
        BY <2>1, <2>2 DEF AtWork, Settled
      <3>2. CASE ~s.enable
        <4>1. Go(a, Idle) /\ tunnel' = None
          BY <2>1, <3>1, <3>2 DEF Agrees
        <4>2. Agrees'
          BY <2>1, <3>2, <4>1 DEF Agrees, Fitting
        <4> QED BY <1>0, <4>1, <4>2, Finished
      <3>3. CASE s.enable
        <4>1. op'[a] = go
          BY <1>1, <2>1, <3>3
        <4>2. /\ op'[a].pc = pc /\ op'[a].kind = "SaveServer" /\ op'[a].server = server'
              /\ server'.enable
          BY <1>0, <2>1, <3>1, <3>3, <4>1 DEF Op
        <4>3. CASE Dirty(s) /\ tunnel # None
          <5>1. op'[a].pc = "down"
            BY <4>2, <4>3
          <5> QED BY <4>2, <5>1 DEF AtWork, Settled
        <4>4. CASE ~Dirty(s) \/ tunnel = None
          <5>1. op'[a].pc = "list" /\ op'[a].server.params = server'.params
            BY <4>2, <4>4
          <5>2. ASSUME tunnel # None, mode = "kernel"
                PROVE  /\ tunnel.params.bounced = s.params.bounced
                       /\ tunnel.params.link # s.params.link => behind'
            BY <2>1, <3>1, <4>4, <5>2 DEF Agrees, Fitting, Dirty
          <5>3. Fitting'
            BY <2>1, <5>2 DEF Fitting
          <5> QED BY <4>2, <5>1, <5>3 DEF AtWork, Settled
        <4> QED BY <4>3, <4>4
      <3> QED BY <3>2, <3>3
    <2> HIDE DEF to
    <2> QED BY <1>2, <2>1, <2>2 DEF Busy
  <1>8. CASE InterfaceDown(a)
    <2> DEFINE list  == [op[a] EXCEPT !.pc = "list"]
               clear == [op[a] EXCEPT !.pc = "clear"]
    <2>1. op[a].pc = "down" /\ server' = server /\ (NoFault \/ Fault)
          /\ (tunnel' = None \/ Fault)
      BY <1>8 DEF InterfaceDown
    <2>2. \/ op[a].kind = "ToggleServer" /\ Go(a, Idle)
          \/ op[a].kind = "SaveServer" /\ Go(a, list)
          \/ op[a].kind # "ToggleServer" /\ op[a].kind # "SaveServer" /\ Go(a, clear)
      BY <1>8 DEF InterfaceDown
    <2>3. smooth' => smooth
      BY <2>1, FaultStops
    <2>4. ASSUME smooth', AtWork(op[a])
          PROVE  AtWork(op[a])'
      <3>1. tunnel' = None
        BY <2>1, <2>4 DEF Fault
      <3>2. Fitting'
        BY <3>1 DEF Fitting
      <3>3. CASE op[a].kind = "ToggleServer" /\ Go(a, Idle)
        <4>1. ~server.enable
          BY <2>1, <2>4, <3>3 DEF AtWork
        <4>2. Agrees'
          BY <2>1, <3>1, <3>2, <4>1 DEF Agrees
        <4> QED BY <1>0, <3>3, <4>2, Finished
      <3>4. CASE op[a].kind = "SaveServer" /\ Go(a, list)
        <4>1. server.enable /\ op[a].server = server
          BY <2>1, <2>4, <3>4 DEF AtWork
        <4>2. op'[a].pc = "list" /\ op'[a].server = op[a].server
          BY <1>0, <1>1, <3>4 DEF Op
        <4> QED BY <2>1, <3>2, <4>1, <4>2 DEF AtWork, Settled
      <3>5. CASE Go(a, clear)
        <4>1. op'[a].pc = "clear"
          BY <1>0, <1>1, <3>5 DEF Op
        <4> QED BY <3>1, <4>1 DEF AtWork, Settled
      <3> QED BY <2>2, <3>3, <3>4, <3>5
    <2>5. \E to : Go(a, to)
      BY <2>2
    <2> HIDE DEF list, clear
    <2> QED BY <1>2, <2>1, <2>3, <2>4, <2>5 DEF Busy
  <1>9. CASE DeleteRows(a)
    <2> DEFINE to == [op[a] EXCEPT !.pc = "disable server"]
    <2>1. op[a].pc = "clear" /\ Go(a, to) /\ smooth' = smooth
          /\ tunnel' = tunnel /\ mode' = mode /\ behind' = behind
      BY <1>9 DEF DeleteRows
    <2>2. op'[a].pc = "disable server"
      BY <1>0, <1>1, <2>1 DEF Op
    <2>3. ASSUME AtWork(op[a])
          PROVE  AtWork(op[a])'
      <3>1. tunnel' = None
        BY <2>1, <2>3 DEF AtWork
      <3> QED BY <2>2, <3>1 DEF AtWork, Settled
    <2> HIDE DEF to
    <2> QED BY <1>2, <2>1, <2>3 DEF Busy
  <1>10. CASE DisableServer(a)
    <2>1. op[a].pc = "disable server" /\ Go(a, Idle) /\ smooth' = smooth
      BY <1>10 DEF DisableServer, NoFault, Finish
    <2>2. ASSUME AtWork(op[a])
          PROVE  AtWork(op[a])'
      <3>1. tunnel = None
        BY <2>1, <2>2 DEF AtWork
      <3>2. tunnel' = None
        BY <1>10, <3>1 DEF DisableServer
      <3>3. ~server'.enable
        <4>1. ~[server EXCEPT !.enable = FALSE].enable
          BY <1>0 DEF Server
        <4>2. server' \in {[server EXCEPT !.enable = FALSE],
                            [enable |-> FALSE, params |-> DefaultParams]}
          BY <1>10 DEF DisableServer
        <4>3. CASE server' = [server EXCEPT !.enable = FALSE]
          BY <4>1, <4>3
        <4>4. CASE server' = [enable |-> FALSE, params |-> DefaultParams]
          BY <4>4
        <4> QED BY <4>2, <4>3, <4>4
      <3>4. Agrees'
        BY <3>2, <3>3 DEF Agrees, Fitting
      <3> QED BY <1>0, <2>1, <3>4, Finished
    <2> QED BY <1>2, <2>1, <2>2 DEF Busy
  <1> QED BY <1>3, <1>4, <1>5, <1>6, <1>7, <1>8, <1>9, <1>10 DEF Handle

\* Traffic changes no peer; a panel that dies ends what went smoothly.
LEMMA EnvironmentInStep ==
    ASSUME Inv, Inv', StepByStep, (\E c \in Clients : Use(c)) \/ Tick \/ PanelDies
    PROVE  StepByStep'
  <1>1. ASSUME NEW c \in Clients, Use(c)
        PROVE  StepByStep'
    <2>1. /\ UNCHANGED Tables /\ server' = server /\ op' = op /\ smooth' = smooth
          /\ conf' = conf /\ mode' = mode /\ behind' = behind /\ tunnel # None /\ tunnel \in Tunnel /\ tunnel.count[c] \in Nat
          /\ tunnel' = [tunnel EXCEPT !.count[c] = @ + 1]
      BY <1>1 DEF Use, Tables, Inv, TypeOK, Tunnel
    <2>2. tunnel' # None /\ tunnel'.params = tunnel.params
      <3>1. tunnel' \in Tunnel
        BY <2>1 DEF Tunnel
      <3> QED BY <2>1, <3>1, NoneIsNothing DEF Tunnel
    <2>3. Present(tunnel'.count) \subseteq Present(tunnel.count)
      BY <2>1, NoneIsNothing DEF Tunnel, Present
    <2>4. Enabled' = Enabled /\ Wanted' = Wanted
      BY <2>1, SameTables
    <2>5. Present(tunnel.count)' = Present(tunnel'.count)
      BY DEF Present
    <2>6. (Agrees => Agrees') /\ (Fitting <=> Fitting')
      BY <2>1, <2>2, <2>3, <2>4, <2>5 DEF Agrees, Fitting
    <2>7. ASSUME NEW a \in Actors, AtWork(op[a])
          PROVE  AtWork(op[a])'
      BY <2>1, <2>2, <2>4, <2>6, <2>7 DEF AtWork, Settled
    <2>8. \A a \in Actors : (Busy(a) <=> Busy(a)') /\ (Alone(a) <=> Alone(a)')
      BY <2>1 DEF Busy, Alone
    <2> QED BY <2>1, <2>7, <2>8 DEF StepByStep
  <1>2. CASE Tick
    <2>1. UNCHANGED <<server, rows, op, smooth, conf, tunnel, mode, behind>>
      BY <1>2 DEF Tick, Tables, System
    <2> QED BY <2>1, NothingMoves
  <1>3. CASE PanelDies
    BY <1>3 DEF PanelDies, Fault, StepByStep
  <1> QED BY <1>1, <1>2, <1>3

LEMMA InitInStep ==
    ASSUME Init
    PROVE  StepByStep
  <1>1. tunnel = None /\ op = [a \in Actors |-> IF a = Boot THEN Started ELSE Idle]
    BY DEF Init
  <1>2. Started.pc = "boot" /\ Idle.pc = "free" /\ Boot \in Actors
    BY DEF Started, Idle, Actors
  <1>3. \A a \in Actors \ {Boot} : ~Busy(a) /\ ~Alone(a)
    BY <1>1, <1>2 DEF Busy, Alone
  <1>4. Alone(Boot)
    BY <1>3 DEF Alone
  <1>5. op[Boot].pc = "boot"
    BY <1>1, <1>2
  <1>6. AtWork(op[Boot])
    BY <1>1, <1>5 DEF AtWork, Settled
  <1> QED BY <1>3, <1>4, <1>6 DEF StepByStep

LEMMA NextInStep ==
    ASSUME Inv, Inv', StepByStep, [Next]_vars
    PROVE  StepByStep'
  <1>1. CASE UNCHANGED vars
    BY <1>1, NothingMoves DEF vars
  <1>2. CASE Next
    <2>1. ASSUME NEW a \in Actors, Apply(a)
          PROVE  StepByStep'
      BY <2>1, ApplyInStep
    <2>2. ASSUME NEW a \in Admins, Begin(a) \/ Handle(a)
          PROVE  StepByStep'
      BY <2>2, BeginInStep, HandleInStep
    <2> QED BY <1>2, <2>1, <2>2, TrafficInStep, StartIfEnabledInStep, EnvironmentInStep
            DEF Next
  <1> QED BY <1>1, <1>2

\* As long as no two of the handlers, the traffic job and the start of the panel
\* overlapped and nothing failed, the interface agrees with the tables whenever
\* nothing is under way (applyServerConfig of awg_service.go, and every caller of it),
\* whatever the requests, in kernel mode and in userspace; only the MTU, addresses and
\* scripts of a kernel interface may be those it was made with, where others were
\* saved since.
THEOREM TunnelAgrees == Spec => []TunnelInStep
  <1> DEFINE IInv == Inv /\ StepByStep
  <1>1. Init => IInv
    BY InitType, InitInStep
  <1>2. IInv /\ [Next]_vars => IInv'
    BY NextType, NextInStep
  <1>3. IInv => TunnelInStep
    <2> SUFFICES ASSUME Inv, StepByStep, Quiet
                 PROVE  Agrees
      BY ModeType DEF TunnelInStep, Agrees, Fitting
    <2>1. op[Boot].pc = "free" /\ Boot \in Actors
      BY DEF Quiet, Busy, Actors
    <2>2. AtWork(op[Boot])
      BY <2>1 DEF Quiet, StepByStep, Alone
    <2> QED BY <2>1, <2>2 DEF AtWork, Settled
  <1> QED BY <1>1, <1>2, <1>3, PTL DEF Spec
===============================================================================
