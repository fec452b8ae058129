-------------------------- MODULE PortForwardsProofs --------------------------
(***************************************************************************)
(* For every pool, every list of ports and any number of clients and       *)
(* administrators, PortForwards keeps its types; clients have addresses of *)
(* their own unless requests overlapped; and the firewall has the rules of *)
(* the enabled clients, each once, unless something overlapped, failed or  *)
(* changed a flag behind it.                                               *)
(***************************************************************************)
EXTENDS PortForwards, WellFoundedInduction, TLAPS

WithClient == {"old", "save", "enable", "server", "look", "diff", "delete"}

WithRow == {"old", "save", "enable", "server"}

WithServer == {"flags", "enable", "look", "list", "write", "diff", "delete", "save server", "down",
               "clear", "disable server"}

\* What an actor must have read by the time it is where it is.
Ready(o) ==
  /\ o.pc \in WithClient => o.client \in Clients
  /\ o.pc \in WithRow => o.row \in Row
  /\ o.pc \in WithServer => o.server \in Server
  /\ o.pc = "old" => o.kind # "AddClient"
  /\ o.pc = "save" /\ o.kind = "AddClient" => o.server \in Server
  /\ o.pc = "write" => o.config \in Config
  /\ o.wasUp => o.client \in Clients /\ o.server \in Server

Inv == TypeOK /\ \A a \in Actors : Ready(op[a])

-------------------------------------------------------------------------------
\* The addresses of this row are no other client's and not the server's.
Alone(c, r) ==
  /\ r.addr # ServerAddr /\ r.addr6 # ServerAddr
  /\ \A d \in Present \ {c} :
       /\ r.addr # rows[d].addr
       /\ r.addr6 # None => r.addr6 # rows[d].addr6

\* What makes OwnAddresses inductive: there is one request, and the row it is about to
\* save is alone too.
Addressed ==
  apart => /\ \A a, b \in Admins : Busy(a) /\ Busy(b) => a = b
           /\ \A c \in Present : Alone(c, rows[c])
           /\ \A a \in Admins : op[a].pc \in {"old", "save"} => Alone(op[a].client, op[a].row)

-------------------------------------------------------------------------------
\* The firewall has these rules, each once.
Once(s) == \A r \in Rule : rules[r] = IF r \in s THEN 1 ELSE 0

Rested == up => server.enable /\ conf.forwards = Wanted /\ Once(Wanted)

\* The rules of the handler's own client are still those it had.
Behind(o) ==
  up => \A r \in Rule :
          rules[r] = IF r \in (IF r.client = o.client THEN RuleFor(o.client, o.old, server.ext)
                               ELSE Wanted)
                     THEN 1 ELSE 0

\* Where the one that is at work has come to.
Owes(o) == Behind(o) /\ (o.client # None => o.row = rows[o.client])

Applies(o) == server.enable /\ o.server.ext = server.ext

Settling(a) ==
  LET o        == op[a]
      Finds    == o.wasUp = (up /\ o.client # None)
      Untaken  == o.client = None /\ ~o.wasUp
  IN /\ o.pc = "boot" => Rested /\ Untaken
     /\ o.pc = "flags" => Rested /\ Untaken /\ server.enable /\ o.server = server
     /\ o.pc = "old" => Rested
     /\ o.pc = "save" => /\ Rested /\ o.old = rows[o.client]
                         /\ (o.kind = "AddClient" => o.server = server)
     /\ o.pc = "enable" => Owes(o) /\ o.server = server
     /\ o.pc = "server" => Owes(o) /\ (up => server.enable)
     /\ o.pc = "look" => Owes(o) /\ Applies(o)
     /\ o.pc = "list" => Owes(o) /\ Applies(o) /\ Finds
     /\ o.pc = "write" => Owes(o) /\ Applies(o) /\ Finds /\ o.config.forwards = Wanted
     /\ o.pc = "sync" => Owes(o) /\ Applies(o) /\ Finds /\ up /\ conf.forwards = Wanted
     /\ o.pc = "up" => server.enable /\ ~o.wasUp /\ ~up /\ conf # None /\ conf.forwards = Wanted
     /\ o.pc = "diff" => Owes(o) /\ Applies(o) /\ up /\ conf.forwards = Wanted
     /\ o.pc = "find" => Rested /\ o.row = None
     /\ o.pc = "delete" => Rested /\ o.old = rows[o.client] /\ o.server = server /\ o.row = None
     /\ o.pc = "save server" => Rested /\ Untaken /\ o.server.enable = server.enable
     /\ o.pc = "down" => /\ (up => Once(conf.forwards))
                         /\ (o.kind = "SaveServer" => Applies(o) /\ Untaken)
     /\ o.pc \in {"clear", "disable server"} => ~up

\* What makes ForwardsInStep inductive.
Calm ==
  smooth /\ told =>
    /\ \A a, b \in Actors : Busy(a) /\ Busy(b) => a = b
    /\ ~up => Once({})
    /\ up => conf # None
    /\ \A a \in Actors : Busy(a) => Settling(a)
    /\ Quiet => Rested
-------------------------------------------------------------------------------
(* Types.                                                                  *)

LEMMA NoneIsNothing ==
    /\ None \notin Row /\ None \notin Clients /\ None \notin Ports /\ None \notin Server
    /\ None \notin Nat /\ None \notin Config
  BY NoneAssumption DEF NoneAssumption

\* A set of natural numbers that is not empty has a smallest member.
LEMMA SmallestOf ==
    ASSUME NEW s \in SUBSET Nat, s # {}
    PROVE  \E i \in s : \A j \in s : i <= j
  <1>1. PICK i \in s : \A j \in s : ~(<<j, i>> \in OpToRel(<, Nat))
    BY WFMin, NatLessThanWellFounded
  <1>2. \A j \in s : ~(j < i)
    BY <1>1 DEF OpToRel
  <1>3. \A j \in s : i <= j
    BY <1>2
  <1> QED BY <1>3

LEMMA HostsAreNumbers == Hosts4 \subseteq Nat /\ Hosts6 \subseteq Nat
  <1>1. Hosts4 \subseteq Nat
    BY DEF Hosts4
  <1>2. Hosts6 \subseteq Nat
    <2> DEFINE none   == Bits6 = None \/ Bits6 > 62
               many   == Bits6 > 16
               wide   == 2 .. 65535
               narrow == 2 .. HostCount(Bits6) - 1
    <2>1. Hosts6 = IF none THEN {} ELSE IF many THEN wide ELSE narrow
      BY DEF Hosts6
    <2>2. wide \subseteq Nat /\ narrow \subseteq Nat
      OBVIOUS
    <2> HIDE DEF none, many, wide, narrow
    <2> QED BY <2>1, <2>2
  <1> QED BY <1>1, <1>2

\* NextFree finds a host that is not used, or there is none.
LEMMA NextFreeIsFree ==
    ASSUME NEW hosts \in SUBSET Nat, NEW used, NextFree(hosts, used) # None
    PROVE  /\ NextFree(hosts, used) \in hosts
           /\ NextFree(hosts, used) \notin used
           /\ NextFree(hosts, used) # ServerAddr
  <1> DEFINE free == hosts \ (used \cup {ServerAddr})
  <1>1. free # {}
    BY DEF NextFree
  <1>2. \E i \in free : \A j \in free : i <= j
    BY <1>1, SmallestOf
  <1>3. NextFree(hosts, used) = CHOOSE i \in free : \A j \in free : i <= j
    BY <1>1 DEF NextFree
  <1>4. NextFree(hosts, used) \in free
    BY <1>2, <1>3
  <1> QED BY <1>4

LEMMA NewRowType ==
    ASSUME NEW f \in Form, ~Refused
    PROVE  NewRow(f) \in Row
  <1>1. NextFree(Hosts4, Used4) \in Hosts4
    BY NextFreeIsFree, HostsAreNumbers DEF Refused
  <1>2. Bits6 # None => NextFree(Hosts6, Used6) \in Hosts6
    BY NextFreeIsFree, HostsAreNumbers DEF Refused
  <1>3. (IF Bits6 = None THEN None ELSE NextFree(Hosts6, Used6)) \in Hosts6 \cup {None}
    BY <1>2
  <1> QED BY <1>1, <1>3 DEF NewRow, Row, Form

LEMMA RuleForType ==
    ASSUME NEW c \in Clients, NEW r \in Row \cup {None}, NEW ext \in Exts
    PROVE  RuleFor(c, r, ext) \in SUBSET Rule /\ \A x \in RuleFor(c, r, ext) : x.client = c
  BY DEF RuleFor, Rule, Row

LEMMA RulesOfType ==
    ASSUME NEW table \in [Clients -> Row \cup {None}], NEW ext \in Exts
    PROVE  /\ RulesOf(table, ext) \in SUBSET Rule
           /\ \A r \in Rule : r \in RulesOf(table, ext)
                             <=> r \in RuleFor(r.client, table[r.client], ext)
  <1>1. \A c \in Clients : table[c] \in Row \cup {None}
    OBVIOUS
  <1>2. \A c \in Clients : /\ RuleFor(c, table[c], ext) \in SUBSET Rule
                           /\ \A x \in RuleFor(c, table[c], ext) : x.client = c
    BY <1>1, RuleForType
  <1>3. \A r \in Rule : r.client \in Clients
    BY DEF Rule
  <1> QED BY <1>2, <1>3 DEF RulesOf

LEMMA AppliedType ==
    ASSUME NEW bag \in [Rule -> Nat], NEW s
    PROVE  Applied(bag, s) \in [Rule -> Nat]
  BY DEF Applied

LEMMA RevokedType ==
    ASSUME NEW bag \in [Rule -> Nat], NEW s
    PROVE  Revoked(bag, s) \in [Rule -> Nat]
  BY DEF Revoked

LEMMA PostDownType ==
    ASSUME NEW bag \in [Rule -> Nat], NEW s, NEW b \in PostDown(bag, s)
    PROVE  b \in [Rule -> Nat]
  BY RevokedType DEF PostDown

LEMMA IdleOk == Idle \in Op /\ Ready(Idle)
  BY DEF Idle, Op, Ready, Kinds, Pcs, WithClient, WithRow, WithServer

LEMMA OpType ==
    ASSUME Inv, NEW a \in Actors
    PROVE  op[a] \in Op /\ Ready(op[a])
  BY DEF Inv, TypeOK

\* The actor that takes a step goes where it is ready to be.
LEMMA Going ==
    ASSUME Inv, NEW a \in Actors, NEW to \in Op, Ready(to), Go(a, to)
    PROVE  op' \in [Actors -> Op] /\ \A b \in Actors : Ready(op'[b])
  BY DEF Inv, TypeOK, Go

LEMMA GoOnOk ==
    ASSUME NEW o \in Op
    PROVE  GoOn(o) \in Op /\ Ready(GoOn(o))
  <1> DEFINE to == [Idle EXCEPT !.pc = "find", !.found = o.found]
  <1>1. to \in Op
    BY DEF Idle, Op, Kinds, Pcs
  <1>2. to.pc = "find" /\ ~to.wasUp
    BY DEF Idle
  <1> HIDE DEF to
  <1>3. Ready(to)
    BY <1>2 DEF Ready, WithClient, WithRow, WithServer
  <1>4. GoOn(o) = Idle \/ GoOn(o) = to
    BY DEF GoOn, to
  <1> QED BY <1>1, <1>3, <1>4, IdleOk

LEMMA AfterApplyType ==
    ASSUME Inv, NEW a \in Actors, AfterApply(a)
    PROVE  op' \in [Actors -> Op] /\ \A b \in Actors : Ready(op'[b])
  <1>1. op[a] \in Op /\ Ready(op[a])
    BY OpType
  <1>2. [op[a] EXCEPT !.pc = "diff"] \in Op
    BY <1>1 DEF Op, Pcs
  <1>3. op[a].wasUp => Ready([op[a] EXCEPT !.pc = "diff"])
    BY <1>1 DEF Op, Ready, WithClient, WithRow, WithServer
  <1> QED BY <1>1, <1>2, <1>3, GoOnOk, Going DEF AfterApply

LEMMA HistoryType ==
    ASSUME Inv, UNCHANGED History \/ Fault
    PROVE  apart' \in BOOLEAN /\ smooth' \in BOOLEAN /\ told' \in BOOLEAN /\ events' \in Nat
  <1>1. apart \in BOOLEAN /\ smooth \in BOOLEAN /\ told \in BOOLEAN /\ events \in Nat
    BY DEF Inv, TypeOK
  <1>2. CASE UNCHANGED History
    BY <1>1, <1>2 DEF History
  <1>3. CASE Fault
    <2>1. events' = events + 1 /\ smooth' = FALSE /\ apart' = apart /\ told' = told
      BY <1>3 DEF Fault, Happens
    <2>2. events' \in Nat
      BY <1>1, <2>1
    <2> QED BY <1>1, <2>1, <2>2
  <1> QED BY <1>2, <1>3

LEMMA BringDownType ==
    ASSUME Inv, BringDown
    PROVE  up' \in BOOLEAN /\ rules' \in [Rule -> Nat]
  <1>1. up \in BOOLEAN /\ rules \in [Rule -> Nat]
    BY DEF Inv, TypeOK
  <1> QED BY <1>1, PostDownType DEF BringDown

LEMMA ApplyType ==
    ASSUME Inv, NEW a \in Actors, Apply(a)
    PROVE  Inv'
  <1> USE DEF Tables, System
  <1>0. op[a] \in Op /\ Ready(op[a])
    BY OpType
  <1>a. /\ server \in Server /\ rows \in [Clients -> Row \cup {None}]
        /\ conf \in Config \cup {None} /\ up \in BOOLEAN /\ rules \in [Rule -> Nat]
    BY DEF Inv, TypeOK
  <1>1. CASE SeeIfUp(a)
    <2> DEFINE to == [op[a] EXCEPT !.pc = "list", !.wasUp = up]
    <2>1. to \in Op
      BY <1>0, <1>a DEF Op, Pcs
    <2>2. Ready(to)
      BY <1>0, <1>1 DEF SeeIfUp, Op, Ready, WithClient, WithRow, WithServer
    <2>3. Go(a, to)
      BY <1>1 DEF SeeIfUp
    <2> QED BY <1>1, <1>a, <2>1, <2>2, <2>3, Going, HistoryType DEF SeeIfUp, Inv, TypeOK
  <1>2. CASE ListClients(a)
    <2> DEFINE config == [forwards |-> RulesOf(rows, op[a].server.ext)]
               to     == [op[a] EXCEPT !.pc = "write", !.config = config]
    <2>1. op[a].server \in Server
      BY <1>0, <1>2 DEF ListClients, Ready, WithServer
    <2>2. config \in Config
      <3>1. op[a].server.ext \in Exts
        BY <2>1 DEF Server
      <3> QED BY <1>a, <3>1, RulesOfType DEF Config
    <2> HIDE DEF config
    <2>3. to \in Op
      BY <1>0, <2>2 DEF Op, Pcs
    <2>4. Ready(to)
      BY <1>0, <2>1, <2>2 DEF Op, Ready, WithClient, WithRow, WithServer
    <2>5. Go(a, to)
      BY <1>2 DEF ListClients, config
    <2> QED BY <1>2, <1>a, <2>3, <2>4, <2>5, Going, HistoryType DEF ListClients, Inv, TypeOK
  <1>3. CASE WriteServerConfig(a)
    <2> DEFINE to == [op[a] EXCEPT !.pc = IF up THEN "sync" ELSE "up", !.config = None]
    <2>1. op[a].config \in Config
      BY <1>0, <1>3 DEF WriteServerConfig, Ready
    <2>2. to \in Op
      BY <1>0 DEF Op, Pcs
    <2>3. Ready(to)
      BY <1>0 DEF Op, Ready, WithClient, WithRow, WithServer
    <2>4. Go(a, to)
      BY <1>3 DEF WriteServerConfig
    <2> QED BY <1>3, <1>a, <2>1, <2>2, <2>3, <2>4, Going, HistoryType
            DEF WriteServerConfig, Inv, TypeOK
  <1>4. CASE Sync(a)
    <2> DEFINE to == [op[a] EXCEPT !.pc = "up"]
    <2>1. to \in Op
      BY <1>0 DEF Op, Pcs
    <2>2. Ready(to)
      BY <1>0 DEF Op, Ready, WithClient, WithRow, WithServer
    <2>3. AfterApply(a) \/ Go(a, to)
      BY <1>4 DEF Sync
    <2>4. op' \in [Actors -> Op] /\ \A b \in Actors : Ready(op'[b])
      BY <2>1, <2>2, <2>3, Going, AfterApplyType
    <2>5. up' \in BOOLEAN /\ rules' \in [Rule -> Nat]
      BY <1>4, <1>a, BringDownType DEF Sync
    <2>6. UNCHANGED History \/ Fault
      BY <1>4 DEF Sync
    <2> QED BY <1>4, <1>a, <2>4, <2>5, <2>6, HistoryType DEF Sync, Inv, TypeOK
  <1>5. CASE BringUp(a)
    <2>1. up' \in BOOLEAN /\ rules' \in [Rule -> Nat]
      BY <1>5, <1>a, AppliedType DEF BringUp
    <2>2. UNCHANGED History \/ Fault
      BY <1>5 DEF BringUp
    <2>3. op' \in [Actors -> Op] /\ \A b \in Actors : Ready(op'[b])
      BY <1>5, AfterApplyType DEF BringUp
    <2> QED BY <1>5, <1>a, <2>1, <2>2, <2>3, HistoryType DEF BringUp, Inv, TypeOK
  <1>6. CASE ApplyForwardingDiff(a)
    <2>1. rules' \in [Rule -> Nat]
      BY <1>6, <1>a, AppliedType, RevokedType DEF ApplyForwardingDiff, Diff
    <2>2. UNCHANGED History \/ Fault
      BY <1>6 DEF ApplyForwardingDiff
    <2>3. op' \in [Actors -> Op] /\ \A b \in Actors : Ready(op'[b])
      BY <1>0, <1>6, GoOnOk, Going DEF ApplyForwardingDiff
    <2> QED BY <1>6, <1>a, <2>1, <2>2, <2>3, HistoryType DEF ApplyForwardingDiff, Inv, TypeOK
  <1> QED BY <1>1, <1>2, <1>3, <1>4, <1>5, <1>6 DEF Apply

LEMMA RequestType ==
    ASSUME Inv, NEW a \in Actors, NEW kind, NEW to \in Op, Ready(to), Request(a, kind, to)
    PROVE  /\ op' \in [Actors -> Op] /\ \A b \in Actors : Ready(op'[b])
           /\ conf' = conf /\ up' = up /\ rules' = rules
           /\ apart' \in BOOLEAN /\ smooth' \in BOOLEAN /\ told' \in BOOLEAN /\ events' \in Nat
  <1>1. apart \in BOOLEAN /\ smooth \in BOOLEAN /\ told \in BOOLEAN /\ events \in Nat
    BY DEF Inv, TypeOK
  <1>2. /\ events' = events + 1 /\ told' = told
        /\ conf' = conf /\ up' = up /\ rules' = rules
    BY DEF Request, Happens, System
  <1>3. apart' \in BOOLEAN /\ smooth' \in BOOLEAN
    BY <1>1 DEF Request
  <1>4. Go(a, to)
    BY DEF Request
  <1>5. events' \in Nat
    BY <1>1, <1>2
  <1> QED BY <1>1, <1>2, <1>3, <1>4, <1>5, Going

\* A request that leaves the tables alone, or writes the server.
LEMMA Requested ==
    ASSUME Inv, NEW a \in Actors, NEW kind, NEW to \in Op, Ready(to), Request(a, kind, to),
           server' \in Server, rows' \in [Clients -> Row \cup {None}]
    PROVE  Inv'
  BY RequestType DEF Inv, TypeOK

LEMMA FlippedType ==
    ASSUME Inv, NEW cs \in SUBSET Present
    PROVE  Flipped(cs) \in [Clients -> Row \cup {None}]
  <1>1. \A c \in Clients : rows[c] \in Row \cup {None}
    BY DEF Inv, TypeOK
  <1>2. ASSUME NEW c \in cs PROVE [rows[c] EXCEPT !.enable = ~@] \in Row
    <2>1. rows[c] \in Row
      BY <1>1 DEF Present
    <2> QED BY <2>1 DEF Row
  <1> QED BY <1>1, <1>2 DEF Flipped

LEMMA BeginType ==
    ASSUME Inv, NEW a \in Admins, Begin(a)
    PROVE  Inv'
  <1> USE DEF Tables, System, At, Idle
  <1>0. a \in Actors
    BY DEF Actors
  <1>a. server \in Server /\ rows \in [Clients -> Row \cup {None}]
    BY DEF Inv, TypeOK
  <1>1. ASSUME NEW c \in Clients, NEW f \in Forms, BeginAddClient(a, c, f) PROVE Inv'
    <2> DEFINE row == NewRow(f)
               to  == [At("AddClient", "save") EXCEPT !.client = c, !.row = row,
                                                      !.server = server]
    <2>1. row \in Row
      BY <1>1, NewRowType, ConstantsAssumption DEF BeginAddClient, ConstantsAssumption
    <2> HIDE DEF row
    <2>2. to \in Op /\ Ready(to)
      BY <1>a, <2>1 DEF Op, Ready, Kinds, Requests, Pcs, WithClient, WithRow, WithServer
    <2>3. Request(a, "AddClient", to)
      BY <1>1 DEF BeginAddClient, row
    <2>4. server' = server /\ rows' = rows
      BY <1>1 DEF BeginAddClient
    <2> QED BY <1>0, <1>a, <2>2, <2>3, <2>4, Requested
  <1>2. ASSUME NEW c \in Clients, NEW f \in Forms, BeginUpdateClient(a, c, f) PROVE Inv'
    <2>1. PICK kind \in {"ToggleClient", "UpdateClient"} :
            /\ rows[c] # None
            /\ Request(a, kind, [At(kind, "old") EXCEPT
                                   !.client = c, !.row = RowToSave(kind, rows[c], f)])
            /\ UNCHANGED Tables
      BY <1>2 DEF BeginUpdateClient
    <2> DEFINE row == RowToSave(kind, rows[c], f)
               to  == [At(kind, "old") EXCEPT !.client = c, !.row = row]
    <2>2. row \in Row
      <3>1. rows[c] \in Row
        BY <1>a, <2>1
      <3>2. f \in Form
        BY ConstantsAssumption DEF ConstantsAssumption
      <3> QED BY <3>1, <3>2 DEF RowToSave, Row, Form
    <2>3. Request(a, kind, to) /\ server' = server /\ rows' = rows
      BY <2>1
    <2> HIDE DEF row
    <2>4. to \in Op /\ Ready(to)
      BY <2>2 DEF Op, Ready, Kinds, Requests, Pcs, WithClient, WithRow, WithServer
    <2> QED BY <1>0, <1>a, <2>3, <2>4, Requested
  <1>3. ASSUME NEW c \in Clients, BeginDeleteClient(a, c) PROVE Inv'
    <2> DEFINE to == [At("DeleteClient", "find") EXCEPT !.found = {c}]
    <2>1. to \in Op /\ Ready(to)
      BY DEF Op, Ready, Kinds, Requests, Pcs, WithClient, WithRow, WithServer
    <2>2. Request(a, "DeleteClient", to) /\ server' = server /\ rows' = rows
      BY <1>3 DEF BeginDeleteClient
    <2> QED BY <1>0, <1>a, <2>1, <2>2, Requested
  <1>4. CASE BeginDelDepleted(a)
    <2>1. PICK found \in SUBSET {c \in Present : rows[c].limits} :
            /\ Request(a, "DelDepleted", [At("DelDepleted", "find") EXCEPT !.found = found])
            /\ server' = server /\ rows' = rows
      BY <1>4 DEF BeginDelDepleted
    <2> DEFINE to == [At("DelDepleted", "find") EXCEPT !.found = found]
    <2>2. found \in SUBSET Clients
      BY DEF Present
    <2>3. to \in Op /\ Ready(to)
      BY <2>2 DEF Op, Ready, Kinds, Requests, Pcs, WithClient, WithRow, WithServer
    <2> QED BY <1>0, <1>a, <2>1, <2>3, Requested
  <1>5. CASE ResetAllClientTraffics(a)
    <2>1. PICK cs \in SUBSET {c \in Present : rows[c].limits /\ ~rows[c].enable} :
            /\ rows' = Flipped(cs) /\ events' = events + 1
            /\ apart' \in BOOLEAN /\ smooth' \in BOOLEAN /\ told' \in BOOLEAN
            /\ conf' = conf /\ up' = up /\ rules' = rules /\ server' = server /\ op' = op
      BY <1>5 DEF ResetAllClientTraffics, Happens
    <2>2. rows' \in [Clients -> Row \cup {None}]
      BY <2>1, FlippedType
    <2>3. events' \in Nat
      BY <2>1 DEF Inv, TypeOK
    <2> QED BY <2>1, <2>2, <2>3 DEF Inv, TypeOK
  <1>6. CASE BeginClear(a)
    <2>1. PICK kind \in {"DeleteAll", "ResetToDefaults"} :
            /\ Request(a, kind, [At(kind, IF server.enable THEN "down" ELSE "clear") EXCEPT
                                   !.server = server])
            /\ server' = server /\ rows' = rows
      BY <1>6 DEF BeginClear
    <2> DEFINE to == [At(kind, IF server.enable THEN "down" ELSE "clear") EXCEPT
                        !.server = server]
    <2>2. to \in Op /\ Ready(to)
      BY <1>a DEF Op, Ready, Kinds, Requests, Pcs, WithClient, WithRow, WithServer
    <2> QED BY <1>0, <1>a, <2>1, <2>2, Requested
  <1>7. ASSUME NEW b \in BOOLEAN, ToggleServer(a, b) PROVE Inv'
    <2> DEFINE s  == [server EXCEPT !.enable = b]
               to == [At("ToggleServer", IF b THEN "list" ELSE "down") EXCEPT !.server = s]
    <2>1. s \in Server
      BY <1>a DEF Server
    <2>2. Request(a, "ToggleServer", to) /\ server' = s /\ rows' = rows
      BY <1>7 DEF ToggleServer
    <2> HIDE DEF s
    <2>3. to \in Op /\ Ready(to)
      BY <2>1 DEF Op, Ready, Kinds, Requests, Pcs, WithClient, WithRow, WithServer
    <2> QED BY <1>0, <1>a, <2>1, <2>2, <2>3, Requested
  <1>8. ASSUME NEW ext \in Exts, NEW dirty \in BOOLEAN, BeginSaveServer(a, ext, dirty) PROVE Inv'
    <2> DEFINE s  == [server EXCEPT !.ext = ext]
               to == [At("SaveServer", "save server") EXCEPT !.server = s, !.dirty = dirty]
    <2>1. s \in Server
      BY <1>a DEF Server
    <2>2. Request(a, "SaveServer", to) /\ server' = server /\ rows' = rows
      BY <1>8 DEF BeginSaveServer
    <2> HIDE DEF s
    <2>3. to \in Op /\ Ready(to)
      BY <2>1 DEF Op, Ready, Kinds, Requests, Pcs, WithClient, WithRow, WithServer
    <2> QED BY <1>0, <1>a, <2>2, <2>3, Requested
  <1> QED BY <1>1, <1>2, <1>3, <1>4, <1>5, <1>6, <1>7, <1>8 DEF Begin

\* A step of a handler goes where the handler is ready to be, and writes what fits.
LEMMA Handled ==
    ASSUME Inv, NEW a \in Actors, NEW to \in Op, Ready(to), Go(a, to),
           server' \in Server, rows' \in [Clients -> Row \cup {None}],
           conf' \in Config \cup {None}, up' \in BOOLEAN, rules' \in [Rule -> Nat],
           UNCHANGED History \/ Fault
    PROVE  Inv'
  BY Going, HistoryType DEF Inv, TypeOK

LEMMA HandleType ==
    ASSUME Inv, NEW a \in Admins, Handle(a)
    PROVE  Inv'
  <1> USE DEF Tables, System
  <1>0. a \in Actors
    BY DEF Actors
  <1>a. op[a] \in Op /\ Ready(op[a])
    BY <1>0, OpType
  <1>b. /\ server \in Server /\ rows \in [Clients -> Row \cup {None}]
        /\ conf \in Config \cup {None} /\ up \in BOOLEAN /\ rules \in [Rule -> Nat]
    BY DEF Inv, TypeOK
  <1>1. CASE ReadOld(a)
    <2> DEFINE old == rows[op[a].client]
               to  == [op[a] EXCEPT !.pc = "save", !.old = old]
    <2>1. op[a].pc = "old" /\ Go(a, to)
      BY <1>1 DEF ReadOld
    <2>2. old \in Row \cup {None}
      BY <1>a, <1>b, <2>1 DEF Ready, WithClient
    <2> HIDE DEF old
    <2>3. to \in Op /\ Ready(to)
      BY <1>a, <2>1, <2>2 DEF Op, Pcs, Ready, WithClient, WithRow, WithServer
    <2> QED BY <1>0, <1>1, <1>b, <2>1, <2>3, Handled DEF ReadOld
  <1>2. CASE SaveClient(a)
    <2> DEFINE row == SavedRow(op[a])
               to  == [op[a] EXCEPT !.pc = IF op[a].kind = "AddClient" THEN "enable" ELSE "server",
                                    !.row = row]
    <2>1. op[a].pc = "save" /\ Go(a, to) /\ rows' = [rows EXCEPT ![op[a].client] = row]
      BY <1>2 DEF SaveClient
    <2>2. row \in Row
      <3>1. op[a].row \in Row
        BY <1>a, <2>1 DEF Ready, WithRow
      <3> QED BY <3>1 DEF SavedRow, Row
    <2> HIDE DEF row
    <2>3. to \in Op /\ Ready(to)
      BY <1>a, <2>1, <2>2 DEF Op, Pcs, Ready, WithClient, WithRow, WithServer
    <2>4. rows' \in [Clients -> Row \cup {None}]
      BY <1>b, <2>1, <2>2
    <2> QED BY <1>0, <1>2, <1>b, <2>1, <2>3, <2>4, Handled DEF SaveClient
  <1>3. CASE AutoEnable(a)
    <2> DEFINE to == [op[a] EXCEPT !.pc = "look"]
    <2>1. to \in Op /\ Ready(to)
      BY <1>a, <1>3 DEF AutoEnable, Op, Pcs, Ready, WithClient, WithRow, WithServer
    <2>2. server' \in Server
      BY <1>3, <1>b DEF AutoEnable, Server
    <2> QED BY <1>0, <1>3, <1>b, <2>1, <2>2, Handled DEF AutoEnable
  <1>4. CASE ReadServer(a)
    <2> DEFINE to == [op[a] EXCEPT !.pc = "look", !.server = server]
    <2>1. to \in Op /\ Ready(to)
      BY <1>a, <1>b, <1>4 DEF ReadServer, Op, Pcs, Ready, WithClient, WithRow, WithServer
    <2> QED BY <1>0, <1>4, <1>b, <2>1, IdleOk, Handled DEF ReadServer
  <1>5. CASE FindClient(a)
    <2>1. PICK c \in op[a].found :
            Go(a, IF rows[c] = None THEN GoOn([op[a] EXCEPT !.found = @ \ {c}])
                  ELSE [op[a] EXCEPT !.pc = "delete", !.client = c, !.old = rows[c],
                                     !.server = server, !.found = @ \ {c}])
      BY <1>5 DEF FindClient
    <2> DEFINE rest == [op[a] EXCEPT !.found = @ \ {c}]
               to   == [op[a] EXCEPT !.pc = "delete", !.client = c, !.old = rows[c],
                                     !.server = server, !.found = @ \ {c}]
    <2>2. c \in Clients
      BY <1>a, <2>1 DEF Op
    <2>3. rows[c] \in Row \cup {None}
      BY <1>b, <2>2
    <2>4. to \in Op /\ Ready(to)
      <3>1. to \in Op
        BY <1>a, <1>b, <2>2, <2>3 DEF Op, Pcs
      <3>2. to.pc = "delete" /\ to.client \in Clients /\ to.server \in Server
        BY <1>a, <1>b, <2>2 DEF Op
      <3> HIDE DEF to
      <3> QED BY <3>1, <3>2 DEF Ready, WithClient, WithRow, WithServer
    <2>5. GoOn(rest) \in Op /\ Ready(GoOn(rest))
      <3>1. rest \in Op
        BY <1>a DEF Op
      <3> QED BY <3>1, GoOnOk
    <2> HIDE DEF rest, to
    <2>6. Go(a, GoOn(rest)) \/ Go(a, to)
      BY <2>1 DEF rest, to
    <2> QED BY <1>0, <1>5, <1>b, <2>4, <2>5, <2>6, Handled DEF FindClient
  <1>6. CASE DeleteRow(a)
    <2> DEFINE to == [op[a] EXCEPT !.pc = "look"]
    <2>1. op[a].pc = "delete"
      BY <1>6 DEF DeleteRow
    <2>2. to \in Op /\ Ready(to)
      BY <1>a, <2>1 DEF Op, Pcs, Ready, WithClient, WithRow, WithServer
    <2>3. GoOn(op[a]) \in Op /\ Ready(GoOn(op[a]))
      BY <1>a, GoOnOk
    <2>4. Go(a, GoOn(op[a])) \/ Go(a, to)
      BY <1>6 DEF DeleteRow
    <2>5. rows' \in [Clients -> Row \cup {None}]
      BY <1>6, <1>b DEF DeleteRow
    <2> QED BY <1>0, <1>6, <1>b, <2>2, <2>3, <2>4, <2>5, Handled DEF DeleteRow
  <1>7. CASE SaveServer(a)
    <2> DEFINE to == [op[a] EXCEPT !.pc = IF op[a].dirty /\ up THEN "down" ELSE "list"]
    <2>1. op[a].pc = "save server" /\ server' = op[a].server
      BY <1>7 DEF SaveServer
    <2>2. op[a].server \in Server
      BY <1>a, <2>1 DEF Ready, WithServer
    <2>3. to \in Op /\ Ready(to)
      <3>1. to \in Op
        BY <1>a DEF Op, Pcs
      <3>2. /\ to.pc \in {"down", "list"} /\ to.server \in Server
            /\ to.wasUp => to.client \in Clients
        BY <1>a, <2>2 DEF Op, Ready
      <3> HIDE DEF to
      <3> QED BY <3>1, <3>2 DEF Ready, WithClient, WithRow, WithServer
    <2>4. op' \in [Actors -> Op] /\ \A b \in Actors : Ready(op'[b])
      BY <1>0, <1>7, <2>3, IdleOk, Going DEF SaveServer
    <2>5. apart' \in BOOLEAN /\ smooth' \in BOOLEAN /\ told' \in BOOLEAN /\ events' \in Nat
      BY <1>7 DEF SaveServer, Inv, TypeOK
    <2> QED BY <1>7, <1>b, <2>1, <2>2, <2>4, <2>5 DEF SaveServer, Inv, TypeOK
  <1>8. CASE InterfaceDown(a)
    <2> DEFINE list  == [op[a] EXCEPT !.pc = "list"]
               clear == [op[a] EXCEPT !.pc = "clear"]
    <2>1. op[a].pc = "down"
      BY <1>8 DEF InterfaceDown
    <2>2. list \in Op /\ Ready(list)
      BY <1>a, <2>1 DEF Op, Pcs, Ready, WithClient, WithRow, WithServer
    <2>3. clear \in Op /\ Ready(clear)
      BY <1>a, <2>1 DEF Op, Pcs, Ready, WithClient, WithRow, WithServer
    <2> HIDE DEF list, clear
    <2>4. Go(a, Idle) \/ Go(a, list) \/ Go(a, clear)
      BY <1>8, Zenon DEF InterfaceDown, list, clear
    <2>5. PICK to \in Op : Ready(to) /\ Go(a, to)
      BY <2>2, <2>3, <2>4, IdleOk
    <2>6. up' \in BOOLEAN /\ rules' \in [Rule -> Nat]
      BY <1>8, <1>b, BringDownType DEF InterfaceDown
    <2>7. UNCHANGED History \/ Fault
      BY <1>8 DEF InterfaceDown
    <2> QED BY <1>0, <1>8, <1>b, <2>5, <2>6, <2>7, Handled DEF InterfaceDown
  <1>9. CASE DeleteRows(a)
    <2> DEFINE to == [op[a] EXCEPT !.pc = "disable server"]
    <2>1. to \in Op /\ Ready(to)
      BY <1>a, <1>9 DEF DeleteRows, Op, Pcs, Ready, WithClient, WithRow, WithServer
    <2>2. rows' \in [Clients -> Row \cup {None}]
      BY <1>9 DEF DeleteRows
    <2> QED BY <1>0, <1>9, <1>b, <2>1, <2>2, Handled DEF DeleteRows
  <1>10. CASE DisableServer(a)
    <2>1. op[a].server \in Server
      BY <1>10, <1>a DEF DisableServer, Ready, WithServer
    <2>2. server' \in Server /\ conf' \in Config \cup {None}
      BY <1>10, <1>b, <2>1 DEF DisableServer, Server
    <2> QED BY <1>0, <1>10, <1>b, <2>2, IdleOk, Handled DEF DisableServer
  <1> QED BY <1>1, <1>2, <1>3, <1>4, <1>5, <1>6, <1>7, <1>8, <1>9, <1>10 DEF Handle

LEMMA JobStartType ==
    ASSUME Inv, JobStart
    PROVE  Inv'
  <1> USE DEF Tables, System
  <1> DEFINE to == [At("Traffic", "flags") EXCEPT !.server = server]
  <1>1. Job \in Actors
    BY DEF Actors
  <1>2. server \in Server /\ events \in Nat
    BY DEF Inv, TypeOK
  <1>3. to \in Op /\ Ready(to)
    BY <1>2 DEF At, Idle, Op, Ready, Kinds, Pcs, WithClient, WithRow, WithServer
  <1>4. op' \in [Actors -> Op] /\ \A b \in Actors : Ready(op'[b])
    BY <1>1, <1>3, Going DEF JobStart
  <1>5. events' = events + 1 /\ smooth' = (smooth /\ Quiet)
    BY DEF JobStart, Happens
  <1>6. events' \in Nat
    BY <1>2, <1>5
  <1>7. smooth' \in BOOLEAN
    BY <1>5 DEF Inv, TypeOK
  <1> QED BY <1>4, <1>6, <1>7 DEF JobStart, Inv, TypeOK

LEMMA JobFlagsType ==
    ASSUME Inv, JobFlags
    PROVE  Inv'
  <1> USE DEF Tables, System
  <1>1. Job \in Actors
    BY DEF Actors
  <1>2. op[Job].pc = "flags" /\ op[Job] \in Op /\ Ready(op[Job])
    BY <1>1, OpType DEF JobFlags
  <1>3. PICK cs \in SUBSET {c \in Present : rows[c].limits} :
          /\ rows' = Flipped(cs)
          /\ Go(Job, IF cs = {} THEN Idle ELSE [op[Job] EXCEPT !.pc = "list"])
          /\ told' = (told /\ Silent(cs))
    BY DEF JobFlags
  <1>4. rows' \in [Clients -> Row \cup {None}]
    BY <1>3, FlippedType
  <1> DEFINE to == [op[Job] EXCEPT !.pc = "list"]
  <1>5. to \in Op /\ Ready(to)
    BY <1>2 DEF Op, Pcs, Ready, WithClient, WithRow, WithServer
  <1>6. op' \in [Actors -> Op] /\ \A b \in Actors : Ready(op'[b])
    BY <1>1, <1>3, <1>5, IdleOk, Going
  <1>7. told' \in BOOLEAN
    BY <1>3 DEF Inv, TypeOK
  <1> QED BY <1>4, <1>6, <1>7 DEF JobFlags, Inv, TypeOK

LEMMA StartIfEnabledType ==
    ASSUME Inv, StartIfEnabled
    PROVE  Inv'
  <1> USE DEF Tables, System
  <1> DEFINE to == [op[Boot] EXCEPT !.pc = "list", !.server = server]
  <1>1. Boot \in Actors
    BY DEF Actors
  <1>2. op[Boot] \in Op /\ Ready(op[Boot]) /\ server \in Server
    BY <1>1, OpType DEF Inv, TypeOK
  <1>3. to \in Op /\ Ready(to)
    <2>1. to \in Op
      BY <1>2 DEF Op, Pcs
    <2>2. to.pc = "list" /\ to.server \in Server /\ (to.wasUp => to.client \in Clients)
      BY <1>2 DEF Op, Ready
    <2> HIDE DEF to
    <2> QED BY <2>1, <2>2 DEF Ready, WithClient, WithRow, WithServer
  <1>4. op' \in [Actors -> Op] /\ \A b \in Actors : Ready(op'[b])
    BY <1>1, <1>3, IdleOk, Going DEF StartIfEnabled
  <1>5. UNCHANGED History
    BY DEF StartIfEnabled
  <1> QED BY <1>4, <1>5 DEF StartIfEnabled, History, Inv, TypeOK

LEMMA StartingType == Starting \in [Actors -> Op] /\ \A b \in Actors : Ready(Starting[b])
  <1>1. At("Start", "boot") \in Op /\ Ready(At("Start", "boot"))
    BY DEF At, Idle, Op, Ready, Kinds, Pcs, WithClient, WithRow, WithServer
  <1> QED BY <1>1, IdleOk DEF Starting

LEMMA RestartsType ==
    ASSUME Inv, PanelRestarts \/ HostRestarts
    PROVE  Inv'
  <1> USE DEF Tables, System
  <1>1. op' = Starting /\ events' = events + 1
    BY DEF PanelRestarts, HostRestarts, Happens
  <1>2. events' \in Nat
    BY <1>1 DEF Inv, TypeOK
  <1>3. CASE PanelRestarts
    BY <1>1, <1>2, <1>3, StartingType DEF PanelRestarts, Inv, TypeOK
  <1>4. CASE HostRestarts
    BY <1>1, <1>2, <1>4, StartingType DEF HostRestarts, Inv, TypeOK
  <1> QED BY <1>3, <1>4

LEMMA InitInv == Init => Inv
  <1> SUFFICES ASSUME Init PROVE Inv
    OBVIOUS
  <1>1. server \in Server
    BY DEF Init, Server
  <1>2. op \in [Actors -> Op] /\ \A b \in Actors : Ready(op[b])
    BY StartingType DEF Init
  <1> QED BY <1>1, <1>2 DEF Init, Inv, TypeOK

LEMMA NextInv == Inv /\ [Next]_vars => Inv'
  <1> SUFFICES ASSUME Inv, [Next]_vars PROVE Inv'
    OBVIOUS
  <1>1. CASE UNCHANGED vars
    BY <1>1 DEF vars, Inv, TypeOK
  <1>2. ASSUME NEW a \in Actors, Apply(a) PROVE Inv'
    BY <1>2, ApplyType
  <1>3. ASSUME NEW a \in Admins, Begin(a) \/ Handle(a) PROVE Inv'
    BY <1>3, BeginType, HandleType
  <1> QED BY <1>1, <1>2, <1>3, JobStartType, JobFlagsType, StartIfEnabledType, RestartsType DEF Next

\* TypeOK, and every actor has read what it is about to use.
THEOREM AllInv == Spec => []Inv
  BY InitInv, NextInv, PTL DEF Spec

\* Every variable keeps its type: in particular no rule is removed more often than it
\* was put there.
THEOREM TypeCorrect == Spec => []TypeOK
  <1>1. Inv => TypeOK
    BY DEF Inv
  <1> QED BY <1>1, AllInv, PTL

-------------------------------------------------------------------------------
(* Addresses.                                                              *)

About == {"old", "save"}

\* What leaves Addressed alone: no row is added or given another address, no request
\* begins, and none comes to the point where it is about to save a row.
Leaves ==
  /\ apart' => apart
  /\ \A c \in Present' : /\ c \in Present
                         /\ rows'[c].addr = rows[c].addr /\ rows'[c].addr6 = rows[c].addr6
  /\ \A a \in Admins :
       /\ Busy(a)' => Busy(a)
       /\ op'[a].pc \in About => /\ op[a].pc \in About
                                 /\ op'[a].client = op[a].client /\ op'[a].row = op[a].row

LEMMA LeavesAddressed ==
    ASSUME Addressed, Leaves
    PROVE  Addressed'
  <1> SUFFICES ASSUME apart' PROVE Addressed'
    BY DEF Addressed
  <1>1. /\ \A a, b \in Admins : Busy(a) /\ Busy(b) => a = b
        /\ \A c \in Present : Alone(c, rows[c])
        /\ \A a \in Admins : op[a].pc \in About => Alone(op[a].client, op[a].row)
    BY DEF Addressed, Leaves, About
  <1>2. \A a, b \in Admins : Busy(a)' /\ Busy(b)' => a = b
    BY <1>1 DEF Leaves
  <1>3. ASSUME NEW c \in Present' PROVE Alone(c, rows[c])'
    <2>1. Alone(c, rows[c])
      BY <1>1, <1>3 DEF Leaves
    <2> QED BY <1>3, <2>1 DEF Leaves, Alone
  <1>4. ASSUME NEW a \in Admins, op'[a].pc \in About PROVE Alone(op[a].client, op[a].row)'
    <2>1. Alone(op[a].client, op[a].row)
      BY <1>1, <1>4 DEF Leaves
    <2>2. op'[a].client = op[a].client /\ op'[a].row = op[a].row
      BY <1>4 DEF Leaves
    <2> QED BY <2>1, <2>2 DEF Leaves, Alone
  <1> QED BY <1>2, <1>3, <1>4 DEF Addressed, About

\* A step that leaves the rows' addresses alone and moves its actor elsewhere.
LEMMA Elsewhere ==
    ASSUME Inv, Addressed, NEW a \in Actors, NEW to, Go(a, to), Busy(a),
           to.pc \in About => /\ op[a].pc \in About
                              /\ to.client = op[a].client /\ to.row = op[a].row,
           apart' = apart,
           \A c \in Clients : rows'[c] # None =>
              /\ rows[c] # None
              /\ rows'[c].addr = rows[c].addr /\ rows'[c].addr6 = rows[c].addr6
    PROVE  Addressed'
  <1>1. \A b \in Actors : op'[b] = IF b = a THEN to ELSE op[b]
    BY DEF Go, Inv, TypeOK
  <1>2. Admins \subseteq Actors
    BY DEF Actors
  <1>3. Leaves
    BY <1>1, <1>2 DEF Leaves, Busy, Present
  <1> QED BY <1>3, LeavesAddressed

LEMMA HistoryApart ==
    ASSUME UNCHANGED History \/ Fault
    PROVE  apart' = apart
  BY DEF History, Fault

LEMMA ApplyAddressed ==
    ASSUME Inv, Addressed, NEW a \in Actors, Apply(a)
    PROVE  Addressed'
  <1> USE DEF Tables, About
  <1>1. Busy(a) /\ rows' = rows
    BY DEF Apply, SeeIfUp, ListClients, WriteServerConfig, Sync, BringUp, ApplyForwardingDiff, Busy
  <1>2. UNCHANGED History \/ Fault
    <2>1. CASE Sync(a)
      BY <2>1 DEF Sync
    <2> QED BY <2>1 DEF Apply, SeeIfUp, ListClients, WriteServerConfig, BringUp, ApplyForwardingDiff
  <1>3. GoOn(op[a]).pc \notin About
    BY DEF GoOn, Idle
  <1>o. op[a] \in Op
    BY OpType
  <1>4. AfterApply(a) => \E to : Go(a, to) /\ to.pc \notin About
    <2>1. [op[a] EXCEPT !.pc = "diff"].pc \notin About
      BY <1>o DEF Op
    <2> QED BY <1>3, <2>1 DEF AfterApply
  <1>5. \E to : Go(a, to) /\ to.pc \notin About
    <2>1. CASE SeeIfUp(a)
      <3> DEFINE to == [op[a] EXCEPT !.pc = "list", !.wasUp = up]
      <3>1. Go(a, to)
        BY <2>1 DEF SeeIfUp
      <3>2. to.pc \notin About
        BY <1>o DEF Op
      <3> QED BY <3>1, <3>2, Zenon
    <2>2. CASE ListClients(a)
      <3> DEFINE to == [op[a] EXCEPT !.pc = "write",
                             !.config = [forwards |-> RulesOf(rows, op[a].server.ext)]]
      <3>1. Go(a, to)
        BY <2>2 DEF ListClients
      <3>2. to.pc \notin About
        BY <1>o DEF Op
      <3> QED BY <3>1, <3>2, Zenon
    <2>3. CASE WriteServerConfig(a)
      <3> DEFINE to == [op[a] EXCEPT !.pc = IF up THEN "sync" ELSE "up", !.config = None]
      <3>1. Go(a, to)
        BY <2>3 DEF WriteServerConfig
      <3>2. to.pc \notin About
        BY <1>o DEF Op
      <3> QED BY <3>1, <3>2, Zenon
    <2>4. CASE Sync(a)
      BY <2>4, <1>4, <1>o DEF Sync, Op
    <2>5. CASE BringUp(a)
      BY <2>5, <1>4 DEF BringUp
    <2>6. CASE ApplyForwardingDiff(a)
      BY <2>6, <1>3 DEF ApplyForwardingDiff
    <2> QED BY <2>1, <2>2, <2>3, <2>4, <2>5, <2>6 DEF Apply
  <1>6. PICK to : Go(a, to) /\ to.pc \notin About
    BY <1>5
  <1> QED BY <1>1, <1>2, <1>6, HistoryApart, Elsewhere

\* Where requests have never overlapped, one that begins is alone.
LEMMA RequestAddressed ==
    ASSUME Inv, Addressed, NEW a \in Admins, NEW kind, NEW to, Request(a, kind, to), rows' = rows,
           apart /\ to.pc \in About => Alone(to.client, to.row)
    PROVE  Addressed'
  <1> SUFFICES ASSUME apart' PROVE Addressed'
    BY DEF Addressed
  <1>1. apart /\ \A b \in Admins : ~Busy(b)
    BY DEF Request
  <1>2. Admins \subseteq Actors
    BY DEF Actors
  <1>3. \A b \in Actors : op'[b] = IF b = a THEN to ELSE op[b]
    BY <1>2 DEF Request, Go, Inv, TypeOK
  <1>4. Present' = Present
    BY DEF Present
  <1>5. \A c, r : Alone(c, r) => Alone(c, r)'
    BY <1>4 DEF Alone
  <1>6. \A c \in Present' : Alone(c, rows[c])'
    BY <1>1, <1>4 DEF Addressed, Alone
  <1>7. ASSUME NEW b \in Admins, op'[b].pc \in About PROVE Alone(op[b].client, op[b].row)'
    <2>1. b = a /\ op'[b] = to
      BY <1>1, <1>2, <1>3, <1>7 DEF Busy, About
    <2>2. Alone(to.client, to.row)
      BY <1>1, <1>7, <2>1
    <2> QED BY <2>1, <2>2, <1>4 DEF Alone
  <1>8. \A b, d \in Admins : Busy(b)' /\ Busy(d)' => b = d
    BY <1>1, <1>2, <1>3 DEF Busy
  <1> QED BY <1>6, <1>7, <1>8 DEF Addressed, About

\* A change of flags changes no address.
LEMMA FlippedKeeps ==
    ASSUME Inv, NEW cs \in SUBSET Present, NEW c \in Clients, Flipped(cs)[c] # None
    PROVE  /\ rows[c] # None
           /\ Flipped(cs)[c].addr = rows[c].addr /\ Flipped(cs)[c].addr6 = rows[c].addr6
  <1>1. CASE c \in cs
    <2>1. rows[c] # None /\ rows[c] \in Row
      BY <1>1 DEF Present, Inv, TypeOK
    <2> QED BY <1>1, <2>1 DEF Flipped, Row
  <1>2. CASE c \notin cs
    BY <1>2 DEF Flipped
  <1> QED BY <1>1, <1>2

LEMMA BeginAddressed ==
    ASSUME Inv, Addressed, NEW a \in Admins, Begin(a)
    PROVE  Addressed'
  <1> USE DEF Tables, About
  <1>a. rows \in [Clients -> Row \cup {None}]
    BY DEF Inv, TypeOK
  <1>1. ASSUME NEW c \in Clients, NEW f \in Forms, BeginAddClient(a, c, f) PROVE Addressed'
    <2> DEFINE row == NewRow(f)
               to  == [At("AddClient", "save") EXCEPT !.client = c, !.row = row,
                                                      !.server = server]
    <2>1. to.client = c /\ to.row = row
      BY DEF At, Idle
    <2>2. Alone(c, row)
      <3>1. /\ row.addr = NextFree(Hosts4, Used4)
            /\ row.addr6 = IF Bits6 = None THEN None ELSE NextFree(Hosts6, Used6)
        BY DEF NewRow
      <3>2. ~Refused
        BY <1>1 DEF BeginAddClient
      <3>3. row.addr \notin Used4 /\ row.addr # ServerAddr
        BY <3>1, <3>2, NextFreeIsFree, HostsAreNumbers DEF Refused
      <3>4. Bits6 # None => row.addr6 \notin Used6 /\ row.addr6 # ServerAddr
        BY <3>1, <3>2, NextFreeIsFree, HostsAreNumbers DEF Refused
      <3>5. ServerAddr # None
        BY ConstantsAssumption, NoneIsNothing DEF ConstantsAssumption
      <3> HIDE DEF row
      <3> QED BY <3>1, <3>3, <3>4, <3>5 DEF Alone, Used4, Used6
    <2> HIDE DEF row
    <2>3. Request(a, "AddClient", to) /\ rows' = rows
      BY <1>1 DEF BeginAddClient, row
    <2> HIDE DEF to
    <2> QED BY <2>1, <2>2, <2>3, RequestAddressed
  <1>2. ASSUME NEW c \in Clients, NEW f \in Forms, BeginUpdateClient(a, c, f) PROVE Addressed'
    <2>1. PICK kind \in {"ToggleClient", "UpdateClient"} :
            /\ rows[c] # None
            /\ Request(a, kind, [At(kind, "old") EXCEPT
                                   !.client = c, !.row = RowToSave(kind, rows[c], f)])
            /\ UNCHANGED Tables
      BY <1>2 DEF BeginUpdateClient
    <2> DEFINE row == RowToSave(kind, rows[c], f)
               to  == [At(kind, "old") EXCEPT !.client = c, !.row = row]
    <2>2. Request(a, kind, to) /\ rows' = rows
      BY <2>1
    <2>3. row.addr = rows[c].addr /\ row.addr6 = rows[c].addr6
      <3>1. rows[c] \in Row
        BY <1>a, <2>1
      <3> QED BY <3>1 DEF RowToSave, Row
    <2>4. to.client = c /\ to.row = row
      BY DEF At, Idle
    <2> HIDE DEF row, to
    <2>5. apart => Alone(c, row)
      BY <2>1, <2>3 DEF Addressed, Alone, Present
    <2> QED BY <2>2, <2>4, <2>5, RequestAddressed
  <1>3. CASE ResetAllClientTraffics(a)
    <2>1. PICK cs \in SUBSET {c \in Present : rows[c].limits /\ ~rows[c].enable} :
            rows' = Flipped(cs) /\ op' = op /\ (apart' => apart)
      BY <1>3 DEF ResetAllClientTraffics
    <2>2. \A c \in Clients : rows'[c] # None =>
            /\ rows[c] # None
            /\ rows'[c].addr = rows[c].addr /\ rows'[c].addr6 = rows[c].addr6
      BY <2>1, FlippedKeeps
    <2>3. Leaves
      BY <2>1, <2>2 DEF Leaves, Busy, Present
    <2> QED BY <2>3, LeavesAddressed
  <1>4. ASSUME NEW kind, NEW to, Request(a, kind, to), rows' = rows, to.pc \notin About
        PROVE  Addressed'
    BY <1>4, RequestAddressed
  <1>5. ASSUME NEW c \in Clients, BeginDeleteClient(a, c) PROVE Addressed'
    <2> DEFINE to == [At("DeleteClient", "find") EXCEPT !.found = {c}]
    <2>1. Request(a, "DeleteClient", to) /\ rows' = rows
      BY <1>5 DEF BeginDeleteClient
    <2>2. to.pc \notin About
      BY DEF At, Idle
    <2> QED BY <2>1, <2>2, <1>4
  <1>6. CASE BeginDelDepleted(a)
    <2>1. PICK found :
            /\ Request(a, "DelDepleted", [At("DelDepleted", "find") EXCEPT !.found = found])
            /\ rows' = rows
      BY <1>6 DEF BeginDelDepleted
    <2>2. [At("DelDepleted", "find") EXCEPT !.found = found].pc \notin About
      BY DEF At, Idle
    <2> QED BY <2>1, <2>2, <1>4
  <1>7. CASE BeginClear(a)
    <2>1. PICK kind :
            /\ Request(a, kind, [At(kind, IF server.enable THEN "down" ELSE "clear") EXCEPT
                                   !.server = server])
            /\ rows' = rows
      BY <1>7 DEF BeginClear
    <2>2. [At(kind, IF server.enable THEN "down" ELSE "clear") EXCEPT !.server = server].pc
            \notin About
      BY DEF At, Idle
    <2> QED BY <2>1, <2>2, <1>4
  <1>8. ASSUME NEW b \in BOOLEAN, ToggleServer(a, b) PROVE Addressed'
    <2> DEFINE to == [At("ToggleServer", IF b THEN "list" ELSE "down") EXCEPT
                        !.server = [server EXCEPT !.enable = b]]
    <2>1. Request(a, "ToggleServer", to) /\ rows' = rows
      BY <1>8 DEF ToggleServer
    <2>2. to.pc \notin About
      BY DEF At, Idle
    <2> QED BY <2>1, <2>2, <1>4
  <1>9. ASSUME NEW ext \in Exts, NEW dirty \in BOOLEAN, BeginSaveServer(a, ext, dirty)
        PROVE  Addressed'
    <2> DEFINE to == [At("SaveServer", "save server") EXCEPT
                        !.server = [server EXCEPT !.ext = ext], !.dirty = dirty]
    <2>1. Request(a, "SaveServer", to) /\ rows' = rows
      BY <1>9 DEF BeginSaveServer
    <2>2. to.pc \notin About
      BY DEF At, Idle
    <2> QED BY <2>1, <2>2, <1>4
  <1> QED BY <1>1, <1>2, <1>3, <1>5, <1>6, <1>7, <1>8, <1>9 DEF Begin

\* The row that is saved is alone, and so are the others still.
LEMMA SaveAddressed ==
    ASSUME Inv, Addressed, NEW a \in Admins, SaveClient(a)
    PROVE  Addressed'
  <1> SUFFICES ASSUME apart PROVE Addressed'
    BY DEF SaveClient, History, Addressed
  <1> DEFINE c   == op[a].client
             row == SavedRow(op[a])
             to  == [op[a] EXCEPT !.pc = IF op[a].kind = "AddClient" THEN "enable" ELSE "server",
                                  !.row = row]
  <1>1. a \in Actors /\ Admins \subseteq Actors
    BY DEF Actors
  <1>2. op[a].pc = "save" /\ Go(a, to) /\ rows' = [rows EXCEPT ![c] = row]
    BY DEF SaveClient
  <1>3. c \in Clients /\ op[a].row \in Row /\ op[a] \in Op
    BY <1>1, <1>2, OpType DEF Ready, WithClient, WithRow
  <1>4. row \in Row /\ row.addr = op[a].row.addr /\ row.addr6 = op[a].row.addr6
    BY <1>3 DEF SavedRow, Row
  <1>5. Alone(c, row)
    BY <1>2, <1>4 DEF Addressed, Alone
  <1>6. to.pc \notin {"old", "save"}
    BY <1>3 DEF Op
  <1>7. \A b \in Admins : op[b].pc \in {"old", "save"} => b = a
    BY <1>2 DEF Addressed, Busy
  <1>8. \A b \in Actors : op'[b] = IF b = a THEN to ELSE op[b]
    BY <1>1, <1>2 DEF Go, Inv, TypeOK
  <1> HIDE DEF c, row, to
  <1>9. \A b \in Admins : op'[b].pc \notin {"old", "save"}
    BY <1>1, <1>6, <1>7, <1>8
  <1>10. \A b, d \in Admins : Busy(b)' /\ Busy(d)' => b = d
    BY <1>1, <1>2, <1>8 DEF Addressed, Busy
  <1>11. row # None
    BY <1>4, NoneIsNothing
  <1>12. \A d \in Clients : rows'[d] = IF d = c THEN row ELSE rows[d]
    BY <1>2 DEF Inv, TypeOK
  <1>13. \A d \in Clients : d \in Present' <=> d = c \/ d \in Present
    BY <1>11, <1>12 DEF Present
  <1>14. ASSUME NEW d \in Present' PROVE Alone(d, rows[d])'
    <2>1. d \in Clients
      BY <1>14 DEF Present
    <2>2. CASE d = c
      <3>1. \A e \in Present' \ {c} : e \in Present /\ rows'[e] = rows[e]
        BY <1>12, <1>13 DEF Present
      <3> QED BY <1>3, <1>5, <1>12, <2>2, <3>1 DEF Alone, c
    <2>3. CASE d # c
      <3>1. d \in Present /\ rows'[d] = rows[d] /\ Alone(d, rows[d])
        BY <1>12, <1>13, <1>14, <2>1, <2>3 DEF Addressed
      <3>2. ASSUME NEW e \in Present' \ {d}
            PROVE  rows[d].addr # rows'[e].addr /\ (rows[d].addr6 # None => rows[d].addr6 # rows'[e].addr6)
        <4>1. CASE e = c
          BY <1>3, <1>5, <1>12, <2>3, <3>1, <4>1 DEF Alone, c
        <4>2. CASE e # c
          <5>1. e \in Present /\ rows'[e] = rows[e]
            BY <1>12, <1>13, <4>2 DEF Present
          <5> QED BY <3>1, <5>1 DEF Alone
        <4> QED BY <4>1, <4>2
      <3> QED BY <3>1, <3>2 DEF Alone
    <2> QED BY <2>2, <2>3
  <1> QED BY <1>9, <1>10, <1>14 DEF Addressed

LEMMA HandleAddressed ==
    ASSUME Inv, Addressed, NEW a \in Admins, Handle(a)
    PROVE  Addressed'
  <1> USE DEF Tables, About
  <1>1. CASE SaveClient(a)
    BY <1>1, SaveAddressed
  <1>2. CASE ~SaveClient(a)
    <2>o. a \in Actors /\ op[a] \in Op
      BY OpType DEF Actors
    <2>1. Busy(a)
      BY DEF Handle, ReadOld, SaveClient, AutoEnable, ReadServer, FindClient, DeleteRow, SaveServer,
             InterfaceDown, DeleteRows, DisableServer, Busy
    <2>2. apart' = apart
      <3>1. CASE InterfaceDown(a)
        BY <3>1 DEF InterfaceDown, History, Fault
      <3> QED BY <3>1, <1>2 DEF Handle, ReadOld, AutoEnable, ReadServer, FindClient, DeleteRow,
                                SaveServer, DeleteRows, DisableServer, History
    <2>3. \A c \in Clients : rows'[c] # None =>
            /\ rows[c] # None
            /\ rows'[c].addr = rows[c].addr /\ rows'[c].addr6 = rows[c].addr6
      <3>1. CASE rows' = rows
        BY <3>1
      <3>2. CASE DeleteRow(a)
        BY <3>2 DEF DeleteRow, Inv, TypeOK
      <3>3. CASE DeleteRows(a)
        BY <3>3 DEF DeleteRows
      <3> QED BY <3>1, <3>2, <3>3, <1>2 DEF Handle, ReadOld, AutoEnable, ReadServer, FindClient,
                                            SaveServer, InterfaceDown, DisableServer
    <2>4. \A o : GoOn(o).pc \notin About
      BY DEF GoOn, Idle
    <2>5. Idle.pc \notin About
      BY DEF Idle
    <2>6. \A pc \in {"look", "down", "list", "clear", "disable server"} :
            [op[a] EXCEPT !.pc = pc].pc \notin About
      BY <2>o DEF Op
    <2>7. ASSUME NEW to, Go(a, to), to.pc \notin About PROVE Addressed'
      BY <2>o, <2>1, <2>2, <2>3, <2>7, Elsewhere
    <2>8. CASE ReadOld(a)
      <3> DEFINE to == [op[a] EXCEPT !.pc = "save", !.old = rows[op[a].client]]
      <3>1. Go(a, to) /\ op[a].pc = "old"
        BY <2>8 DEF ReadOld
      <3>2. to.client = op[a].client /\ to.row = op[a].row
        BY <2>o DEF Op
      <3> QED BY <2>o, <2>1, <2>2, <2>3, <3>1, <3>2, Elsewhere
    <2>9. CASE AutoEnable(a)
      BY <2>6, <2>7, <2>9 DEF AutoEnable
    <2>10. CASE ReadServer(a)
      <3> DEFINE to == [op[a] EXCEPT !.pc = "look", !.server = server]
      <3>1. to.pc \notin About
        BY <2>o DEF Op
      <3> QED BY <2>5, <2>7, <2>10, <3>1 DEF ReadServer
    <2>11. CASE FindClient(a)
      <3>1. PICK c \in op[a].found :
              Go(a, IF rows[c] = None THEN GoOn([op[a] EXCEPT !.found = @ \ {c}])
                    ELSE [op[a] EXCEPT !.pc = "delete", !.client = c, !.old = rows[c],
                                       !.server = server, !.found = @ \ {c}])
        BY <2>11 DEF FindClient
      <3>2. [op[a] EXCEPT !.pc = "delete", !.client = c, !.old = rows[c],
                          !.server = server, !.found = @ \ {c}].pc \notin About
        BY <2>o DEF Op
      <3> QED BY <2>4, <2>7, <3>1, <3>2
    <2>12. CASE DeleteRow(a)
      BY <2>4, <2>6, <2>7, <2>12 DEF DeleteRow
    <2>13. CASE SaveServer(a)
      BY <2>5, <2>6, <2>7, <2>13 DEF SaveServer
    <2>14. CASE InterfaceDown(a)
      <3>1. \/ Go(a, Idle)
            \/ Go(a, [op[a] EXCEPT !.pc = "list"])
            \/ Go(a, [op[a] EXCEPT !.pc = "clear"])
        BY <2>14, Zenon DEF InterfaceDown
      <3> QED BY <2>5, <2>6, <2>7, <3>1
    <2>15. CASE DeleteRows(a)
      BY <2>6, <2>7, <2>15 DEF DeleteRows
    <2>16. CASE DisableServer(a)
      BY <2>5, <2>7, <2>16 DEF DisableServer
    <2> QED BY <1>2, <2>8, <2>9, <2>10, <2>11, <2>12, <2>13, <2>14, <2>15, <2>16 DEF Handle
  <1> QED BY <1>1, <1>2

\* The job and the start of the panel write no address, and a restart ends what was
\* under way.
LEMMA OthersAddressed ==
    ASSUME Inv, Addressed,
           JobStart \/ JobFlags \/ StartIfEnabled \/ PanelRestarts \/ HostRestarts
    PROVE  Addressed'
  <1> USE DEF Tables, About
  <1>1. apart' = apart
    BY DEF JobStart, JobFlags, StartIfEnabled, PanelRestarts, HostRestarts, History
  <1>2. \A c \in Clients : rows'[c] # None =>
          /\ rows[c] # None
          /\ rows'[c].addr = rows[c].addr /\ rows'[c].addr6 = rows[c].addr6
    <2>1. CASE JobFlags
      <3>1. PICK cs \in SUBSET {c \in Present : rows[c].limits} : rows' = Flipped(cs)
        BY <2>1 DEF JobFlags
      <3> QED BY <3>1, FlippedKeeps
    <2> QED BY <2>1 DEF JobStart, StartIfEnabled, PanelRestarts, HostRestarts
  <1>3. \A a \in Admins : op'[a] = op[a] \/ op'[a] = Idle
    <2>1. \A a \in Admins : a \in Actors /\ a # Job /\ a # Boot
      BY ConstantsAssumption DEF ConstantsAssumption, Actors
    <2>2. CASE JobStart \/ JobFlags \/ StartIfEnabled
      BY <2>1, <2>2 DEF JobStart, JobFlags, StartIfEnabled, Go, Inv, TypeOK
    <2>3. CASE PanelRestarts \/ HostRestarts
      BY <2>1, <2>3 DEF PanelRestarts, HostRestarts, Starting
    <2> QED BY <2>2, <2>3
  <1>4. Leaves
    BY <1>1, <1>2, <1>3 DEF Leaves, Present, Busy, Idle
  <1> QED BY <1>4, LeavesAddressed

LEMMA InitAddressed == Init => Addressed
  <1> SUFFICES ASSUME Init PROVE Addressed
    OBVIOUS
  <1>1. Present = {}
    BY DEF Init, Present
  <1>2. \A a \in Admins : op[a].pc = "free"
    BY ConstantsAssumption DEF Init, Starting, Idle, Actors, ConstantsAssumption
  <1> QED BY <1>1, <1>2 DEF Addressed, Busy

LEMMA NextAddressed == Inv /\ Addressed /\ [Next]_vars => Addressed'
  <1> SUFFICES ASSUME Inv, Addressed, [Next]_vars PROVE Addressed'
    OBVIOUS
  <1>1. CASE UNCHANGED vars
    <2>1. Leaves
      BY <1>1 DEF vars, Leaves, Present, Busy, About
    <2> QED BY <2>1, LeavesAddressed
  <1>2. ASSUME NEW a \in Actors, Apply(a) PROVE Addressed'
    BY <1>2, ApplyAddressed
  <1>3. ASSUME NEW a \in Admins, Begin(a) \/ Handle(a) PROVE Addressed'
    BY <1>3, BeginAddressed, HandleAddressed
  <1> QED BY <1>1, <1>2, <1>3, OthersAddressed DEF Next

\* Clients have addresses of their own, which are not the server's, if requests never
\* overlapped.
THEOREM AddressesAreOwn == Spec => []OwnAddresses
  <1>1. Addressed => OwnAddresses
    BY DEF Addressed, Alone, OwnAddresses
  <1> QED BY <1>1, InitAddressed, NextAddressed, AllInv, PTL DEF Spec

-------------------------------------------------------------------------------
(* The firewall.                                                           *)

\* Calm, seen from the one actor that may be at work.
Settled(a) ==
  /\ ~up => Once({})
  /\ up => conf # None
  /\ IF Busy(a) THEN Settling(a) ELSE Rested

Others(a) == \A b \in Actors \ {a} : ~Busy(b)

LEMMA CalmBusy ==
    ASSUME Calm, smooth, told, NEW a \in Actors, Busy(a)
    PROVE  Settled(a) /\ Others(a)
  BY DEF Calm, Settled, Others

LEMMA CalmQuiet ==
    ASSUME Calm, smooth, told, NEW a \in Actors, Quiet
    PROVE  Settled(a) /\ Others(a)
  BY DEF Calm, Settled, Others, Quiet

LEMMA CalmStep ==
    ASSUME NEW a \in Actors, smooth' /\ told' => Settled(a)' /\ Others(a)'
    PROVE  Calm'
  BY DEF Calm, Settled, Others, Quiet

LEMMA Moved ==
    ASSUME Inv, NEW a \in Actors, NEW to, Go(a, to)
    PROVE  /\ op'[a] = to
           /\ Others(a) => Others(a)'
  BY DEF Inv, TypeOK, Go, Others, Busy

\* A step of the only actor at work.
LEMMA CalmMove ==
    ASSUME Inv, Calm, NEW a \in Actors, Busy(a), NEW to, Go(a, to),
           smooth' /\ told' => smooth /\ told,
           Settled(a) /\ smooth' /\ told' => Settled(a)'
    PROVE  Calm'
  BY CalmBusy, Moved, CalmStep

LEMMA WantedRules ==
    ASSUME Inv
    PROVE  /\ Wanted \in SUBSET Rule
           /\ \A r \in Rule : r \in Wanted
                                <=> r \in RuleFor(r.client, rows[r.client], server.ext)
  <1>1. rows \in [Clients -> Row \cup {None}] /\ server.ext \in Exts
    BY DEF Inv, TypeOK, Server
  <1> QED BY <1>1, RulesOfType DEF Wanted, Rule

LEMMA WantedRulesNext ==
    ASSUME Inv'
    PROVE  /\ Wanted' \in SUBSET Rule
           /\ \A r \in Rule : r \in Wanted'
                                <=> r \in RuleFor(r.client, rows'[r.client], server'.ext)
  <1>1. rows' \in [Clients -> Row \cup {None}] /\ server'.ext \in Exts
    BY DEF Inv, TypeOK, Server
  <1> QED BY <1>1, RulesOfType DEF Wanted

LEMMA SameWanted ==
    ASSUME rows' = rows, server'.ext = server.ext
    PROVE  Wanted' = Wanted
  BY DEF Wanted

LEMMA GoOnCalm ==
    ASSUME NEW a \in Actors, NEW o, op'[a] = GoOn(o),
           Rested', ~up' => Once({})', up' => conf' # None
    PROVE  Settled(a)'
  <1>1. op'[a].pc = "free" \/ (op'[a].pc = "find" /\ op'[a].row = None)
    BY DEF GoOn, Idle
  <1> QED BY <1>1 DEF Settled, Settling, Busy

LEMMA SeeIfUpCalm ==
    ASSUME Inv, Inv', NEW a \in Actors, Busy(a), Settled(a), SeeIfUp(a)
    PROVE  Settled(a)'
  <1> DEFINE to == [op[a] EXCEPT !.pc = "list", !.wasUp = up]
  <1>1. op[a].pc = "look" /\ op'[a] = to
    BY Moved DEF SeeIfUp
  <1>2. UNCHANGED <<server, rows, conf, up, rules>>
    BY DEF SeeIfUp, Tables, System
  <1>3. op[a] \in Op /\ op[a].client \in Clients
    BY <1>1, OpType DEF Ready, WithClient
  <1>4. /\ to.pc = "list" /\ to.wasUp = up /\ to.client = op[a].client /\ to.row = op[a].row
        /\ to.old = op[a].old /\ to.server = op[a].server
    BY <1>3 DEF Op
  <1> HIDE DEF to
  <1>5. Wanted' = Wanted
    BY <1>2, SameWanted
  <1>6. op[a].client # None
    BY <1>3, NoneIsNothing
  <1>7. up \in BOOLEAN
    BY DEF Inv, TypeOK
  <1>8. Settling(a)'
    BY <1>1, <1>2, <1>4, <1>5, <1>6, <1>7 DEF Settled, Settling, Owes, Behind, Applies
  <1>9. Busy(a)'
    BY <1>1, <1>4 DEF Busy
  <1> QED BY <1>2, <1>8, <1>9 DEF Settled, Once

LEMMA ListClientsCalm ==
    ASSUME Inv, Inv', NEW a \in Actors, Busy(a), Settled(a), ListClients(a)
    PROVE  Settled(a)'
  <1> DEFINE config == [forwards |-> RulesOf(rows, op[a].server.ext)]
             to     == [op[a] EXCEPT !.pc = "write", !.config = config]
  <1>1. op[a].pc = "list" /\ op'[a] = to
    BY Moved DEF ListClients
  <1>2. UNCHANGED <<server, rows, conf, up, rules>>
    BY DEF ListClients, Tables, System
  <1>3. op[a] \in Op
    BY OpType
  <1>4. /\ to.pc = "write" /\ to.wasUp = op[a].wasUp /\ to.client = op[a].client
        /\ to.row = op[a].row /\ to.old = op[a].old /\ to.server = op[a].server
        /\ to.config = config
    BY <1>3 DEF Op
  <1>5. config.forwards = Wanted
    BY <1>1 DEF Settled, Settling, Applies, Wanted
  <1> HIDE DEF config, to
  <1>6. Wanted' = Wanted
    BY <1>2, SameWanted
  <1>7. Settling(a)'
    BY <1>1, <1>2, <1>4, <1>5, <1>6 DEF Settled, Settling, Owes, Behind, Applies
  <1>8. Busy(a)'
    BY <1>1, <1>4 DEF Busy
  <1> QED BY <1>2, <1>7, <1>8 DEF Settled, Once

LEMMA WriteServerConfigCalm ==
    ASSUME Inv, Inv', NEW a \in Actors, Busy(a), Settled(a), WriteServerConfig(a)
    PROVE  Settled(a)'
  <1> DEFINE to == [op[a] EXCEPT !.pc = IF up THEN "sync" ELSE "up", !.config = None]
  <1>1. op[a].pc = "write" /\ op'[a] = to /\ conf' = op[a].config
    BY Moved DEF WriteServerConfig
  <1>2. UNCHANGED <<server, rows, up, rules>>
    BY DEF WriteServerConfig, Tables
  <1>3. op[a] \in Op /\ op[a].config \in Config
    BY <1>1, OpType DEF Ready
  <1>4. /\ to.pc = (IF up THEN "sync" ELSE "up") /\ to.wasUp = op[a].wasUp
        /\ to.client = op[a].client
        /\ to.row = op[a].row /\ to.old = op[a].old /\ to.server = op[a].server
    BY <1>3 DEF Op
  <1> HIDE DEF to
  <1>5. Wanted' = Wanted
    BY <1>2, SameWanted
  <1>6. conf' # None
    BY <1>1, <1>3, NoneIsNothing
  <1>7. conf'.forwards = Wanted
    BY <1>1 DEF Settled, Settling
  <1>8. Settling(a)'
    BY <1>1, <1>2, <1>4, <1>5, <1>6, <1>7 DEF Settled, Settling, Owes, Behind, Applies
  <1>9. Busy(a)'
    BY <1>1, <1>4 DEF Busy
  <1> QED BY <1>2, <1>6, <1>8, <1>9 DEF Settled, Once

\* Who owes nothing to any client has finished.
LEMMA OwesNothing ==
    ASSUME Inv, NEW o, Owes(o), o.client = None, up
    PROVE  Once(Wanted)
  <1>1. \A r \in Rule : r.client # None
    BY NoneIsNothing DEF Rule
  <1> QED BY <1>1 DEF Owes, Behind, Once

LEMMA SyncCalm ==
    ASSUME Inv, Inv', NEW a \in Actors, Busy(a), Settled(a), Sync(a), smooth'
    PROVE  Settled(a)'
  <1>1. /\ op[a].pc = "sync" /\ Owes(op[a]) /\ Applies(op[a])
        /\ op[a].wasUp = (up /\ op[a].client # None)
        /\ up /\ conf.forwards = Wanted /\ conf # None
    BY DEF Sync, Settled, Settling
  <1>2. AfterApply(a) /\ UNCHANGED <<server, rows, conf, up, rules>>
    BY <1>1 DEF Sync, Fault, Tables
  <1>3. op[a] \in Op
    BY OpType
  <1>4. Wanted' = Wanted
    BY <1>2, SameWanted
  <1>5. CASE op[a].wasUp
    <2> DEFINE to == [op[a] EXCEPT !.pc = "diff"]
    <2>1. op'[a] = to
      BY <1>2, <1>5, Moved DEF AfterApply
    <2>2. /\ to.pc = "diff" /\ to.client = op[a].client
          /\ to.row = op[a].row /\ to.old = op[a].old /\ to.server = op[a].server
      BY <1>3 DEF Op
    <2> HIDE DEF to
    <2>3. Settling(a)'
      BY <1>1, <1>2, <1>4, <2>1, <2>2 DEF Settling, Owes, Behind, Applies
    <2>4. Busy(a)'
      BY <2>1, <2>2 DEF Busy
    <2> QED BY <1>1, <1>2, <2>3, <2>4 DEF Settled
  <1>6. CASE ~op[a].wasUp
    <2>1. op'[a] = GoOn(op[a])
      BY <1>2, <1>6, Moved DEF AfterApply
    <2>2. Once(Wanted)
      BY <1>1, <1>6, OwesNothing
    <2>3. Rested'
      BY <1>1, <1>2, <1>4, <2>2 DEF Rested, Once, Applies
    <2> QED BY <1>1, <1>2, <2>1, <2>3, GoOnCalm
  <1> QED BY <1>5, <1>6

LEMMA BringUpCalm ==
    ASSUME Inv, Inv', NEW a \in Actors, Busy(a), Settled(a), BringUp(a), smooth'
    PROVE  Settled(a)'
  <1>1. /\ op[a].pc = "up" /\ server.enable /\ ~op[a].wasUp
        /\ ~up /\ conf # None /\ conf.forwards = Wanted /\ Once({})
    BY DEF BringUp, Settled, Settling
  <1>2. /\ up' = TRUE /\ rules' = Applied(rules, conf.forwards)
        /\ AfterApply(a) /\ UNCHANGED <<server, rows, conf>>
    BY <1>1 DEF BringUp, Fault, Tables
  <1>3. op'[a] = GoOn(op[a])
    BY <1>1, <1>2, Moved DEF AfterApply
  <1>4. Wanted' = Wanted
    BY <1>2, SameWanted
  <1>5. ASSUME NEW r \in Rule PROVE rules'[r] = IF r \in Wanted' THEN 1 ELSE 0
    <2>1. rules[r] = 0
      BY <1>1 DEF Once
    <2> QED BY <1>1, <1>2, <1>4, <2>1 DEF Applied
  <1>6. Rested'
    BY <1>1, <1>2, <1>4, <1>5 DEF Rested, Once
  <1> QED BY <1>1, <1>2, <1>3, <1>6, GoOnCalm

\* Revoking what the client had and applying what it has leaves what is wanted.
LEMMA ApplyForwardingDiffCalm ==
    ASSUME Inv, Inv', NEW a \in Actors, Busy(a), Settled(a), ApplyForwardingDiff(a), smooth'
    PROVE  Settled(a)'
  <1> DEFINE o == op[a]
  <1>1. /\ o.pc = "diff" /\ Owes(o) /\ Applies(o) /\ up /\ conf # None
        /\ conf.forwards = Wanted
    BY DEF ApplyForwardingDiff, Settled, Settling
  <1>2. /\ rules' = Diff(o) /\ UNCHANGED <<server, rows, conf, up>>
        /\ op'[a] = GoOn(o)
    BY Moved DEF ApplyForwardingDiff, Fault, Tables
  <1>3. o \in Op /\ o.client \in Clients
    BY <1>1, OpType DEF Ready, WithClient
  <1>4. o.row = rows[o.client] /\ o.server.ext = server.ext
    BY <1>1, <1>3, NoneIsNothing DEF Owes, Applies
  <1>5. Wanted' = Wanted
    BY <1>2, SameWanted
  <1> DEFINE had == RuleFor(o.client, o.old, server.ext)
             has == RuleFor(o.client, o.row, server.ext)
  <1>6. /\ \A r \in had : r.client = o.client
        /\ \A r \in has : r.client = o.client
    <2>1. server.ext \in Exts /\ o.old \in Row \cup {None} /\ o.row \in Row \cup {None}
      BY <1>3 DEF Inv, TypeOK, Server, Op
    <2> QED BY <1>3, <2>1, RuleForType
  <1>7. rules' = Applied(Revoked(rules, had), has)
    BY <1>2, <1>4 DEF Diff
  <1>8. \A r \in Rule : rules[r] = IF r \in (IF r.client = o.client THEN had ELSE Wanted)
                                  THEN 1 ELSE 0
    BY <1>1 DEF Owes, Behind
  <1>9. \A r \in Rule : r \in Wanted <=> r \in RuleFor(r.client, rows[r.client], server.ext)
    BY WantedRules
  <1>10. \A r \in Rule : r.client = o.client => (r \in Wanted <=> r \in has)
    BY <1>4, <1>9
  <1> HIDE DEF o, had, has
  <1>11. ASSUME NEW r \in Rule PROVE rules'[r] = IF r \in Wanted THEN 1 ELSE 0
    <2>1. rules'[r] = IF r \in has THEN Revoked(rules, had)[r] + 1 ELSE Revoked(rules, had)[r]
      BY <1>7 DEF Applied
    <2>2. Revoked(rules, had)[r] = IF r \in had /\ rules[r] > 0 THEN rules[r] - 1 ELSE rules[r]
      BY DEF Revoked
    <2>3. CASE r.client = o.client
      <3>1. rules[r] = IF r \in had THEN 1 ELSE 0
        BY <1>8, <2>3
      <3>2. Revoked(rules, had)[r] = 0
        BY <2>2, <3>1
      <3> QED BY <1>10, <2>1, <2>3, <3>2
    <2>4. CASE r.client # o.client
      BY <1>6, <1>8, <2>1, <2>2, <2>4
    <2> QED BY <2>3, <2>4
  <1>12. Rested'
    BY <1>1, <1>2, <1>5, <1>11 DEF Rested, Once, Applies
  <1> QED BY <1>1, <1>2, <1>12, GoOnCalm

LEMMA ApplyCalm ==
    ASSUME Inv, Inv', Calm, NEW a \in Actors, Apply(a)
    PROVE  Calm'
  <1>1. Busy(a)
    BY DEF Apply, SeeIfUp, ListClients, WriteServerConfig, Sync, BringUp, ApplyForwardingDiff, Busy
  <1>2. UNCHANGED History \/ Fault
    <2>1. CASE Sync(a)
      BY <2>1 DEF Sync
    <2> QED BY <2>1 DEF Apply, SeeIfUp, ListClients, WriteServerConfig, BringUp, ApplyForwardingDiff
  <1>3. smooth' /\ told' => smooth /\ told
    BY <1>2 DEF History, Fault
  <1>4. Settled(a) /\ smooth' => Settled(a)'
    BY <1>1, SeeIfUpCalm, ListClientsCalm, WriteServerConfigCalm, SyncCalm, BringUpCalm,
       ApplyForwardingDiffCalm DEF Apply
  <1>5. AfterApply(a) => \E to : Go(a, to)
    BY DEF AfterApply
  <1>6. \E to : Go(a, to)
    BY <1>5 DEF Apply, SeeIfUp, ListClients, WriteServerConfig, Sync, BringUp, ApplyForwardingDiff
  <1> QED BY <1>1, <1>3, <1>4, <1>6, CalmMove

LEMMA RestedStays ==
    ASSUME Rested, Wanted' = Wanted, server'.enable = server.enable,
           conf' = conf, up' = up, rules' = rules
    PROVE  Rested'
  BY DEF Rested, Once

\* A request that begins while nothing else is under way.
LEMMA RequestCalm ==
    ASSUME Inv, Calm, NEW a \in Admins, NEW kind, NEW to, Request(a, kind, to),
           to.pc # "free",
           Rested /\ op'[a] = to /\ conf' = conf /\ up' = up /\ rules' = rules => Settling(a)'
    PROVE  Calm'
  <1> SUFFICES ASSUME smooth', told' PROVE Settled(a)' /\ Others(a)'
    BY CalmStep DEF Actors
  <1>1. a \in Actors
    BY DEF Actors
  <1>2. smooth /\ Quiet /\ told /\ conf' = conf /\ up' = up /\ rules' = rules /\ Go(a, to)
    BY DEF Request, System
  <1>3. Settled(a) /\ Others(a)
    BY <1>1, <1>2, CalmQuiet
  <1>4. ~Busy(a)
    BY <1>1, <1>2 DEF Quiet
  <1>5. op'[a] = to /\ Others(a)'
    BY <1>1, <1>2, <1>3, Moved
  <1>6. Rested
    BY <1>3, <1>4 DEF Settled
  <1>7. Busy(a)'
    BY <1>5 DEF Busy
  <1> QED BY <1>2, <1>3, <1>5, <1>6, <1>7 DEF Settled, Once

\* Flags of clients that forward no port do not matter to the firewall.
LEMMA SilentKeeps ==
    ASSUME Inv, Inv', NEW cs \in SUBSET Present, Silent(cs), rows' = Flipped(cs), server' = server
    PROVE  Wanted' = Wanted
  <1>1. ASSUME NEW r \in Rule PROVE r \in Wanted' <=> r \in Wanted
    <2>1. r.client \in Clients
      BY DEF Rule
    <2>2. /\ r \in Wanted <=> r \in RuleFor(r.client, rows[r.client], server.ext)
          /\ r \in Wanted' <=> r \in RuleFor(r.client, rows'[r.client], server.ext)
      BY WantedRules, WantedRulesNext
    <2>3. CASE r.client \in cs
      <3>1. rows[r.client] \in Row /\ rows[r.client].ports = None
        BY <2>1, <2>3 DEF Inv, TypeOK, Present, Silent
      <3>2. rows'[r.client].ports = None
        BY <2>1, <2>3, <3>1 DEF Flipped, Row
      <3> QED BY <2>2, <3>1, <3>2 DEF RuleFor
    <2>4. CASE r.client \notin cs
      BY <2>1, <2>2, <2>4 DEF Flipped
    <2> QED BY <2>3, <2>4
  <1>2. Wanted \in SUBSET Rule /\ Wanted' \in SUBSET Rule
    BY WantedRules, WantedRulesNext
  <1> QED BY <1>1, <1>2

LEMMA BeginCalm ==
    ASSUME Inv, Inv', Calm, NEW a \in Admins, Begin(a)
    PROVE  Calm'
  <1> USE DEF Tables
  <1>1. a \in Actors
    BY DEF Actors
  <1>2. ASSUME NEW c \in Clients, NEW f \in Forms, BeginAddClient(a, c, f) PROVE Calm'
    <2> DEFINE row == NewRow(f)
               to  == [At("AddClient", "save") EXCEPT !.client = c, !.row = row,
                                                      !.server = server]
    <2>1. /\ to.pc = "save" /\ to.client = c /\ to.old = None /\ to.server = server
      BY DEF At, Idle
    <2>2. Request(a, "AddClient", to) /\ rows' = rows /\ server' = server /\ rows[c] = None
      BY <1>2 DEF BeginAddClient, Known
    <2> HIDE DEF row, to
    <2>3. Wanted' = Wanted
      BY <2>2, SameWanted
    <2>4. ASSUME Rested, op'[a] = to, conf' = conf, up' = up, rules' = rules PROVE Settling(a)'
      <3>1. Rested'
        BY <2>1, <2>2, <2>3, <2>4, RestedStays
      <3> QED BY <2>1, <2>2, <2>3, <2>4, <3>1 DEF Settling
    <2> QED BY <2>1, <2>2, <2>4, RequestCalm
  <1>3. ASSUME NEW c \in Clients, NEW f \in Forms, BeginUpdateClient(a, c, f) PROVE Calm'
    <2>1. PICK kind \in {"ToggleClient", "UpdateClient"} :
            /\ Request(a, kind, [At(kind, "old") EXCEPT
                                   !.client = c, !.row = RowToSave(kind, rows[c], f)])
            /\ rows' = rows /\ server' = server
      BY <1>3 DEF BeginUpdateClient
    <2> DEFINE row == RowToSave(kind, rows[c], f)
               to  == [At(kind, "old") EXCEPT !.client = c, !.row = row]
    <2>2. to.pc = "old" /\ Request(a, kind, to)
      BY <2>1 DEF At, Idle
    <2> HIDE DEF row, to
    <2>3. Wanted' = Wanted
      BY <2>1, SameWanted
    <2>4. ASSUME Rested, op'[a] = to, conf' = conf, up' = up, rules' = rules PROVE Settling(a)'
      <3>1. Rested'
        BY <2>1, <2>2, <2>3, <2>4, RestedStays
      <3> QED BY <2>1, <2>2, <2>3, <2>4, <3>1 DEF Settling
    <2> QED BY <2>2, <2>4, RequestCalm
  <1>4. ASSUME NEW kind, NEW to, Request(a, kind, to), rows' = rows, server' = server,
               to.pc = "find", to.row = None
        PROVE  Calm'
    <2>1. Wanted' = Wanted
      BY <1>4, SameWanted
    <2>2. ASSUME Rested, op'[a] = to, conf' = conf, up' = up, rules' = rules PROVE Settling(a)'
      <3>1. Rested'
        BY <1>4, <2>1, <2>2, RestedStays
      <3> QED BY <1>4, <2>1, <2>2, <3>1 DEF Settling
    <2> QED BY <1>4, <2>2, RequestCalm
  <1>5. ASSUME NEW c \in Clients, BeginDeleteClient(a, c) PROVE Calm'
    <2> DEFINE to == [At("DeleteClient", "find") EXCEPT !.found = {c}]
    <2>1. Request(a, "DeleteClient", to) /\ rows' = rows /\ server' = server
      BY <1>5 DEF BeginDeleteClient
    <2>2. to.pc = "find" /\ to.row = None
      BY DEF At, Idle
    <2> QED BY <1>4, <2>1, <2>2
  <1>6. CASE BeginDelDepleted(a)
    <2>1. PICK found :
            /\ Request(a, "DelDepleted", [At("DelDepleted", "find") EXCEPT !.found = found])
            /\ rows' = rows /\ server' = server
      BY <1>6 DEF BeginDelDepleted
    <2> DEFINE to == [At("DelDepleted", "find") EXCEPT !.found = found]
    <2>2. to.pc = "find" /\ to.row = None
      BY DEF At, Idle
    <2> QED BY <1>4, <2>1, <2>2
  <1>7. CASE ResetAllClientTraffics(a)
    <2> SUFFICES ASSUME smooth', told' PROVE Settled(a)' /\ Others(a)'
      BY <1>1, CalmStep
    <2>1. PICK cs \in SUBSET {c \in Present : rows[c].limits /\ ~rows[c].enable} :
            /\ rows' = Flipped(cs) /\ server' = server /\ op' = op
            /\ conf' = conf /\ up' = up /\ rules' = rules
            /\ smooth /\ Quiet /\ told /\ Silent(cs)
      BY <1>7 DEF ResetAllClientTraffics, System
    <2>2. Settled(a) /\ Others(a) /\ ~Busy(a)
      BY <1>1, <2>1, CalmQuiet DEF Quiet
    <2>3. Wanted' = Wanted
      BY <2>1, SilentKeeps
    <2> QED BY <2>1, <2>2, <2>3 DEF Settled, Others, Busy, Rested, Once
  <1>8. CASE BeginClear(a)
    <2>1. PICK kind \in {"DeleteAll", "ResetToDefaults"} :
            /\ Request(a, kind, [At(kind, IF server.enable THEN "down" ELSE "clear") EXCEPT
                                   !.server = server])
            /\ rows' = rows /\ server' = server
      BY <1>8 DEF BeginClear
    <2> DEFINE to == [At(kind, IF server.enable THEN "down" ELSE "clear") EXCEPT
                        !.server = server]
    <2>2. to.pc = (IF server.enable THEN "down" ELSE "clear") /\ to.kind = kind
      BY DEF At, Idle
    <2>3. Request(a, kind, to)
      BY <2>1
    <2> HIDE DEF to
    <2>4. Wanted' = Wanted
      BY <2>1, SameWanted
    <2>5. ASSUME Rested, op'[a] = to, conf' = conf, up' = up, rules' = rules PROVE Settling(a)'
      <3>1. up => server.enable /\ Once(conf.forwards)
        BY <2>5 DEF Rested
      <3>2. up' => Once(conf.forwards)'
        BY <3>1, <2>5 DEF Once
      <3>3. CASE server.enable
        <4>1. op'[a].pc = "down" /\ op'[a].kind # "SaveServer"
          BY <2>1, <2>2, <2>5, <3>3
        <4> QED BY <3>2, <4>1 DEF Settling
      <3>4. CASE ~server.enable
        <4>1. op'[a].pc = "clear"
          BY <2>2, <2>5, <3>4
        <4>2. ~up'
          BY <2>5, <3>1, <3>4
        <4> QED BY <4>1, <4>2 DEF Settling
      <3> QED BY <3>3, <3>4
    <2>6. to.pc # "free"
      BY <2>2
    <2> QED BY <2>3, <2>5, <2>6, RequestCalm
  <1>9. ASSUME NEW enable \in BOOLEAN, ToggleServer(a, enable) PROVE Calm'
    <2> DEFINE s  == [server EXCEPT !.enable = enable]
               to == [At("ToggleServer", IF enable THEN "list" ELSE "down") EXCEPT !.server = s]
    <2>1. Request(a, "ToggleServer", to) /\ rows' = rows /\ server' = s
      BY <1>9 DEF ToggleServer
    <2>2. s.enable = enable /\ s.ext = server.ext
      BY DEF Inv, TypeOK, Server
    <2> HIDE DEF s
    <2>3. /\ to.pc = (IF enable THEN "list" ELSE "down") /\ to.kind = "ToggleServer"
          /\ to.client = None /\ to.wasUp = FALSE /\ to.server = s
      BY DEF At, Idle
    <2> HIDE DEF to
    <2>4. Wanted' = Wanted
      BY <2>1, <2>2, SameWanted
    <2>5. \A r \in Rule : r.client # None
      BY NoneIsNothing DEF Rule
    <2>6. ASSUME Rested, op'[a] = to, conf' = conf, up' = up, rules' = rules PROVE Settling(a)'
      <3>1. up => conf.forwards = Wanted /\ Once(Wanted)
        BY <2>6 DEF Rested
      <3>2. CASE enable
        <4>1. Owes(op[a])'
          BY <2>1, <2>2, <2>3, <2>4, <2>5, <3>1, <2>6 DEF Owes, Behind, Once
        <4>2. Applies(op[a])'
          BY <2>1, <2>2, <2>3, <2>4, <2>5, <3>2, <2>6 DEF Applies
        <4>3. op'[a].pc = "list" /\ op'[a].wasUp = (up' /\ op'[a].client # None)
          BY <2>3, <3>2, <2>6
        <4> QED BY <4>1, <4>2, <4>3 DEF Settling
      <3>3. CASE ~enable
        <4>1. op'[a].pc = "down" /\ op'[a].kind = "ToggleServer"
          BY <2>3, <3>3, <2>6
        <4>2. up' => Once(conf.forwards)'
          BY <3>1, <2>6 DEF Once
        <4> QED BY <4>1, <4>2 DEF Settling
      <3> QED BY <3>2, <3>3
    <2>7. to.pc # "free"
      BY <2>3
    <2> QED BY <2>1, <2>6, <2>7, RequestCalm
  <1>10. ASSUME NEW ext \in Exts, NEW dirty \in BOOLEAN, BeginSaveServer(a, ext, dirty)
         PROVE  Calm'
    <2> DEFINE s  == [server EXCEPT !.ext = ext]
               to == [At("SaveServer", "save server") EXCEPT !.server = s, !.dirty = dirty]
    <2>1. Request(a, "SaveServer", to) /\ rows' = rows /\ server' = server
      BY <1>10 DEF BeginSaveServer
    <2>2. s.enable = server.enable
      BY DEF Inv, TypeOK, Server
    <2> HIDE DEF s
    <2>3. /\ to.pc = "save server" /\ to.server = s /\ to.client = None /\ ~to.wasUp
      BY DEF At, Idle
    <2> HIDE DEF to
    <2>4. Wanted' = Wanted
      BY <2>1, SameWanted
    <2>5. ASSUME Rested, op'[a] = to, conf' = conf, up' = up, rules' = rules PROVE Settling(a)'
      <3>1. Rested'
        BY <2>1, <2>2, <2>3, <2>4, <2>5, RestedStays
      <3> QED BY <2>1, <2>2, <2>3, <2>4, <2>5, <3>1 DEF Settling
    <2> QED BY <2>1, <2>3, <2>5, RequestCalm
  <1> QED BY <1>2, <1>3, <1>5, <1>6, <1>7, <1>8, <1>9, <1>10 DEF Begin

\* While the row of one client changes, the firewall has the rules of the old one.
LEMMA RowChanged ==
    ASSUME Inv, Inv', Rested, NEW c \in Clients, NEW x, rows' = [rows EXCEPT ![c] = x],
           server' = server, conf' = conf, up' = up, rules' = rules,
           NEW a \in Actors, op'[a].client = c, op'[a].old = rows[c], op'[a].row = rows'[c]
    PROVE  Owes(op[a])'
  <1>1. \A d \in Clients : d # c => rows'[d] = rows[d]
    BY DEF Inv, TypeOK
  <1>2. ASSUME up', NEW r \in Rule
        PROVE  rules'[r] = IF r \in (IF r.client = c THEN RuleFor(c, rows[c], server.ext)
                                    ELSE Wanted')
                           THEN 1 ELSE 0
    <2>1. rules[r] = IF r \in Wanted THEN 1 ELSE 0
      BY <1>2 DEF Rested, Once
    <2>2. /\ r \in Wanted <=> r \in RuleFor(r.client, rows[r.client], server.ext)
          /\ r \in Wanted' <=> r \in RuleFor(r.client, rows'[r.client], server.ext)
          /\ r.client \in Clients
      BY WantedRules, WantedRulesNext DEF Rule
    <2> QED BY <1>1, <2>1, <2>2
  <1> QED BY <1>2 DEF Owes, Behind

LEMMA ReadOldCalm ==
    ASSUME Inv, Inv', NEW a \in Actors, Busy(a), Settled(a), ReadOld(a)
    PROVE  Settled(a)'
  <1> DEFINE to == [op[a] EXCEPT !.pc = "save", !.old = rows[op[a].client]]
  <1>1. op[a].pc = "old" /\ op'[a] = to /\ UNCHANGED <<server, rows, conf, up, rules>>
    BY Moved DEF ReadOld, Tables, System
  <1>2. op[a] \in Op /\ op[a].kind # "AddClient"
    BY <1>1, OpType DEF Ready
  <1>3. /\ to.pc = "save" /\ to.old = rows[op[a].client] /\ to.client = op[a].client
        /\ to.kind = op[a].kind
    BY <1>2 DEF Op
  <1> HIDE DEF to
  <1>4. Rested
    BY <1>1 DEF Settled, Settling
  <1>5. Rested'
    BY <1>1, <1>4, SameWanted, RestedStays
  <1>6. Settling(a)'
    BY <1>1, <1>2, <1>3, <1>5 DEF Settling
  <1> QED BY <1>1, <1>3, <1>6 DEF Settled, Once, Busy

LEMMA SaveClientCalm ==
    ASSUME Inv, Inv', NEW a \in Actors, Busy(a), Settled(a), SaveClient(a)
    PROVE  Settled(a)'
  <1> DEFINE c   == op[a].client
             row == SavedRow(op[a])
             to  == [op[a] EXCEPT !.pc = IF op[a].kind = "AddClient" THEN "enable" ELSE "server",
                                  !.row = row]
  <1>1. /\ op[a].pc = "save" /\ op'[a] = to /\ rows' = [rows EXCEPT ![c] = row]
        /\ UNCHANGED <<server, conf, up, rules>>
    BY Moved DEF SaveClient, System
  <1>2. op[a] \in Op /\ c \in Clients
    BY <1>1, OpType DEF Ready, WithClient
  <1>3. /\ to.pc = (IF op[a].kind = "AddClient" THEN "enable" ELSE "server")
        /\ to.old = op[a].old /\ to.client = c /\ to.row = row /\ to.server = op[a].server
    BY <1>2 DEF Op
  <1> HIDE DEF row, to
  <1>4. Rested /\ op[a].old = rows[c] /\ (op[a].kind = "AddClient" => op[a].server = server)
    BY <1>1 DEF Settled, Settling
  <1>5. rows'[c] = row
    BY <1>1, <1>2 DEF Inv, TypeOK
  <1> HIDE DEF c
  <1>6. Owes(op[a])'
    BY <1>1, <1>2, <1>3, <1>4, <1>5, RowChanged
  <1>7. up' => server'.enable
    BY <1>1, <1>4 DEF Rested
  <1>8. Settling(a)'
    BY <1>1, <1>3, <1>4, <1>6, <1>7 DEF Settling
  <1> QED BY <1>1, <1>3, <1>8 DEF Settled, Once, Busy

LEMMA AutoEnableCalm ==
    ASSUME Inv, Inv', NEW a \in Actors, Busy(a), Settled(a), AutoEnable(a)
    PROVE  Settled(a)'
  <1> DEFINE to == [op[a] EXCEPT !.pc = "look"]
  <1>1. /\ op[a].pc = "enable" /\ op'[a] = to /\ UNCHANGED <<rows, conf, up, rules>>
        /\ server' = IF op[a].server.enable THEN server ELSE [server EXCEPT !.enable = TRUE]
    BY Moved DEF AutoEnable, System
  <1>2. op[a] \in Op
    BY OpType
  <1>3. /\ to.pc = "look" /\ to.old = op[a].old /\ to.client = op[a].client
        /\ to.row = op[a].row /\ to.server = op[a].server
    BY <1>2 DEF Op
  <1> HIDE DEF to
  <1>4. Owes(op[a]) /\ op[a].server = server
    BY <1>1 DEF Settled, Settling
  <1>5. server'.enable /\ server'.ext = server.ext
    BY <1>1, <1>4 DEF Inv, TypeOK, Server
  <1>6. Wanted' = Wanted
    BY <1>1, <1>5, SameWanted
  <1>7. Owes(op[a])' /\ Applies(op[a])'
    BY <1>1, <1>3, <1>4, <1>5, <1>6 DEF Owes, Behind, Applies
  <1>8. Settling(a)'
    BY <1>1, <1>3, <1>7 DEF Settling
  <1> QED BY <1>1, <1>3, <1>8 DEF Settled, Once, Busy

LEMMA ReadServerCalm ==
    ASSUME Inv, Inv', NEW a \in Actors, Busy(a), Settled(a), ReadServer(a)
    PROVE  Settled(a)'
  <1> DEFINE to == [op[a] EXCEPT !.pc = "look", !.server = server]
  <1>1. /\ op[a].pc = "server" /\ UNCHANGED <<server, rows, conf, up, rules>>
        /\ op'[a] = IF server.enable THEN to ELSE Idle
    BY Moved DEF ReadServer, Tables, System
  <1>2. op[a] \in Op
    BY OpType
  <1>3. /\ to.pc = "look" /\ to.old = op[a].old /\ to.client = op[a].client
        /\ to.row = op[a].row /\ to.server = server
    BY <1>2 DEF Op
  <1> HIDE DEF to
  <1>4. Owes(op[a]) /\ (up => server.enable)
    BY <1>1 DEF Settled, Settling
  <1>5. Wanted' = Wanted
    BY <1>1, SameWanted
  <1>6. CASE server.enable
    <2>1. Owes(op[a])' /\ Applies(op[a])'
      BY <1>1, <1>3, <1>4, <1>5, <1>6 DEF Owes, Behind, Applies
    <2>2. Settling(a)'
      BY <1>1, <1>3, <1>6, <2>1 DEF Settling
    <2> QED BY <1>1, <1>3, <1>6, <2>2 DEF Settled, Once, Busy
  <1>7. CASE ~server.enable
    <2>1. op'[a].pc = "free" /\ ~up'
      BY <1>1, <1>4, <1>7 DEF Idle
    <2> QED BY <1>1, <2>1 DEF Settled, Once, Busy, Rested
  <1> QED BY <1>6, <1>7

LEMMA FindClientCalm ==
    ASSUME Inv, Inv', NEW a \in Actors, Busy(a), Settled(a), FindClient(a)
    PROVE  Settled(a)'
  <1>1. PICK c \in op[a].found :
          Go(a, IF rows[c] = None THEN GoOn([op[a] EXCEPT !.found = @ \ {c}])
                ELSE [op[a] EXCEPT !.pc = "delete", !.client = c, !.old = rows[c],
                                   !.server = server, !.found = @ \ {c}])
    BY DEF FindClient
  <1> DEFINE rest == [op[a] EXCEPT !.found = @ \ {c}]
             to   == [op[a] EXCEPT !.pc = "delete", !.client = c, !.old = rows[c],
                                   !.server = server, !.found = @ \ {c}]
  <1>2. /\ op[a].pc = "find" /\ UNCHANGED <<server, rows, conf, up, rules>>
        /\ op'[a] = IF rows[c] = None THEN GoOn(rest) ELSE to
    BY <1>1, Moved DEF FindClient, Tables, System
  <1>3. op[a] \in Op
    BY OpType
  <1>4. /\ to.pc = "delete" /\ to.old = rows[c] /\ to.client = c
        /\ to.row = op[a].row /\ to.server = server
    BY <1>3 DEF Op
  <1> HIDE DEF rest, to
  <1>5. Rested /\ op[a].row = None
    BY <1>2 DEF Settled, Settling
  <1>6. Rested'
    BY <1>2, <1>5, SameWanted, RestedStays
  <1>7. (~up' => Once({})') /\ (up' => conf' # None)
    BY <1>2 DEF Settled, Once
  <1>8. CASE rows[c] = None
    BY <1>2, <1>6, <1>7, <1>8, GoOnCalm
  <1>9. CASE rows[c] # None
    <2>1. Settling(a)'
      BY <1>2, <1>4, <1>5, <1>6, <1>9 DEF Settling
    <2> QED BY <1>2, <1>4, <1>7, <1>9, <2>1 DEF Settled, Busy
  <1> QED BY <1>8, <1>9

LEMMA DeleteRowCalm ==
    ASSUME Inv, Inv', NEW a \in Actors, Busy(a), Settled(a), DeleteRow(a)
    PROVE  Settled(a)'
  <1> DEFINE o  == op[a]
             c  == o.client
             to == [o EXCEPT !.pc = "look"]
  <1>1. /\ o.pc = "delete" /\ rows' = [rows EXCEPT ![c] = None]
        /\ UNCHANGED <<server, conf, up, rules>>
        /\ op'[a] = IF o.server.enable THEN to ELSE GoOn(o)
    BY Moved DEF DeleteRow, System
  <1>2. o \in Op /\ c \in Clients
    BY <1>1, OpType DEF Ready, WithClient
  <1>3. /\ to.pc = "look" /\ to.old = o.old /\ to.client = c
        /\ to.row = o.row /\ to.server = o.server
    BY <1>2 DEF Op
  <1>4. Rested /\ o.old = rows[c] /\ o.server = server /\ o.row = None
    BY <1>1 DEF Settled, Settling
  <1>5. rows'[c] = None
    BY <1>1, <1>2 DEF Inv, TypeOK
  <1> HIDE DEF o, c, to
  <1>6. (~up' => Once({})') /\ (up' => conf' # None)
    BY <1>1 DEF Settled, Once
  <1>7. CASE server.enable
    <2>1. op'[a] = to
      BY <1>1, <1>4, <1>7
    <2>2. Owes(op[a])'
      BY <1>1, <1>2, <1>3, <1>4, <1>5, <2>1, RowChanged
    <2>3. Applies(op[a])'
      BY <1>1, <1>3, <1>4, <1>7, <2>1 DEF Applies
    <2>4. Settling(a)'
      BY <1>3, <2>1, <2>2, <2>3 DEF Settling
    <2> QED BY <1>3, <1>6, <2>1, <2>4 DEF Settled, Busy
  <1>8. CASE ~server.enable
    <2>1. op'[a] = GoOn(o) /\ ~up'
      BY <1>1, <1>4, <1>8 DEF Rested
    <2>2. Rested'
      BY <2>1 DEF Rested
    <2> QED BY <1>6, <2>1, <2>2, GoOnCalm
  <1> QED BY <1>7, <1>8

\* Where no rule is wanted, none is wanted on another interface.
LEMMA NoneWanted ==
    ASSUME Inv, Inv', Wanted = {}, rows' = rows
    PROVE  Wanted' = {}
  <1> SUFFICES ASSUME NEW r \in Wanted' PROVE FALSE
    OBVIOUS
  <1>1. r \in Rule /\ r \in RuleFor(r.client, rows[r.client], server'.ext)
    BY WantedRulesNext
  <1>2. rows[r.client] # None /\ rows[r.client].enable /\ rows[r.client].ports # None
    BY <1>1 DEF RuleFor
  <1> DEFINE x == [client |-> r.client, addr |-> rows[r.client].addr,
                   ports |-> rows[r.client].ports, ext |-> server.ext]
  <1>3. x \in RuleFor(r.client, rows[r.client], server.ext)
    BY <1>2 DEF RuleFor
  <1>4. r.client \in Clients
    BY <1>1 DEF Rule
  <1> HIDE DEF x
  <1>5. x \in Wanted
    BY <1>3, <1>4 DEF Wanted, RulesOf
  <1> QED BY <1>5

LEMMA SaveServerCalm ==
    ASSUME Inv, Inv', NEW a \in Actors, Busy(a), Settled(a), SaveServer(a), told'
    PROVE  Settled(a)'
  <1> DEFINE o  == op[a]
             s  == o.server
             to == [o EXCEPT !.pc = IF o.dirty /\ up THEN "down" ELSE "list"]
  <1>1. /\ o.pc = "save server" /\ server' = s
        /\ UNCHANGED <<rows, conf, up, rules>>
        /\ op'[a] = IF ~s.enable THEN Idle ELSE to
        /\ s.ext # server.ext /\ up => o.dirty \/ Wanted = {}
    BY Moved DEF SaveServer, System
  <1>2. o \in Op /\ o.wasUp \in BOOLEAN
    BY OpType DEF Op
  <1>3. /\ to.pc = (IF o.dirty /\ up THEN "down" ELSE "list")
        /\ to.client = o.client /\ to.server = s /\ to.wasUp = o.wasUp
    BY <1>2 DEF Op
  <1>4. Rested /\ o.client = None /\ ~o.wasUp /\ s.enable = server.enable
    BY <1>1 DEF Settled, Settling
  <1> HIDE DEF o, s, to
  <1>5. (~up' => Once({})') /\ (up' => conf' # None)
    BY <1>1 DEF Settled, Once
  <1>6. CASE ~s.enable
    <2>1. op'[a].pc = "free"
      <3>1. op'[a] = Idle
        BY <1>1, <1>6
      <3> QED BY <3>1 DEF Idle
    <2>2. ~up'
      BY <1>1, <1>4, <1>6 DEF Rested
    <2> QED BY <1>5, <2>1, <2>2 DEF Settled, Busy, Rested
  <1>7. CASE s.enable
    <2>1. op'[a] = to /\ Applies(op[a])'
      BY <1>1, <1>3, <1>7 DEF Applies
    <2>2. CASE o.dirty /\ up
      <3>1. up' => Once(conf.forwards)'
        BY <1>1, <1>4 DEF Rested, Once
      <3>2. Settling(a)'
        BY <1>3, <1>4, <2>1, <2>2, <3>1 DEF Settling
      <3> QED BY <1>3, <1>5, <2>1, <2>2, <3>2 DEF Settled, Busy
    <2>3. CASE ~(o.dirty /\ up)
      <3>1. up => Wanted' = Wanted
        <4>1. CASE s.ext = server.ext
          BY <1>1, <4>1, SameWanted
        <4>2. CASE s.ext # server.ext
          BY <1>1, <2>3, <4>2, NoneWanted
        <4> QED BY <4>1, <4>2
      <3>2. \A r \in Rule : r.client # None
        BY NoneIsNothing DEF Rule
      <3>3. Owes(op[a])'
        BY <1>1, <1>3, <1>4, <2>1, <3>1, <3>2 DEF Rested, Once, Owes, Behind
      <3>4. /\ op'[a].pc = "list" /\ op'[a].client = None
            /\ op'[a].wasUp = (up' /\ op'[a].client # None)
        BY <1>2, <1>3, <1>4, <2>1, <2>3
      <3>5. Settling(a)'
        BY <2>1, <3>3, <3>4 DEF Settling
      <3> QED BY <1>5, <3>4, <3>5 DEF Settled, Busy
    <2> QED BY <2>2, <2>3
  <1> QED BY <1>6, <1>7

\* An interface that goes down runs PostDown, which finds each rule of the file once.
LEMMA InterfaceDownCalm ==
    ASSUME Inv, Inv', NEW a \in Actors, Busy(a), Settled(a), InterfaceDown(a), smooth'
    PROVE  Settled(a)'
  <1> DEFINE o == op[a]
  <1>1. /\ o.pc = "down" /\ BringDown /\ UNCHANGED <<server, rows, conf>>
    BY DEF InterfaceDown, Fault, Tables
  <1>2. /\ up => Once(conf.forwards)
        /\ up => conf # None
        /\ ~up => Once({})
        /\ o.kind = "SaveServer" => Applies(o) /\ o.client = None /\ ~o.wasUp
    BY <1>1 DEF Settled, Settling
  <1>3. ~up' /\ Once({})'
    <2>1. CASE up
      <3>1. up' = FALSE /\ rules' \in PostDown(rules, conf.forwards)
        BY <1>1, <1>2, <2>1 DEF BringDown
      <3>2. conf.forwards \in SUBSET Rule
        BY <1>2, <2>1 DEF Inv, TypeOK, Config
      <3>3. \A r \in conf.forwards : rules[r] > 0
        BY <1>2, <2>1, <3>2 DEF Once
      <3>4. rules' = Revoked(rules, conf.forwards)
        BY <3>1, <3>3 DEF PostDown
      <3>5. \A r \in Rule : rules'[r] = 0
        BY <1>2, <2>1, <3>4 DEF Once, Revoked
      <3> QED BY <3>1, <3>5 DEF Once
    <2>2. CASE ~up
      BY <1>1, <1>2, <2>2 DEF BringDown, Once
    <2> QED BY <2>1, <2>2
  <1>4. o \in Op /\ o.wasUp \in BOOLEAN
    BY OpType DEF Op
  <1> DEFINE list  == [o EXCEPT !.pc = "list"]
             clear == [o EXCEPT !.pc = "clear"]
  <1>5. Go(a, CASE o.kind = "ToggleServer" -> Idle
                [] o.kind = "SaveServer" -> list
                [] OTHER -> clear)
    BY DEF InterfaceDown
  <1>6. /\ list.pc = "list" /\ list.client = o.client /\ list.server = o.server
        /\ list.wasUp = o.wasUp /\ clear.pc = "clear"
    BY <1>4 DEF Op
  <1> HIDE DEF o, list, clear
  <1>7. CASE o.kind = "ToggleServer"
    <2>1. op'[a] = Idle
      <3>1. Go(a, Idle)
        BY <1>5, <1>7
      <3> QED BY <3>1, Moved
    <2> QED BY <1>3, <2>1 DEF Settled, Busy, Rested, Idle
  <1>8. CASE o.kind = "SaveServer"
    <2>1. op'[a] = list
      <3>1. Go(a, list)
        BY <1>5, <1>8
      <3> QED BY <3>1, Moved
    <2>2. Applies(op[a])'
      BY <1>1, <1>2, <1>6, <1>8, <2>1 DEF Applies
    <2>3. Owes(op[a])'
      BY <1>2, <1>3, <1>6, <1>8, <2>1 DEF Owes, Behind
    <2>4. /\ op'[a].pc = "list" /\ op'[a].client = None
          /\ op'[a].wasUp = (up' /\ op'[a].client # None)
      BY <1>2, <1>3, <1>4, <1>6, <1>8, <2>1
    <2>5. Settling(a)'
      BY <2>2, <2>3, <2>4 DEF Settling
    <2> QED BY <1>3, <2>4, <2>5 DEF Settled, Busy
  <1>9. CASE o.kind \notin {"ToggleServer", "SaveServer"}
    <2>1. op'[a] = clear
      <3>1. Go(a, clear)
        BY <1>5, <1>9
      <3> QED BY <3>1, Moved
    <2>2. Settling(a)'
      BY <1>3, <1>6, <2>1 DEF Settling
    <2> QED BY <1>3, <1>6, <2>1, <2>2 DEF Settled, Busy
  <1> QED BY <1>7, <1>8, <1>9

LEMMA ClearCalm ==
    ASSUME Inv, Inv', NEW a \in Actors, Busy(a), Settled(a), DeleteRows(a) \/ DisableServer(a)
    PROVE  Settled(a)'
  <1>1. op[a].pc \in {"clear", "disable server"} /\ up' = up /\ rules' = rules
    BY DEF DeleteRows, DisableServer, System
  <1>2. ~up' /\ Once({})'
    BY <1>1 DEF Settled, Settling, Once
  <1>3. op'[a].pc \in {"free", "disable server"}
    <2>1. op[a] \in Op
      BY OpType
    <2>2. CASE DeleteRows(a)
      <3>1. op'[a] = [op[a] EXCEPT !.pc = "disable server"]
        BY <2>2, Moved DEF DeleteRows
      <3> QED BY <2>1, <3>1 DEF Op
    <2>3. CASE DisableServer(a)
      <3>1. op'[a] = Idle
        BY <2>3, Moved DEF DisableServer
      <3> QED BY <3>1 DEF Idle
    <2> QED BY <2>2, <2>3
  <1> QED BY <1>2, <1>3 DEF Settled, Settling, Busy, Rested

LEMMA HandleCalm ==
    ASSUME Inv, Inv', Calm, NEW a \in Admins, Handle(a)
    PROVE  Calm'
  <1>1. a \in Actors
    BY DEF Actors
  <1>2. Busy(a)
    BY DEF Handle, ReadOld, SaveClient, AutoEnable, ReadServer, FindClient, DeleteRow, SaveServer,
           InterfaceDown, DeleteRows, DisableServer, Busy
  <1>3. smooth' /\ told' => smooth /\ told
    <2>1. CASE InterfaceDown(a)
      BY <2>1 DEF InterfaceDown, History, Fault
    <2>2. CASE SaveServer(a)
      BY <2>2 DEF SaveServer
    <2> QED BY <2>1, <2>2 DEF Handle, ReadOld, SaveClient, AutoEnable, ReadServer, FindClient,
                              DeleteRow, DeleteRows, DisableServer, History
  <1>4. Settled(a) /\ smooth' /\ told' => Settled(a)'
    BY <1>1, <1>2, ReadOldCalm, SaveClientCalm, AutoEnableCalm, ReadServerCalm, FindClientCalm,
       DeleteRowCalm, SaveServerCalm, InterfaceDownCalm, ClearCalm DEF Handle
  <1>5. \E to : Go(a, to)
    BY DEF Handle, ReadOld, SaveClient, AutoEnable, ReadServer, FindClient, DeleteRow, SaveServer,
           InterfaceDown, DeleteRows, DisableServer
  <1> QED BY <1>1, <1>2, <1>3, <1>4, <1>5, CalmMove

LEMMA JobStartCalm ==
    ASSUME Inv, Inv', Calm, JobStart
    PROVE  Calm'
  <1> SUFFICES ASSUME smooth', told' PROVE Settled(Job)' /\ Others(Job)'
    BY CalmStep DEF Actors
  <1>1. Job \in Actors
    BY DEF Actors
  <1> DEFINE to == [At("Traffic", "flags") EXCEPT !.server = server]
  <1>2. /\ smooth /\ Quiet /\ told /\ server.enable /\ Go(Job, to)
        /\ UNCHANGED <<server, rows, conf, up, rules>>
    BY DEF JobStart, Tables, System
  <1>3. /\ to.pc = "flags" /\ to.client = None /\ ~to.wasUp /\ to.server = server
    BY DEF At, Idle
  <1> HIDE DEF to
  <1>4. Settled(Job) /\ Others(Job) /\ ~Busy(Job)
    BY <1>1, <1>2, CalmQuiet DEF Quiet
  <1>5. op'[Job] = to /\ Others(Job)'
    BY <1>1, <1>2, <1>4, Moved
  <1>6. Rested'
    BY <1>2, <1>4, SameWanted, RestedStays DEF Settled
  <1>7. Settling(Job)'
    BY <1>2, <1>3, <1>5, <1>6 DEF Settling
  <1> QED BY <1>2, <1>3, <1>4, <1>5, <1>7 DEF Settled, Once, Busy

\* If every client whose flag the job changes forwards no port, the rules stay right.
LEMMA JobFlagsCalm ==
    ASSUME Inv, Inv', Calm, JobFlags
    PROVE  Calm'
  <1> SUFFICES ASSUME smooth', told' PROVE Settled(Job)' /\ Others(Job)'
    BY CalmStep DEF Actors
  <1>1. Job \in Actors
    BY DEF Actors
  <1> DEFINE to == [op[Job] EXCEPT !.pc = "list"]
  <1>2. PICK cs \in SUBSET {c \in Present : rows[c].limits} :
          /\ rows' = Flipped(cs) /\ Go(Job, IF cs = {} THEN Idle ELSE to)
          /\ told' = (told /\ Silent(cs))
    BY DEF JobFlags
  <1>3. op[Job].pc = "flags" /\ smooth /\ told /\ UNCHANGED <<server, conf, up, rules>>
    BY <1>2 DEF JobFlags, System
  <1>4. Settled(Job) /\ Others(Job)
    BY <1>1, <1>3, CalmBusy DEF Busy
  <1>5. /\ Rested /\ server.enable /\ op[Job].server = server /\ op[Job].client = None
        /\ ~op[Job].wasUp
    BY <1>3, <1>4 DEF Settled, Settling, Busy
  <1>6. op[Job] \in Op /\ op[Job].wasUp = FALSE
    BY <1>1, <1>5, OpType DEF Op
  <1>7. /\ to.pc = "list" /\ to.client = None /\ to.wasUp = FALSE /\ to.server = server
    BY <1>5, <1>6 DEF Op
  <1> HIDE DEF to
  <1>8. op'[Job] = (IF cs = {} THEN Idle ELSE to) /\ Others(Job)'
    BY <1>1, <1>2, <1>4, Moved
  <1>9. Wanted' = Wanted
    BY <1>2, <1>3, SilentKeeps
  <1>10. Rested'
    BY <1>3, <1>5, <1>9, RestedStays
  <1>11. (~up' => Once({})') /\ (up' => conf' # None)
    BY <1>3, <1>4 DEF Settled, Once
  <1>12. CASE cs = {}
    BY <1>8, <1>10, <1>11, <1>12 DEF Settled, Busy, Idle
  <1>13. CASE cs # {}
    <2>1. op'[Job] = to
      BY <1>8, <1>13
    <2>2. \A r \in Rule : r.client # None
      BY NoneIsNothing DEF Rule
    <2>3. Owes(op[Job])'
      BY <1>7, <1>10, <2>1, <2>2 DEF Owes, Behind, Rested, Once
    <2>4. Applies(op[Job])'
      BY <1>3, <1>5, <1>7, <2>1 DEF Applies
    <2>5. op'[Job].pc = "list" /\ op'[Job].wasUp = (up' /\ op'[Job].client # None)
      BY <1>7, <2>1
    <2>6. Settling(Job)'
      BY <2>3, <2>4, <2>5 DEF Settling
    <2> QED BY <1>8, <1>11, <2>5, <2>6 DEF Settled, Busy
  <1> QED BY <1>12, <1>13

LEMMA StartIfEnabledCalm ==
    ASSUME Inv, Inv', Calm, StartIfEnabled
    PROVE  Calm'
  <1> SUFFICES ASSUME smooth', told' PROVE Settled(Boot)' /\ Others(Boot)'
    BY CalmStep DEF Actors
  <1>1. Boot \in Actors
    BY DEF Actors
  <1> DEFINE to == [op[Boot] EXCEPT !.pc = "list", !.server = server]
  <1>2. /\ op[Boot].pc = "boot" /\ smooth /\ told
        /\ UNCHANGED <<server, rows, conf, up, rules>>
        /\ Go(Boot, IF server.enable /\ ~up THEN to ELSE Idle)
    BY DEF StartIfEnabled, Tables, System, History
  <1>3. Settled(Boot) /\ Others(Boot)
    BY <1>1, <1>2, CalmBusy DEF Busy
  <1>4. Rested /\ op[Boot].client = None /\ ~op[Boot].wasUp
    BY <1>2, <1>3 DEF Settled, Settling, Busy
  <1>5. op[Boot] \in Op /\ op[Boot].wasUp = FALSE
    BY <1>1, <1>4, OpType DEF Op
  <1>6. /\ to.pc = "list" /\ to.client = None /\ to.wasUp = FALSE /\ to.server = server
    BY <1>4, <1>5 DEF Op
  <1> HIDE DEF to
  <1>7. op'[Boot] = (IF server.enable /\ ~up THEN to ELSE Idle) /\ Others(Boot)'
    BY <1>1, <1>2, <1>3, Moved
  <1>8. (~up' => Once({})') /\ (up' => conf' # None)
    BY <1>2, <1>3 DEF Settled, Once
  <1>9. CASE server.enable /\ ~up
    <2>1. op'[Boot] = to
      BY <1>7, <1>9
    <2>2. Owes(op[Boot])' /\ Applies(op[Boot])'
      BY <1>2, <1>6, <1>9, <2>1 DEF Owes, Behind, Applies
    <2>3. op'[Boot].pc = "list" /\ op'[Boot].wasUp = (up' /\ op'[Boot].client # None)
      BY <1>6, <2>1
    <2>4. Settling(Boot)'
      BY <2>2, <2>3 DEF Settling
    <2> QED BY <1>7, <1>8, <2>3, <2>4 DEF Settled, Busy
  <1>10. CASE ~(server.enable /\ ~up)
    <2>1. Rested'
      BY <1>2, <1>4, SameWanted, RestedStays
    <2>2. op'[Boot] = Idle
      BY <1>7, <1>10
    <2> QED BY <1>7, <1>8, <2>1, <2>2 DEF Settled, Busy, Idle
  <1> QED BY <1>9, <1>10

\* A panel that starts finds the firewall as the last one left it, a host that starts
\* finds it empty.
LEMMA RestartsCalm ==
    ASSUME Inv, Inv', Calm, PanelRestarts \/ HostRestarts
    PROVE  Calm'
  <1> SUFFICES ASSUME smooth', told' PROVE Settled(Boot)' /\ Others(Boot)'
    BY CalmStep DEF Actors
  <1>1. Boot \in Actors
    BY DEF Actors
  <1>2. op' = Starting
    BY DEF PanelRestarts, HostRestarts
  <1>3. op'[Boot].pc = "boot" /\ op'[Boot].client = None /\ ~op'[Boot].wasUp
    BY <1>1, <1>2 DEF Starting, At, Idle
  <1>4. Others(Boot)'
    BY <1>2 DEF Others, Starting, Busy, Idle
  <1>5. Rested' /\ (~up' => Once({})') /\ (up' => conf' # None)
    <2>1. CASE PanelRestarts
      <3>1. /\ smooth /\ Quiet /\ told
            /\ UNCHANGED <<server, rows, conf, up, rules>>
        BY <2>1 DEF PanelRestarts, Tables, System
      <3>2. Settled(Boot) /\ ~Busy(Boot)
        BY <1>1, <3>1, CalmQuiet DEF Quiet
      <3>3. Rested'
        BY <3>1, <3>2, SameWanted, RestedStays DEF Settled
      <3> QED BY <3>1, <3>2, <3>3 DEF Settled, Once
    <2>2. CASE HostRestarts
      <3>1. ~up' /\ rules' = [r \in Rule |-> 0]
        BY <2>2 DEF HostRestarts
      <3> QED BY <3>1 DEF Rested, Once
    <2> QED BY <2>1, <2>2
  <1>6. Settling(Boot)'
    BY <1>3, <1>5 DEF Settling
  <1> QED BY <1>3, <1>4, <1>5, <1>6 DEF Settled, Busy

LEMMA InitCalm == Init => Calm
  <1> SUFFICES ASSUME Init PROVE Calm
    OBVIOUS
  <1>1. ~up /\ op = Starting /\ rules = [r \in Rule |-> 0]
    BY DEF Init
  <1>2. Rested /\ Once({})
    BY <1>1 DEF Rested, Once
  <1>3. \A a \in Actors : Busy(a) => a = Boot
    BY <1>1 DEF Busy, Starting, Idle
  <1>4. Boot \in Actors
    BY DEF Actors
  <1>5. op[Boot].pc = "boot" /\ op[Boot].client = None /\ ~op[Boot].wasUp
    BY <1>1, <1>4 DEF Starting, At, Idle
  <1>6. Settling(Boot)
    BY <1>2, <1>5 DEF Settling
  <1> QED BY <1>1, <1>2, <1>3, <1>6 DEF Calm

LEMMA NextCalm == Inv /\ Calm /\ [Next]_vars => Calm'
  <1> SUFFICES ASSUME Inv, Calm, [Next]_vars PROVE Calm'
    OBVIOUS
  <1>1. Inv'
    BY NextInv
  <1>2. CASE UNCHANGED vars
    <2>1. UNCHANGED <<server, rows, conf, up, rules, op, smooth, told>>
      BY <1>2 DEF vars
    <2>2. Wanted' = Wanted
      BY <2>1, SameWanted
    <2>3. Rested => Rested'
      BY <2>1, <2>2, RestedStays
    <2>4. ASSUME NEW a \in Actors, Settling(a) PROVE Settling(a)'
      <3>1. (up => Once(conf.forwards)) => (up' => Once(conf.forwards)')
        BY <2>1 DEF Once
      <3>2. Owes(op[a]) => Owes(op[a])'
        BY <2>1, <2>2 DEF Owes, Behind
      <3>3. Applies(op[a]) => Applies(op[a])'
        BY <2>1 DEF Applies
      <3>4. /\ op'[a] = op[a] /\ server' = server /\ rows' = rows /\ conf' = conf
            /\ Wanted' = Wanted
        BY <2>1, <2>2
      <3>5. up \in BOOLEAN /\ up' \in BOOLEAN /\ (up' <=> up)
        BY <1>1, <2>1 DEF Inv, TypeOK
      <3>6. CASE op[a].pc \in {"boot", "flags", "old", "save", "find", "delete", "save server"}
        BY <2>3, <2>4, <3>4, <3>6 DEF Settling
      <3>7. CASE op[a].pc \in {"enable", "server", "look", "list", "write", "sync", "diff"}
        BY <2>4, <3>2, <3>3, <3>4, <3>7, <3>5 DEF Settling
      <3>8. CASE op[a].pc \in {"up", "clear", "disable server"}
        BY <2>4, <3>4, <3>8, <3>5 DEF Settling
      <3>9. CASE op[a].pc = "down"
        BY <2>4, <3>1, <3>3, <3>4, <3>9 DEF Settling
      <3>10. CASE op[a].pc = "free"
        BY <3>4, <3>10 DEF Settling
      <3>11. op[a].pc \in Pcs
        BY OpType DEF Op
      <3> QED BY <3>6, <3>7, <3>8, <3>9, <3>10, <3>11 DEF Pcs
    <2> QED BY <2>1, <2>3, <2>4 DEF Calm, Busy, Quiet, Once
  <1>3. ASSUME NEW a \in Actors, Apply(a) PROVE Calm'
    BY <1>1, <1>3, ApplyCalm
  <1>4. ASSUME NEW a \in Admins, Begin(a) \/ Handle(a) PROVE Calm'
    BY <1>1, <1>4, BeginCalm, HandleCalm
  <1> QED BY <1>1, <1>2, <1>3, <1>4, JobStartCalm, JobFlagsCalm, StartIfEnabledCalm,
             RestartsCalm DEF Next

\* The firewall is in step with the enabled clients, unless something overlapped,
\* failed, or changed behind it what it should have.
THEOREM ForwardsAreInStep == Spec => []ForwardsInStep
  <1>1. Inv /\ Calm => ForwardsInStep
    <2> SUFFICES ASSUME Inv, Calm, Quiet, smooth, told
                 PROVE  \A r \in Rule : rules[r] = IF up /\ r \in Wanted THEN 1 ELSE 0
      BY DEF ForwardsInStep
    <2>1. Rested /\ (~up => Once({}))
      BY DEF Calm
    <2> QED BY <2>1 DEF Rested, Once
  <1> QED BY <1>1, InitCalm, NextCalm, AllInv, PTL DEF Spec

===============================================================================
