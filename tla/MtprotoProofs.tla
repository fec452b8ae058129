---------------------------- MODULE MtprotoProofs ----------------------------
(***************************************************************************)
(* No client of a sidecar is billed for more than it used: MtprotoSidecars *)
(* implies NeverOverbilled for every value of its constants.               *)
(*                                                                         *)
(* What a client has used and was not billed for must leave room for all   *)
(* that may still be billed, by the running process, by the snapshot a     *)
(* collection holds, and by the reading that is about to be written; and   *)
(* it must do so for every row that somebody holds and may yet save.       *)
(***************************************************************************)
EXTENDS MtprotoSidecars, FiniteSetTheorems, TLAPS

-------------------------------------------------------------------------------
(* Types, of the job too, and what a program counter says of the rest.     *)
Baselines == [Clients \cup {All} -> Nat \cup {None}]

Snap == [port : Ports, serves : SUBSET (Clients \X Domains), last : Baselines]

JobRecord ==
  [pc : {"idle", "rebuild", "reconcile", "snapshot", "scrape", "write", "renew", "disable"},
   desired : [Inbounds -> SUBSET (Clients \X Domains)],
   snaps : [Inbounds -> Snap \cup {None}], at : Inbounds \cup {None}, read : Baselines,
   deltas : [Clients -> Nat], renewing : [Clients -> Row \cup {None}], changed : BOOLEAN]

Ready(o) ==
  /\ o.kind = "ToggleClient" => o.row # None
  /\ o.kind = "UpdateInbound" => o.ib # None
  /\ o.pc = "apply" => o.at # None

JobTyped ==
  /\ job \in JobRecord
  /\ job.pc = "write" => job.at # None /\ job.snaps[job.at] # None
  /\ \A c \in Keys(job.renewing) : job.renewing[c].reset > 0 /\ job.renewing[c].expiry <= now

Typed == TypeOK /\ JobTyped /\ \A h \in Admins : Ready(op[h])

-------------------------------------------------------------------------------
(* A sidecar serves clients of its inbound, mtg one of them.               *)
Fits(i, S) ==
  /\ \A s \in S : Home[s[1]] = i
  /\ ~multi => \A s, t \in S : s[1] = t[1]

Serving ==
  /\ \A i \in Keys(procs) : procs[i].serves # {} /\ Fits(i, procs[i].serves)
  /\ \A i \in Inbounds : Fits(i, job.desired[i])
  /\ \A i \in Keys(job.snaps) : job.snaps[i].serves # {} /\ Fits(i, job.snaps[i].serves)
  /\ \A h \in Admins : op[h].pc = "apply" => Fits(op[h].at, op[h].serves)

PortsApart ==
  \A i, j \in Keys(procs) :
    procs[i].running /\ procs[j].running /\ procs[i].port = procs[j].port => i = j

\* The port of a snapshot of mtg is that of the process it was taken of.
SnapsCurrent ==
  ~multi => \A i \in Keys(job.snaps), j \in Keys(procs) :
    procs[j].running /\ procs[j].port = job.snaps[i].port =>
      j = i /\ procs[j].serves = job.snaps[i].serves /\ procs[j].last = job.snaps[i].last

Counted == \A i \in Keys(procs), c \in Clients : procs[i].count[c] > 0 => Admits(procs[i].serves, c)

ReadIsOfSnap ==
  job.pc = "write" =>
    IF multi THEN \A c \in Clients : job.read[c] # None => Admits(job.snaps[job.at].serves, c)
    ELSE job.read[All] # None

Structure == Serving /\ PortsApart /\ SnapsCurrent /\ Counted /\ ReadIsOfSnap

-------------------------------------------------------------------------------
(* Billing.                                                                *)
Key(c) == IF multi THEN c ELSE All

Pending(c) == DeltaOf(job.snaps[Home[c]], job.read, c)

\* A client that was billed t, and the deltas the job holds, has used no less,
\* whatever becomes of the counters.
Covered(c, t) ==
  LET u == consumed[c] - job.deltas[c] - t
      p == procs[Home[c]]
      s == job.snaps[Home[c]]
      k == Key(c)
  IN /\ u >= 0
     /\ p # None /\ p.last[k] # None => p.count[c] - p.last[k] <= u
     /\ p # None /\ s # None /\ s.last[k] # None => p.count[c] - s.last[k] <= u
     /\ job.pc = "write" /\ job.at = Home[c] /\ job.read[k] # None =>
          /\ Pending(c) <= u
          /\ p # None => p.count[c] - job.read[k] <= u - Pending(c)

\* The rows of client c: in the table, and held by a request.
RowsOf(c) == ({rows[c]} \cup {op[h].row : h \in {g \in Admins : op[g].client = c}}) \ {None}

Accounted ==
  \A c \in Clients :
    /\ Covered(c, 0)
    /\ \A r \in RowsOf(c) : r.used <= r.allTime /\ Covered(c, r.allTime)

IInv == Typed /\ Structure /\ Accounted
-------------------------------------------------------------------------------
(* Types.                                                                  *)
LEMMA RowFields ==
  ASSUME NEW r \in Row
  PROVE  /\ r.enable \in BOOLEAN /\ r.used \in Nat /\ r.allTime \in Nat /\ r.total \in Nat
         /\ r.expiry \in Nat /\ r.reset \in Nat /\ r.secret \in Domains
         /\ \A b \in BOOLEAN : [r EXCEPT !.enable = b] \in Row
         /\ \A d \in Domains : [r EXCEPT !.secret = d] \in Row
         /\ [r EXCEPT !.used = 0] \in Row
         /\ \A d \in Nat : Billed(r, d) \in Row
<1>1. ASSUME NEW d \in Nat PROVE Billed(r, d) \in Row
  <2>1. r.used + d \in Nat /\ r.allTime + d \in Nat
    BY DEF Row
  <2>2. [r EXCEPT !.used = @ + d] \in Row
    BY <2>1 DEF Row
  <2> QED
    BY <2>1, <2>2 DEF Row, Billed
<1>2. \A b \in BOOLEAN : [r EXCEPT !.enable = b] \in Row
  BY DEF Row
<1>3. \A d \in Domains : [r EXCEPT !.secret = d] \in Row
  BY DEF Row
<1> QED
  BY <1>1, <1>2, <1>3 DEF Row

\* What a step of the manager makes of the entry of inbound i: it is forgotten, it
\* goes on, dead perhaps, or another process takes its place.
GoesOn(p, q) ==
  /\ q.serves = p.serves /\ q.port = p.port /\ q.count = p.count /\ q.last = p.last
  /\ q.running => p.running

Starts(i, q) ==
  \E S \in (SUBSET (Clients \X Domains)) \ {{}}, port \in Ports :
    /\ q = NewProcess(S, port) /\ Fits(i, S)
    /\ ~multi => \A k \in Keys(job.snaps) : port # job.snaps[k].port

ManagerStep ==
  /\ procs' \in [Inbounds -> Process \cup {None}]
  /\ PortsApart'
  /\ \A i \in Keys(procs)' : \/ procs[i] # None /\ GoesOn(procs[i], procs'[i])
                             \/ Starts(i, procs'[i])

LEMMA NewProcessType ==
  ASSUME NEW S \in SUBSET (Clients \X Domains), NEW port \in Ports
  PROVE  NewProcess(S, port) \in Process
  BY DEF NewProcess, Process

LEMMA NewProcessFields ==
  ASSUME NEW S, NEW port
  PROVE  /\ NewProcess(S, port).serves = S /\ NewProcess(S, port).port = port
         /\ NewProcess(S, port).running
         /\ \A c \in Clients : NewProcess(S, port).count[c] = 0
         /\ \A k \in Clients \cup {All} : NewProcess(S, port).last[k] = None
  BY DEF NewProcess

LEMMA DriveStep ==
  ASSUME Typed, Structure, NEW is \in SUBSET Inbounds, NEW S,
         \A i \in is : S[i] \in SUBSET (Clients \X Domains) /\ Fits(i, S[i]),
         Drive(is, S)
  PROVE  ManagerStep /\ faults' \in Nat
<1> DEFINE F == {i \in is : S[i] # {} /\ ~KeepsAsIs(i, S[i])}
<1>1. PICK failing \in SUBSET F, port \in [is -> Ports] :
        /\ procs' = [i \in Inbounds |->
                       IF i \in is THEN Ensured(i, S[i], i \in failing, port[i]) ELSE procs[i]]
        /\ PortsDiffer(procs')
        /\ Fault(Cardinality(failing))
  BY DEF Drive
<1>2. faults' \in Nat
  <2>1. IsFiniteSet(failing)
    BY FS_Subset, ConstantsAssumption
  <2>2. Cardinality(failing) \in Nat
    BY <2>1, FS_CardinalityType
  <2> QED
    BY <1>1, <2>2 DEF Fault, Typed, TypeOK
<1>3. ASSUME NEW i \in Inbounds
      PROVE  \/ procs'[i] = None \/ procs'[i] = procs[i]
             \/ i \in is /\ S[i] # {} /\ procs'[i] = NewProcess(S[i], port[i])
  BY <1>1 DEF Ensured
<1>4. procs' \in [Inbounds -> Process \cup {None}]
  <2>1. ASSUME NEW i \in Inbounds PROVE procs'[i] \in Process \cup {None}
    <3>1. procs[i] \in Process \cup {None}
      BY DEF Typed, TypeOK
    <3>2. CASE i \in is /\ procs'[i] = NewProcess(S[i], port[i])
      <4>1. port[i] \in Ports /\ S[i] \in SUBSET (Clients \X Domains)
        BY <1>1, <3>2
      <4> QED
        BY <3>2, <4>1, NewProcessType
    <3> QED
      BY <1>3, <3>1, <3>2
  <2>2. procs' = [i \in Inbounds |-> procs'[i]]
    BY <1>1
  <2> DEFINE T == Process \cup {None}
  <2>3. \A i \in Inbounds : procs'[i] \in T
    BY <2>1
  <2> HIDE DEF T
  <2>4. procs' \in [Inbounds -> T]
    BY <2>2, <2>3
  <2> QED
    BY <2>4 DEF T
<1>5. PortsApart'
  BY <1>1 DEF PortsDiffer, PortsApart
<1>6. ASSUME NEW i \in Keys(procs')
      PROVE  \/ procs[i] # None /\ GoesOn(procs[i], procs'[i])
             \/ Starts(i, procs'[i])
  <2>1. i \in Inbounds /\ procs'[i] # None
    BY <1>4 DEF Keys
  <2>2. CASE procs'[i] = procs[i]
    BY <2>1, <2>2 DEF GoesOn
  <2>3. CASE procs'[i] # procs[i]
    <3>1. i \in is /\ S[i] # {} /\ procs'[i] = NewProcess(S[i], port[i])
      BY <1>3, <2>1, <2>3
    <3>2. procs'[i].port \notin Asked
      BY <1>1, <2>3 DEF PortsDiffer
    <3>3. procs'[i].port = port[i] /\ port[i] \in Ports
      <4>1. port[i] \in Ports /\ S[i] \in SUBSET (Clients \X Domains)
        BY <1>1, <3>1
      <4> QED
        BY <3>1, <4>1 DEF NewProcess
    <3>4. ~multi => \A k \in Keys(job.snaps) : port[i] # job.snaps[k].port
      BY <3>2, <3>3 DEF Asked
    <3>5. S[i] \in (SUBSET (Clients \X Domains)) \ {{}} /\ Fits(i, S[i])
      BY <3>1
    <3> QED
      BY <3>1, <3>3, <3>4, <3>5, Zenon DEF Starts
  <2> QED
    BY <2>2, <2>3
<1> QED
  BY <1>2, <1>4, <1>5, <1>6 DEF ManagerStep, Keys
ManagerTypes ==
  /\ procs' \in [Inbounds -> Process \cup {None}]
  /\ orphans' \subseteq SUBSET (Clients \X Domains) /\ swept' \in BOOLEAN
  /\ faults' \in Nat

LEMMA SweepTypes ==
  ASSUME Typed, SweepOrphans
  PROVE  orphans' \subseteq SUBSET (Clients \X Domains) /\ swept' \in BOOLEAN
  BY DEF Typed, TypeOK, SweepOrphans

LEMMA ManagerRests ==
  ASSUME Typed, Structure, UNCHANGED procs
  PROVE  ManagerStep
<1>1. procs' \in [Inbounds -> Process \cup {None}]
  BY DEF Typed, TypeOK
<1>2. PortsApart'
  BY DEF Structure, PortsApart, Keys
<1>3. \A i \in Keys(procs') : procs[i] # None /\ GoesOn(procs[i], procs'[i])
  BY DEF GoesOn, Keys
<1> QED
  BY <1>1, <1>2, <1>3 DEF ManagerStep, Keys

LEMMA LeavesTypes ==
  ASSUME Typed, Structure, ManagerLeaves
  PROVE  ManagerStep /\ ManagerTypes
<1>1. ManagerStep
  BY ManagerRests DEF ManagerLeaves
<1>2. UNCHANGED <<orphans, swept, faults>>
  BY DEF ManagerLeaves
<1> QED
  BY <1>1, <1>2 DEF ManagerStep, ManagerTypes, Typed, TypeOK

LEMMA ReconcileStep ==
  ASSUME Typed, Structure, Reconcile(job.desired)
  PROVE  ManagerStep /\ ManagerTypes
<1>1. \A i \in Inbounds : job.desired[i] \in SUBSET (Clients \X Domains) /\ Fits(i, job.desired[i])
  BY DEF Typed, JobTyped, JobRecord, Structure, Serving
<1>2. Drive(Inbounds, job.desired) /\ SweepOrphans
  BY DEF Reconcile
<1>3. ManagerStep /\ faults' \in Nat
  BY <1>1, <1>2, DriveStep
<1> QED
  BY <1>2, <1>3, SweepTypes DEF ManagerStep, ManagerTypes

LEMMA RemoveStep ==
  ASSUME Typed, Structure, NEW i \in Inbounds, Remove(i)
  PROVE  ManagerStep /\ ManagerTypes
<1>1. procs \in [Inbounds -> Process \cup {None}]
  BY DEF Typed, TypeOK
<1>2. procs' = [procs EXCEPT ![i] = None]
  BY DEF Remove
<1>3. procs' \in [Inbounds -> Process \cup {None}]
  BY <1>1, <1>2
<1>4. \A j \in Keys(procs') : j \in Keys(procs) /\ procs'[j] = procs[j]
  BY <1>1, <1>2 DEF Keys
<1>5. PortsApart'
  BY <1>4 DEF Structure, PortsApart, Keys
<1>6. \A j \in Keys(procs') : procs[j] # None /\ GoesOn(procs[j], procs'[j])
  BY <1>4 DEF GoesOn, Keys
<1>7. ManagerStep
  BY <1>3, <1>5, <1>6 DEF ManagerStep, Keys
<1>8. UNCHANGED <<orphans, swept, faults>>
  BY DEF Remove
<1> QED
  BY <1>3, <1>7, <1>8 DEF ManagerTypes, Typed, TypeOK

LEMMA ReconcileInboundStep ==
  ASSUME Typed, Structure, NEW i \in Inbounds, NEW S \in SUBSET (Clients \X Domains),
         Fits(i, S), ReconcileInbound(i, S)
  PROVE  ManagerStep /\ ManagerTypes
<1>1. CASE S = {}
  BY <1>1, RemoveStep DEF ReconcileInbound
<1>2. CASE S # {}
  <2> DEFINE T == [j \in {i} |-> S]
  <2>1. Drive({i}, T) /\ SweepOrphans
    BY <1>2 DEF ReconcileInbound, Ensure
  <2>2. \A j \in {i} : T[j] \in SUBSET (Clients \X Domains) /\ Fits(j, T[j])
    OBVIOUS
  <2> HIDE DEF T
  <2>3. ManagerStep /\ faults' \in Nat
    BY <2>1, <2>2, DriveStep
  <2> QED
    BY <2>1, <2>3, SweepTypes DEF ManagerStep, ManagerTypes
<1> QED
  BY <1>1, <1>2

LEMMA AllStopped ==
  ASSUME procs' = [i \in Inbounds |-> None]
  PROVE  ManagerStep /\ Keys(procs') = {}
<1>1. Keys(procs') = {}
  BY DEF Keys
<1> QED
  BY <1>1 DEF ManagerStep, PortsApart, Keys

\* Only the clients of an inbound are ever asked of its sidecar, of mtg only one.
LEMMA InstanceFits ==
  ASSUME Typed, NEW i \in Inbounds
  PROVE  Instance(i, rows) \in SUBSET (Clients \X Domains) /\ Fits(i, Instance(i, rows))
<1> DEFINE K == {d \in Keys(rows) : Home[d] = i /\ Active(rows[d])}
           S == {<<c, rows[c].secret>> : c \in K}
<1>1. rows \in [Clients -> Row \cup {None}]
  BY DEF Typed, TypeOK
<1>2. ASSUME NEW c \in K PROVE c \in Clients /\ rows[c].secret \in Domains /\ Home[c] = i
  <2>1. c \in Clients /\ rows[c] \in Row /\ Home[c] = i
    BY <1>1 DEF Keys
  <2> QED
    BY <2>1, RowFields
<1> HIDE DEF K
<1>3. \A s \in S : s \in Clients \X Domains /\ Home[s[1]] = i
  BY <1>2
<1>4. ASSUME NEW s \in S PROVE s[1] \in Nat
  <2>1. s[1] \in Clients
    BY <1>3
  <2> QED
    BY <2>1, ConstantsAssumption
<1> HIDE DEF S
<1>5. \A s, t \in First(S) : s[1] = t[1]
  BY <1>4 DEF First
<1>6. First(S) \subseteq S
  BY DEF First
<1>7. Instance(i, rows) = ActiveClients(S)
  BY DEF Instance, S, K
<1> QED
  BY <1>3, <1>5, <1>6, <1>7 DEF ActiveClients, Fits

LEMMA DesiredFits ==
  ASSUME Typed
  PROVE  /\ Desired \in [Inbounds -> SUBSET (Clients \X Domains)]
         /\ \A i \in Inbounds : Fits(i, Desired[i])
<1>1. \A i \in Inbounds : Desired[i] \in SUBSET (Clients \X Domains) /\ Fits(i, Desired[i])
  BY InstanceFits DEF Desired, Fits
<1> DEFINE T == SUBSET (Clients \X Domains)
<1>2. \A i \in Inbounds : Desired[i] \in T
  BY <1>1
<1>3. Desired = [i \in Inbounds |-> Desired[i]]
  BY DEF Desired
<1> HIDE DEF T
<1>4. Desired \in [Inbounds -> T]
  BY <1>2, <1>3
<1> QED
  BY <1>1, <1>4 DEF T

-------------------------------------------------------------------------------
(* The job keeps the types.                                                *)
LEMMA JobFields ==
  ASSUME Typed
  PROVE  /\ job.desired \in [Inbounds -> SUBSET (Clients \X Domains)]
         /\ job.snaps \in [Inbounds -> Snap \cup {None}]
         /\ job.at \in Inbounds \cup {None} /\ job.read \in Baselines
         /\ job.deltas \in [Clients -> Nat]
         /\ job.renewing \in [Clients -> Row \cup {None}]
         /\ job.changed \in BOOLEAN
  BY DEF Typed, JobTyped, JobRecord

LEMMA IdleFields ==
  /\ Idle \in JobRecord
  /\ Idle.pc = "idle" /\ Idle.deltas = [c \in Clients |-> 0]
  /\ \A i \in Inbounds : Idle.snaps[i] = None /\ Idle.desired[i] = {}
  /\ \A c \in Clients : Idle.renewing[c] = None
<1>1. NoDeltas \in [Clients -> Nat]
  BY DEF NoDeltas
<1> QED
  BY <1>1 DEF Idle, JobRecord, Baselines, NoDeltas

LEMMA SnapType ==
  ASSUME NEW p \in Process
  PROVE  [port |-> p.port, serves |-> p.serves, last |-> p.last] \in Snap
  BY DEF Process, Snap, Baselines

LEMMA SoleServed ==
  ASSUME NEW S \in (SUBSET (Clients \X Domains)) \ {{}}
  PROVE  Sole(S) \in Clients /\ Admits(S, Sole(S))
<1> DEFINE s == CHOOSE t \in S : TRUE
<1>1. s \in S
  OBVIOUS
<1>2. s \in Clients \X Domains
  BY <1>1
<1> HIDE DEF s
<1>3. s[1] \in Clients /\ s[2] \in Domains /\ s = <<s[1], s[2]>>
  BY <1>2
<1>4. Sole(S) = s[1]
  BY DEF Sole, s
<1> QED
  BY <1>1, <1>3, <1>4 DEF Admits

LEMMA ProcessFields ==
  ASSUME NEW p \in Process
  PROVE  /\ p.serves \in SUBSET (Clients \X Domains) /\ p.port \in Ports
         /\ p.running \in BOOLEAN /\ p.count \in [Clients -> Nat] /\ p.last \in Baselines
  BY DEF Process, Baselines

LEMMA CountersType ==
  ASSUME NEW p \in Process, p.serves # {},
         NEW serves \in SUBSET (Clients \X Domains), NEW idle \in BOOLEAN
  PROVE  Counters(p, serves, idle) \in Baselines
<1>1. p.count \in [Clients -> Nat] /\ p.count[Sole(p.serves)] \in Nat
  BY SoleServed, ProcessFields
<1>2. ASSUME NEW k \in Clients \cup {All} PROVE Counters(p, serves, idle)[k] \in Nat \cup {None}
  BY <1>1 DEF Counters
<1>3. Counters(p, serves, idle) = [k \in Clients \cup {All} |-> Counters(p, serves, idle)[k]]
  BY DEF Counters
<1> QED
  BY <1>2, <1>3 DEF Baselines

LEMMA DeltaType ==
  ASSUME NEW snap \in Snap, NEW read \in Baselines, NEW k \in Clients \cup {All}
  PROVE  Delta(snap, read, k) \in Nat
  BY DEF Snap, Baselines, Delta

LEMMA DeltaOfType ==
  ASSUME NEW snap \in Snap, NEW read \in Baselines, NEW c \in Clients
  PROVE  DeltaOf(snap, read, c) \in Nat
  BY DeltaType DEF DeltaOf

LEMMA NextExpiryType ==
  ASSUME NEW r \in Row, r.reset > 0, r.expiry <= now, now \in Nat
  PROVE  NextExpiry(r) \in Nat
<1> DEFINE e == r.expiry  z == r.reset
<1>1. e \in Nat /\ z \in Nat /\ z > 0 /\ now - e \in Nat
  BY DEF Row
<1>2. ASSUME NEW n \in Nat, NEW m \in Nat, m > 0 PROVE n \div m \in Nat
  BY <1>2
<1>3. (now - e) \div z \in Nat
  BY <1>1, <1>2
<1>4. ASSUME NEW n \in Nat, NEW m \in Nat PROVE n * m \in Nat
  BY <1>4
<1> DEFINE y == ((now - e) \div z + 1) * z
<1>5. y \in Nat
  BY <1>1, <1>3, <1>4
<1>6. NextExpiry(r) = e + y
  BY DEF NextExpiry
<1> HIDE DEF e, y
<1> QED
  BY <1>1, <1>5, <1>6

LEMMA RenewedType ==
  ASSUME NEW r \in Row, NEW found \in Row, found.reset > 0, found.expiry <= now, now \in Nat
  PROVE  /\ Renewed(r, found) \in Row
         /\ Renewed(r, found).used = 0 /\ Renewed(r, found).allTime = r.allTime
<1> DEFINE e == NextExpiry(found)  b == r.enable \/ ~found.enable
<1>1. e \in Nat /\ b \in BOOLEAN
  BY NextExpiryType
<1> HIDE DEF e, b
<1>2. Renewed(r, found) = [r EXCEPT !.expiry = e, !.used = 0, !.enable = b]
  BY DEF Renewed, e, b
<1>3. [r EXCEPT !.expiry = e, !.used = 0, !.enable = b] \in Row
  BY <1>1 DEF Row
<1>4. /\ [r EXCEPT !.expiry = e, !.used = 0, !.enable = b].used = 0
      /\ [r EXCEPT !.expiry = e, !.used = 0, !.enable = b].allTime = r.allTime
  BY DEF Row
<1> QED
  BY <1>2, <1>3, <1>4

LEMMA TypedNext ==
  ASSUME Typed, now' \in Nat, now <= now', UNCHANGED multi,
         inbounds' \in [Inbounds -> InboundRow \cup {None}],
         rows' \in [Clients -> Row \cup {None}], ManagerTypes, JobTyped',
         op' \in [Admins -> Op], \A h \in Admins : Ready(op'[h]),
         consumed' \in [Clients -> Nat], edits' \in Nat
  PROVE  Typed'
  BY DEF Typed, TypeOK, ManagerTypes, Ready

LEMMA TablesTyped ==
  ASSUME Typed
  PROVE  /\ now \in Nat /\ inbounds \in [Inbounds -> InboundRow \cup {None}]
         /\ rows \in [Clients -> Row \cup {None}]
         /\ procs \in [Inbounds -> Process \cup {None}]
         /\ op \in [Admins -> Op] /\ \A h \in Admins : Ready(op[h])
         /\ consumed \in [Clients -> Nat] /\ edits \in Nat /\ faults \in Nat
         /\ JobTyped
  BY DEF Typed, TypeOK

LEMMA JobStepTyped ==
  ASSUME Typed, JobLeaves, ManagerTypes, JobTyped', rows' \in [Clients -> Row \cup {None}]
  PROVE  Typed'
  BY TypedNext, TablesTyped DEF JobLeaves

\* What the handlers and the environment do, except to the clock, leaves the job as it was.
LEMMA JobTypedStays ==
  ASSUME Typed, UNCHANGED job, now' \in Nat, now <= now'
  PROVE  JobTyped'
<1>1. ASSUME NEW c \in Keys(job.renewing) PROVE job.renewing[c].expiry <= now'
  <2>1. job.renewing[c] \in Row
    BY JobFields DEF Keys
  <2>2. job.renewing[c].expiry \in Nat
    BY <2>1 DEF Row
  <2> QED
    BY <2>2, TablesTyped DEF JobTyped
<1> QED
  BY <1>1, TablesTyped DEF JobTyped

LEMMA JobTypedMoves ==
  ASSUME Typed, UNCHANGED now, job' \in JobRecord, job'.renewing = job.renewing,
         job'.pc = "write" => job'.at # None /\ job'.snaps[job'.at] # None
  PROVE  JobTyped'
  BY TablesTyped DEF JobTyped, Keys

LEMMA JobBuildTyped == ASSUME Typed, Structure, JobBuild PROVE Typed'
<1>1. job'.pc = "reconcile" /\ job' \in JobRecord /\ Keys(job'.renewing) = {}
  <2>1. job' = [Idle EXCEPT !.pc = "reconcile", !.desired = Desired, !.changed = job.changed]
    BY DEF JobBuild
  <2>2. job' \in JobRecord
    BY <2>1, IdleFields, DesiredFits, JobFields DEF JobRecord
  <2>3. job'.pc = "reconcile" /\ job'.renewing = Idle.renewing
    BY <2>1 DEF Idle
  <2> QED
    BY <2>2, <2>3, IdleFields DEF Keys, Idle
<1>2. JobTyped'
  BY <1>1 DEF JobTyped, Keys
<1>3. ManagerTypes
  BY LeavesTypes DEF JobBuild
<1> QED
  BY <1>2, <1>3, JobStepTyped, TablesTyped DEF JobBuild

LEMMA IdleTyped ==
  ASSUME NEW pc \in {"idle", "rebuild", "snapshot"}, NEW changed \in BOOLEAN
  PROVE  LET j == [Idle EXCEPT !.pc = pc, !.changed = changed]
         IN  /\ j \in JobRecord /\ j.pc = pc /\ Keys(j.renewing) = {}
             /\ j.deltas = Idle.deltas /\ j.desired = Idle.desired /\ j.snaps = Idle.snaps
  BY IdleFields DEF JobRecord, Idle, Keys

LEMMA JobReconcileTyped == ASSUME Typed, Structure, JobReconcile PROVE Typed'
<1>1. job' = Idle \/ job' = [Idle EXCEPT !.pc = "snapshot"]
  BY DEF JobReconcile
<1>2. job' \in JobRecord /\ job'.pc # "write" /\ job'.renewing = Idle.renewing
  <2>1. CASE job' = Idle
    BY <2>1, IdleFields
  <2>2. CASE job' = [Idle EXCEPT !.pc = "snapshot"]
    BY <2>2, IdleFields DEF JobRecord
  <2> QED
    BY <1>1, <2>1, <2>2
<1>3. JobTyped'
  BY <1>2, IdleFields DEF JobTyped, Keys, Idle
<1>4. ManagerTypes
  BY ReconcileStep DEF JobReconcile
<1> QED
  BY <1>3, <1>4, JobStepTyped, TablesTyped DEF JobReconcile

LEMMA JobSnapshotTyped == ASSUME Typed, Structure, JobSnapshot PROVE Typed'
<1> DEFINE S == [i \in Inbounds |->
                  IF procs[i] # None /\ procs[i].running
                    THEN [port |-> procs[i].port, serves |-> procs[i].serves,
                          last |-> procs[i].last]
                    ELSE None]
           T == Snap \cup {None}
<1>1. ASSUME NEW i \in Inbounds PROVE S[i] \in T
  <2>1. procs[i] \in Process \cup {None}
    BY TablesTyped
  <2> QED
    BY <2>1, SnapType
<1> HIDE DEF T
<1>2. S \in [Inbounds -> T]
  BY <1>1
<1> HIDE DEF S
<1>3. job' = [job EXCEPT !.pc = "scrape", !.snaps = S]
  BY DEF JobSnapshot, S
<1>4. job \in JobRecord
  BY TablesTyped DEF JobTyped
<1>5. job' \in JobRecord /\ job'.pc = "scrape" /\ job'.renewing = job.renewing
  BY <1>2, <1>3, <1>4 DEF JobRecord, T
<1>6. UNCHANGED now
  BY DEF JobSnapshot, JobLeaves
<1>7. JobTyped'
  BY <1>5, <1>6, JobTypedMoves
<1>8. ManagerTypes
  BY LeavesTypes DEF JobSnapshot
<1> QED
  BY <1>7, <1>8, JobStepTyped, TablesTyped DEF JobSnapshot

LEMMA JobScrapeTyped ==
  ASSUME Typed, Structure, NEW i \in Inbounds, JobScrape(i)
  PROVE  Typed'
<1>0. UNCHANGED now
  BY DEF JobScrape, JobLeaves
<1>1. job \in JobRecord /\ job.snaps[i] \in Snap /\ job.pc = "scrape"
  BY TablesTyped, JobFields DEF JobTyped, JobScrape
<1>2. job.snaps[i].serves \in SUBSET (Clients \X Domains)
  BY <1>1 DEF Snap
<1>3. ASSUME job' = [job EXCEPT !.snaps[i] = None] PROVE JobTyped'
  <2>1. job' \in JobRecord /\ job'.pc = "scrape" /\ job'.renewing = job.renewing
    BY <1>1, <1>3 DEF JobRecord
  <2> QED
    BY <1>0, <2>1, JobTypedMoves
<1>4. ASSUME NEW j \in Listening(job.snaps[i].port), NEW idle \in BOOLEAN,
             job' = [job EXCEPT !.pc = "write", !.at = i,
                                !.read = Counters(procs[j], job.snaps[i].serves, idle)]
      PROVE  JobTyped'
  <2>1. j \in Inbounds /\ procs[j] \in Process /\ procs[j].serves # {}
    BY TablesTyped DEF Listening, Keys, Structure, Serving
  <2> DEFINE R == Counters(procs[j], job.snaps[i].serves, idle)
  <2>2. R \in Baselines
    BY <1>2, <2>1, CountersType
  <2> HIDE DEF R
  <2>3. job' = [job EXCEPT !.pc = "write", !.at = i, !.read = R]
    BY <1>4 DEF R
  <2>4. /\ job' \in JobRecord /\ job'.pc = "write" /\ job'.at = i
        /\ job'.renewing = job.renewing /\ job'.snaps = job.snaps
    BY <1>1, <2>2, <2>3 DEF JobRecord
  <2>5. i # None /\ job.snaps[i] # None
    BY ConstantsAssumption DEF JobScrape
  <2> QED
    BY <1>0, <2>4, <2>5, JobTypedMoves
<1>5. JobTyped'
  BY <1>3, <1>4 DEF JobScrape
<1>6. ManagerTypes
  BY LeavesTypes DEF JobScrape
<1> QED
  BY <1>5, <1>6, JobStepTyped, TablesTyped DEF JobScrape

LEMMA JobWriteTyped == ASSUME Typed, Structure, JobWrite PROVE Typed'
<1> DEFINE i == job.at
           D == [c \in Clients |-> job.deltas[c] + DeltaOf(job.snaps[i], job.read, c)]
<1>1. /\ job \in JobRecord /\ i \in Inbounds /\ job.snaps[i] \in Snap
      /\ job.read \in Baselines /\ job.deltas \in [Clients -> Nat]
      /\ Idle.read \in Baselines
  <2>1. job.pc = "write" /\ i # None /\ job.snaps[i] # None
    BY TablesTyped DEF JobTyped, JobWrite
  <2>2. Idle.read \in Baselines
    BY IdleFields DEF JobRecord
  <2> QED
    BY <2>1, <2>2, JobFields, TablesTyped DEF JobTyped
<1>2. D \in [Clients -> Nat]
  <2>1. ASSUME NEW c \in Clients PROVE DeltaOf(job.snaps[i], job.read, c) \in Nat
    BY <1>1, DeltaOfType
  <2> QED
    BY <1>1, <2>1
<1>3. job' \in JobRecord /\ job'.pc = "scrape" /\ job'.renewing = job.renewing
  <2>1. job' = [job EXCEPT !.pc = "scrape", !.snaps[i] = None, !.at = None,
                           !.read = Idle.read, !.deltas = D]
    BY DEF JobWrite
  <2> HIDE DEF D
  <2>2. [job.snaps EXCEPT ![i] = None] \in [Inbounds -> Snap \cup {None}]
    BY JobFields
  <2> QED
    BY <1>1, <1>2, <2>1, <2>2 DEF JobRecord
<1>4. JobTyped'
  BY <1>3, JobTypedMoves DEF JobWrite, JobLeaves
<1>5. procs' \in [Inbounds -> Process \cup {None}]
  <2>1. CASE procs[i] = None
    BY <2>1, TablesTyped DEF JobWrite
  <2>2. CASE procs[i] # None
    <3>1. procs[i] \in Process
      BY <1>1, <2>2, TablesTyped
    <3>2. Rebased(procs[i], job.read) \in Process
      BY <1>1, <3>1 DEF Rebased, Process, Baselines
    <3>3. procs' = [procs EXCEPT ![i] = Rebased(procs[i], job.read)]
      BY <2>2 DEF JobWrite
    <3> QED
      BY <3>2, <3>3, TablesTyped
  <2> QED
    BY <2>1, <2>2
<1>6. ManagerTypes
  BY <1>5 DEF ManagerTypes, JobWrite, Typed, TypeOK
<1> QED
  BY <1>4, <1>6, JobStepTyped, TablesTyped DEF JobWrite

LEMMA JobBillTyped == ASSUME Typed, Structure, JobBill PROVE Typed'
<1> DEFINE billed == [c \in Clients |-> IF rows[c] = None THEN None
                                       ELSE Billed(rows[c], job.deltas[c])]
           found == [c \in Clients |-> IF billed[c] # None /\ billed[c].reset > 0 /\ Due(billed[c])
                                      THEN billed[c] ELSE None]
           T == Row \cup {None}
<1>1. ASSUME NEW c \in Clients PROVE billed[c] \in T
  <2>1. rows[c] \in Row \cup {None} /\ job.deltas[c] \in Nat
    BY TablesTyped, JobFields
  <2> QED
    BY <2>1, RowFields
<1>2. billed = [c \in Clients |-> billed[c]]
  OBVIOUS
<1>3. job' = [job EXCEPT !.pc = "renew", !.deltas = NoDeltas, !.renewing = found]
  BY DEF JobBill
<1>4. rows' = billed
  BY DEF JobBill
<1> HIDE DEF T, billed
<1>5. billed \in [Clients -> T] /\ found \in [Clients -> T]
  <2>1. billed \in [Clients -> T]
    BY <1>1, <1>2
  <2>2. \A c \in Clients : found[c] \in T
    BY <1>1 DEF T
  <2> QED
    BY <2>1, <2>2
<1>6. ASSUME NEW c \in Keys(found) PROVE found[c].reset > 0 /\ found[c].expiry <= now
  BY <1>6 DEF Keys, Due
<1> HIDE DEF found
<1>7. job' \in JobRecord /\ job'.pc = "renew" /\ job'.renewing = found
  <2>1. job \in JobRecord
    BY TablesTyped DEF JobTyped
  <2>2. NoDeltas \in [Clients -> Nat]
    BY DEF NoDeltas
  <2> QED
    BY <1>3, <1>5, <2>1, <2>2 DEF JobRecord, T
<1>8. JobTyped'
  BY <1>6, <1>7 DEF JobTyped, Keys, JobBill, JobLeaves
<1>9. ManagerTypes
  BY LeavesTypes DEF JobBill
<1> QED
  BY <1>4, <1>5, <1>8, <1>9, JobStepTyped DEF JobBill, T

LEMMA JobRenewTyped == ASSUME Typed, Structure, JobRenew PROVE Typed'
<1>1. ASSUME NEW c \in Clients PROVE rows'[c] \in Row \cup {None}
  <2>1. rows'[c] = IF rows[c] # None /\ job.renewing[c] # None
                     THEN Renewed(rows[c], job.renewing[c]) ELSE rows[c]
    BY DEF JobRenew
  <2>2. rows[c] \in Row \cup {None} /\ job.renewing[c] \in Row \cup {None}
    BY TablesTyped, JobFields
  <2>3. CASE rows[c] # None /\ job.renewing[c] # None
    <3>1. job.renewing[c].reset > 0 /\ job.renewing[c].expiry <= now /\ now \in Nat
      BY <2>3, TablesTyped, JobFields DEF JobTyped, Keys
    <3> QED
      BY <2>1, <2>2, <2>3, <3>1, RenewedType
  <2> QED
    BY <2>1, <2>2, <2>3
<1> DEFINE T == Row \cup {None}
<1>2. rows' = [c \in Clients |-> rows'[c]]
  BY DEF JobRenew
<1> HIDE DEF T
<1>3. rows' \in [Clients -> T]
  BY <1>1, <1>2 DEF T
<1> DEFINE b == \E c \in Keys(job.renewing) : ~job.renewing[c].enable
<1>4. job' = [job EXCEPT !.pc = "disable", !.renewing = Idle.renewing, !.changed = b]
  BY DEF JobRenew
<1>5. b \in BOOLEAN
  OBVIOUS
<1> HIDE DEF b
<1>6. job' \in JobRecord /\ job'.pc = "disable" /\ job'.renewing = Idle.renewing
  <2>1. job \in JobRecord /\ Idle.renewing \in [Clients -> Row \cup {None}]
    BY TablesTyped, IdleFields DEF JobTyped, JobRecord
  <2> QED
    BY <1>4, <1>5, <2>1 DEF JobRecord
<1>7. JobTyped'
  BY <1>6, IdleFields DEF JobTyped, Keys, Idle
<1>8. ManagerTypes
  BY LeavesTypes DEF JobRenew
<1> QED
  BY <1>3, <1>7, <1>8, JobStepTyped DEF JobRenew, T

LEMMA JobDisableTyped == ASSUME Typed, Structure, JobDisable PROVE Typed'
<1>1. ASSUME NEW c \in Clients PROVE rows'[c] \in Row \cup {None}
  <2>1. rows'[c] = rows[c] \/ (c \in Invalid /\ rows'[c] = [rows[c] EXCEPT !.enable = FALSE])
    BY DEF JobDisable
  <2>2. rows[c] \in Row \cup {None} /\ (c \in Invalid => rows[c] \in Row)
    BY TablesTyped DEF Invalid, Keys
  <2> QED
    BY <2>1, <2>2, RowFields
<1> DEFINE T == Row \cup {None}
<1>2. rows' = [c \in Clients |-> rows'[c]]
  BY DEF JobDisable
<1> HIDE DEF T
<1>3. rows' \in [Clients -> T]
  BY <1>1, <1>2 DEF T
<1>4. job' = Idle \/ job' = [Idle EXCEPT !.pc = "rebuild", !.changed = TRUE]
  BY DEF JobDisable
<1>5. job' \in JobRecord /\ job'.pc # "write" /\ Keys(job'.renewing) = {}
  <2>1. CASE job' = Idle
    BY <2>1, IdleFields DEF Keys, Idle
  <2>2. CASE job' = [Idle EXCEPT !.pc = "rebuild", !.changed = TRUE]
    BY <2>2, IdleTyped
  <2> QED
    BY <1>4, <2>1, <2>2
<1>6. JobTyped'
  BY <1>5 DEF JobTyped, Keys
<1>7. ManagerTypes
  BY LeavesTypes DEF JobDisable
<1> QED
  BY <1>3, <1>6, <1>7, JobStepTyped DEF JobDisable, T

LEMMA JobKeepsTypes == ASSUME Typed, Structure, Job PROVE Typed'
  BY JobBuildTyped, JobReconcileTyped, JobSnapshotTyped, JobScrapeTyped, JobWriteTyped,
     JobBillTyped, JobRenewTyped, JobDisableTyped DEF Job

-------------------------------------------------------------------------------
(* The handlers and the environment keep the types.                        *)
LEMMA NoOpType == NoOp \in Op /\ Ready(NoOp) /\ NoOp.row = None /\ NoOp.client = None
                  /\ NoOp.pc = "free"
  BY ConstantsAssumption DEF NoOp, Op, Ready, Requests

LEMMA OpFields ==
  ASSUME Typed, NEW h \in Admins
  PROVE  /\ op[h] \in Op /\ Ready(op[h])
         /\ op[h].client \in Clients \cup {None} /\ op[h].ib \in InboundRow \cup {None}
         /\ op[h].row \in Row \cup {None} /\ op[h].affected \subseteq Inbounds
         /\ op[h].depleted \subseteq Clients /\ op[h].at \in Inbounds \cup {None}
         /\ op[h].serves \in SUBSET (Clients \X Domains)
<1>1. op[h] \in Op /\ Ready(op[h])
  BY TablesTyped
<1> QED
  BY <1>1 DEF Op

LEMMA OpNext ==
  ASSUME Typed, NEW h \in Admins, NEW o \in Op, Ready(o), op' = [op EXCEPT ![h] = o]
  PROVE  op' \in [Admins -> Op] /\ \A g \in Admins : Ready(op'[g])
  BY TablesTyped DEF Ready

LEMMA OpGoesOn ==
  ASSUME Typed, NEW h \in Admins, NEW pc \in {"list", "write", "delete"},
         op' = [op EXCEPT ![h].pc = pc]
  PROVE  op' \in [Admins -> Op] /\ \A g \in Admins : Ready(op'[g])
<1> DEFINE o == [op[h] EXCEPT !.pc = pc]
<1>1. o \in Op /\ Ready(o)
  BY OpFields DEF Op, Ready
<1>2. op' = [op EXCEPT ![h] = o]
  OBVIOUS
<1> HIDE DEF o
<1> QED
  BY <1>1, <1>2, OpNext

\* The frame of a request and of a statement.
LEMMA HandlerTyped ==
  ASSUME Typed, HandlersLeave, ManagerTypes, edits' \in Nat,
         inbounds' \in [Inbounds -> InboundRow \cup {None}],
         rows' \in [Clients -> Row \cup {None}],
         op' \in [Admins -> Op], \A h \in Admins : Ready(op'[h])
  PROVE  Typed'
<1>1. now' \in Nat /\ now <= now'
  BY TablesTyped DEF HandlersLeave
<1>2. JobTyped'
  BY <1>1, JobTypedStays DEF HandlersLeave
<1> QED
  BY <1>1, <1>2, TypedNext, TablesTyped DEF HandlersLeave

LEMMA RequestTyped ==
  ASSUME Typed, Structure, NEW h \in Admins, NEW kind, NEW o \in Op, Ready(o), Request(h, kind, o),
         inbounds' \in [Inbounds -> InboundRow \cup {None}],
         rows' \in [Clients -> Row \cup {None}]
  PROVE  Typed'
<1>1. op' \in [Admins -> Op] /\ \A g \in Admins : Ready(op'[g])
  BY OpNext DEF Request
<1>2. ManagerTypes
  BY LeavesTypes DEF Request
<1>3. edits' \in Nat
  BY TablesTyped DEF Request
<1> QED
  BY <1>1, <1>2, <1>3, HandlerTyped DEF Request

LEMMA NewRowType ==
  ASSUME NEW f \in Form, NEW d \in Domains
  PROVE  /\ NewRow(f, d) \in Row /\ NewRow(f, d).used = 0 /\ NewRow(f, d).allTime = 0
         /\ f.enable \in BOOLEAN
  BY DEF NewRow, Row, Form

LEMMA KeptRowType ==
  ASSUME NEW r \in Row, NEW used \in Nat, NEW allTime \in Nat
  PROVE  LET q == [r EXCEPT !.used = used, !.allTime = allTime]
         IN  q \in Row /\ q.used = used /\ q.allTime = allTime
  BY DEF Row

LEMMA DomainType == ASSUME NEW ib \in InboundRow PROVE ib.domain \in Domains /\ ib.enable \in BOOLEAN
  BY DEF InboundRow

LEMMA BegunType ==
  ASSUME NEW c \in Clients, NEW ib \in InboundRow, NEW r \in Row, NEW i \in Inbounds,
         NEW k \in {"AddClient", "UpdateClient"}
  PROVE  LET o == [Begun(k) EXCEPT !.client = c, !.ib = ib, !.affected = {i}, !.row = r]
         IN  o \in Op /\ Ready(o)
  BY DEF Begun, NoOp, Op, Ready, Requests

LEMMA RequestsTyped == ASSUME Typed, Structure, NEW h \in Admins, Begin(h) PROVE Typed'
<1> DEFINE T == Row \cup {None}
<1>0. Reads => /\ inbounds' \in [Inbounds -> InboundRow \cup {None}]
               /\ rows' \in [Clients -> Row \cup {None}]
  BY TablesTyped DEF Reads
<1>1. ASSUME NEW c \in Clients, NEW f \in Forms, BeginAddClient(h, c, f) PROVE Typed'
  <2> DEFINE ib == inbounds[Home[c]]  r == NewRow(f, ib.domain)
             o == [Begun("AddClient") EXCEPT !.client = c, !.ib = ib, !.affected = {Home[c]}, !.row = r]
  <2>1. Home[c] \in Inbounds /\ f \in Form /\ ib \in InboundRow
    BY <1>1, TablesTyped, ConstantsAssumption DEF BeginAddClient
  <2>2. r \in Row
    BY <2>1, NewRowType, DomainType
  <2>3. [Begun("AddClient") EXCEPT !.client = c, !.ib = ib, !.row = r, !.affected = {Home[c]}] = o
    BY DEF Begun, NoOp
  <2>4. Request(h, "AddClient", o) /\ Reads
    BY <1>1, <2>3 DEF BeginAddClient
  <2> HIDE DEF r, ib
  <2>5. o \in Op /\ Ready(o)
    BY <2>1, <2>2, BegunType
  <2> HIDE DEF o
  <2> QED
    BY <1>0, <2>4, <2>5, RequestTyped
<1>2. ASSUME NEW c \in Clients, NEW f \in Forms, BeginUpdateClient(h, c, f) PROVE Typed'
  <2> DEFINE ib == inbounds[Home[c]]
             r == [NewRow(f, ib.domain) EXCEPT !.used = rows[c].used, !.allTime = rows[c].allTime]
             o == [Begun("UpdateClient") EXCEPT !.client = c, !.ib = ib, !.affected = {Home[c]},
                                                !.row = r]
  <2>1. Home[c] \in Inbounds /\ f \in Form /\ ib \in InboundRow /\ rows[c] \in Row
    BY <1>2, TablesTyped, ConstantsAssumption DEF BeginUpdateClient
  <2>2. NewRow(f, ib.domain) \in Row
    BY <2>1, NewRowType, DomainType
  <2>3. r \in Row
    BY <2>1, <2>2, KeptRowType, RowFields
  <2>4. Request(h, "UpdateClient", o) /\ Reads
    BY <1>2 DEF BeginUpdateClient
  <2> HIDE DEF r, ib
  <2>5. o \in Op /\ Ready(o)
    BY <2>1, <2>3, BegunType
  <2> HIDE DEF o
  <2> QED
    BY <1>0, <2>4, <2>5, RequestTyped
<1>3. ASSUME NEW c \in Clients, NEW f \in Forms, BeginToggleClient(h, c, f) PROVE Typed'
  <2> DEFINE r == [rows[c] EXCEPT !.enable = f.enable]
             o == [Begun("ToggleClient") EXCEPT !.client = c, !.affected = {Home[c]}, !.row = r]
  <2>1. Home[c] \in Inbounds /\ f \in Form /\ rows[c] \in Row
    BY <1>3, TablesTyped, ConstantsAssumption DEF BeginToggleClient
  <2>2. r \in Row
    BY <2>1, NewRowType, RowFields DEF Form
  <2>3. Request(h, "ToggleClient", o) /\ Reads
    BY <1>3 DEF BeginToggleClient
  <2> HIDE DEF r
  <2>4. o \in Op /\ Ready(o)
    BY <2>1, <2>2, ConstantsAssumption DEF Begun, NoOp, Op, Ready, Requests
  <2> HIDE DEF o
  <2> QED
    BY <1>0, <2>3, <2>4, RequestTyped
<1>4. ASSUME NEW c \in Clients, BeginClientRequest(h, c) PROVE Typed'
  <2>1. PICK kind \in {"DeleteClient", "ResetClient"} :
          Request(h, kind, [Begun(kind) EXCEPT !.client = c, !.affected = {Home[c]}]) /\ Reads
    BY <1>4 DEF BeginClientRequest
  <2> DEFINE o == [Begun(kind) EXCEPT !.client = c, !.affected = {Home[c]}]
  <2>2. Home[c] \in Inbounds
    BY ConstantsAssumption
  <2>3. o \in Op /\ Ready(o)
    BY <2>2 DEF Begun, NoOp, Op, Ready, Requests
  <2>4. Request(h, kind, o)
    BY <2>1
  <2> HIDE DEF o
  <2> QED
    BY <1>0, <2>1, <2>3, <2>4, RequestTyped
<1>5. CASE ResetAllClientTraffics(h)
  <2>1. PICK scope \in Scopes :
          /\ Request(h, "ResetAll", NoOp)
          /\ rows' = [c \in Clients |-> IF rows[c] # None /\ Home[c] \in scope
                                        THEN [rows[c] EXCEPT !.used = 0] ELSE rows[c]]
          /\ UNCHANGED inbounds
    BY <1>5 DEF ResetAllClientTraffics
  <2>2. ASSUME NEW c \in Clients PROVE rows'[c] \in T
    <3>1. rows[c] \in Row \cup {None}
      BY TablesTyped
    <3> QED
      BY <2>1, <3>1, RowFields
  <2>3. rows' = [c \in Clients |-> rows'[c]]
    BY <2>1
  <2> HIDE DEF T
  <2>4. rows' \in [Clients -> T]
    BY <2>2, <2>3
  <2> QED
    BY <2>1, <2>4, NoOpType, RequestTyped, TablesTyped DEF T
<1>6. CASE BeginDelDepleted(h)
  <2>1. PICK scope \in Scopes :
          LET found == {c \in Keys(rows) : Home[c] \in scope /\ rows[c].reset = 0
                                           /\ Depleted(rows[c])}
          IN  /\ found # {}
              /\ Request(h, "DelDepleted", [Begun("DelDepleted") EXCEPT
                     !.depleted = found, !.affected = {Home[c] : c \in found}])
              /\ Reads
    BY <1>6 DEF BeginDelDepleted
  <2> DEFINE found == {c \in Keys(rows) : Home[c] \in scope /\ rows[c].reset = 0
                                          /\ Depleted(rows[c])}
             homes == {Home[c] : c \in found}
             o == [Begun("DelDepleted") EXCEPT !.depleted = found, !.affected = homes]
  <2>2. found \subseteq Clients
    BY TablesTyped DEF Keys
  <2>3. homes \subseteq Inbounds
    BY <2>2, ConstantsAssumption
  <2>4. Request(h, "DelDepleted", o) /\ Reads
    BY <2>1
  <2> HIDE DEF found, homes
  <2>5. o \in Op /\ Ready(o)
    BY <2>2, <2>3 DEF Begun, NoOp, Op, Ready, Requests
  <2> HIDE DEF o
  <2> QED
    BY <1>0, <2>4, <2>5, RequestTyped
<1>7. ASSUME NEW i \in Inbounds, NEW ib \in InboundRow, BeginUpdateInbound(h, i, ib) PROVE Typed'
  <2> DEFINE b == ib.domain # inbounds[i].domain
             o == [Begun("UpdateInbound") EXCEPT !.ib = ib, !.affected = {i}, !.reheal = b]
  <2>1. Request(h, "UpdateInbound", o) /\ Reads
    BY <1>7 DEF BeginUpdateInbound
  <2>2. b \in BOOLEAN
    OBVIOUS
  <2> HIDE DEF b
  <2>3. o \in Op /\ Ready(o)
    BY <2>2, ConstantsAssumption DEF Begun, NoOp, Op, Ready, Requests
  <2> HIDE DEF o
  <2> QED
    BY <1>0, <2>1, <2>3, RequestTyped
<1>8. ASSUME NEW i \in Inbounds, BeginDelInbound(h, i) PROVE Typed'
  <2> DEFINE o == [Begun("DelInbound") EXCEPT !.affected = {i}, !.pc = "remove"]
  <2>1. Request(h, "DelInbound", o) /\ Reads
    BY <1>8 DEF BeginDelInbound
  <2>2. o \in Op /\ Ready(o)
    BY DEF Begun, NoOp, Op, Ready, Requests
  <2> HIDE DEF o
  <2> QED
    BY <1>0, <2>1, <2>2, RequestTyped
<1>9. ASSUME NEW i \in Inbounds, NEW b \in BOOLEAN, SetInboundEnable(h, i, b) PROVE Typed'
  <2>1. inbounds[i] \in InboundRow
    BY <1>9, TablesTyped DEF SetInboundEnable
  <2>2. [inbounds[i] EXCEPT !.enable = b] \in InboundRow
    BY <2>1 DEF InboundRow
  <2>3. inbounds' = [inbounds EXCEPT ![i] = [inbounds[i] EXCEPT !.enable = b]]
    BY <1>9 DEF SetInboundEnable
  <2>4. inbounds' \in [Inbounds -> InboundRow \cup {None}]
    BY <2>2, <2>3, TablesTyped
  <2> QED
    BY <1>9, <2>4, NoOpType, RequestTyped, TablesTyped DEF SetInboundEnable
<1> QED
  BY <1>1, <1>2, <1>3, <1>4, <1>5, <1>6, <1>7, <1>8, <1>9 DEF Begin

LEMMA RowsExcept ==
  ASSUME Typed, NEW c, NEW r \in Row \cup {None}, rows' = [rows EXCEPT ![c] = r]
  PROVE  rows' \in [Clients -> Row \cup {None}]
  BY TablesTyped

LEMMA SaveRowTyped == ASSUME Typed, Structure, NEW h \in Admins, SaveRow(h) PROVE Typed'
<1>1. rows' \in [Clients -> Row \cup {None}]
  BY OpFields, RowsExcept DEF SaveRow
<1>2. op' \in [Admins -> Op] /\ \A g \in Admins : Ready(op'[g])
  BY OpGoesOn DEF SaveRow
<1> QED
  BY <1>1, <1>2, LeavesTypes, HandlerTyped, TablesTyped DEF SaveRow, StatementLeaves

\* What a statement makes of a row.
Alters(h, q, r) ==
  \/ q = None
  \/ q = [r EXCEPT !.used = 0]
  \/ op[h].kind = "ToggleClient" /\ q = [r EXCEPT !.enable = op[h].row.enable]

LEMMA AlterRowRows ==
  ASSUME NEW h \in Admins, AlterRow(h), NEW c \in Clients, Typed
  PROVE  rows'[c] = rows[c] \/ (rows[c] # None /\ Alters(h, rows'[c], rows[c]))
<1>1. CASE op[h].kind = "DeleteClient"
  BY <1>1, TablesTyped DEF AlterRow, Alters
<1>2. CASE op[h].kind = "ResetClient"
  BY <1>2, TablesTyped DEF AlterRow, Alters
<1>3. CASE op[h].kind = "ToggleClient"
  BY <1>3, TablesTyped DEF AlterRow, Alters
<1> QED
  BY <1>1, <1>2, <1>3 DEF AlterRow

LEMMA AltersType ==
  ASSUME Typed, NEW h \in Admins, NEW r \in Row, NEW q, Alters(h, q, r)
  PROVE  /\ q \in Row \cup {None}
         /\ q = None \/ (q.allTime = r.allTime /\ q.used <= r.used)
<1>1. CASE q = [r EXCEPT !.used = 0]
  BY <1>1, RowFields DEF Row
<1>2. CASE op[h].kind = "ToggleClient" /\ q = [r EXCEPT !.enable = op[h].row.enable]
  <2>1. op[h].row.enable \in BOOLEAN
    BY <1>2, OpFields, RowFields DEF Ready
  <2>2. q.allTime = r.allTime /\ q.used = r.used /\ r.used \in Nat
    BY <1>2 DEF Row
  <2>3. q \in Row
    BY <1>2, <2>1, RowFields
  <2> QED
    BY <2>2, <2>3
<1>3. CASE q = None
  BY <1>3
<1> QED
  BY <1>1, <1>2, <1>3 DEF Alters

LEMMA AlterRowTyped == ASSUME Typed, Structure, NEW h \in Admins, AlterRow(h) PROVE Typed'
<1> DEFINE T == Row \cup {None}
<1>1. ASSUME NEW c \in Clients PROVE rows'[c] \in T
  <2>1. rows[c] \in T
    BY TablesTyped
  <2> QED
    BY <2>1, AlterRowRows, AltersType
<1>2. rows' = rows \/ \E x : rows' = [rows EXCEPT ![op[h].client] = x]
  BY Zenon DEF AlterRow
<1>3. rows' = [c \in Clients |-> rows'[c]]
  BY <1>2, TablesTyped
<1> HIDE DEF T
<1>4. rows' \in [Clients -> T]
  BY <1>1, <1>3
<1>5. op' \in [Admins -> Op] /\ \A g \in Admins : Ready(op'[g])
  BY OpGoesOn DEF AlterRow
<1> QED
  BY <1>4, <1>5, LeavesTypes, HandlerTyped, TablesTyped DEF AlterRow, StatementLeaves, T

LEMMA DeleteDepletedTyped ==
  ASSUME Typed, Structure, NEW h \in Admins, DeleteDepleted(h)
  PROVE  Typed'
<1>1. /\ rows' \in [Clients -> Row \cup {None}]
      /\ op' \in [Admins -> Op] /\ \A g \in Admins : Ready(op'[g])
  <2>1. CASE op[h].depleted = {}
    BY <2>1, OpGoesOn, TablesTyped DEF DeleteDepleted
  <2>2. CASE op[h].depleted # {}
    <3>1. PICK c \in op[h].depleted :
            /\ op' = [op EXCEPT ![h].depleted = @ \ {c}]
            /\ rows' = [rows EXCEPT ![c] = None]
      BY <2>2 DEF DeleteDepleted
    <3> DEFINE o == [op[h] EXCEPT !.depleted = @ \ {c}]
    <3>2. o \in Op /\ Ready(o)
      BY OpFields DEF Op, Ready
    <3>3. op' = [op EXCEPT ![h] = o]
      BY <3>1
    <3> HIDE DEF o
    <3> QED
      BY <3>1, <3>2, <3>3, OpNext, RowsExcept
  <2> QED
    BY <2>1, <2>2
<1> QED
  BY <1>1, LeavesTypes, HandlerTyped, TablesTyped DEF DeleteDepleted, StatementLeaves

LEMMA SaveInboundTyped == ASSUME Typed, Structure, NEW h \in Admins, SaveInbound(h) PROVE Typed'
<1> DEFINE T == Row \cup {None}
<1>1. PICK i \in op[h].affected :
        /\ inbounds' = [inbounds EXCEPT ![i] = op[h].ib]
        /\ rows' = [c \in Clients |-> IF rows[c] # None /\ Home[c] = i /\ op[h].reheal
                                      THEN [rows[c] EXCEPT !.secret = op[h].ib.domain]
                                      ELSE rows[c]]
  BY DEF SaveInbound
<1>2. op[h].ib \in InboundRow
  BY OpFields DEF SaveInbound, Ready
<1>3. inbounds' \in [Inbounds -> InboundRow \cup {None}]
  BY <1>1, <1>2, TablesTyped
<1>4. ASSUME NEW c \in Clients PROVE rows'[c] \in T
  <2>1. rows[c] \in Row \cup {None} /\ op[h].ib.domain \in Domains
    BY <1>2, TablesTyped, DomainType
  <2> QED
    BY <1>1, <2>1, RowFields
<1>5. rows' = [c \in Clients |-> rows'[c]]
  BY <1>1
<1> HIDE DEF T
<1>6. rows' \in [Clients -> T]
  BY <1>4, <1>5
<1>7. op' \in [Admins -> Op] /\ \A g \in Admins : Ready(op'[g])
  BY OpGoesOn DEF SaveInbound
<1> QED
  BY <1>3, <1>6, <1>7, LeavesTypes, HandlerTyped, TablesTyped DEF SaveInbound, StatementLeaves, T

LEMMA DelInboundStepTyped ==
  ASSUME Typed, Structure, NEW h \in Admins, DelInboundStep(h)
  PROVE  Typed'
<1>1. PICK i \in op[h].affected :
        \/ /\ Remove(i) /\ op' = [op EXCEPT ![h].pc = "write"]
           /\ UNCHANGED <<inbounds, rows>>
        \/ /\ ManagerLeaves /\ op' = [op EXCEPT ![h].pc = "delete"] /\ UNCHANGED inbounds
           /\ rows' = [c \in Clients |-> IF Home[c] = i THEN None ELSE rows[c]]
        \/ /\ ManagerLeaves /\ op' = [op EXCEPT ![h] = NoOp] /\ UNCHANGED rows
           /\ inbounds' = [inbounds EXCEPT ![i] = None]
  BY DEF DelInboundStep
<1>2. i \in Inbounds
  BY OpFields
<1>3. HandlersLeave /\ edits' \in Nat
  BY TablesTyped DEF DelInboundStep
<1>4. CASE Remove(i) /\ op' = [op EXCEPT ![h].pc = "write"] /\ UNCHANGED <<inbounds, rows>>
  <2>1. ManagerTypes
    BY <1>2, <1>4, RemoveStep
  <2>2. op' \in [Admins -> Op] /\ \A g \in Admins : Ready(op'[g])
    BY <1>4, OpGoesOn
  <2> QED
    BY <1>3, <1>4, <2>1, <2>2, HandlerTyped, TablesTyped
<1>5. CASE /\ ManagerLeaves /\ op' = [op EXCEPT ![h].pc = "delete"] /\ UNCHANGED inbounds
           /\ rows' = [c \in Clients |-> IF Home[c] = i THEN None ELSE rows[c]]
  <2>1. rows' \in [Clients -> Row \cup {None}]
    BY <1>5, TablesTyped
  <2>2. op' \in [Admins -> Op] /\ \A g \in Admins : Ready(op'[g])
    BY <1>5, OpGoesOn
  <2> QED
    BY <1>3, <1>5, <2>1, <2>2, LeavesTypes, HandlerTyped, TablesTyped
<1>6. CASE /\ ManagerLeaves /\ op' = [op EXCEPT ![h] = NoOp] /\ UNCHANGED rows
           /\ inbounds' = [inbounds EXCEPT ![i] = None]
  <2>1. inbounds' \in [Inbounds -> InboundRow \cup {None}]
    BY <1>6, TablesTyped
  <2>2. op' \in [Admins -> Op] /\ \A g \in Admins : Ready(op'[g])
    BY <1>6, OpNext, NoOpType
  <2> QED
    BY <1>3, <1>6, <2>1, <2>2, LeavesTypes, HandlerTyped, TablesTyped
<1> QED
  BY <1>1, <1>4, <1>5, <1>6

\* A request whose rows were read is ready to have its sidecar reconciled.
LEMMA Listed ==
  ASSUME Typed, NEW h \in Admins, ListClients(h)
  PROVE  \E o \in Op : /\ op' = [op EXCEPT ![h] = o] /\ Ready(o)
                       /\ o = NoOp \/ (o.client = op[h].client /\ o.row = op[h].row)
                       /\ o.pc = "apply" => Fits(o.at, o.serves)
<1>1. PICK i \in op[h].affected :
        op' = IF Known(h, i) = None /\ op[h].kind \in {"ToggleClient", "ResetClient"}
              THEN [op EXCEPT ![h] = NoOp]
              ELSE [op EXCEPT ![h].pc = "apply", ![h].at = i,
                              ![h].serves = IF Known(h, i) # None /\ Known(h, i).enable
                                            THEN Instance(i, rows) ELSE {}]
  BY DEF ListClients
<1>2. i \in Inbounds /\ i # None
  BY OpFields, ConstantsAssumption
<1> DEFINE S == IF Known(h, i) # None /\ Known(h, i).enable THEN Instance(i, rows) ELSE {}
           o == [op[h] EXCEPT !.pc = "apply", !.at = i, !.serves = S]
<1>3. S \in SUBSET (Clients \X Domains) /\ Fits(i, S)
  BY <1>2, InstanceFits DEF Fits
<1>4. op' = [op EXCEPT ![h] = NoOp] \/ op' = [op EXCEPT ![h] = o]
  BY <1>1
<1> HIDE DEF S
<1>5. /\ o \in Op /\ Ready(o) /\ o.client = op[h].client /\ o.row = op[h].row
      /\ o.at = i /\ o.serves = S
  BY <1>2, <1>3, OpFields DEF Op, Ready
<1> HIDE DEF o
<1>6. CASE op' = [op EXCEPT ![h] = NoOp]
  BY <1>6, NoOpType
<1>7. CASE op' = [op EXCEPT ![h] = o]
  BY <1>3, <1>5, <1>7
<1> QED
  BY <1>4, <1>6, <1>7

LEMMA ListClientsTyped == ASSUME Typed, Structure, NEW h \in Admins, ListClients(h) PROVE Typed'
<1>1. op' \in [Admins -> Op] /\ \A g \in Admins : Ready(op'[g])
  BY Listed, OpNext
<1> QED
  BY <1>1, LeavesTypes, HandlerTyped, TablesTyped DEF ListClients, Reads, StatementLeaves

LEMMA ReconcilingStep ==
  ASSUME Typed, Structure, NEW h \in Admins, Reconciling(h)
  PROVE  /\ ManagerStep /\ ManagerTypes
         /\ \E o \in Op : /\ op' = [op EXCEPT ![h] = o] /\ Ready(o) /\ o.pc # "apply"
                          /\ o = NoOp \/ (o.client = op[h].client /\ o.row = op[h].row)
<1>1. /\ op[h].at \in Inbounds /\ op[h].serves \in SUBSET (Clients \X Domains)
      /\ Fits(op[h].at, op[h].serves)
  BY OpFields DEF Reconciling, Ready, Structure, Serving
<1>2. ManagerStep /\ ManagerTypes
  BY <1>1, ReconcileInboundStep DEF Reconciling
<1> DEFINE rest == op[h].affected \ {op[h].at}
           o == [op[h] EXCEPT !.pc = "list", !.affected = rest]
<1>3. /\ o \in Op /\ Ready(o) /\ o.pc # "apply" /\ o.client = op[h].client
      /\ o.row = op[h].row
  <2>1. rest \subseteq Inbounds
    BY OpFields
  <2> HIDE DEF rest
  <2> QED
    BY <2>1, OpFields DEF Op, Ready
<1>4. op' = [op EXCEPT ![h] = NoOp] \/ op' = [op EXCEPT ![h] = o]
  BY DEF Reconciling
<1> HIDE DEF o
<1>5. CASE op' = [op EXCEPT ![h] = NoOp]
  BY <1>2, <1>5, NoOpType
<1>6. CASE op' = [op EXCEPT ![h] = o]
  BY <1>2, <1>3, <1>6
<1> QED
  BY <1>4, <1>5, <1>6

LEMMA ReconcilingTyped == ASSUME Typed, Structure, NEW h \in Admins, Reconciling(h) PROVE Typed'
<1>1. op' \in [Admins -> Op] /\ \A g \in Admins : Ready(op'[g])
  BY ReconcilingStep, OpNext
<1>2. ManagerTypes
  BY ReconcilingStep
<1> QED
  BY <1>1, <1>2, HandlerTyped, TablesTyped DEF Reconciling, Reads

LEMMA HandlersKeepTypes ==
  ASSUME Typed, Structure, NEW h \in Admins, Begin(h) \/ Handle(h)
  PROVE  Typed'
  BY RequestsTyped, SaveRowTyped, AlterRowTyped, DeleteDepletedTyped, SaveInboundTyped,
     DelInboundStepTyped, ListClientsTyped, ReconcilingTyped DEF Handle

LEMMA UseTyped == ASSUME Typed, Structure, NEW c \in Clients, Use(c) PROVE Typed'
<1>1. consumed' \in [Clients -> Nat] /\ now' \in Nat /\ now <= now'
  BY TablesTyped DEF Use
<1>2. procs' \in [Inbounds -> Process \cup {None}]
  <2>1. CASE UNCHANGED procs
    BY <2>1, TablesTyped
  <2>2. CASE \E i \in Keys(procs) : procs' = [procs EXCEPT ![i].count[c] = @ + 1]
    <3>1. PICK i \in Keys(procs) : procs' = [procs EXCEPT ![i].count[c] = @ + 1]
      BY <2>2
    <3>2. i \in Inbounds /\ procs[i] \in Process
      BY TablesTyped DEF Keys
    <3> DEFINE count == [procs[i].count EXCEPT ![c] = @ + 1]
               p == [procs[i] EXCEPT !.count = count]
    <3>3. count \in [Clients -> Nat]
      BY <3>2, ProcessFields
    <3>4. procs' = [procs EXCEPT ![i] = p]
      BY <3>1
    <3> HIDE DEF count
    <3>5. p \in Process
      BY <3>2, <3>3 DEF Process
    <3> HIDE DEF p
    <3> QED
      BY <3>2, <3>4, <3>5, TablesTyped
  <2> QED
    BY <2>1, <2>2 DEF Use
<1>3. ManagerTypes
  BY <1>2 DEF ManagerTypes, Use, Typed, TypeOK
<1>4. JobTyped'
  BY <1>1, JobTypedStays DEF Use
<1> QED
  BY <1>1, <1>3, <1>4, TypedNext, TablesTyped DEF Use

LEMMA TickTyped == ASSUME Typed, Structure, Tick PROVE Typed'
<1>1. now' \in Nat /\ now <= now'
  BY TablesTyped DEF Tick
<1>2. JobTyped'
  BY <1>1, JobTypedStays DEF Tick
<1>3. ManagerTypes
  BY LeavesTypes DEF Tick, ManagerLeaves
<1> QED
  BY <1>1, <1>2, <1>3, TypedNext, TablesTyped DEF Tick

LEMMA SidecarDiesStep ==
  ASSUME Typed, Structure, NEW i \in Inbounds, SidecarDies(i)
  PROVE  ManagerStep
<1>1. procs[i] \in Process
  BY TablesTyped DEF SidecarDies
<1> DEFINE p == [procs[i] EXCEPT !.running = FALSE]
<1>2. p \in Process /\ GoesOn(procs[i], p) /\ ~p.running
  BY <1>1 DEF Process, GoesOn
<1>3. procs' = [procs EXCEPT ![i] = p]
  BY DEF SidecarDies
<1> HIDE DEF p
<1>4. procs' \in [Inbounds -> Process \cup {None}]
  BY <1>2, <1>3, TablesTyped
<1>5. ASSUME NEW j \in Keys(procs') PROVE procs[j] # None /\ GoesOn(procs[j], procs'[j])
  BY <1>2, <1>3, TablesTyped DEF Keys, GoesOn, SidecarDies
<1>6. PortsApart'
  <2>1. ASSUME NEW j \in Keys(procs')
        PROVE  j \in Keys(procs) /\ procs'[j].port = procs[j].port
               /\ (procs'[j].running => procs[j].running)
    BY <1>5, <1>4, TablesTyped DEF Keys, GoesOn
  <2>2. PortsApart
    BY DEF Structure
  <2> QED
    BY <2>1, <2>2 DEF PortsApart, Keys
<1> QED
  BY <1>4, <1>5, <1>6 DEF ManagerStep, Keys

LEMMA SidecarDiesTyped == ASSUME Typed, Structure, NEW i \in Inbounds, SidecarDies(i) PROVE Typed'
<1>1. now' \in Nat /\ now <= now'
  BY TablesTyped DEF SidecarDies
<1>2. JobTyped'
  BY <1>1, JobTypedStays DEF SidecarDies
<1>3. ManagerTypes
  <2>1. procs' \in [Inbounds -> Process \cup {None}]
    BY SidecarDiesStep DEF ManagerStep
  <2>2. faults' \in Nat
    BY TablesTyped DEF SidecarDies, Fault
  <2>3. orphans' \subseteq SUBSET (Clients \X Domains) /\ swept' \in BOOLEAN
    BY DEF SidecarDies, Typed, TypeOK
  <2> QED
    BY <2>1, <2>2, <2>3 DEF ManagerTypes
<1> QED
  BY <1>1, <1>2, <1>3, TypedNext, TablesTyped DEF SidecarDies

LEMMA PanelDiesTyped == ASSUME Typed, Structure, PanelDies PROVE Typed'
<1>1. now' \in Nat /\ now <= now'
  BY TablesTyped DEF PanelDies
<1>2. JobTyped'
  BY IdleFields DEF JobTyped, Keys, PanelDies, Idle
<1>3. orphans' \subseteq SUBSET (Clients \X Domains)
  <2>1. ASSUME NEW i \in Keys(procs) PROVE procs[i].serves \in SUBSET (Clients \X Domains)
    <3>1. procs[i] \in Process
      BY TablesTyped DEF Keys
    <3> QED
      BY <3>1, ProcessFields
  <2>2. orphans \subseteq SUBSET (Clients \X Domains)
    BY DEF Typed, TypeOK
  <2> QED
    BY <2>1, <2>2 DEF PanelDies
<1>4. ManagerTypes
  <2>1. procs' \in [Inbounds -> Process \cup {None}] /\ swept' \in BOOLEAN
    BY DEF PanelDies
  <2>2. faults' \in Nat
    BY TablesTyped DEF PanelDies, Fault
  <2> QED
    BY <1>3, <2>1, <2>2 DEF ManagerTypes
<1>5. op' \in [Admins -> Op] /\ \A h \in Admins : Ready(op'[h])
  BY NoOpType DEF PanelDies
<1> QED
  BY <1>1, <1>2, <1>4, <1>5, TypedNext, TablesTyped DEF PanelDies

LEMMA StopAllTyped == ASSUME Typed, Structure, StopAll PROVE Typed'
<1>1. now' \in Nat /\ now <= now'
  BY TablesTyped DEF StopAll
<1>2. JobTyped'
  BY <1>1, JobTypedStays DEF StopAll
<1>3. ManagerTypes
  BY DEF ManagerTypes, StopAll, Typed, TypeOK
<1> QED
  BY <1>1, <1>2, <1>3, TypedNext, TablesTyped DEF StopAll

LEMMA NextKeepsTypes == ASSUME Typed, Structure, Next PROVE Typed'
  BY JobKeepsTypes, HandlersKeepTypes, UseTyped, TickTyped, SidecarDiesTyped, PanelDiesTyped,
     StopAllTyped DEF Next

LEMMA InitTyped == Init => Typed
<1> SUFFICES ASSUME Init PROVE Typed
  OBVIOUS
<1>1. JobTyped
  BY IdleFields DEF JobTyped, Keys, Init, Idle
<1>2. op \in [Admins -> Op] /\ \A h \in Admins : Ready(op[h])
  BY NoOpType DEF Init
<1>3. consumed \in [Clients -> Nat]
  <2>1. ASSUME NEW c \in Clients
        PROVE  (IF FirstRows[c] = None THEN 0 ELSE FirstRows[c].allTime) \in Nat
    <3>1. FirstRows[c] \in Row \cup {None}
      BY ConstantsAssumption
    <3> QED
      BY <3>1, RowFields
  <2> QED
    BY <2>1 DEF Init
<1>4. rows \in [Clients -> Row \cup {None}]
  BY ConstantsAssumption DEF Init
<1> QED
  BY <1>1, <1>2, <1>3, <1>4 DEF Init, Typed, TypeOK

-------------------------------------------------------------------------------
(* What serves what, and on which port.                                    *)
LEMMA KeysOf ==
  ASSUME Typed
  PROVE  /\ Keys(procs) = {i \in Inbounds : procs[i] # None}
         /\ Keys(job.snaps) = {i \in Inbounds : job.snaps[i] # None}
         /\ Keys(rows) = {c \in Clients : rows[c] # None}
<1>1. job.snaps \in [Inbounds -> Snap \cup {None}]
  BY JobFields
<1>2. procs \in [Inbounds -> Process \cup {None}] /\ rows \in [Clients -> Row \cup {None}]
  BY TablesTyped
<1> QED
  BY <1>1, <1>2 DEF Keys

LEMMA KeysNext ==
  ASSUME Typed'
  PROVE  /\ Keys(procs)' = {i \in Inbounds : procs'[i] # None}
         /\ Keys(job.snaps)' = {i \in Inbounds : job'.snaps[i] # None}
<1>1. job'.snaps \in [Inbounds -> Snap \cup {None}] /\ procs' \in [Inbounds -> Process \cup {None}]
  BY DEF Typed, TypeOK, JobTyped, JobRecord
<1> QED
  BY <1>1 DEF Keys

\* A step of the manager beside which the job drops snapshots at most.
LEMMA StructureNext ==
  ASSUME Typed, Structure, Typed', UNCHANGED multi, ManagerStep,
         \A i \in Inbounds : Fits(i, job'.desired[i]),
         \A i \in Inbounds : job'.snaps[i] = None \/ job'.snaps[i] = job.snaps[i],
         \A h \in Admins : op'[h].pc = "apply" => Fits(op'[h].at, op'[h].serves),
         ReadIsOfSnap'
  PROVE  Structure'
<1>0. \A i, S : Fits(i, S)' <=> Fits(i, S)
  BY DEF Fits
<1>1. ASSUME NEW i \in Inbounds, procs'[i] # None
      PROVE  (procs[i] # None /\ GoesOn(procs[i], procs'[i])) \/ Starts(i, procs'[i])
  BY <1>1, KeysNext DEF ManagerStep
<1>2. Serving /\ SnapsCurrent /\ Counted
  BY DEF Structure
<1>3. ASSUME NEW i \in Inbounds, Starts(i, procs'[i])
      PROVE  /\ procs'[i].serves # {} /\ Fits(i, procs'[i].serves)
             /\ \A c \in Clients : procs'[i].count[c] = 0
             /\ ~multi => \A k \in Keys(job.snaps) : procs'[i].port # job.snaps[k].port
  <2>1. PICK S \in (SUBSET (Clients \X Domains)) \ {{}}, port \in Ports :
          /\ procs'[i] = NewProcess(S, port) /\ Fits(i, S)
          /\ ~multi => \A k \in Keys(job.snaps) : port # job.snaps[k].port
    BY <1>3 DEF Starts
  <2> QED
    BY <2>1, NewProcessFields
<1>4. ASSUME NEW i \in Inbounds, procs'[i] # None
      PROVE  procs'[i].serves # {} /\ Fits(i, procs'[i].serves)
  <2>1. CASE procs[i] # None /\ GoesOn(procs[i], procs'[i])
    BY <1>2, <2>1, KeysOf DEF GoesOn, Serving
  <2> QED
    BY <1>1, <1>3, <1>4, <2>1
<1>5. ASSUME NEW i \in Inbounds, job'.snaps[i] # None
      PROVE  job'.snaps[i].serves # {} /\ Fits(i, job'.snaps[i].serves)
  BY <1>2, <1>5, KeysOf DEF Serving
<1>6. Serving'
  BY <1>0, <1>4, <1>5, KeysNext DEF Serving
<1>7. SnapsCurrent'
  <2> SUFFICES ASSUME ~multi, NEW i \in Inbounds, job'.snaps[i] # None,
                      NEW j \in Inbounds, procs'[j] # None, procs'[j].running,
                      procs'[j].port = job'.snaps[i].port
               PROVE  j = i /\ procs'[j].serves = job'.snaps[i].serves
                      /\ procs'[j].last = job'.snaps[i].last
    BY KeysNext DEF SnapsCurrent
  <2>1. i \in Keys(job.snaps) /\ job'.snaps[i] = job.snaps[i]
    BY KeysOf
  <2>2. CASE procs[j] # None /\ GoesOn(procs[j], procs'[j])
    <3>1. j \in Keys(procs) /\ procs[j].running /\ procs[j].port = job.snaps[i].port
      BY <2>1, <2>2, KeysOf DEF GoesOn
    <3>2. j = i /\ procs[j].serves = job.snaps[i].serves /\ procs[j].last = job.snaps[i].last
      BY <1>2, <2>1, <3>1 DEF SnapsCurrent
    <3> QED
      BY <2>1, <2>2, <3>2 DEF GoesOn
  <2>3. CASE Starts(j, procs'[j])
    BY <1>3, <2>1, <2>3
  <2> QED
    BY <1>1, <2>2, <2>3
<1>8. ASSUME NEW i \in Inbounds, procs'[i] # None, NEW c \in Clients, procs'[i].count[c] > 0
      PROVE  Admits(procs'[i].serves, c)
  <2>1. CASE procs[i] # None /\ GoesOn(procs[i], procs'[i])
    BY <1>2, <1>8, <2>1, KeysOf DEF Counted, GoesOn
  <2>2. CASE Starts(i, procs'[i])
    BY <1>3, <1>8, <2>2
  <2> QED
    BY <1>1, <1>8, <2>1, <2>2
<1>9. Counted'
  BY <1>8, KeysNext DEF Counted
<1> QED
  BY <1>6, <1>7, <1>9 DEF Structure, ManagerStep

\* The same when the job is left alone.
LEMMA StructureStays ==
  ASSUME Typed, Structure, Typed', UNCHANGED <<multi, job>>, ManagerStep,
         \A h \in Admins : op'[h].pc = "apply" => Fits(op'[h].at, op'[h].serves)
  PROVE  Structure'
<1>1. \A i \in Inbounds : Fits(i, job'.desired[i])
  BY DEF Structure, Serving
<1>2. ReadIsOfSnap'
  BY DEF Structure, ReadIsOfSnap
<1> QED
  BY <1>1, <1>2, StructureNext

LEMMA EmptyFits == ASSUME NEW i PROVE Fits(i, {})
  BY DEF Fits

LEMMA AppliesFit ==
  ASSUME Structure, UNCHANGED op
  PROVE  \A h \in Admins : op'[h].pc = "apply" => Fits(op'[h].at, op'[h].serves)
  BY DEF Structure, Serving

\* The steps of the job but those that change a process, by what they do to the job.
LEMMA JobStructure ==
  ASSUME Typed, Structure, Typed', JobLeaves, ManagerStep,
         \A i \in Inbounds : Fits(i, job'.desired[i]),
         \A i \in Inbounds : job'.snaps[i] = None \/ job'.snaps[i] = job.snaps[i],
         ReadIsOfSnap'
  PROVE  Structure'
<1>1. UNCHANGED <<multi, op>>
  BY DEF JobLeaves
<1> QED
  BY <1>1, AppliesFit, StructureNext

LEMMA JobBuildStructure == ASSUME Typed, Structure, JobBuild PROVE Structure'
<1>1. Typed'
  BY JobBuildTyped
<1>2. job'.desired = Desired /\ job'.snaps = Idle.snaps /\ job'.pc = "reconcile"
  BY DEF JobBuild, Idle
<1>3. ManagerStep /\ JobLeaves
  BY LeavesTypes DEF JobBuild
<1> QED
  BY <1>1, <1>2, <1>3, DesiredFits, IdleFields, JobStructure DEF ReadIsOfSnap

LEMMA JobReconcileStructure == ASSUME Typed, Structure, JobReconcile PROVE Structure'
<1>1. Typed'
  BY JobReconcileTyped
<1>2. job' = Idle \/ job' = [Idle EXCEPT !.pc = "snapshot"]
  BY DEF JobReconcile
<1>3. job'.desired = Idle.desired /\ job'.snaps = Idle.snaps /\ job'.pc # "write"
  BY <1>2, IdleFields DEF JobRecord
<1>4. ManagerStep /\ JobLeaves
  BY ReconcileStep DEF JobReconcile
<1> QED
  BY <1>1, <1>3, <1>4, IdleFields, EmptyFits, JobStructure DEF ReadIsOfSnap

LEMMA JobBillStructure == ASSUME Typed, Structure, JobBill PROVE Structure'
<1>1. Typed'
  BY JobBillTyped
<1>2. job'.desired = job.desired /\ job'.snaps = job.snaps /\ job'.pc = "renew"
  BY JobFields, TablesTyped DEF JobBill, JobTyped, JobRecord
<1>3. ManagerStep /\ JobLeaves
  BY LeavesTypes DEF JobBill
<1>4. \A i \in Inbounds : Fits(i, job.desired[i])
  BY DEF Structure, Serving
<1> QED
  BY <1>1, <1>2, <1>3, <1>4, JobStructure DEF ReadIsOfSnap

LEMMA JobRenewStructure == ASSUME Typed, Structure, JobRenew PROVE Structure'
<1>1. Typed'
  BY JobRenewTyped
<1>2. job'.desired = job.desired /\ job'.snaps = job.snaps /\ job'.pc = "disable"
  BY JobFields, TablesTyped DEF JobRenew, JobTyped, JobRecord
<1>3. ManagerStep /\ JobLeaves
  BY LeavesTypes DEF JobRenew
<1>4. \A i \in Inbounds : Fits(i, job.desired[i])
  BY DEF Structure, Serving
<1> QED
  BY <1>1, <1>2, <1>3, <1>4, JobStructure DEF ReadIsOfSnap

LEMMA JobDisableStructure == ASSUME Typed, Structure, JobDisable PROVE Structure'
<1>1. Typed'
  BY JobDisableTyped
<1>2. job' = Idle \/ job' = [Idle EXCEPT !.pc = "rebuild", !.changed = TRUE]
  BY DEF JobDisable
<1>3. job'.desired = Idle.desired /\ job'.snaps = Idle.snaps /\ job'.pc # "write"
  BY <1>2, IdleFields DEF JobRecord
<1>4. ManagerStep /\ JobLeaves
  BY LeavesTypes DEF JobDisable
<1> QED
  BY <1>1, <1>3, <1>4, IdleFields, EmptyFits, JobStructure DEF ReadIsOfSnap

\* A snapshot is taken of a process that runs, each on a port of its own.
LEMMA SnapshotOf ==
  ASSUME Typed, JobSnapshot, NEW i \in Inbounds
  PROVE  /\ job'.snaps[i] # None => /\ procs[i] # None /\ procs[i].running
                                    /\ job'.snaps[i].port = procs[i].port
                                    /\ job'.snaps[i].serves = procs[i].serves
                                    /\ job'.snaps[i].last = procs[i].last
         /\ job'.desired = job.desired /\ job'.pc = "scrape" /\ job'.at = job.at
         /\ job'.deltas = job.deltas
  BY JobFields, TablesTyped DEF JobSnapshot, JobTyped, JobRecord

LEMMA JobSnapshotStructure == ASSUME Typed, Structure, JobSnapshot PROVE Structure'
<1>1. Typed'
  BY JobSnapshotTyped
<1>2. UNCHANGED <<multi, op, procs>>
  BY DEF JobSnapshot, JobLeaves, ManagerLeaves
<1>3. Serving /\ PortsApart /\ Counted
  BY DEF Structure
<1>0. \A i, S : Fits(i, S)' <=> Fits(i, S)
  BY <1>2 DEF Fits
<1>4. \A i \in Inbounds : job'.snaps[i] # None =>
        job'.snaps[i].serves # {} /\ Fits(i, job'.snaps[i].serves)
  BY <1>3, SnapshotOf, KeysOf DEF Serving
<1>5. \A i \in Inbounds : Fits(i, job'.desired[i])
  BY <1>3, SnapshotOf DEF Serving
<1>6. Serving'
  BY <1>0, <1>2, <1>3, <1>4, <1>5, <1>1, KeysNext, KeysOf, AppliesFit DEF Serving
<1>7. PortsApart' /\ Counted'
  BY <1>2, <1>3 DEF PortsApart, Counted, Keys
<1>8. SnapsCurrent'
  <2> SUFFICES ASSUME NEW i \in Inbounds, job'.snaps[i] # None,
                      NEW j \in Inbounds, procs[j] # None, procs[j].running,
                      procs[j].port = job'.snaps[i].port
               PROVE  j = i /\ procs[j].serves = job'.snaps[i].serves
                      /\ procs[j].last = job'.snaps[i].last
    BY <1>1, <1>2, KeysNext DEF SnapsCurrent
  <2>1. /\ procs[i] # None /\ procs[i].running /\ job'.snaps[i].port = procs[i].port
        /\ job'.snaps[i].serves = procs[i].serves /\ job'.snaps[i].last = procs[i].last
    BY SnapshotOf
  <2>2. i = j
    BY <1>3, <2>1, KeysOf DEF PortsApart
  <2> QED
    BY <2>1, <2>2
<1>9. ReadIsOfSnap'
  BY SnapshotOf, ConstantsAssumption DEF ReadIsOfSnap, JobSnapshot
<1> QED
  BY <1>6, <1>7, <1>8, <1>9 DEF Structure

\* The two outcomes of asking port job.snaps[i].port.
Answers(i, j, idle) ==
  /\ job'.pc = "write" /\ job'.at = i /\ job'.snaps = job.snaps
  /\ job'.read = Counters(procs[j], job.snaps[i].serves, idle)

Asks(i) ==
  \/ job'.pc = "scrape"
  \/ \E j \in Listening(job.snaps[i].port), idle \in BOOLEAN : Answers(i, j, idle)

LEMMA JobScrapeFields ==
  ASSUME Typed, NEW i \in Inbounds, JobScrape(i)
  PROVE  /\ job.snaps[i] # None /\ job'.desired = job.desired /\ job'.deltas = job.deltas
         /\ \A k \in Inbounds : job'.snaps[k] = None \/ job'.snaps[k] = job.snaps[k]
         /\ Asks(i)
<1> DEFINE Fields == /\ job'.desired = job.desired /\ job'.deltas = job.deltas
                     /\ \A k \in Inbounds : job'.snaps[k] = None \/ job'.snaps[k] = job.snaps[k]
<1>0. job.pc = "scrape" /\ job.snaps[i] # None
  BY Zenon DEF JobScrape
<1>1. job \in JobRecord
  BY TablesTyped DEF JobTyped
<1>2. ASSUME job' = [job EXCEPT !.snaps[i] = None]
      PROVE  job'.pc = "scrape" /\ Fields
  BY <1>0, <1>1, <1>2 DEF JobRecord
<1>3. ASSUME NEW j \in Listening(job.snaps[i].port), NEW idle \in BOOLEAN,
             job' = [job EXCEPT !.pc = "write", !.at = i,
                                !.read = Counters(procs[j], job.snaps[i].serves, idle)]
      PROVE  Answers(i, j, idle) /\ Fields
  <2> DEFINE R == Counters(procs[j], job.snaps[i].serves, idle)
  <2> HIDE DEF R
  <2>1. job' = [job EXCEPT !.pc = "write", !.at = i, !.read = R]
    BY <1>3 DEF R
  <2>2. /\ job'.pc = "write" /\ job'.at = i /\ job'.read = R /\ job'.snaps = job.snaps
        /\ job'.desired = job.desired /\ job'.deltas = job.deltas
    BY <1>1, <2>1 DEF JobRecord
  <2>3. Answers(i, j, idle)
    BY <2>2 DEF R, Answers
  <2> QED
    BY <2>2, <2>3
<1> HIDE DEF Fields
<1>4. \/ job' = [job EXCEPT !.snaps[i] = None]
      \/ \E j \in Listening(job.snaps[i].port), idle \in BOOLEAN :
           job' = [job EXCEPT !.pc = "write", !.at = i,
                              !.read = Counters(procs[j], job.snaps[i].serves, idle)]
  BY Zenon DEF JobScrape
<1>5. Asks(i) /\ Fields
  BY <1>2, <1>3, <1>4, Zenon DEF Asks
<1> QED
  BY <1>0, <1>5 DEF Fields

LEMMA Answering ==
  ASSUME Typed, Structure, NEW port, NEW j \in Listening(port)
  PROVE  /\ j \in Inbounds /\ procs[j] \in Process /\ procs[j].running /\ procs[j].port = port
         /\ procs[j].serves \in (SUBSET (Clients \X Domains)) \ {{}}
<1>1. j \in Inbounds /\ procs[j] # None /\ procs[j].running /\ procs[j].port = port
  BY KeysOf DEF Listening
<1>2. procs[j].serves # {}
  BY <1>1, KeysOf DEF Structure, Serving
<1>3. procs[j] \in Process
  BY <1>1, TablesTyped
<1> QED
  BY <1>1, <1>2, <1>3, ProcessFields

\* What one answer says of the counters.
LEMMA CountersOf ==
  ASSUME NEW p \in Process, p.serves # {},
         NEW serves \in SUBSET (Clients \X Domains), NEW idle \in BOOLEAN
  PROVE  /\ multi => \A c \in Clients :
              \/ Counters(p, serves, idle)[c] = None
              \/ /\ Counters(p, serves, idle)[c] = p.count[c]
                 /\ Admits(serves, c) /\ Admits(p.serves, c)
         /\ ~multi => Counters(p, serves, idle)[All] = p.count[Sole(p.serves)]
  BY ConstantsAssumption DEF Counters, Admits

LEMMA JobScrapeStructure ==
  ASSUME Typed, Structure, NEW i \in Inbounds, JobScrape(i)
  PROVE  Structure'
<1>1. Typed'
  BY JobScrapeTyped
<1>2. JobLeaves /\ ManagerStep
  <2>1. JobLeaves /\ ManagerLeaves
    BY Zenon DEF JobScrape
  <2> QED
    BY <2>1, LeavesTypes
<1>3. \A k \in Inbounds : Fits(k, job'.desired[k])
  BY JobScrapeFields DEF Structure, Serving
<1>4. ReadIsOfSnap'
  <2> SUFFICES ASSUME job'.pc = "write"
               PROVE  ReadIsOfSnap'
    BY DEF ReadIsOfSnap
  <2>0. PICK j \in Listening(job.snaps[i].port), idle \in BOOLEAN : Answers(i, j, idle)
    BY JobScrapeFields DEF Asks
  <2>1. /\ job'.pc = "write" /\ job'.at = i /\ job'.snaps = job.snaps
        /\ job'.read = Counters(procs[j], job.snaps[i].serves, idle)
    BY <2>0 DEF Answers
  <2>2. procs[j] \in Process /\ procs[j].serves \in (SUBSET (Clients \X Domains)) \ {{}}
    BY Answering
  <2>3. job.snaps[i].serves \in SUBSET (Clients \X Domains)
    BY JobScrapeFields, JobFields DEF Snap
  <2>4. procs[j].count[Sole(procs[j].serves)] \in Nat
    BY <2>2, SoleServed, ProcessFields
  <2>5. UNCHANGED multi
    BY <1>2 DEF JobLeaves
  <2> DEFINE R == Counters(procs[j], job.snaps[i].serves, idle)
  <2>6. /\ multi => \A c \in Clients : R[c] = None \/ Admits(job.snaps[i].serves, c)
        /\ ~multi => R[All] = procs[j].count[Sole(procs[j].serves)]
    BY <2>2, <2>3, CountersOf
  <2> HIDE DEF R
  <2>7. job'.read = R
    BY <2>1 DEF R
  <2>8. procs[j].count[Sole(procs[j].serves)] # None
    BY <2>4, ConstantsAssumption
  <2>9. CASE multi
    BY <2>1, <2>5, <2>6, <2>7, <2>9 DEF ReadIsOfSnap
  <2>10. CASE ~multi
    BY <2>5, <2>6, <2>7, <2>8, <2>10 DEF ReadIsOfSnap
  <2> QED
    BY <2>9, <2>10
<1> QED
  BY <1>1, <1>2, <1>3, <1>4, JobScrapeFields, JobStructure

\* What a reading that is written changes.
LEMMA JobWriteFields ==
  ASSUME Typed, JobWrite
  PROVE  LET i == job.at
         IN  /\ job.pc = "write" /\ i \in Inbounds /\ job.snaps[i] \in Snap
             /\ job'.pc = "scrape" /\ job'.desired = job.desired
             /\ job'.snaps = [job.snaps EXCEPT ![i] = None]
             /\ \A c \in Clients :
                  job'.deltas[c] = job.deltas[c] + DeltaOf(job.snaps[i], job.read, c)
<1> DEFINE i == job.at
           D == [c \in Clients |-> job.deltas[c] + DeltaOf(job.snaps[i], job.read, c)]
<1>1. job.pc = "write" /\ i \in Inbounds /\ job.snaps[i] \in Snap /\ job \in JobRecord
  BY TablesTyped, JobFields DEF JobTyped, JobWrite
<1>2. job' = [job EXCEPT !.pc = "scrape", !.snaps[i] = None, !.at = None,
                         !.read = Idle.read, !.deltas = D]
  BY DEF JobWrite
<1>3. \A c \in Clients : D[c] = job.deltas[c] + DeltaOf(job.snaps[i], job.read, c)
  OBVIOUS
<1> HIDE DEF D
<1> QED
  BY <1>1, <1>2, <1>3 DEF JobRecord

LEMMA RebasedFields ==
  ASSUME NEW p \in Process, NEW read
  PROVE  /\ Rebased(p, read).serves = p.serves /\ Rebased(p, read).port = p.port
         /\ Rebased(p, read).running = p.running /\ Rebased(p, read).count = p.count
         /\ Rebased(p, read).last = read
  BY DEF Rebased, Process

LEMMA JobWriteProcs ==
  ASSUME Typed, JobWrite, NEW j \in Inbounds, procs'[j] # None
  PROVE  /\ procs[j] # None
         /\ procs'[j].serves = procs[j].serves /\ procs'[j].port = procs[j].port
         /\ procs'[j].running = procs[j].running /\ procs'[j].count = procs[j].count
         /\ procs'[j].last = IF j = job.at THEN job.read ELSE procs[j].last
<1>1. procs \in [Inbounds -> Process \cup {None}]
  BY TablesTyped
<1>2. procs' = IF procs[job.at] = None THEN procs
               ELSE [procs EXCEPT ![job.at] = Rebased(procs[job.at], job.read)]
  BY DEF JobWrite
<1>3. procs[j] # None /\ procs'[j] = IF j = job.at THEN Rebased(procs[j], job.read) ELSE procs[j]
  BY <1>1, <1>2
<1> QED
  BY <1>1, <1>3, RebasedFields

LEMMA JobWriteStructure == ASSUME Typed, Structure, JobWrite PROVE Structure'
<1>1. Typed'
  BY JobWriteTyped
<1>2. UNCHANGED <<multi, op>>
  BY DEF JobWrite, JobLeaves
<1>3. Serving /\ PortsApart /\ SnapsCurrent /\ Counted
  BY DEF Structure
<1>0. \A i, S : Fits(i, S)' <=> Fits(i, S)
  BY <1>2 DEF Fits
<1>4. \A k \in Inbounds : job'.snaps[k] # None => k # job.at /\ job'.snaps[k] = job.snaps[k]
  BY JobWriteFields, JobFields
<1>5. \A i \in Inbounds : procs'[i] # None => procs'[i].serves # {} /\ Fits(i, procs'[i].serves)
  BY <1>3, JobWriteProcs, KeysOf DEF Serving
<1>6. \A i \in Inbounds : job'.snaps[i] # None =>
        job'.snaps[i].serves # {} /\ Fits(i, job'.snaps[i].serves)
  BY <1>3, <1>4, KeysOf DEF Serving
<1>7. \A i \in Inbounds : Fits(i, job'.desired[i])
  BY <1>3, JobWriteFields DEF Serving
<1>8. Serving'
  BY <1>0, <1>1, <1>2, <1>5, <1>6, <1>7, KeysNext, AppliesFit DEF Serving
<1>9. PortsApart'
  BY <1>1, <1>3, JobWriteProcs, KeysNext, KeysOf DEF PortsApart
<1>10. SnapsCurrent'
  <2> SUFFICES ASSUME ~multi, NEW i \in Inbounds, job'.snaps[i] # None,
                      NEW j \in Inbounds, procs'[j] # None, procs'[j].running,
                      procs'[j].port = job'.snaps[i].port
               PROVE  j = i /\ procs'[j].serves = job'.snaps[i].serves
                      /\ procs'[j].last = job'.snaps[i].last
    BY <1>1, <1>2, KeysNext DEF SnapsCurrent
  <2>1. i # job.at /\ i \in Keys(job.snaps) /\ job'.snaps[i] = job.snaps[i]
    BY <1>4, KeysOf
  <2>2. j \in Keys(procs) /\ procs[j].running /\ procs[j].port = job.snaps[i].port
    BY <2>1, JobWriteProcs, KeysOf
  <2>3. j = i /\ procs[j].serves = job.snaps[i].serves /\ procs[j].last = job.snaps[i].last
    BY <1>3, <2>1, <2>2 DEF SnapsCurrent
  <2> QED
    BY <2>1, <2>3, JobWriteProcs
<1>11. Counted'
  BY <1>1, <1>3, JobWriteProcs, KeysNext, KeysOf DEF Counted
<1>12. ReadIsOfSnap'
  BY JobWriteFields DEF ReadIsOfSnap
<1> QED
  BY <1>8, <1>9, <1>10, <1>11, <1>12 DEF Structure

LEMMA JobKeepsStructure == ASSUME Typed, Structure, Job PROVE Structure'
  BY JobBuildStructure, JobReconcileStructure, JobSnapshotStructure, JobScrapeStructure,
     JobWriteStructure, JobBillStructure, JobRenewStructure, JobDisableStructure DEF Job

\* What a handler does to the rest: to the row of a client, and to the row it
\* holds itself, which it keeps or takes from the table.
Shrinks(c) ==
  \/ rows'[c] = None \/ rows'[c] = rows[c]
  \/ rows[c] # None /\ rows'[c].allTime = rows[c].allTime /\ rows'[c].used <= rows[c].used

Copies(c, r) ==
  \/ r.used = 0 /\ r.allTime = 0
  \/ rows[c] # None /\ r.used = rows[c].used /\ r.allTime = rows[c].allTime

Holds(h, o) ==
  \/ o.row = None
  \/ o.client = op[h].client /\ o.row = op[h].row
  \/ \E c \in Clients : o.client = c /\ Copies(c, o.row)

HandlerStep(h) ==
  /\ ManagerStep /\ HandlersLeave
  /\ \E o : op' = [op EXCEPT ![h] = o] /\ Holds(h, o) /\ (o.pc = "apply" => Fits(o.at, o.serves))
  /\ \A c \in Clients : Shrinks(c) \/ (c = op[h].client /\ rows'[c] = op[h].row)

LEMMA RequestStep ==
  ASSUME Typed, Structure, NEW h \in Admins, NEW kind, NEW o, Request(h, kind, o),
         o.pc # "apply", Holds(h, o), \A c \in Clients : Shrinks(c)
  PROVE  HandlerStep(h)
<1>1. ManagerStep /\ HandlersLeave /\ op' = [op EXCEPT ![h] = o]
  BY LeavesTypes DEF Request
<1> QED
  BY <1>1 DEF HandlerStep

LEMMA BeginStep == ASSUME Typed, Structure, NEW h \in Admins, Begin(h) PROVE HandlerStep(h)
<1>0. Reads => \A c \in Clients : Shrinks(c)
  BY DEF Reads, Shrinks
<1>1. ASSUME NEW c \in Clients, NEW f \in Forms, BeginAddClient(h, c, f) PROVE HandlerStep(h)
  <2> DEFINE ib == inbounds[Home[c]]  r == NewRow(f, ib.domain)
             o == [Begun("AddClient") EXCEPT !.client = c, !.ib = ib, !.row = r,
                                             !.affected = {Home[c]}]
  <2>1. Request(h, "AddClient", o) /\ Reads
    BY <1>1 DEF BeginAddClient
  <2>2. r.used = 0 /\ r.allTime = 0
    BY DEF NewRow
  <2> HIDE DEF r, ib
  <2>3. o.pc # "apply" /\ o.client = c /\ o.row = r
    BY DEF Begun, NoOp
  <2> HIDE DEF o
  <2>4. Holds(h, o)
    BY <2>2, <2>3 DEF Holds, Copies
  <2> QED
    BY <1>0, <2>1, <2>3, <2>4, RequestStep
<1>2. ASSUME NEW c \in Clients, NEW f \in Forms, BeginUpdateClient(h, c, f) PROVE HandlerStep(h)
  <2> DEFINE ib == inbounds[Home[c]]
             r == [NewRow(f, ib.domain) EXCEPT !.used = rows[c].used, !.allTime = rows[c].allTime]
             o == [Begun("UpdateClient") EXCEPT !.client = c, !.ib = ib, !.affected = {Home[c]},
                                                !.row = r]
  <2>1. Request(h, "UpdateClient", o) /\ Reads /\ rows[c] # None
    BY <1>2 DEF BeginUpdateClient
  <2>2. r.used = rows[c].used /\ r.allTime = rows[c].allTime
    BY DEF NewRow
  <2> HIDE DEF r, ib
  <2>3. o.pc # "apply" /\ o.client = c /\ o.row = r
    BY DEF Begun, NoOp
  <2> HIDE DEF o
  <2>4. Holds(h, o)
    BY <2>1, <2>2, <2>3 DEF Holds, Copies
  <2> QED
    BY <1>0, <2>1, <2>3, <2>4, RequestStep
<1>3. ASSUME NEW c \in Clients, NEW f \in Forms, BeginToggleClient(h, c, f) PROVE HandlerStep(h)
  <2> DEFINE r == [rows[c] EXCEPT !.enable = f.enable]
             o == [Begun("ToggleClient") EXCEPT !.client = c, !.affected = {Home[c]}, !.row = r]
  <2>1. Request(h, "ToggleClient", o) /\ Reads /\ rows[c] # None /\ rows[c] \in Row
    BY <1>3, TablesTyped DEF BeginToggleClient
  <2>2. r.used = rows[c].used /\ r.allTime = rows[c].allTime
    BY <2>1 DEF Row
  <2> HIDE DEF r
  <2>3. o.pc # "apply" /\ o.client = c /\ o.row = r
    BY DEF Begun, NoOp
  <2> HIDE DEF o
  <2>4. Holds(h, o)
    BY <2>1, <2>2, <2>3 DEF Holds, Copies
  <2> QED
    BY <1>0, <2>1, <2>3, <2>4, RequestStep
<1>4. ASSUME NEW c \in Clients, BeginClientRequest(h, c) PROVE HandlerStep(h)
  <2>1. PICK kind \in {"DeleteClient", "ResetClient"} :
          Request(h, kind, [Begun(kind) EXCEPT !.client = c, !.affected = {Home[c]}]) /\ Reads
    BY <1>4 DEF BeginClientRequest
  <2> DEFINE o == [Begun(kind) EXCEPT !.client = c, !.affected = {Home[c]}]
  <2>2. o.pc # "apply" /\ o.row = None
    BY DEF Begun, NoOp
  <2>3. Request(h, kind, o)
    BY <2>1
  <2> HIDE DEF o
  <2> QED
    BY <1>0, <2>1, <2>2, <2>3, RequestStep DEF Holds
<1>5. CASE ResetAllClientTraffics(h)
  <2>1. PICK scope \in Scopes :
          /\ Request(h, "ResetAll", NoOp)
          /\ rows' = [c \in Clients |-> IF rows[c] # None /\ Home[c] \in scope
                                        THEN [rows[c] EXCEPT !.used = 0] ELSE rows[c]]
    BY <1>5 DEF ResetAllClientTraffics
  <2>2. ASSUME NEW c \in Clients PROVE Shrinks(c)
    <3>1. rows[c] \in Row \cup {None}
      BY TablesTyped
    <3> QED
      BY <2>1, <3>1 DEF Shrinks, Row
  <2> QED
    BY <2>1, <2>2, NoOpType, RequestStep DEF Holds
<1>6. CASE BeginDelDepleted(h)
  <2>1. PICK scope \in Scopes :
          LET found == {c \in Keys(rows) : Home[c] \in scope /\ rows[c].reset = 0
                                           /\ Depleted(rows[c])}
          IN  /\ found # {}
              /\ Request(h, "DelDepleted", [Begun("DelDepleted") EXCEPT
                     !.depleted = found, !.affected = {Home[c] : c \in found}])
              /\ Reads
    BY <1>6, ZenonT(30) DEF BeginDelDepleted
  <2> DEFINE found == {c \in Keys(rows) : Home[c] \in scope /\ rows[c].reset = 0
                                          /\ Depleted(rows[c])}
             homes == {Home[c] : c \in found}
             o == [Begun("DelDepleted") EXCEPT !.depleted = found, !.affected = homes]
  <2>2. Request(h, "DelDepleted", o) /\ Reads
    BY <2>1
  <2> HIDE DEF found, homes
  <2>3. o.pc # "apply" /\ o.row = None
    BY DEF Begun, NoOp
  <2> HIDE DEF o
  <2> QED
    BY <1>0, <2>2, <2>3, RequestStep DEF Holds
<1>7. ASSUME NEW i \in Inbounds, NEW ib \in InboundRow, BeginUpdateInbound(h, i, ib)
      PROVE  HandlerStep(h)
  <2> DEFINE b == ib.domain # inbounds[i].domain
             o == [Begun("UpdateInbound") EXCEPT !.ib = ib, !.affected = {i}, !.reheal = b]
  <2>1. Request(h, "UpdateInbound", o) /\ Reads
    BY <1>7 DEF BeginUpdateInbound
  <2> HIDE DEF b
  <2>2. o.pc # "apply" /\ o.row = None
    BY DEF Begun, NoOp
  <2> HIDE DEF o
  <2> QED
    BY <1>0, <2>1, <2>2, RequestStep DEF Holds
<1>8. ASSUME NEW i \in Inbounds, BeginDelInbound(h, i) PROVE HandlerStep(h)
  <2> DEFINE o == [Begun("DelInbound") EXCEPT !.affected = {i}, !.pc = "remove"]
  <2>1. Request(h, "DelInbound", o) /\ Reads
    BY <1>8 DEF BeginDelInbound
  <2>2. o.pc # "apply" /\ o.row = None
    BY DEF Begun, NoOp
  <2> HIDE DEF o
  <2> QED
    BY <1>0, <2>1, <2>2, RequestStep DEF Holds
<1>9. ASSUME NEW i \in Inbounds, NEW b \in BOOLEAN, SetInboundEnable(h, i, b) PROVE HandlerStep(h)
  <2>1. Request(h, "SetInboundEnable", NoOp) /\ UNCHANGED rows
    BY <1>9 DEF SetInboundEnable
  <2> QED
    BY <2>1, NoOpType, RequestStep DEF Holds, Shrinks
<1> QED
  BY <1>1, <1>2, <1>3, <1>4, <1>5, <1>6, <1>7, <1>8, <1>9 DEF Begin

LEMMA StatementStep ==
  ASSUME Typed, Structure, NEW h \in Admins, ManagerStep, HandlersLeave,
         NEW pc \in {"list", "write", "delete"}, op' = [op EXCEPT ![h].pc = pc],
         \A c \in Clients : Shrinks(c) \/ (c = op[h].client /\ rows'[c] = op[h].row)
  PROVE  HandlerStep(h)
<1> DEFINE o == [op[h] EXCEPT !.pc = pc]
<1>1. o.pc # "apply" /\ o.client = op[h].client /\ o.row = op[h].row
  BY OpFields DEF Op
<1>2. op' = [op EXCEPT ![h] = o]
  OBVIOUS
<1> HIDE DEF o
<1> QED
  BY <1>1, <1>2 DEF HandlerStep, Holds

LEMMA SaveRowStep == ASSUME Typed, Structure, NEW h \in Admins, SaveRow(h) PROVE HandlerStep(h)
<1>1. \A c \in Clients : Shrinks(c) \/ (c = op[h].client /\ rows'[c] = op[h].row)
  BY TablesTyped DEF SaveRow, Shrinks
<1>2. ManagerStep /\ HandlersLeave /\ op' = [op EXCEPT ![h].pc = "list"]
  BY LeavesTypes DEF SaveRow, StatementLeaves
<1> QED
  BY <1>1, <1>2, StatementStep

LEMMA AlterRowStep == ASSUME Typed, Structure, NEW h \in Admins, AlterRow(h) PROVE HandlerStep(h)
<1>1. ASSUME NEW c \in Clients PROVE Shrinks(c)
  <2>1. rows[c] \in Row \cup {None}
    BY TablesTyped
  <2>2. rows'[c] = rows[c] \/ (rows[c] # None /\ Alters(h, rows'[c], rows[c]))
    BY AlterRowRows
  <2> QED
    BY <2>1, <2>2, AltersType DEF Shrinks
<1>2. ManagerStep /\ HandlersLeave /\ op' = [op EXCEPT ![h].pc = "list"]
  BY LeavesTypes DEF AlterRow, StatementLeaves
<1> QED
  BY <1>1, <1>2, StatementStep

LEMMA DeleteDepletedStep ==
  ASSUME Typed, Structure, NEW h \in Admins, DeleteDepleted(h)
  PROVE  HandlerStep(h)
<1>1. ManagerStep /\ HandlersLeave
  BY LeavesTypes DEF DeleteDepleted, StatementLeaves
<1>2. CASE op[h].depleted = {}
  <2>1. op' = [op EXCEPT ![h].pc = "list"] /\ \A c \in Clients : Shrinks(c)
    BY <1>2 DEF DeleteDepleted, Shrinks
  <2> QED
    BY <1>1, <2>1, StatementStep
<1>3. CASE op[h].depleted # {}
  <2>1. PICK d \in op[h].depleted :
          /\ op' = [op EXCEPT ![h].depleted = @ \ {d}]
          /\ rows' = [rows EXCEPT ![d] = None]
    BY <1>3 DEF DeleteDepleted
  <2> DEFINE o == [op[h] EXCEPT !.depleted = @ \ {d}]
  <2>2. o.pc # "apply" /\ o.client = op[h].client /\ o.row = op[h].row
    BY OpFields DEF Op, DeleteDepleted
  <2>3. op' = [op EXCEPT ![h] = o]
    BY <2>1
  <2> HIDE DEF o
  <2>4. \A c \in Clients : Shrinks(c)
    BY <2>1, TablesTyped DEF Shrinks
  <2> QED
    BY <1>1, <2>2, <2>3, <2>4 DEF HandlerStep, Holds
<1> QED
  BY <1>2, <1>3

LEMMA SaveInboundStep ==
  ASSUME Typed, Structure, NEW h \in Admins, SaveInbound(h)
  PROVE  HandlerStep(h)
<1>1. PICK i \in op[h].affected :
        rows' = [c \in Clients |-> IF rows[c] # None /\ Home[c] = i /\ op[h].reheal
                                      THEN [rows[c] EXCEPT !.secret = op[h].ib.domain]
                                      ELSE rows[c]]
  BY DEF SaveInbound
<1>2. ASSUME NEW c \in Clients PROVE Shrinks(c)
  <2>1. rows[c] \in Row \cup {None}
    BY TablesTyped
  <2> QED
    BY <1>1, <2>1 DEF Shrinks, Row
<1>3. ManagerStep /\ HandlersLeave /\ op' = [op EXCEPT ![h].pc = "list"]
  BY LeavesTypes DEF SaveInbound, StatementLeaves
<1> QED
  BY <1>2, <1>3, StatementStep

LEMMA DelInboundHandlerStep ==
  ASSUME Typed, Structure, NEW h \in Admins, DelInboundStep(h)
  PROVE  HandlerStep(h)
<1>1. PICK i \in op[h].affected :
        \/ Remove(i) /\ op' = [op EXCEPT ![h].pc = "write"] /\ UNCHANGED rows
        \/ /\ ManagerLeaves /\ op' = [op EXCEPT ![h].pc = "delete"]
           /\ rows' = [c \in Clients |-> IF Home[c] = i THEN None ELSE rows[c]]
        \/ ManagerLeaves /\ op' = [op EXCEPT ![h] = NoOp] /\ UNCHANGED rows
  BY DEF DelInboundStep
<1>2. i \in Inbounds
  BY OpFields
<1>3. HandlersLeave
  BY DEF DelInboundStep
<1>4. ManagerStep
  BY <1>1, <1>2, RemoveStep, LeavesTypes
<1>5. \A c \in Clients : Shrinks(c)
  BY <1>1 DEF Shrinks
<1>6. CASE op' = [op EXCEPT ![h].pc = "write"] \/ op' = [op EXCEPT ![h].pc = "delete"]
  BY <1>3, <1>4, <1>5, <1>6, StatementStep
<1>7. CASE op' = [op EXCEPT ![h] = NoOp]
  BY <1>3, <1>4, <1>5, <1>7, NoOpType DEF HandlerStep, Holds
<1> QED
  BY <1>1, <1>6, <1>7

LEMMA ListClientsStep ==
  ASSUME Typed, Structure, NEW h \in Admins, ListClients(h)
  PROVE  HandlerStep(h)
<1>1. ManagerStep /\ HandlersLeave /\ UNCHANGED rows
  BY LeavesTypes DEF ListClients, StatementLeaves, Reads
<1>2. PICK o \in Op : /\ op' = [op EXCEPT ![h] = o]
                      /\ o = NoOp \/ (o.client = op[h].client /\ o.row = op[h].row)
                      /\ o.pc = "apply" => Fits(o.at, o.serves)
  BY Listed
<1>3. Holds(h, o)
  BY <1>2, NoOpType DEF Holds
<1> QED
  BY <1>1, <1>2, <1>3 DEF HandlerStep, Shrinks

LEMMA ReconcilingHandlerStep ==
  ASSUME Typed, Structure, NEW h \in Admins, Reconciling(h)
  PROVE  HandlerStep(h)
<1>0. HandlersLeave /\ UNCHANGED rows
  BY DEF Reconciling, Reads
<1>1. ManagerStep
  BY ReconcilingStep
<1>2. PICK o \in Op : /\ op' = [op EXCEPT ![h] = o] /\ o.pc # "apply"
                      /\ o = NoOp \/ (o.client = op[h].client /\ o.row = op[h].row)
  BY ReconcilingStep
<1>3. Holds(h, o)
  BY <1>2, NoOpType DEF Holds
<1> QED
  BY <1>0, <1>1, <1>2, <1>3 DEF HandlerStep, Shrinks

LEMMA HandlerSteps ==
  ASSUME Typed, Structure, NEW h \in Admins, Begin(h) \/ Handle(h)
  PROVE  HandlerStep(h)
  BY BeginStep, SaveRowStep, AlterRowStep, DeleteDepletedStep, SaveInboundStep,
     DelInboundHandlerStep, ListClientsStep, ReconcilingHandlerStep DEF Handle

LEMMA HandlersKeepStructure ==
  ASSUME Typed, Structure, NEW h \in Admins, Begin(h) \/ Handle(h)
  PROVE  Structure'
<1>1. Typed'
  BY HandlersKeepTypes
<1>2. ManagerStep /\ UNCHANGED <<multi, job>>
  BY HandlerSteps DEF HandlerStep, HandlersLeave
<1>3. PICK o : op' = [op EXCEPT ![h] = o] /\ (o.pc = "apply" => Fits(o.at, o.serves))
  BY HandlerSteps DEF HandlerStep
<1>4. \A g \in Admins : op'[g].pc = "apply" => Fits(op'[g].at, op'[g].serves)
  BY <1>3, TablesTyped DEF Structure, Serving
<1> QED
  BY <1>1, <1>2, <1>4, StructureStays

\* What a client's traffic changes.
LEMMA UseProcs ==
  ASSUME Typed, Structure, NEW c \in Clients, Use(c), NEW j \in Inbounds, procs'[j] # None
  PROVE  /\ procs[j] # None
         /\ procs'[j].serves = procs[j].serves /\ procs'[j].port = procs[j].port
         /\ procs'[j].running = procs[j].running /\ procs'[j].last = procs[j].last
         /\ \A d \in Clients : d # c => procs'[j].count[d] = procs[j].count[d]
         /\ \/ procs'[j].count[c] = procs[j].count[c]
            \/ Admits(procs[j].serves, c) /\ procs'[j].count[c] = procs[j].count[c] + 1
<1>1. CASE UNCHANGED procs
  BY <1>1
<1>2. CASE ~UNCHANGED procs
  <2>1. PICK i \in Keys(procs) :
          Admits(procs[i].serves, c) /\ procs' = [procs EXCEPT ![i].count[c] = @ + 1]
    BY <1>2 DEF Use
  <2>2. i \in Inbounds /\ procs[i] \in Process
    BY TablesTyped, KeysOf
  <2>3. CASE j # i
    BY <2>1, <2>2, <2>3, TablesTyped
  <2>4. CASE j = i
    <3> DEFINE count == [procs[i].count EXCEPT ![c] = @ + 1]
    <3>1. procs'[j] = [procs[i] EXCEPT !.count = count]
      BY <2>1, <2>2, <2>4, TablesTyped
    <3>2. /\ count[c] = procs[i].count[c] + 1
          /\ \A d \in Clients : d # c => count[d] = procs[i].count[d]
      BY <2>2, ProcessFields
    <3> HIDE DEF count
    <3> QED
      BY <2>1, <2>2, <2>4, <3>1, <3>2, KeysOf DEF Process
  <2> QED
    BY <2>3, <2>4
<1> QED
  BY <1>1, <1>2

LEMMA UseStructure == ASSUME Typed, Structure, NEW c \in Clients, Use(c) PROVE Structure'
<1>1. Typed'
  BY UseTyped
<1>2. UNCHANGED <<multi, op, job>>
  BY DEF Use
<1>3. Serving /\ PortsApart /\ SnapsCurrent /\ Counted /\ ReadIsOfSnap
  BY DEF Structure
<1>0. \A i, S : Fits(i, S)' <=> Fits(i, S)
  BY <1>2 DEF Fits
<1>4. \A i \in Inbounds : procs'[i] # None => procs'[i].serves # {} /\ Fits(i, procs'[i].serves)
  BY <1>3, UseProcs, KeysOf DEF Serving
<1>5. Serving'
  <2>1. \A i \in Keys(procs)' : (procs[i].serves # {} /\ Fits(i, procs[i].serves))'
    BY <1>0, <1>1, <1>4, KeysNext
  <2>2. \A i \in Inbounds : Fits(i, job.desired[i])'
    BY <1>0, <1>2, <1>3 DEF Serving
  <2>3. \A i \in Keys(job.snaps)' : (job.snaps[i].serves # {} /\ Fits(i, job.snaps[i].serves))'
    BY <1>0, <1>1, <1>2, <1>3, KeysNext, KeysOf DEF Serving
  <2>4. \A h \in Admins : (op[h].pc = "apply" => Fits(op[h].at, op[h].serves))'
    BY <1>0, <1>2, <1>3 DEF Serving
  <2> QED
    BY <2>1, <2>2, <2>3, <2>4 DEF Serving
<1>6. PortsApart'
  BY <1>1, <1>3, UseProcs, KeysNext, KeysOf DEF PortsApart
<1>7. SnapsCurrent'
  <2> SUFFICES ASSUME ~multi, NEW i \in Inbounds, job.snaps[i] # None,
                      NEW j \in Inbounds, procs'[j] # None, procs'[j].running,
                      procs'[j].port = job.snaps[i].port
               PROVE  j = i /\ procs'[j].serves = job.snaps[i].serves
                      /\ procs'[j].last = job.snaps[i].last
    BY <1>1, <1>2, KeysNext DEF SnapsCurrent
  <2>1. i \in Keys(job.snaps) /\ j \in Keys(procs) /\ procs[j].running
        /\ procs[j].port = job.snaps[i].port
    BY UseProcs, KeysOf
  <2>2. j = i /\ procs[j].serves = job.snaps[i].serves /\ procs[j].last = job.snaps[i].last
    BY <1>3, <2>1 DEF SnapsCurrent
  <2> QED
    BY <2>2, UseProcs
<1>8. ASSUME NEW i \in Inbounds, procs'[i] # None, NEW d \in Clients, procs'[i].count[d] > 0
      PROVE  Admits(procs'[i].serves, d)
  <2>1. procs[i] # None /\ procs'[i].serves = procs[i].serves
    BY <1>8, UseProcs
  <2>2. procs[i].count[d] > 0 => Admits(procs[i].serves, d)
    BY <1>3, <2>1, KeysOf DEF Counted
  <2>3. procs'[i].count[d] = procs[i].count[d] \/ Admits(procs[i].serves, d)
    BY <1>8, UseProcs
  <2> QED
    BY <1>8, <2>1, <2>2, <2>3
<1>9. Counted'
  BY <1>1, <1>8, KeysNext DEF Counted
<1>10. ReadIsOfSnap'
  BY <1>2, <1>3 DEF ReadIsOfSnap
<1> QED
  BY <1>5, <1>6, <1>7, <1>9, <1>10 DEF Structure

LEMMA TickStructure == ASSUME Typed, Structure, Tick PROVE Structure'
<1>1. UNCHANGED <<multi, job, procs, op>>
  BY DEF Tick
<1> QED
  BY <1>1, TickTyped, ManagerRests, AppliesFit, StructureStays

LEMMA SidecarDiesStructure ==
  ASSUME Typed, Structure, NEW i \in Inbounds, SidecarDies(i)
  PROVE  Structure'
<1>1. UNCHANGED <<multi, job, op>>
  BY DEF SidecarDies
<1> QED
  BY <1>1, SidecarDiesTyped, SidecarDiesStep, AppliesFit, StructureStays

LEMMA PanelDiesStructure == ASSUME Typed, Structure, PanelDies PROVE Structure'
<1>1. UNCHANGED multi /\ ManagerStep
  BY AllStopped DEF PanelDies
<1>2. job' = Idle /\ \A h \in Admins : op'[h] = NoOp
  BY DEF PanelDies
<1>3. \A h \in Admins : op'[h].pc # "apply"
  BY <1>2, NoOpType
<1>4. ReadIsOfSnap'
  BY <1>2, IdleFields DEF ReadIsOfSnap
<1> QED
  BY <1>1, <1>2, <1>3, <1>4, PanelDiesTyped, IdleFields, EmptyFits, StructureNext

LEMMA StopAllStructure == ASSUME Typed, Structure, StopAll PROVE Structure'
<1>1. UNCHANGED <<multi, job, op>> /\ ManagerStep
  BY AllStopped DEF StopAll
<1> QED
  BY <1>1, StopAllTyped, AppliesFit, StructureStays

LEMMA NextKeepsStructure == ASSUME Typed, Structure, Next PROVE Structure'
  BY JobKeepsStructure, HandlersKeepStructure, UseStructure, TickStructure,
     SidecarDiesStructure, PanelDiesStructure, StopAllStructure DEF Next

LEMMA InitStructure == Init => Structure
<1> SUFFICES ASSUME Init PROVE Structure
  OBVIOUS
<1>1. Keys(procs) = {} /\ Keys(job.snaps) = {} /\ job.pc = "idle"
  <2>1. procs = [i \in Inbounds |-> None] /\ job = Idle
    BY DEF Init
  <2>2. Idle.snaps = [i \in Inbounds |-> None]
    BY DEF Idle
  <2> QED
    BY <2>1, <2>2, IdleFields DEF Keys
<1>2. \A i \in Inbounds : Fits(i, job.desired[i])
  BY IdleFields, EmptyFits DEF Init
<1>3. \A h \in Admins : op[h].pc # "apply"
  BY NoOpType DEF Init
<1> QED
  BY <1>1, <1>2, <1>3
  DEF Structure, Serving, PortsApart, SnapsCurrent, Counted, ReadIsOfSnap

-------------------------------------------------------------------------------
(* Billing.                                                                *)
LEMMA BillingTypes ==
  ASSUME Typed, NEW c \in Clients
  PROVE  LET p == procs[Home[c]]
             s == job.snaps[Home[c]]
             k == Key(c)
         IN  /\ Home[c] \in Inbounds /\ k \in Clients \cup {All}
             /\ consumed[c] \in Nat /\ job.deltas[c] \in Nat
             /\ p # None => p \in Process /\ p.count[c] \in Nat /\ p.last[k] \in Nat \cup {None}
             /\ s # None => s \in Snap /\ s.last[k] \in Nat \cup {None} /\ Pending(c) \in Nat
             /\ job.read[k] \in Nat \cup {None}
<1>1. Home[c] \in Inbounds /\ Key(c) \in Clients \cup {All}
  BY ConstantsAssumption DEF Key
<1>2. consumed[c] \in Nat /\ job.deltas[c] \in Nat /\ job.read \in Baselines
      /\ procs[Home[c]] \in Process \cup {None} /\ job.snaps[Home[c]] \in Snap \cup {None}
  BY <1>1, TablesTyped, JobFields
<1>3. ASSUME procs[Home[c]] # None
      PROVE  /\ procs[Home[c]] \in Process /\ procs[Home[c]].count[c] \in Nat
             /\ procs[Home[c]].last[Key(c)] \in Nat \cup {None}
  BY <1>1, <1>2, <1>3, ProcessFields DEF Baselines
<1>4. ASSUME job.snaps[Home[c]] # None
      PROVE  /\ job.snaps[Home[c]] \in Snap
             /\ job.snaps[Home[c]].last[Key(c)] \in Nat \cup {None}
             /\ Pending(c) \in Nat
  <2>1. job.snaps[Home[c]] \in Snap
    BY <1>2, <1>4
  <2>2. job.snaps[Home[c]].last \in Baselines
    BY <2>1 DEF Snap
  <2> QED
    BY <1>1, <1>2, <2>1, <2>2, DeltaOfType DEF Pending, Baselines
<1>5. job.read[Key(c)] \in Nat \cup {None}
  BY <1>1, <1>2 DEF Baselines
<1> QED
  BY <1>1, <1>2, <1>3, <1>4, <1>5

\* Covered, part by part; k is the key of client c.
CountersCovered(c, u, k) ==
  LET p == procs[Home[c]]  s == job.snaps[Home[c]]
  IN  /\ p # None /\ p.last[k] # None => p.count[c] - p.last[k] <= u
      /\ p # None /\ s # None /\ s.last[k] # None => p.count[c] - s.last[k] <= u

ReadingCovered(c, u, k) ==
  LET p == procs[Home[c]]
  IN  job.pc = "write" /\ job.at = Home[c] /\ job.read[k] # None =>
        /\ Pending(c) <= u
        /\ p # None => p.count[c] - job.read[k] <= u - Pending(c)

Unbilled(c, t) == consumed[c] - job.deltas[c] - t

LEMMA CoveredParts ==
  ASSUME NEW c, NEW t
  PROVE  Covered(c, t) <=> /\ Unbilled(c, t) >= 0
                           /\ CountersCovered(c, Unbilled(c, t), Key(c))
                           /\ ReadingCovered(c, Unbilled(c, t), Key(c))
  BY DEF Covered, Unbilled, CountersCovered, ReadingCovered

\* A step of the manager, during which the job bills, drops a snapshot or rests.
LEMMA CoveredNext ==
  ASSUME Typed, Typed', NEW c \in Clients, NEW t \in Nat, NEW t2 \in Nat, Covered(c, t),
         UNCHANGED multi, consumed'[c] = consumed[c], ManagerStep,
         job'.deltas[c] + t2 <= job.deltas[c] + t,
         job'.snaps[Home[c]] = None \/ job'.snaps[Home[c]] = job.snaps[Home[c]],
         job'.pc # "write" \/ UNCHANGED job
  PROVE  Covered(c, t2)'
<1> DEFINE i == Home[c]  k == Key(c)  u == Unbilled(c, t)  v == Unbilled(c, t2)'
           p == procs[i]  q == procs'[i]  s == job.snaps[i]
<1>1. u >= 0 /\ CountersCovered(c, u, k) /\ ReadingCovered(c, u, k)
  BY CoveredParts
<1>2. /\ i \in Inbounds /\ k \in Clients \cup {All} /\ Key(c)' = k
      /\ consumed[c] \in Nat /\ job.deltas[c] \in Nat
      /\ p # None => p \in Process /\ p.count[c] \in Nat /\ p.last[k] \in Nat \cup {None}
      /\ s # None => s \in Snap /\ s.last[k] \in Nat \cup {None} /\ Pending(c) \in Nat
      /\ job.read[k] \in Nat \cup {None}
  BY BillingTypes DEF Key
<1>3. job'.deltas[c] \in Nat
  BY DEF Typed, JobTyped, JobRecord
<1>4. u \in Int /\ v \in Int /\ u <= v
  BY <1>2, <1>3 DEF Unbilled
<1>5. ASSUME q # None
      PROVE  \/ /\ p # None /\ q.count[c] = p.count[c] /\ q.last[k] = p.last[k]
             \/ q.count[c] = 0 /\ q.last[k] = None
  <2>1. (p # None /\ GoesOn(p, q)) \/ Starts(i, q)
    BY <1>2, <1>5, KeysNext DEF ManagerStep
  <2>2. CASE Starts(i, q)
    BY <1>2, <2>2, NewProcessFields DEF Starts
  <2> QED
    BY <2>1, <2>2 DEF GoesOn
<1> HIDE DEF u, v, k
<1>6. CountersCovered(c, Unbilled(c, t2), Key(c))'
  <2>1. ASSUME q # None, q.last[k] # None
        PROVE  q.count[c] - q.last[k] <= v
    <3>1. p # None /\ q.count[c] = p.count[c] /\ q.last[k] = p.last[k]
      BY <1>5, <2>1
    <3>2. p.count[c] - p.last[k] <= u
      BY <1>1, <2>1, <3>1 DEF CountersCovered
    <3> QED
      BY <1>2, <1>4, <2>1, <3>1, <3>2
  <2>2. ASSUME q # None, job'.snaps[i] # None, job'.snaps[i].last[k] # None
        PROVE  q.count[c] - job'.snaps[i].last[k] <= v
    <3>1. job'.snaps[i] = s /\ s # None /\ s.last[k] \in Nat
      BY <1>2, <2>2
    <3>2. CASE p # None /\ q.count[c] = p.count[c]
      <4>1. p.count[c] - s.last[k] <= u
        BY <1>1, <2>2, <3>1, <3>2 DEF CountersCovered
      <4> QED
        BY <1>2, <1>4, <3>1, <3>2, <4>1
    <3>3. CASE q.count[c] = 0
      BY <1>1, <1>4, <3>1, <3>3
    <3> QED
      BY <1>5, <2>2, <3>2, <3>3
  <2> QED
    BY <1>2, <2>1, <2>2 DEF CountersCovered, k, v
<1>7. ReadingCovered(c, Unbilled(c, t2), Key(c))'
  <2> SUFFICES ASSUME job'.pc = "write", job'.at = i, job'.read[k] # None
               PROVE  /\ Pending(c)' <= v
                      /\ q # None => q.count[c] - job'.read[k] <= v - Pending(c)'
    BY <1>2 DEF ReadingCovered, k, v
  <2>1. UNCHANGED job /\ job.pc = "write" /\ job.at = i /\ job.read[k] # None
    OBVIOUS
  <2>2. Pending(c)' = Pending(c)
    BY <2>1 DEF Pending, DeltaOf, Delta
  <2>3. s # None
    BY <2>1, TablesTyped DEF JobTyped
  <2>4. Pending(c) <= u
    BY <1>1, <2>1 DEF ReadingCovered
  <2>5. ASSUME q # None PROVE q.count[c] - job.read[k] <= u - Pending(c)
    <3>1. CASE p # None /\ q.count[c] = p.count[c]
      BY <1>1, <2>1, <3>1 DEF ReadingCovered
    <3>2. CASE q.count[c] = 0
      BY <1>2, <1>4, <2>1, <2>3, <2>4, <3>2
    <3> QED
      BY <1>5, <2>5, <3>1, <3>2
  <2>6. Pending(c) \in Nat /\ job.read[k] \in Nat
    BY <1>2, <2>1, <2>3
  <2>7. ASSUME q # None PROVE q.count[c] \in Nat
    BY <1>2, <1>5, <2>7
  <2> QED
    BY <1>4, <2>1, <2>2, <2>4, <2>5, <2>6, <2>7
<1>8. Unbilled(c, t2)' >= 0
  BY <1>1, <1>4 DEF v
<1>9. Covered(c, t2)' <=> /\ Unbilled(c, t2)' >= 0
                          /\ CountersCovered(c, Unbilled(c, t2), Key(c))'
                          /\ ReadingCovered(c, Unbilled(c, t2), Key(c))'
  BY DEF Covered, Unbilled, CountersCovered, ReadingCovered
<1> QED
  BY <1>6, <1>7, <1>8, <1>9

\* A snapshot holds what the process was last asked.
LEMMA CoveredSnapshot ==
  ASSUME Typed, NEW c \in Clients, NEW t \in Nat, Covered(c, t), JobSnapshot
  PROVE  Covered(c, t)'
<1> DEFINE i == Home[c]  k == Key(c)  u == Unbilled(c, t)
<1>1. u >= 0 /\ CountersCovered(c, u, k)
  BY CoveredParts
<1>2. i \in Inbounds
  BY BillingTypes
<1>3. UNCHANGED <<multi, consumed, procs>>
  BY DEF JobSnapshot, JobLeaves, ManagerLeaves
<1>4. job'.deltas = job.deltas /\ job'.pc = "scrape"
      /\ (job'.snaps[i] # None => procs[i] # None /\ job'.snaps[i].last = procs[i].last)
  BY <1>2, SnapshotOf
<1>5. Unbilled(c, t)' = u /\ Key(c)' = k
  BY <1>3, <1>4 DEF Unbilled, Key
<1> HIDE DEF u, k
<1>6. CountersCovered(c, Unbilled(c, t), Key(c))'
  BY <1>1, <1>3, <1>4, <1>5 DEF CountersCovered
<1>7. ReadingCovered(c, Unbilled(c, t), Key(c))'
  BY <1>4 DEF ReadingCovered
<1>8. Unbilled(c, t)' >= 0
  BY <1>1, <1>5
<1> QED
  BY <1>6, <1>7, <1>8 DEF Covered, Unbilled, CountersCovered, ReadingCovered

\* What is read is the counter of the process that the snapshot was taken of, or
\* of the one in its place; of mtg it may be that of another client.
LEMMA ReadingOf ==
  ASSUME Typed, Structure, NEW i \in Inbounds, JobScrape(i),
         NEW j \in Listening(job.snaps[i].port), NEW idle \in BOOLEAN, Answers(i, j, idle),
         NEW c \in Clients, Home[c] = i, job'.read[Key(c)] # None
  PROVE  /\ procs[i] # None /\ job'.read[Key(c)] \in Nat
         /\ \/ job'.read[Key(c)] = procs[i].count[c]
            \/ ~multi /\ c # Sole(job.snaps[i].serves) /\ procs[i].count[c] = 0
<1>1. /\ j \in Inbounds /\ procs[j] \in Process /\ procs[j].running
      /\ procs[j].port = job.snaps[i].port
      /\ procs[j].serves \in (SUBSET (Clients \X Domains)) \ {{}}
      /\ j \in Keys(procs) /\ procs[j] # None
  BY Answering, KeysOf DEF Listening
<1>2. job.snaps[i] # None /\ i \in Keys(job.snaps) /\ job.snaps[i].serves \in SUBSET (Clients \X Domains)
  BY JobScrapeFields, JobFields, KeysOf DEF Snap
<1>3. Serving /\ SnapsCurrent /\ Counted
  BY DEF Structure
<1>4. Fits(j, procs[j].serves)
  BY <1>1, <1>3 DEF Serving
<1> DEFINE R == Counters(procs[j], job.snaps[i].serves, idle)
<1>5. job'.read = R
  BY DEF Answers
<1>6. /\ multi => R[c] = None \/ (R[c] = procs[j].count[c] /\ Admits(procs[j].serves, c))
      /\ ~multi => R[All] = procs[j].count[Sole(procs[j].serves)]
  BY <1>1, <1>2, CountersOf
<1> HIDE DEF R
<1>7. procs[j].count \in [Clients -> Nat]
  BY <1>1, ProcessFields
<1>8. CASE multi
  <2>1. R[c] = procs[j].count[c] /\ Admits(procs[j].serves, c)
    BY <1>5, <1>6, <1>8 DEF Key
  <2>2. Home[c] = j
    BY <1>4, <2>1 DEF Fits, Admits
  <2> QED
    BY <1>1, <1>5, <1>7, <1>8, <2>1, <2>2 DEF Key
<1>9. CASE ~multi
  <2>1. j = i /\ procs[i].serves = job.snaps[i].serves
    BY <1>1, <1>2, <1>3, <1>9 DEF SnapsCurrent
  <2>2. job'.read[Key(c)] = procs[i].count[Sole(procs[i].serves)]
    BY <1>5, <1>6, <1>9, <2>1 DEF Key
  <2>3. Sole(procs[i].serves) \in Clients /\ Admits(procs[i].serves, Sole(procs[i].serves))
    BY <1>1, <2>1, SoleServed
  <2>4. job'.read[Key(c)] \in Nat /\ procs[i].count[c] \in Nat
    BY <1>7, <2>1, <2>2, <2>3
  <2>5. ASSUME c # Sole(procs[i].serves) PROVE procs[i].count[c] = 0
    <3>1. ~Admits(procs[i].serves, c)
      <4> SUFFICES ASSUME NEW d \in Domains, <<c, d>> \in procs[i].serves
                   PROVE  FALSE
        BY DEF Admits
      <4>1. PICK e \in Domains : <<Sole(procs[i].serves), e>> \in procs[i].serves
        BY <2>3 DEF Admits
      <4>2. \A x, y \in procs[i].serves : x[1] = y[1]
        BY <1>4, <1>9, <2>1 DEF Fits
      <4> QED
        BY <2>5, <4>1, <4>2
    <3>2. ~(procs[i].count[c] > 0)
      BY <1>1, <1>3, <2>1, <3>1 DEF Counted
    <3> QED
      BY <2>4, <3>2
  <2> QED
    BY <1>1, <1>9, <2>1, <2>2, <2>4, <2>5
<1> QED
  BY <1>8, <1>9

LEMMA CoveredScrape ==
  ASSUME Typed, Structure, NEW c \in Clients, NEW t \in Nat, Covered(c, t),
         NEW i \in Inbounds, JobScrape(i)
  PROVE  Covered(c, t)'
<1>0. Typed'
  BY JobScrapeTyped
<1>1. JobLeaves /\ ManagerLeaves
  BY Zenon DEF JobScrape
<1>2. UNCHANGED <<multi, consumed, procs>> /\ ManagerStep
  BY <1>1, LeavesTypes DEF JobLeaves, ManagerLeaves
<1>3. /\ Home[c] \in Inbounds /\ job'.deltas = job.deltas
      /\ job'.snaps[Home[c]] = None \/ job'.snaps[Home[c]] = job.snaps[Home[c]]
      /\ job.deltas[c] \in Nat
  BY BillingTypes, JobScrapeFields
<1>4. CASE job'.pc # "write"
  BY <1>0, <1>2, <1>3, <1>4, CoveredNext
<1>5. CASE job'.pc = "write"
  <2>1. PICK j \in Listening(job.snaps[i].port), idle \in BOOLEAN : Answers(i, j, idle)
    BY <1>5, JobScrapeFields DEF Asks
  <2>2. job'.at = i /\ job'.snaps = job.snaps /\ job.snaps[i] # None
    BY <2>1, JobScrapeFields DEF Answers
  <2> DEFINE k == Key(c)  u == Unbilled(c, t)  p == procs[i]  s == job.snaps[i]
  <2>3. u >= 0 /\ CountersCovered(c, u, k) /\ u \in Int
    BY CoveredParts, BillingTypes DEF Unbilled
  <2>4. Unbilled(c, t)' = u /\ Key(c)' = k
    BY <1>2, <1>3 DEF Unbilled, Key
  <2>5. CountersCovered(c, Unbilled(c, t), Key(c))'
    BY <1>2, <2>2, <2>3, <2>4 DEF CountersCovered
  <2>6. ReadingCovered(c, Unbilled(c, t), Key(c))'
    <3> SUFFICES ASSUME Home[c] = i, job'.read[k] # None
                 PROVE  /\ Pending(c)' <= u
                        /\ p # None => p.count[c] - job'.read[k] <= u - Pending(c)'
      BY <1>2, <2>2, <2>4 DEF ReadingCovered
    <3>1. /\ p # None /\ job'.read[k] \in Nat
          /\ \/ job'.read[k] = p.count[c]
             \/ ~multi /\ c # Sole(s.serves) /\ p.count[c] = 0
      BY <2>1, ReadingOf
    <3>2. p.count[c] \in Nat /\ s.last[k] \in Nat \cup {None}
      BY <2>2, <3>1, BillingTypes
    <3>3. Pending(c)' = IF multi THEN Delta(s, job'.read, c)
                        ELSE IF c = Sole(s.serves) THEN Delta(s, job'.read, All) ELSE 0
      BY <1>2, <2>2 DEF Pending, DeltaOf, Delta
    <3>4. s.last[k] # None => p.count[c] - s.last[k] <= u
      BY <2>2, <2>3, <3>1 DEF CountersCovered
    <3> HIDE DEF u
    <3>5. CASE job'.read[k] = p.count[c]
      <4>1. Pending(c)' = Delta(s, job'.read, k) \/ Pending(c)' = 0
        BY <3>3 DEF Key
      <4>2. \/ Delta(s, job'.read, k) = 0
            \/ s.last[k] # None /\ Delta(s, job'.read, k) = p.count[c] - s.last[k]
        BY <3>5 DEF Delta
      <4>3. Pending(c)' \in Int /\ Pending(c)' <= u
        BY <2>3, <3>2, <3>4, <4>1, <4>2
      <4> QED
        BY <2>3, <3>2, <3>5, <4>3
    <3>6. CASE ~multi /\ c # Sole(s.serves) /\ p.count[c] = 0
      BY <2>3, <3>1, <3>3, <3>6
    <3> QED
      BY <3>1, <3>5, <3>6
  <2>7. Unbilled(c, t)' >= 0
    BY <2>3, <2>4
  <2> QED
    BY <2>5, <2>6, <2>7 DEF Covered, Unbilled, CountersCovered, ReadingCovered
<1> QED
  BY <1>4, <1>5

\* A reading is billed to clients of the inbound that was asked, and what the
\* process has counted beyond it remains.
LEMMA WrittenElsewhere ==
  ASSUME Typed, Structure, JobWrite, NEW c \in Clients, Home[c] # job.at
  PROVE  DeltaOf(job.snaps[job.at], job.read, c) = 0
<1> DEFINE s == job.snaps[job.at]
<1>1. job.pc = "write" /\ job.at \in Inbounds /\ s \in Snap /\ s # None
  BY JobWriteFields, TablesTyped DEF JobTyped
<1>2. s.serves # {} /\ Fits(job.at, s.serves) /\ s.serves \in SUBSET (Clients \X Domains)
  BY <1>1, KeysOf DEF Structure, Serving, Snap
<1>3. \A d \in Clients : Admits(s.serves, d) => Home[d] = job.at
  BY <1>2 DEF Fits, Admits
<1>4. CASE multi
  <2>1. job.read[c] = None
    BY <1>1, <1>3, <1>4 DEF Structure, ReadIsOfSnap
  <2> QED
    BY <1>4, <2>1 DEF DeltaOf, Delta
<1>5. CASE ~multi
  <2>1. c # Sole(s.serves)
    BY <1>2, <1>3, SoleServed
  <2> QED
    BY <1>5, <2>1 DEF DeltaOf
<1> QED
  BY <1>4, <1>5

LEMMA CoveredWrite ==
  ASSUME Typed, Structure, NEW c \in Clients, NEW t \in Nat, Covered(c, t), JobWrite
  PROVE  Covered(c, t)'
<1> DEFINE i == Home[c]  k == Key(c)  u == Unbilled(c, t)  p == procs[i]  q == procs'[i]
           s == job.snaps[i]
<1>1. /\ u \in Int /\ u >= 0 /\ CountersCovered(c, u, k) /\ ReadingCovered(c, u, k)
      /\ i \in Inbounds /\ job.deltas[c] \in Nat
  BY CoveredParts, BillingTypes DEF Unbilled
<1>2. UNCHANGED <<multi, consumed>> /\ Key(c)' = k
  BY DEF JobWrite, JobLeaves, Key
<1>3. /\ job'.pc = "scrape" /\ job'.snaps = [job.snaps EXCEPT ![job.at] = None]
      /\ job'.deltas[c] = job.deltas[c] + DeltaOf(job.snaps[job.at], job.read, c)
      /\ job.pc = "write" /\ job.at \in Inbounds
  BY JobWriteFields
<1>4. q # None => /\ p # None /\ q.count = p.count
                  /\ q.last = IF i = job.at THEN job.read ELSE p.last
  BY <1>1, JobWriteProcs
<1>5. ReadingCovered(c, Unbilled(c, t), Key(c))'
  BY <1>3 DEF ReadingCovered
<1>6. CASE i # job.at
  <2>1. DeltaOf(job.snaps[job.at], job.read, c) = 0
    BY <1>6, WrittenElsewhere
  <2>2. Unbilled(c, t)' = u
    BY <1>1, <1>2, <1>3, <2>1 DEF Unbilled
  <2>3. job'.snaps[i] = s
    BY <1>1, <1>3, <1>6, JobFields
  <2> HIDE DEF u
  <2>4. CountersCovered(c, Unbilled(c, t), Key(c))'
    BY <1>1, <1>2, <1>4, <1>6, <2>2, <2>3 DEF CountersCovered
  <2>5. Unbilled(c, t)' >= 0
    BY <1>1, <2>2
  <2> QED
    BY <1>5, <2>4, <2>5 DEF Covered, Unbilled, CountersCovered, ReadingCovered
<1>7. CASE i = job.at
  <2>0. s # None /\ Pending(c) \in Nat /\ job.read[k] \in Nat \cup {None}
    BY <1>3, <1>7, TablesTyped, BillingTypes DEF JobTyped
  <2>1. Unbilled(c, t)' = u - Pending(c)
    BY <1>1, <1>2, <1>3, <1>7, <2>0, BillingTypes DEF Unbilled, Pending
  <2>2. job'.snaps[i] = None
    BY <1>1, <1>3, <1>7, JobFields
  <2>3. CASE job.read[k] # None
    <3>1. /\ Pending(c) <= u
          /\ p # None => p.count[c] - job.read[k] <= u - Pending(c)
      BY <1>1, <1>3, <1>7, <2>3 DEF ReadingCovered
    <3> HIDE DEF u
    <3>2. CountersCovered(c, Unbilled(c, t), Key(c))'
      BY <1>2, <1>4, <1>7, <2>1, <2>2, <3>1 DEF CountersCovered
    <3>3. Unbilled(c, t)' >= 0
      BY <1>1, <2>0, <2>1, <3>1
    <3> QED
      BY <1>5, <3>2, <3>3 DEF Covered, Unbilled, CountersCovered, ReadingCovered
  <2>4. CASE job.read[k] = None
    <3>1. multi
      BY <1>3, <2>4 DEF Structure, ReadIsOfSnap, Key
    <3>2. Pending(c) = 0
      BY <2>4, <3>1 DEF Pending, DeltaOf, Delta, Key
    <3>3. CountersCovered(c, Unbilled(c, t), Key(c))'
      BY <1>2, <1>4, <1>7, <2>2, <2>4 DEF CountersCovered
    <3>4. Unbilled(c, t)' >= 0
      BY <1>1, <2>1, <3>2
    <3> QED
      BY <1>5, <3>3, <3>4 DEF Covered, Unbilled, CountersCovered, ReadingCovered
  <2> QED
    BY <2>3, <2>4
<1> QED
  BY <1>6, <1>7

\* What a process counts was consumed.
LEMMA CoveredUse ==
  ASSUME Typed, Structure, NEW c \in Clients, NEW t \in Nat, Covered(c, t),
         NEW d \in Clients, Use(d)
  PROVE  Covered(c, t)'
<1> DEFINE i == Home[c]  k == Key(c)  u == Unbilled(c, t)  p == procs[i]  q == procs'[i]
           s == job.snaps[i]  n == consumed'[c] - consumed[c]
<1>1. /\ u \in Int /\ u >= 0 /\ CountersCovered(c, u, k) /\ ReadingCovered(c, u, k)
      /\ i \in Inbounds /\ job.deltas[c] \in Nat /\ consumed[c] \in Nat
  BY CoveredParts, BillingTypes DEF Unbilled
<1>2. UNCHANGED <<multi, job>> /\ Key(c)' = k /\ Pending(c)' = Pending(c)
  BY DEF Use, Key, Pending, DeltaOf, Delta
<1>3. n \in {0, 1} /\ (c = d => n = 1)
  BY <1>1, TablesTyped DEF Use
<1>4. Unbilled(c, t)' = u + n
  <2>1. consumed'[c] \in Nat
    BY UseTyped DEF Typed, TypeOK
  <2> QED
    BY <1>1, <1>2, <2>1 DEF Unbilled
<1>5. ASSUME q # None
      PROVE  p # None /\ q.last = p.last /\ p.count[c] \in Nat /\ q.count[c] \in Nat
             /\ q.count[c] <= p.count[c] + n
  <2>1. /\ p # None /\ q.last = p.last
        /\ c # d => q.count[c] = p.count[c]
        /\ q.count[d] = p.count[d] \/ q.count[d] = p.count[d] + 1
    BY <1>1, <1>5, UseProcs
  <2>2. p.count[c] \in Nat
    BY <2>1, BillingTypes
  <2> HIDE DEF n
  <2> QED
    BY <1>3, <2>1, <2>2
<1> HIDE DEF u, n
<1>6. CountersCovered(c, Unbilled(c, t), Key(c))'
  <2>1. ASSUME q # None, q.last[k] # None
        PROVE  q.count[c] - q.last[k] <= u + n
    <3>1. p # None /\ p.last[k] \in Nat /\ p.count[c] - p.last[k] <= u
      BY <1>1, <1>5, <2>1, BillingTypes DEF CountersCovered
    <3> QED
      BY <1>1, <1>3, <1>5, <2>1, <3>1
  <2>2. ASSUME q # None, s # None, s.last[k] # None
        PROVE  q.count[c] - s.last[k] <= u + n
    <3>1. p # None /\ s.last[k] \in Nat /\ p.count[c] - s.last[k] <= u
      BY <1>1, <1>5, <2>2, BillingTypes DEF CountersCovered
    <3> QED
      BY <1>1, <1>3, <1>5, <2>2, <3>1
  <2> QED
    BY <1>2, <1>4, <2>1, <2>2 DEF CountersCovered
<1>7. ReadingCovered(c, Unbilled(c, t), Key(c))'
  <2> DEFINE w == u + n
  <2>1. ASSUME job.pc = "write", job.at = i, job.read[k] # None
        PROVE  /\ Pending(c) <= w
               /\ q # None => q.count[c] - job.read[k] <= w - Pending(c)
    <3>1. Pending(c) \in Nat /\ job.read[k] \in Nat
      BY <2>1, TablesTyped, BillingTypes DEF JobTyped
    <3>2. Pending(c) <= u /\ (p # None => p.count[c] - job.read[k] <= u - Pending(c))
      BY <1>1, <2>1 DEF ReadingCovered
    <3> QED
      BY <1>1, <1>3, <1>5, <3>1, <3>2
  <2>2. Unbilled(c, t)' = w
    BY <1>4
  <2> HIDE DEF w
  <2> QED
    BY <1>2, <2>1, <2>2 DEF ReadingCovered
<1>8. Unbilled(c, t)' >= 0
  BY <1>1, <1>3, <1>4
<1> QED
  BY <1>6, <1>7, <1>8 DEF Covered, Unbilled, CountersCovered, ReadingCovered

\* The steps of the job but a collection's.
LEMMA JobRests ==
  ASSUME Typed, JobBuild \/ JobReconcile \/ JobBill \/ JobRenew \/ JobDisable, NEW c \in Clients
  PROVE  /\ job'.pc # "write" /\ job'.deltas[c] <= job.deltas[c]
         /\ job'.snaps[Home[c]] = None \/ job'.snaps[Home[c]] = job.snaps[Home[c]]
<1>0. job.deltas[c] \in Nat /\ Home[c] \in Inbounds /\ job \in JobRecord
      /\ job.deltas \in [Clients -> Nat]
  BY BillingTypes, JobFields, TablesTyped DEF JobTyped
<1>1. ASSUME job'.pc # "write", job'.deltas = Idle.deltas, job'.snaps = Idle.snaps
      PROVE  /\ job'.deltas[c] <= job.deltas[c]
             /\ job'.snaps[Home[c]] = None
  BY <1>0, <1>1, IdleFields
<1>2. CASE JobBuild
  <2>1. job'.deltas = Idle.deltas /\ job'.snaps = Idle.snaps /\ job'.pc = "reconcile"
    BY <1>2 DEF JobBuild, Idle
  <2> QED
    BY <1>1, <2>1
<1>3. CASE JobReconcile
  <2>1. job' = Idle \/ job' = [Idle EXCEPT !.pc = "snapshot"]
    BY <1>3 DEF JobReconcile
  <2>2. job'.deltas = Idle.deltas /\ job'.snaps = Idle.snaps /\ job'.pc # "write"
    BY <2>1, IdleFields DEF JobRecord
  <2> QED
    BY <1>1, <2>2
<1>4. CASE JobBill
  <2>1. job'.deltas = NoDeltas /\ job'.snaps = job.snaps /\ job'.pc = "renew"
    BY <1>0, <1>4 DEF JobBill, JobRecord
  <2> QED
    BY <1>0, <2>1 DEF NoDeltas
<1>5. CASE JobRenew
  <2>1. job'.deltas = job.deltas /\ job'.snaps = job.snaps /\ job'.pc = "disable"
    BY <1>0, <1>5 DEF JobRenew, JobRecord
  <2> QED
    BY <1>0, <2>1
<1>6. CASE JobDisable
  <2>1. job' = Idle \/ job' = [Idle EXCEPT !.pc = "rebuild", !.changed = TRUE]
    BY <1>6 DEF JobDisable
  <2>2. job'.deltas = Idle.deltas /\ job'.snaps = Idle.snaps /\ job'.pc # "write"
    BY <2>1, IdleFields DEF JobRecord
  <2> QED
    BY <1>1, <2>2
<1> QED
  BY <1>2, <1>3, <1>4, <1>5, <1>6

LEMMA CoveredRests ==
  ASSUME Typed, Structure, NEW c \in Clients, NEW t \in Nat, Covered(c, t),
         JobBuild \/ JobReconcile \/ JobBill \/ JobRenew \/ JobDisable
  PROVE  Covered(c, t)'
<1>1. Typed'
  BY JobKeepsTypes DEF Job
<1>2. JobLeaves
  BY DEF JobBuild, JobReconcile, JobBill, JobRenew, JobDisable
<1>3. ManagerStep
  <2>1. CASE JobReconcile
    BY <2>1, ReconcileStep DEF JobReconcile
  <2>2. CASE JobBuild \/ JobBill \/ JobRenew \/ JobDisable
    <3>1. ManagerLeaves
      BY <2>2 DEF JobBuild, JobBill, JobRenew, JobDisable
    <3> QED
      BY <3>1, LeavesTypes
  <2> QED
    BY <2>1, <2>2
<1>4. UNCHANGED multi /\ consumed'[c] = consumed[c]
  BY <1>2 DEF JobLeaves
<1>5. job'.deltas[c] + t <= job.deltas[c] + t
  <2>1. job'.deltas[c] \in Nat /\ job.deltas[c] \in Nat
    BY <1>1, BillingTypes DEF Typed, JobTyped, JobRecord
  <2> QED
    BY <2>1, JobRests
<1> QED
  BY <1>1, <1>3, <1>4, <1>5, JobRests, CoveredNext

LEMMA CoveredHandler ==
  ASSUME Typed, Structure, NEW c \in Clients, NEW t \in Nat, Covered(c, t),
         NEW h \in Admins, Begin(h) \/ Handle(h)
  PROVE  Covered(c, t)'
<1>1. Typed'
  BY HandlersKeepTypes
<1>2. ManagerStep /\ UNCHANGED <<multi, job, consumed>>
  BY HandlerSteps DEF HandlerStep, HandlersLeave
<1>3. job'.deltas[c] + t <= job.deltas[c] + t
  BY <1>2, BillingTypes
<1> QED
  BY <1>1, <1>2, <1>3, CoveredNext

LEMMA CoveredEnvironment ==
  ASSUME Typed, Structure, NEW c \in Clients, NEW t \in Nat, Covered(c, t),
         (\E i \in Inbounds : SidecarDies(i)) \/ Tick \/ PanelDies \/ StopAll
  PROVE  Covered(c, t)'
<1>1. Typed'
  BY SidecarDiesTyped, TickTyped, PanelDiesTyped, StopAllTyped
<1>2. ManagerStep
  BY SidecarDiesStep, ManagerRests, AllStopped DEF Tick, PanelDies, StopAll
<1>3. UNCHANGED <<multi, consumed>>
  BY DEF SidecarDies, Tick, PanelDies, StopAll
<1>4. UNCHANGED job \/ job' = Idle
  BY DEF SidecarDies, Tick, PanelDies, StopAll
<1>5. job.deltas[c] \in Nat /\ Home[c] \in Inbounds
  BY BillingTypes
<1>6. /\ job'.deltas[c] + t <= job.deltas[c] + t
      /\ job'.snaps[Home[c]] = None \/ job'.snaps[Home[c]] = job.snaps[Home[c]]
      /\ job'.pc # "write" \/ UNCHANGED job
  BY <1>4, <1>5, IdleFields
<1> QED
  BY <1>1, <1>2, <1>3, <1>6, CoveredNext

LEMMA NextKeepsCovered ==
  ASSUME Typed, Structure, NEW c \in Clients, NEW t \in Nat, Covered(c, t), Next
  PROVE  Covered(c, t)'
<1>1. CASE Job
  BY <1>1, CoveredRests, CoveredSnapshot, CoveredScrape, CoveredWrite DEF Job
<1>2. CASE ~Job
  BY <1>2, CoveredHandler, CoveredEnvironment, CoveredUse DEF Next
<1> QED
  BY <1>1, <1>2

\* The rows that requests hold, and those of the table, stay covered.
Sound(c, r) == r.used <= r.allTime /\ Covered(c, r.allTime)

LEMMA SoundRows ==
  ASSUME Accounted, NEW c \in Clients
  PROVE  /\ Covered(c, 0)
         /\ rows[c] # None => Sound(c, rows[c])
         /\ \A h \in Admins : op[h].client = c /\ op[h].row # None => Sound(c, op[h].row)
  BY DEF Accounted, RowsOf, Sound

LEMMA BilledFrom ==
  ASSUME \A c \in Clients :
           /\ Covered(c, 0)'
           /\ \A r \in Row :
                r = rows'[c] \/ (\E h \in Admins : op'[h].client = c /\ op'[h].row = r) =>
                  r.used <= r.allTime /\ Covered(c, r.allTime)',
         Typed'
  PROVE  Accounted'
<1>1. ASSUME NEW c \in Clients, NEW r \in RowsOf(c)'
      PROVE  r.used <= r.allTime /\ Covered(c, r.allTime)'
  <2>1. r = rows'[c] \/ (\E h \in Admins : op'[h].client = c /\ op'[h].row = r)
    BY DEF RowsOf
  <2>2. rows'[c] \in Row \cup {None} /\ \A h \in Admins : op'[h].row \in Row \cup {None}
    BY DEF Typed, TypeOK, Op
  <2>3. r \in Row
    BY <2>1, <2>2 DEF RowsOf
  <2> QED
    BY <2>1, <2>3
<1> QED
  BY <1>1 DEF Accounted

LEMMA SoundNext ==
  ASSUME Typed, Structure, Next, NEW c \in Clients, NEW r \in Row, Sound(c, r)
  PROVE  r.used <= r.allTime /\ Covered(c, r.allTime)'
<1>1. r.allTime \in Nat
  BY RowFields
<1> QED
  BY <1>1, NextKeepsCovered DEF Sound

LEMMA HeldNext ==
  ASSUME Typed, Structure, Accounted, Next, NEW h \in Admins, Holds(h, op'[h]),
         NEW r \in Row, op'[h].row = r, NEW c \in Clients, op'[h].client = c
  PROVE  r.used <= r.allTime /\ Covered(c, r.allTime)'
<1>0. r # None
  BY ConstantsAssumption
<1>1. CASE c = op[h].client /\ r = op[h].row
  <2>1. Sound(c, r)
    BY <1>0, <1>1, SoundRows
  <2> QED
    BY <2>1, SoundNext
<1>2. CASE r.used = 0 /\ r.allTime = 0
  <2>1. Covered(c, 0)'
    BY SoundRows, NextKeepsCovered
  <2> QED
    BY <1>2, <2>1
<1>3. CASE rows[c] # None /\ r.used = rows[c].used /\ r.allTime = rows[c].allTime
  <2>1. rows[c] \in Row /\ Sound(c, rows[c])
    BY <1>3, SoundRows, TablesTyped
  <2> DEFINE q == rows[c]
  <2>2. q.used <= q.allTime /\ q.allTime \in Nat /\ Covered(c, q.allTime)
    BY <2>1, RowFields DEF Sound
  <2>3. Covered(c, r.allTime)
    BY <1>3, <2>2
  <2>4. Sound(c, r)
    BY <1>3, <2>2, <2>3 DEF Sound
  <2> QED
    BY <2>4, SoundNext
<1> QED
  BY <1>0, <1>1, <1>2, <1>3 DEF Holds, Copies

LEMMA ShrunkNext ==
  ASSUME Typed, Structure, Accounted, Next, NEW c \in Clients, NEW r \in Row, rows'[c] = r,
         Shrinks(c) \/ \E h \in Admins : op[h].client = c /\ rows'[c] = op[h].row
  PROVE  r.used <= r.allTime /\ Covered(c, r.allTime)'
<1>0. r # None
  BY ConstantsAssumption
<1>1. ASSUME NEW h \in Admins, op[h].client = c, r = op[h].row
      PROVE  Sound(c, r)
  BY <1>0, <1>1, SoundRows
<1>2. CASE Shrinks(c)
  <2>1. /\ rows[c] # None /\ r.allTime = rows[c].allTime
        /\ r.used = rows[c].used \/ r.used <= rows[c].used
    BY <1>0, <1>2 DEF Shrinks
  <2>2. rows[c] \in Row /\ Sound(c, rows[c])
    BY <2>1, SoundRows, TablesTyped
  <2>3. r.used <= r.allTime
    <3> DEFINE q == rows[c]
    <3>1. q.used \in Nat /\ q.allTime \in Nat /\ r.used \in Nat
      BY <2>2, RowFields
    <3>2. q.used <= q.allTime
      BY <2>2 DEF Sound
    <3> QED
      BY <2>1, <3>1, <3>2
  <2>4. Sound(c, r)
    BY <2>1, <2>2, <2>3 DEF Sound
  <2> QED
    BY <2>4, SoundNext
<1> QED
  BY <1>1, <1>2, SoundNext

\* Every step but the bill itself.
LEMMA BilledNext ==
  ASSUME Typed, Structure, Accounted, Next, Typed',
         \A h \in Admins : Holds(h, op'[h]),
         \A c \in Clients :
           Shrinks(c) \/ \E h \in Admins : op[h].client = c /\ rows'[c] = op[h].row
  PROVE  Accounted'
<1>1. ASSUME NEW c \in Clients
      PROVE  Covered(c, 0)'
  BY SoundRows, NextKeepsCovered
<1>2. ASSUME NEW c \in Clients, NEW r \in Row,
             r = rows'[c] \/ (\E h \in Admins : op'[h].client = c /\ op'[h].row = r)
      PROVE  r.used <= r.allTime /\ Covered(c, r.allTime)'
  BY <1>2, ShrunkNext, HeldNext
<1> QED
  BY <1>1, <1>2, BilledFrom

LEMMA OpRests == ASSUME UNCHANGED op PROVE \A h \in Admins : Holds(h, op'[h])
  BY DEF Holds

\* The bill: what the deltas held is in the rows now.
LEMMA BillBilled ==
  ASSUME Typed, Structure, Accounted, JobBill
  PROVE  Accounted'
<1>0. Typed' /\ Next /\ ManagerStep /\ JobLeaves
  BY JobBillTyped, LeavesTypes DEF JobBill, Next, Job
<1>1. ASSUME NEW c \in Clients
      PROVE  Covered(c, 0)'
  BY <1>0, SoundRows, NextKeepsCovered
<1>2. ASSUME NEW c \in Clients, NEW r \in Row, NEW h \in Admins,
             op'[h].client = c, op'[h].row = r
      PROVE  r.used <= r.allTime /\ Covered(c, r.allTime)'
  <2>1. Holds(h, op'[h])
    BY <1>0, OpRests DEF JobLeaves
  <2> QED
    BY <1>0, <1>2, <2>1, HeldNext
<1>3. ASSUME NEW c \in Clients, NEW r \in Row, rows'[c] = r
      PROVE  r.used <= r.allTime /\ Covered(c, r.allTime)'
  <2> DEFINE q == rows[c]  d == job.deltas[c]
  <2>1. rows'[c] = IF q = None THEN None ELSE Billed(q, d)
    BY DEF JobBill
  <2>2. q # None /\ r = Billed(q, d) /\ q \in Row
    BY <1>3, <2>1, ConstantsAssumption, TablesTyped
  <2>3. r.used = q.used + d /\ r.allTime = q.allTime + d
    BY <2>2 DEF Billed, Row
  <2>4. d \in Nat /\ q.used \in Nat /\ q.allTime \in Nat /\ r.allTime \in Nat
    BY <2>2, BillingTypes, RowFields
  <2>5. q.used <= q.allTime /\ Covered(c, q.allTime)
    BY <2>2, SoundRows DEF Sound
  <2>6. job'.deltas[c] = 0
    BY TablesTyped DEF JobBill, JobTyped, JobRecord, NoDeltas
  <2>7. /\ job'.pc # "write"
        /\ job'.snaps[Home[c]] = None \/ job'.snaps[Home[c]] = job.snaps[Home[c]]
    BY JobRests
  <2>8. UNCHANGED multi /\ consumed'[c] = consumed[c]
    BY <1>0 DEF JobLeaves
  <2>9. job'.deltas[c] + r.allTime <= job.deltas[c] + q.allTime
    BY <2>3, <2>4, <2>6
  <2>10. Covered(c, r.allTime)'
    <3> DEFINE t == q.allTime
    <3>1. t \in Nat /\ Covered(c, t) /\ job'.deltas[c] + r.allTime <= job.deltas[c] + t
      BY <2>4, <2>5, <2>9
    <3> HIDE DEF t
    <3> QED
      BY <1>0, <2>4, <2>7, <2>8, <3>1, CoveredNext
  <2> QED
    BY <2>3, <2>4, <2>5, <2>10
<1> QED
  BY <1>0, <1>1, <1>2, <1>3, BilledFrom

LEMMA JobKeepsBilled == ASSUME Typed, Structure, Accounted, Job PROVE Accounted'
<1>0. Typed' /\ Next
  BY JobKeepsTypes DEF Next
<1>1. ASSUME JobRenew, NEW c \in Clients PROVE Shrinks(c)
  <2>1. rows'[c] = IF rows[c] # None /\ job.renewing[c] # None
                     THEN Renewed(rows[c], job.renewing[c]) ELSE rows[c]
    BY <1>1 DEF JobRenew
  <2>2. rows[c] \in Row \cup {None} /\ job.renewing[c] \in Row \cup {None} /\ now \in Nat
    BY TablesTyped, JobFields
  <2>3. CASE rows[c] # None /\ job.renewing[c] # None
    <3>1. job.renewing[c].reset > 0 /\ job.renewing[c].expiry <= now
      BY <2>3, TablesTyped, JobFields DEF JobTyped, Keys
    <3>2. Renewed(rows[c], job.renewing[c]).used = 0
          /\ Renewed(rows[c], job.renewing[c]).allTime = rows[c].allTime
      BY <2>2, <2>3, <3>1, RenewedType
    <3>3. rows[c].used \in Nat
      BY <2>2, <2>3, RowFields
    <3> QED
      BY <2>1, <2>3, <3>2, <3>3 DEF Shrinks
  <2> QED
    BY <2>1, <2>3 DEF Shrinks
<1>2. ASSUME JobDisable, NEW c \in Clients PROVE Shrinks(c)
  <2>1. rows'[c] = IF c \in Invalid THEN [rows[c] EXCEPT !.enable = FALSE] ELSE rows[c]
    BY <1>2 DEF JobDisable
  <2>2. c \in Invalid => rows[c] # None /\ rows[c] \in Row
    BY TablesTyped DEF Invalid, Keys
  <2>3. c \in Invalid => [rows[c] EXCEPT !.enable = FALSE].allTime = rows[c].allTime
                         /\ [rows[c] EXCEPT !.enable = FALSE].used = rows[c].used
                         /\ rows[c].used \in Nat
    BY <2>2 DEF Row
  <2> QED
    BY <2>1, <2>2, <2>3 DEF Shrinks
<1>3. ASSUME UNCHANGED rows, NEW c \in Clients PROVE Shrinks(c)
  BY <1>3 DEF Shrinks
<1>4. JobLeaves
  BY Zenon DEF Job, JobBuild, JobReconcile, JobSnapshot, JobScrape, JobWrite, JobBill, JobRenew,
               JobDisable
<1>5. \A h \in Admins : Holds(h, op'[h])
  BY <1>4, OpRests DEF JobLeaves
<1>6. UNCHANGED rows \/ JobRenew \/ JobDisable \/ JobBill
  BY Zenon DEF Job, JobBuild, JobReconcile, JobSnapshot, JobScrape, JobWrite
<1>7. CASE JobBill
  BY <1>7, BillBilled
<1>8. CASE UNCHANGED rows \/ JobRenew \/ JobDisable
  <2>1. \A c \in Clients : Shrinks(c)
    BY <1>1, <1>2, <1>3, <1>8
  <2> QED
    BY <1>0, <1>5, <2>1, BilledNext
<1> QED
  BY <1>6, <1>7, <1>8

LEMMA NextKeepsBilled == ASSUME Typed, Structure, Accounted, Next PROVE Accounted'
<1>0. Typed'
  BY NextKeepsTypes
<1>1. CASE Job
  BY <1>1, JobKeepsBilled
<1>2. ASSUME NEW h \in Admins, Begin(h) \/ Handle(h) PROVE Accounted'
  <2>1. HandlerStep(h)
    BY <1>2, HandlerSteps
  <2>2. \A c \in Clients : Shrinks(c) \/ (c = op[h].client /\ rows'[c] = op[h].row)
    BY <2>1 DEF HandlerStep
  <2>3. ASSUME NEW g \in Admins PROVE Holds(g, op'[g])
    <3>1. PICK o : op' = [op EXCEPT ![h] = o] /\ Holds(h, o)
      BY <2>1 DEF HandlerStep
    <3>2. CASE g = h
      BY <3>1, <3>2, TablesTyped
    <3>3. CASE g # h
      BY <3>1, <3>3, TablesTyped DEF Holds
    <3> QED
      BY <3>2, <3>3
  <2> QED
    BY <1>0, <2>2, <2>3, BilledNext
<1>3. CASE (\E c \in Clients : Use(c)) \/ (\E i \in Inbounds : SidecarDies(i)) \/ Tick \/ StopAll
  <2>1. op' = op /\ rows' = rows
    BY <1>3 DEF Use, SidecarDies, Tick, StopAll
  <2> QED
    BY <1>0, <2>1, OpRests, BilledNext DEF Shrinks
<1>4. CASE PanelDies
  <2>1. UNCHANGED rows /\ \A h \in Admins : op'[h].row = None
    BY <1>4, NoOpType DEF PanelDies
  <2> QED
    BY <1>0, <2>1, BilledNext DEF Shrinks, Holds
<1> QED
  BY <1>1, <1>2, <1>3, <1>4 DEF Next

LEMMA InitBilled == Init => Accounted
<1> SUFFICES ASSUME Init, NEW c \in Clients
             PROVE  /\ Covered(c, 0)
                    /\ \A r \in RowsOf(c) : r.used <= r.allTime /\ Covered(c, r.allTime)
  BY DEF Accounted
<1>1. Typed
  BY InitTyped
<1>2. procs[Home[c]] = None /\ job.pc = "idle" /\ job.deltas[c] = 0
  BY <1>1, BillingTypes, IdleFields DEF Init
<1>3. consumed[c] \in Nat /\ consumed[c] = IF rows[c] = None THEN 0 ELSE rows[c].allTime
  BY <1>1, BillingTypes DEF Init
<1>4. ASSUME NEW t \in Nat, t <= consumed[c] PROVE Covered(c, t)
  BY <1>2, <1>3, <1>4 DEF Covered
<1>5. ASSUME NEW r \in RowsOf(c) PROVE r = rows[c] /\ r # None
  BY NoOpType DEF RowsOf, Init
<1>6. rows[c] # None => rows[c] \in Row /\ rows[c].used <= rows[c].allTime
  BY <1>1, TablesTyped, ConstantsAssumption DEF Init
<1>7. ASSUME rows[c] # None PROVE rows[c].allTime \in Nat
  BY <1>6, <1>7, RowFields
<1> QED
  BY <1>3, <1>4, <1>5, <1>6, <1>7

-------------------------------------------------------------------------------
\* The inductive invariant.
LEMMA InitIInv == Init => IInv
  BY InitTyped, InitStructure, InitBilled DEF IInv

LEMMA NextIInv == IInv /\ [Next]_vars => IInv'
<1>1. ASSUME IInv, Next PROVE IInv'
  BY <1>1, NextKeepsTypes, NextKeepsStructure, NextKeepsBilled DEF IInv
<1>2. ASSUME IInv, UNCHANGED vars PROVE IInv'
  <2>1. /\ now' = now /\ multi' = multi /\ inbounds' = inbounds /\ rows' = rows
        /\ procs' = procs /\ orphans' = orphans /\ swept' = swept /\ job' = job /\ op' = op
        /\ consumed' = consumed /\ edits' = edits /\ faults' = faults
    BY <1>2 DEF vars
  <2>2. Typed' /\ Structure'
    <3>1. TypeOK' /\ JobTyped' /\ \A h \in Admins : Ready(op[h])'
      BY <1>2, <2>1 DEF IInv, Typed, TypeOK, JobTyped, Ready, Keys
    <3>2. Typed'
      BY <3>1 DEF Typed
    <3>3. Typed /\ Structure
      BY <1>2 DEF IInv
    <3>4. ManagerStep
      BY <2>1, <3>3, ManagerRests
    <3> QED
      BY <2>1, <3>2, <3>3, <3>4, AppliesFit, StructureStays
  <2>3. ASSUME NEW c \in Clients, NEW t, Covered(c, t) PROVE Covered(c, t)'
    BY <2>1, <2>3 DEF Covered, Key, Pending, DeltaOf, Delta
  <2>4. ASSUME NEW c \in Clients, NEW r \in Row,
               r = rows'[c] \/ (\E h \in Admins : op'[h].client = c /\ op'[h].row = r)
        PROVE  r.used <= r.allTime /\ Covered(c, r.allTime)'
    <3>1. r # None
      BY ConstantsAssumption
    <3>2. Sound(c, r)
      BY <1>2, <2>1, <2>4, <3>1, SoundRows DEF IInv
    <3> QED
      BY <2>3, <3>2 DEF Sound
  <2>5. \A c \in Clients : Covered(c, 0)'
    BY <1>2, <2>3, SoundRows DEF IInv
  <2> QED
    BY <2>2, <2>4, <2>5, BilledFrom DEF IInv
<1> QED
  BY <1>1, <1>2

\* Between any two steps, what a client used leaves room for all that may still be
\* billed to it: in the table, held by a request, read, or still to be read.
THEOREM Invariance == Spec => []IInv
<1>1. Init => IInv
  BY InitIInv
<1>2. IInv /\ [Next]_vars => IInv'
  BY NextIInv
<1> QED
  BY <1>1, <1>2, PTL DEF Spec

\* The rows, the processes, the requests and the counters are what their types
\* say, however the handlers, the job and the sidecars interleave.
THEOREM TypeCorrect == Spec => []TypeOK
<1>1. IInv => TypeOK
  BY DEF IInv, Typed
<1> QED
  BY <1>1, Invariance, PTL

\* RecordTraffic never adds more to a client than its sidecars transferred for
\* it: not when a sidecar dies or is replaced between the snapshot, the reading and
\* the write of a collection, when another process answers on its port, when
\* counters are reset beside it, when Save puts a stale row back, or when the panel
\* dies.
THEOREM BilledIsUsed == Spec => []NeverOverbilled
<1>1. IInv => NeverOverbilled
  <2> SUFFICES ASSUME IInv, NEW c \in Keys(rows)
               PROVE  rows[c].used <= rows[c].allTime /\ rows[c].allTime <= consumed[c]
    BY DEF NeverOverbilled
  <2>1. Typed /\ Accounted
    BY DEF IInv
  <2>2. c \in Clients /\ rows[c] # None /\ rows[c] \in Row
    BY <2>1, KeysOf, TablesTyped
  <2>3. Sound(c, rows[c])
    BY <2>1, <2>2, SoundRows
  <2>4. rows[c].used <= rows[c].allTime /\ Unbilled(c, rows[c].allTime) >= 0
    BY <2>3, CoveredParts DEF Sound
  <2>5. consumed[c] \in Nat /\ job.deltas[c] \in Nat /\ rows[c].allTime \in Nat
    BY <2>1, <2>2, BillingTypes, RowFields
  <2> QED
    BY <2>4, <2>5 DEF Unbilled
<1> QED
  BY <1>1, Invariance, PTL
===============================================================================
