-------------------------- MODULE CloudflaredProofs --------------------------
(***************************************************************************)
(* At most one tunnel, and CloudflaredManager implements Tunnel, for every *)
(* environment, every settings table and whoever may fail to launch.       *)
(***************************************************************************)
EXTENDS CloudflaredManager, TLAPS

\* The inductive invariant.
Inv == TypeOK /\ CurrentIsWanted /\ OthersAreVoid

-------------------------------------------------------------------------------
(***************************************************************************)
(* What a critical section hands on.                                       *)
(***************************************************************************)
WellFormed(m) ==
  /\ m.gen \in Nat
  /\ DOMAIN m.procs \subseteq 1 .. m.gen
  /\ \A g \in DOMAIN m.procs : m.procs[g] \in Process

\* Nothing serves.
Silent(m) ==
  \A g \in DOMAIN m.procs :
    /\ ~(m.procs[g].state = "alive" /\ ~m.procs[g].intentional)
    /\ m.procs[g].supervisor = "timer" => m.procs[g].state = "reaped"

\* No supervisor finds its generation current.
NoneCurrent(m) ==
  \A g \in DOMAIN m.procs : g = m.gen => m.procs[g].supervisor = "ended"

LEMMA ResolvesToConfig ==
  ASSUME NEW e \in Env, NEW s \in Setting
  PROVE  Resolve(e, s) \in Config
<1>1. ResolvedMode(e, s) \in Modes
  BY DEF ResolvedMode, Modes
<1>2. Override(e.token, s.token) \in Texts(Tokens)
  BY ConstantsAssumption DEF Env, Setting, Override, Texts, Overrides
<1>3. Override(e.target, StoredTarget(s)) \in Texts(Targets)
  BY ConstantsAssumption DEF StoredTarget, Env, Setting, Override, Texts, Overrides
<1>4. Resolve(e, s).enabled \in BOOLEAN
  BY DEF Resolve, Setting
<1> QED BY <1>1, <1>2, <1>3, <1>4 DEF Resolve, Config

\* StopLocked leaves a manager without a process and nothing that serves.
LEMMA StopSilences ==
  ASSUME Inv, NEW gone \in BOOLEAN
  PROVE  LET m == StopLocked(Manager, gone)
         IN /\ WellFormed(m) /\ Silent(m) /\ NoneCurrent(m)
            /\ m.proc = None /\ (m.fp = None \/ m.fp \in Config)
<1> DEFINE m == StopLocked(Manager, gone)
<1> USE DEF Inv, TypeOK, Process
<1>1. CASE proc = None
  <2>1. m = Manager BY <1>1 DEF StopLocked, Manager
  <2>2. \A g \in DOMAIN procs : g # proc BY <1>1, ConstantsAssumption
  <2> QED BY <1>1, <2>1, <2>2 DEF Manager, WellFormed, Silent, NoneCurrent,
                                 OthersAreVoid, Serves
<1>2. CASE proc # None
  <2>1. proc \in DOMAIN procs /\ proc = gen BY <1>2 DEF CurrentIsWanted
  <2>2. /\ m.proc = None /\ m.fp = None /\ m.gen = gen + 1
        /\ DOMAIN m.procs = DOMAIN procs
    BY <1>2 DEF StopLocked, Manager
  <2>3. ASSUME NEW g \in DOMAIN procs, g # proc PROVE m.procs[g] = procs[g]
    BY <1>2, <2>1, <2>3 DEF StopLocked, Manager
  <2>4. /\ m.procs[proc] \in Process
        /\ m.procs[proc].state = "alive" => m.procs[proc].intentional
        /\ m.procs[proc].supervisor = procs[proc].supervisor
        /\ procs[proc].state = "reaped" => m.procs[proc].state = "reaped"
    <3>1. CASE procs[proc].state = "reaped"
      BY <1>2, <2>1, <3>1 DEF StopLocked, Manager, IsRunning
    <3>2. CASE procs[proc].state # "reaped"
      <4>1. m.procs[proc] = ToldToStop(procs[proc], gone)
        BY <1>2, <2>1, <3>2 DEF StopLocked, Manager, IsRunning
      <4> QED BY <2>1, <3>2, <4>1 DEF ToldToStop
    <3> QED BY <3>1, <3>2
  <2>5. WellFormed(m) BY <2>1, <2>2, <2>3, <2>4 DEF WellFormed
  <2>6. Silent(m)
    BY <2>1, <2>2, <2>3, <2>4 DEF Silent, OthersAreVoid, Serves
  <2>7. NoneCurrent(m) BY <2>1, <2>2 DEF NoneCurrent
  <2> QED BY <2>2, <2>5, <2>6, <2>7
<1> QED BY <1>1, <1>2

\* A start from a silent manager re-establishes the invariant.
LEMMA StartServes ==
  ASSUME NEW m, WellFormed(m), Silent(m), NEW c \in Config, c.enabled, Valid(c),
         cfg' = c, env' \in Envs, events' \in Nat, Becomes(StartLocked(m, c))
  PROVE  Inv' /\ proc' # None /\ Serves(proc)' /\ procs'[proc'].config = c
<1> DEFINE g == m.gen + 1
           born == Launched(c)
<1>1. /\ proc' = g /\ gen' = g /\ fp' = c /\ g \in Nat
      /\ DOMAIN procs' = DOMAIN m.procs \cup {g}
      /\ procs'[g] = born
  BY DEF Becomes, StartLocked, WellFormed, Fingerprint
<1>2. g \notin DOMAIN m.procs BY DEF WellFormed
<1>3. \A q \in DOMAIN m.procs : procs'[q] = m.procs[q]
  BY <1>2 DEF Becomes, StartLocked
<1>4. born \in Process BY DEF Launched, Process
<1>5. g # None BY <1>1, ConstantsAssumption
<1>6. TypeOK'
  <2>1. DOMAIN procs' \subseteq 1 .. gen' BY <1>1 DEF WellFormed
  <2>2. \A q \in DOMAIN procs' : procs'[q] \in Process
    BY <1>1, <1>3, <1>4 DEF WellFormed
  <2> QED BY <1>1, <2>1, <2>2 DEF TypeOK
<1>7. CurrentIsWanted' BY <1>1 DEF CurrentIsWanted, Fingerprint, Launched
<1>8. OthersAreVoid' BY <1>1, <1>2, <1>3 DEF OthersAreVoid, Silent, Serves, Launched
<1> QED BY <1>1, <1>5, <1>6, <1>7, <1>8 DEF Inv, Serves, Launched

\* A manager without a process satisfies the invariant whatever cfg says.
LEMMA StopKeepsInv ==
  ASSUME NEW m, WellFormed(m), Silent(m), NoneCurrent(m), m.proc = None,
         m.fp = None \/ m.fp \in Config,
         cfg' \in Config, env' \in Envs, events' \in Nat, Becomes(m)
  PROVE  Inv' /\ proc' = None
BY DEF Inv, TypeOK, CurrentIsWanted, OthersAreVoid, Serves, Becomes,
       WellFormed, Silent, NoneCurrent

\* Whatever Apply does ends in one of the two.
LEMMA ApplyPreserves ==
  ASSUME Inv, Apply
  PROVE  Inv' /\ (\/ proc' = None
                  \/ proc' # None /\ Serves(proc)'
                  \/ UNCHANGED <<proc, procs>>)
<1> PICK s \in Settings, installed, launches, gone \in BOOLEAN :
           /\ cfg' = Resolve(env, s)
           /\ Becomes(Applied(Resolve(env, s), installed, launches, gone))
  BY DEF Apply
<1> DEFINE c == Resolve(env, s)
           idle == StopLocked(Manager, gone)
<1>1. cfg' = c /\ c \in Config
  BY ResolvesToConfig, ConstantsAssumption DEF Inv, TypeOK
<1>2. env' \in Envs /\ events' \in Nat
  BY DEF Inv, TypeOK, Apply, Event
<1>3. /\ WellFormed(idle) /\ Silent(idle) /\ NoneCurrent(idle)
      /\ idle.proc = None /\ (idle.fp = None \/ idle.fp \in Config)
  BY StopSilences
<1> HIDE DEF c, idle
<1>4. Becomes(IF ~c.enabled \/ ~Valid(c) \/ ~installed THEN idle
              ELSE IF IsRunning(Manager) /\ fp = Fingerprint(c) THEN Manager
              ELSE IF launches THEN StartLocked(idle, c) ELSE idle)
  BY DEF Applied, c, idle
<1>5. CASE Becomes(idle)
  BY <1>1, <1>2, <1>3, <1>5, StopKeepsInv
<1>6. CASE /\ IsRunning(Manager) /\ fp = Fingerprint(c)
           /\ Becomes(Manager) /\ c.enabled /\ Valid(c)
  <2>1. proc # None /\ UNCHANGED <<proc, fp, gen, procs>>
    BY <1>6 DEF IsRunning, Manager, Becomes
  <2>2. c = cfg BY <1>6, <2>1 DEF Inv, CurrentIsWanted, Fingerprint
  <2> QED BY <1>1, <1>2, <2>1, <2>2
          DEF Inv, TypeOK, CurrentIsWanted, OthersAreVoid, Serves
<1>7. CASE Becomes(StartLocked(idle, c)) /\ c.enabled /\ Valid(c)
  <2>1. Inv' /\ proc' # None /\ Serves(proc)'
    BY <1>1, <1>2, <1>3, <1>7, StartServes
  <2> QED BY <2>1
<1> QED BY <1>4, <1>5, <1>6, <1>7

LEMMA StopPreserves == ASSUME Inv, Stop PROVE Inv' /\ proc' = None
<1> PICK gone \in BOOLEAN : Becomes(StopLocked(Manager, gone))
  BY DEF Stop
<1>1. cfg' \in Config BY DEF Stop, Inv, TypeOK, Config
<1>2. env' \in Envs /\ events' \in Nat BY DEF Stop, Event, Inv, TypeOK
<1> QED BY <1>1, <1>2, StopSilences, StopKeepsInv

\* A step of one process that leaves the manager's fields alone.
LEMMA ProcessPreserves ==
  ASSUME Inv, NEW g \in DOMAIN procs, Drop(g) \/ Dies(g) \/ Reaped(g) \/ SuperviseExit(g)
  PROVE  Inv'
<1> USE DEF Inv, TypeOK, Process, Drop, Dies, Reaped, SuperviseExit, Event
<1>1. /\ UNCHANGED <<env, cfg, proc, fp, gen>> /\ events' \in Nat
      /\ DOMAIN procs' = DOMAIN procs
      /\ \A q \in DOMAIN procs \ {g} : procs'[q] = procs[q]
  BY ConstantsAssumption
<1>2. /\ procs'[g] \in Process
      /\ procs'[g].config = procs[g].config
      /\ procs'[g].intentional = procs[g].intentional
      /\ procs'[g].state = "alive" => procs[g].state = "alive"
      /\ procs[g].state = "reaped" => procs'[g].state = "reaped"
      /\ \/ procs'[g].supervisor = procs[g].supervisor
         \/ procs'[g].supervisor = "ended"
         \/ procs[g].supervisor = "watching" /\ procs'[g].state = "reaped"
  BY DEF AfterExit
<1>3. TypeOK' BY <1>1, <1>2
<1>4. CurrentIsWanted' BY <1>1, <1>2 DEF CurrentIsWanted
<1>5. OthersAreVoid' BY <1>1, <1>2 DEF OthersAreVoid, Serves
<1> QED BY <1>3, <1>4, <1>5

\* The timer relaunches only the manager's own process, which has been reaped.
LEMMA TimerPreserves ==
  ASSUME Inv, NEW g \in DOMAIN procs, TimerFires(g)
  PROVE  /\ Inv'
         /\ \/ UNCHANGED proc /\ (proc # None => /\ Serves(proc)' = Serves(proc)
                                               /\ procs'[proc].config = procs[proc].config)
            \/ /\ proc # None /\ ~Serves(proc)
               /\ proc' # None /\ Serves(proc)'
               /\ procs'[proc'].config = procs[proc].config
<1> DEFINE fired == Fired(g)
<1>1. /\ fired.proc = proc /\ fired.fp = fp /\ fired.gen = gen
      /\ fired.procs = [procs EXCEPT ![g].supervisor = "ended"]
  BY DEF Fired, Manager
<1>2. UNCHANGED <<env, cfg, events>> BY DEF TimerFires
<1>3. /\ DOMAIN fired.procs = DOMAIN procs
      /\ \A q \in DOMAIN procs :
           /\ fired.procs[q] \in Process
           /\ fired.procs[q].config = procs[q].config
           /\ fired.procs[q].intentional = procs[q].intentional
           /\ fired.procs[q].state = procs[q].state
           /\ fired.procs[q].supervisor \in {"ended", procs[q].supervisor}
  BY <1>1 DEF Inv, TypeOK, Process
<1> HIDE DEF fired
<1>4. CASE Becomes(fired)
  <2>1. UNCHANGED <<proc, fp, gen>> /\ procs' = fired.procs
    BY <1>1, <1>4 DEF Becomes
  <2>2. TypeOK' BY <1>2, <1>3, <2>1 DEF Inv, TypeOK
  <2>3. CurrentIsWanted'
    BY <1>2, <1>3, <2>1 DEF Inv, TypeOK, CurrentIsWanted
  <2>4. OthersAreVoid' BY <1>3, <2>1 DEF Inv, OthersAreVoid, Serves
  <2>5. proc # None => /\ Serves(proc)' = Serves(proc)
                       /\ procs'[proc].config = procs[proc].config
    BY <1>3, <2>1 DEF Inv, TypeOK, Serves
  <2> QED BY <2>1, <2>2, <2>3, <2>4, <2>5 DEF Inv
<1>5. CASE Becomes(StartLocked(fired, cfg)) /\ gen = g
  <2>1. procs[g].supervisor = "timer" BY DEF TimerFires
  <2>2. g = proc /\ procs[g].state = "reaped"
    BY <1>5, <2>1 DEF Inv, OthersAreVoid
  <2>3. proc # None /\ ~Serves(proc)
    BY <2>2, ConstantsAssumption DEF Serves, Inv, TypeOK
  <2>4. cfg \in Config /\ cfg.enabled /\ Valid(cfg) /\ procs[proc].config = cfg
    BY <2>3 DEF Inv, TypeOK, CurrentIsWanted
  <2>5. WellFormed(fired) BY <1>1, <1>3 DEF Inv, TypeOK, WellFormed
  <2>6. Silent(fired)
    BY <1>3, <2>2 DEF Inv, OthersAreVoid, Silent, Serves
  <2>7. cfg' = cfg /\ env' \in Envs /\ events' \in Nat
    BY <1>2 DEF Inv, TypeOK
  <2>8. /\ Inv' /\ proc' # None /\ Serves(proc)'
        /\ procs'[proc'].config = cfg
    BY <1>5, <2>4, <2>5, <2>6, <2>7, StartServes
  <2> QED BY <2>3, <2>4, <2>8
<1>6. \/ Becomes(fired)
      \/ Becomes(StartLocked(fired, cfg)) /\ gen = g
  BY DEF TimerFires, fired
<1> QED BY <1>4, <1>5, <1>6

LEMMA InitInv == Init => Inv
<1> SUFFICES ASSUME Init PROVE Inv OBVIOUS
<1>1. cfg \in Config BY DEF Init, Config, Modes, Texts
<1>2. DOMAIN procs = {} BY DEF Init
<1> QED BY <1>1, <1>2, ConstantsAssumption
        DEF Init, Inv, TypeOK, CurrentIsWanted, OthersAreVoid

LEMMA NextInv == Inv /\ [Next]_vars => Inv'
<1> SUFFICES ASSUME Inv, [Next]_vars PROVE Inv' OBVIOUS
<1>1. CASE Apply BY <1>1, ApplyPreserves
<1>2. CASE Stop BY <1>2, StopPreserves
<1>3. ASSUME NEW g \in DOMAIN procs, Drop(g) \/ Own(g) PROVE Inv'
  BY <1>3, ProcessPreserves, TimerPreserves DEF Own
<1>4. CASE UNCHANGED vars
  BY <1>4 DEF vars, Inv, TypeOK, CurrentIsWanted, OthersAreVoid, Serves
<1> QED BY <1>1, <1>2, <1>3, <1>4 DEF Next

-------------------------------------------------------------------------------
\* Type correctness, with one generation per process.
THEOREM TypeCorrect == Spec => []TypeOK
<1>1. Inv => TypeOK BY DEF Inv
<1> QED BY <1>1, InitInv, NextInv, PTL DEF Spec

\* At most one tunnel runs that was not told to stop: the manager's own, with
\* the arguments last applied.
THEOREM AtMostOneTunnel == Spec => []OneTunnel
<1>1. Inv => OneTunnel
  BY ConstantsAssumption
  DEF Inv, OthersAreVoid, CurrentIsWanted, OneTunnel, TypeOK, Serves
<1> QED BY <1>1, InitInv, NextInv, PTL DEF Spec

-------------------------------------------------------------------------------
(***************************************************************************)
(* Refinement: Config for Configs, and the mapping of T in the manager.    *)
(***************************************************************************)
Kept == IF proc = None THEN None ELSE procs[proc].config
Up == proc # None /\ Serves(proc)

LEMMA AbstractStep ==
  ASSUME Inv, [Next]_vars PROVE [T!Next]_<<Kept, Up>>
<1> SUFFICES ASSUME TRUE
             PROVE \/ Kept' = None /\ Up' = FALSE
                   \/ \E c \in Config : Kept' = c /\ Up' = TRUE
                   \/ Up /\ Up' = FALSE /\ Kept' = Kept
                   \/ Kept # None /\ ~Up /\ Up' = TRUE /\ Kept' = Kept
                   \/ Kept' = Kept /\ Up' = Up
  BY Zenon DEF T!Next, T!Release, T!Keep, T!Drop, T!PutBack, Kept, Up
<1> USE DEF Kept, Up
<1>1. Inv' BY NextInv
<1>2. CASE proc' = None BY <1>2
<1>3. CASE proc' # None /\ Serves(proc)'
  BY <1>1, <1>3 DEF Inv, TypeOK, Process
<1>4. CASE UNCHANGED <<proc, procs>> BY <1>4 DEF Serves
<1>5. ASSUME NEW g \in DOMAIN procs,
             Drop(g) \/ Dies(g) \/ Reaped(g) \/ SuperviseExit(g)
      PROVE  /\ UNCHANGED proc
             /\ proc # None => /\ procs'[proc].config = procs[proc].config
                               /\ Serves(proc)' => Serves(proc)
  BY <1>5 DEF Inv, TypeOK, Process, Serves, Drop, Dies, Reaped, SuperviseExit, Event
<1>6. CASE \E g \in DOMAIN procs : Drop(g) \/ Own(g)
  <2> PICK g \in DOMAIN procs : Drop(g) \/ Own(g) BY <1>6
  <2>1. CASE TimerFires(g) BY <2>1, TimerPreserves, <1>3, <1>2 DEF Serves
  <2>2. CASE ~TimerFires(g) BY <2>2, <1>5, <1>2 DEF Own
  <2> QED BY <2>1, <2>2
<1>7. CASE Apply BY <1>7, ApplyPreserves, <1>2, <1>3, <1>4
<1>8. CASE Stop BY <1>8, StopPreserves, <1>2
<1>9. CASE UNCHANGED vars BY <1>9, <1>4 DEF vars
<1> QED BY <1>6, <1>7, <1>8, <1>9 DEF Next

\* The manager implements the safety part of Tunnel, whether or not relaunches
\* succeed.
THEOREM ManagerImplementsTunnel == Spec => ImplementsSafely
<1>1. Init => T!Init BY DEF Init, T!Init
<1>2. Inv /\ [Next]_vars => [T!Next]_<<Kept, Up>> BY AbstractStep
<1> QED BY <1>1, <1>2, InitInv, NextInv, PTL DEF Spec, ImplementsSafely, T!SafeSpec, Kept, Up

===============================================================================
