-------------------------- MODULE CloudflaredManager --------------------------
(***************************************************************************)
(* The supervised cloudflared process (cloudflared/).  m.mu makes the      *)
(* bodies of Apply, Stop and the restart timer atomic; processes exit, and *)
(* their supervisors wake up, in between.  A process is known by the       *)
(* generation under which its supervisor was started.                      *)
(***************************************************************************)
EXTENDS Naturals

CONSTANTS
  Tokens,      \* connector tokens
  Targets,     \* local services a quick tunnel can expose
  Panel,       \* the target that stands for the panel itself
  Envs,        \* what XUI_CF_* may say when the panel starts
  Settings,    \* what the settings table may say
  MayFail,     \* who may see cloudflared fail to launch: "apply", "timer"
  MaxEvents,   \* bound on calls of Apply and Stop and on drops
  None

Modes == {"quick", "token"}
Texts(S) == S \cup {None}                 \* None is the empty string
Overrides(S) == Texts(S) \cup {"unset"}   \* what os.LookupEnv finds

Config == [enabled : BOOLEAN, mode : Modes, token : Texts(Tokens), target : Texts(Targets)]
Setting == [enable : BOOLEAN, mode : Modes \cup {"other"},
            token : Texts(Tokens), target : Texts(Targets)]
Env == [enable : {"unset", "yes", "no"}, mode : Modes \cup {"other", "unset"},
        token : Overrides(Tokens), target : Overrides(Targets)]

ASSUME ConstantsAssumption ==
  /\ Panel \in Targets /\ None \notin Tokens \cup Targets
  /\ "unset" \notin Tokens \cup Targets
  /\ Envs \subseteq Env /\ Settings \subseteq Setting
  /\ MayFail \subseteq {"apply", "timer"} /\ MaxEvents \in Nat
  /\ None \notin Nat /\ None \notin Config

VARIABLES
  env,     \* the environment of the panel
  cfg,     \* Manager.cfg
  proc,    \* Manager.proc: the generation of the current process, or None
  fp,      \* Manager.fp
  gen,     \* Manager.gen
  procs,   \* every process launched, with its supervisor
  events   \* how many events of the environment have happened

vars == <<env, cfg, proc, fp, gen, procs, events>>

\* alive: runs; exited: gone, but wait() has not closed done; reaped: done is
\* closed.  The supervisor watches done, then holds a timer, then has ended.
Process == [config : Config, state : {"alive", "exited", "reaped"},
            intentional : BOOLEAN, supervisor : {"watching", "timer", "ended"}]

-------------------------------------------------------------------------------
(***************************************************************************)
(* Configurations.                                                         *)
(***************************************************************************)
Override(e, v) == IF e = "unset" THEN v ELSE e

\* A token given by the environment alone means an enabled named tunnel.
TokenFromEnv(e) == e.token \notin {"unset", None}

ResolvedMode(e, s) ==
  LET mode == Override(e.mode, s.mode)
  IN CASE TokenFromEnv(e) -> "token"
       [] mode \in Modes /\ ~TokenFromEnv(e) -> mode
       [] OTHER -> IF Override(e.token, s.token) # None THEN "token" ELSE "quick"

\* A quick tunnel exposes the panel unless another target was stored.
StoredTarget(s) == IF s.target = None THEN Panel ELSE s.target

Resolve(e, s) ==
  [enabled |-> CASE e.enable # "unset" -> e.enable = "yes"
                 [] e.enable = "unset" /\ TokenFromEnv(e) -> TRUE
                 [] OTHER -> s.enable,
   mode    |-> ResolvedMode(e, s),
   token   |-> Override(e.token, s.token),
   target  |-> Override(e.target, StoredTarget(s))]

Valid(c) == CASE c.mode = "token" -> c.token # None
              [] c.mode = "quick" -> c.target # None

\* What fingerprint() tells apart is the whole configuration.
Fingerprint(c) == c

-------------------------------------------------------------------------------
(***************************************************************************)
(* The manager.  Stopping and starting act on a record of its fields, so   *)
(* that one critical section can do both.                                  *)
(***************************************************************************)
Manager == [proc |-> proc, fp |-> fp, gen |-> gen, procs |-> procs]

IsRunning(m) == m.proc # None /\ m.procs[m.proc].state # "reaped"

ToldToStop(p, gone) ==
  [config |-> p.config, state |-> IF gone THEN "reaped" ELSE p.state,
   intentional |-> TRUE, supervisor |-> p.supervisor]

\* Slip: only a start bumps the generation.
StopKeepingGen(m, gone) ==
  IF m.proc = None THEN m
  ELSE [m EXCEPT !.proc = None, !.fp = None,
                 !.procs[m.proc] = IF IsRunning(m) THEN ToldToStop(@, gone) ELSE @]

\* The generation is bumped first, so a supervisor of this process, or its
\* timer, is stale; a process that ignores its signals outlives the call.
StopLocked(m, gone) ==
  IF m.proc = None THEN m
  ELSE [proc |-> None, fp |-> None, gen |-> m.gen + 1,
        procs |-> IF IsRunning(m)
                    THEN [m.procs EXCEPT ![m.proc] = ToldToStop(@, gone)]
                    ELSE m.procs]

Launched(c) == [config |-> c, state |-> "alive",
                intentional |-> FALSE, supervisor |-> "watching"]

\* Slip: the supervisor is given the generation before it is bumped.
StartAtOldGen(m, c) ==
  [m EXCEPT !.proc = m.gen, !.fp = Fingerprint(c), !.gen = @ + 1,
            !.procs = [q \in DOMAIN m.procs \cup {m.gen} |->
                         IF q = m.gen THEN Launched(c) ELSE m.procs[q]]]

StartLocked(m, c) ==
  LET g == m.gen + 1
  IN [proc |-> g, fp |-> Fingerprint(c), gen |-> g,
      procs |-> [q \in DOMAIN m.procs \cup {g} |->
                   IF q = g THEN Launched(c) ELSE m.procs[q]]]

Becomes(m) == /\ proc' = m.proc /\ fp' = m.fp /\ gen' = m.gen /\ procs' = m.procs

Event == events < MaxEvents /\ events' = events + 1 /\ UNCHANGED env

\* What Apply(c) leaves when the binary is there or not and launches or not.
Applied(c, installed, launches, gone) ==
  IF ~c.enabled \/ ~Valid(c) \/ ~installed THEN StopLocked(Manager, gone)
  ELSE IF IsRunning(Manager) /\ fp = Fingerprint(c) THEN Manager
  ELSE IF launches THEN StartLocked(StopLocked(Manager, gone), c)
  ELSE StopLocked(Manager, gone)

Apply ==
  /\ Event
  /\ \E s \in Settings, installed, launches, gone \in BOOLEAN :
       /\ launches \/ "apply" \in MayFail
       /\ cfg' = Resolve(env, s)
       /\ Becomes(Applied(Resolve(env, s), installed, launches, gone))

Stop ==
  /\ Event
  /\ cfg' = [cfg EXCEPT !.enabled = FALSE]
  /\ \E gone \in BOOLEAN : Becomes(StopLocked(Manager, gone))

-------------------------------------------------------------------------------
(***************************************************************************)
(* Processes and their supervisors.                                        *)
(***************************************************************************)
Drop(g) ==
  /\ Event
  /\ procs[g].state = "alive" /\ ~procs[g].intentional
  /\ procs' = [procs EXCEPT ![g].state = "exited"]
  /\ UNCHANGED <<cfg, proc, fp, gen>>

\* A process that outlived Stop has been sent SIGKILL.
Dies(g) ==
  /\ procs[g].state = "alive" /\ procs[g].intentional
  /\ procs' = [procs EXCEPT ![g].state = "exited"]
  /\ UNCHANGED <<env, cfg, proc, fp, gen, events>>

Reaped(g) ==
  /\ procs[g].state = "exited"
  /\ procs' = [procs EXCEPT ![g].state = "reaped"]
  /\ UNCHANGED <<env, cfg, proc, fp, gen, events>>

GivesUp(g) == "ended"     \* slip: an exit is never followed by a relaunch

\* The check of the generation and of intentionalStop is one step: a Stop that
\* sets the flag once done is closed has bumped the generation before.
AfterExit(g) == IF gen # g \/ procs[g].intentional THEN "ended" ELSE "timer"

SuperviseExit(g) ==
  /\ procs[g].state = "reaped" /\ procs[g].supervisor = "watching"
  /\ procs' = [procs EXCEPT ![g].supervisor = AfterExit(g)]
  /\ UNCHANGED <<env, cfg, proc, fp, gen, events>>

Fired(g) == [Manager EXCEPT !.procs[g].supervisor = "ended"]

\* A relaunch that fails is logged: the timer is not set again.
TimerFires(g) ==
  /\ procs[g].supervisor = "timer"
  /\ IF gen # g \/ ~cfg.enabled THEN Becomes(Fired(g))
     ELSE \/ Becomes(StartLocked(Fired(g), cfg))
          \/ "timer" \in MayFail /\ Becomes(Fired(g))
  /\ UNCHANGED <<env, cfg, events>>

Init ==
  /\ env \in Envs
  /\ cfg = [enabled |-> FALSE, mode |-> "quick", token |-> None, target |-> None]
  /\ proc = None /\ fp = None /\ gen = 0
  /\ procs = [g \in {} |-> None]
  /\ events = 0

Own(g) == Dies(g) \/ Reaped(g) \/ SuperviseExit(g) \/ TimerFires(g)

Next == Apply \/ Stop \/ (\E g \in DOMAIN procs : Drop(g) \/ Own(g))

Spec == Init /\ [][Next]_vars

\* Killed processes die, Wait returns, goroutines and timers run.
FairSpec == Spec /\ WF_vars(\E g \in DOMAIN procs : Own(g))

-------------------------------------------------------------------------------
\* Types; every process has a generation of its own, not above the manager's.
TypeOK ==
  /\ env \in Envs
  /\ cfg \in Config
  /\ gen \in Nat /\ events \in Nat
  /\ DOMAIN procs \subseteq 1 .. gen
  /\ \A g \in DOMAIN procs : procs[g] \in Process
  /\ proc = None \/ proc \in DOMAIN procs
  /\ fp = None \/ fp \in Config

Serves(g) == procs[g].state = "alive" /\ ~procs[g].intentional

\* The process the manager has is the one of its generation, runs what was last
\* applied, and has not been told to stop.
CurrentIsWanted ==
  proc # None => /\ proc = gen
                 /\ procs[proc].config = cfg /\ fp = Fingerprint(cfg)
                 /\ cfg.enabled /\ Valid(cfg)
                 /\ ~procs[proc].intentional

\* Every other process has been told to stop, or has stopped; only the
\* supervisor of the manager's process can still find its generation current.
OthersAreVoid ==
  \A g \in DOMAIN procs :
    /\ g # proc => ~Serves(g)
    /\ procs[g].supervisor = "timer" => procs[g].state = "reaped"
    /\ g = gen /\ procs[g].supervisor # "ended" => g = proc

\* Whatever timers, exits and calls interleave, at most one tunnel runs that
\* has not been told to stop: the manager's own, with the arguments of an
\* enabled and valid configuration, the one last applied.
OneTunnel ==
  \A g \in DOMAIN procs :
    Serves(g) => /\ g = proc
                 /\ procs[g].config = cfg
                 /\ cfg.enabled /\ Valid(cfg)

\* The manager keeps the configuration of the process it has.
T == INSTANCE Tunnel WITH
       Configs <- Config,
       kept <- IF proc = None THEN None ELSE procs[proc].config,
       up   <- proc # None /\ Serves(proc)

\* The manager implements Tunnel, its liveness included when a relaunch by the
\* timer succeeds.
ImplementsTunnel == T!Spec

\* The same without liveness, whether or not relaunches succeed.
ImplementsSafely == T!SafeSpec
===============================================================================
