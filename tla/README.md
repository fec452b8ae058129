# A TLA+ verification of the 3AX-UI panel

The repository is a Go web panel that administers an Xray server on the same
machine.  It keeps inbounds and clients in SQLite, generates Xray's JSON
configuration, starts and stops the Xray process, alters it at run time through
its gRPC API, reads its traffic counters, and cuts off clients that have used up
their traffic or their time.  Around that core it runs AmneziaWG and WireGuard
interfaces, MTProto sidecars, a Cloudflare tunnel, a Telegram bot, a WebSocket
feed and a subscription server.

The modules here are translated from the source; every definition that stands
for code is tied to its lines in `PROJECT.json` under `map`.

## Inventory

| Component | State | Operations | Interacts with | What is hard | Must hold |
|---|---|---|---|---|---|
| Client and inbound accounting (`web/service/inbound.go`) | tables `inbounds` (clients as JSON in `settings`) and `client_traffics` | HTTP handlers add/update/delete/reset/toggle; `AddTraffic` bills, renews, disables | Xray API, `needRestart` flag, traffic job | handlers read outside their transaction and save whole rows; two enable flags per client; API calls that fail inside a transaction | no traffic billed twice; nobody left enabled past a limit; Xray serves what the database says |
| Xray restart path (`web/service/xray.go`, `xray/process.go`) | `p`, `lock`, `isNeedXrayRestart`, `isManuallyStopped`, `result` | `RestartXray`, `StopXray`, crash check, 30 s job, boot | process, configuration, AddTraffic | callers decide before they hold the lock; handlers take no lock; no API port while starting | Xray comes back; a requested restart is not lost; a stopped Xray stays stopped |
| Traffic job (`web/job/xray_traffic_job.go`) | none of its own | query, bill, forced restart, flag | Xray counters, accounting, restart path | counters are reset by the query | as above |
| Database (`database/db.go`) | one SQLite connection | `Begin`/`Commit`, migrations | everything | a query outside the open transaction waits for itself | no handler waits for itself; migrations are idempotent |
| Cloudflared (`cloudflared/`) | `cfg`, `proc`, `gen` under a mutex | `Apply`, `Stop`, supervised restart | process exit, timer | stale timers and exits of earlier generations | at most one tunnel; none after Stop |
| MTProto sidecars (`mtproto/`, `web/service/mtproto_service.go`) | map id -> process | `Ensure`, `Remove`, `Reconcile`, `StopAll` | database, process table, orphans of an earlier run | restart debounce, orphans, port reuse | running set converges to the enabled inbounds |
| AmneziaWG and WireGuard (`web/service/awg_service.go`, `wg_service.go`, `shared/wgengine`) | server and client tables, interface counters | client handlers, traffic jobs | kernel interface, port forwarding | counters that reset with the interface (baselines), expiry | no traffic lost or billed twice across interface restarts |
| Addresses and forwarded ports (`shared/ipam`, `shared/portfwd`, `web/service/awg_service.go`, `awg/config.go`) | addresses in the table of clients; rules in the configuration file and in the firewall | allocate; apply, revoke; PostUp, PostDown | AmneziaWG and WireGuard | read, choose, create without a lock; rules that arrive by two ways and leave by two; width of the pool | an address has one owner; each wanted rule is there once, and no other |
| WebSocket hub (`web/websocket/`, `web/controller/websocket.go`) | registry of clients, bounded queues, a channel per client | register, unregister, broadcast, stop, restart after a panic | jobs, controllers, browsers | two queues that overtake each other, slow clients, removal from two goroutines, shutdown and reload | nobody registered with a closed channel; no live connection forgotten, no dead one kept |
| Live feed in the browser (`web/assets/js/websocket.js`, `web/html/index.html`, `inbounds.html`) | one client per page, retry timer, pollers | connect, disconnect, socket events, retries, polling | hub, REST | old and new sockets' events, retries that stop, messages nobody listens for | one socket per page; the page goes on being refreshed |
| Inbound dialog (`web/html/modals/inbound_modal.html`, `web/assets/js/model/inbound.js`, `dbinbound.js`) | the inbound being edited, the row | choose protocol, network, security; enter; save; reopen; clone | REST, key generation | choices in any order, parts of the form that disappear, positional constructors, a key pair that arrives late | what was saved is shown again and fits together |
| Links and outbounds (`inbound.js`, `web/assets/js/model/outbound.js`, `web/html/modals/xray_outbound_modal.html`) | none | make a link, import it as an outbound, edit that | the dialog | two parties that agree on names only by convention | the outbound says what the inbound expects |
| IP limit job (`web/job/check_client_ip_job.go`) | table of addresses, access log | parse, merge, ban | fail2ban log | merge of old and new, window of time | bans the right addresses |
| Custom geo (`web/service/custom_geo.go`) | resource table, files | add, update, delete, download | Xray restart | replacement of a file in use | an interrupted download leaves the old file |
| LDAP sync, Telegram bot, subscription server, settings, sessions, server status, WARP/Nord, outbound tests | see `PROJECT.json` | | | | |

The full list, with the parts that are not modelled and why, is in
`PROJECT.json` under `components`; what is hard to test, at its line, under
`hazards`.

## The core: XrayEnforcement

`ClientTraffics.tla` holds the row of `client_traffics`, the settings entry of a
client and the WHERE clauses and row updates of `AddTraffic`, the stats helpers
and the resets, as operators without state.  `XrayEnforcement.tla` is the system:

| Variable | Code |
|---|---|
| `inbounds`, `stats` | the two tables; `clients` of an inbound row is its parsed `settings` |
| `proc` | `p`: `none` (nil), `starting` (`NewProcess` .. end of `Start`), `booting` (forked, API not answering), `up`, `down` (exited), `failed` (`Start` returned an error); `cfg` is `p.config`, `live` what Xray serves now |
| `counter` | Xray's counters; `seen` are those that exist, be they zero |
| `needRestart`, `manual` | `isNeedXrayRestart`, `isManuallyStopped` |
| `restart` | the `RestartXray` call that holds `lock`, its caller and its program counter |
| `waiting` | cron jobs that decided to restart and wait for `lock` |
| `job`, `checkTime` | `XrayTrafficJob.Run`, `CheckXrayRunningJob.checkTime` |
| `op` | per handler, the request it serves with the rows it read |
| `consumed`, `edits`, `faults` | what clients really used; how much of the bounds is spent |

A request has a `Begin` action (reads, checks) and the actions that write.  A
transaction with the API calls made inside it is one action, because the SQLite
pool has a single connection (`database/db.go:168`) and an open transaction
excludes every other statement.  Handlers without a transaction
(`DelInboundClient`, `DelInbound`, `SetInboundEnable`) have one action per
statement that matters, with the rows they read before.  `RestartXray` has one
action per stretch between which other goroutines can run: it is the only code
under `lock`.  `AddTraffic` is one action of the caller (traffic job or
`GetXrayConfig`), with all four steps in the order of the code and the API calls
of each, any of which may fail.

Panics are modelled, as they decide what is committed: between
`p = NewProcess(..)` and the end of `Start`, and after a failed `Start`, there is
no API port, `Init` fails, its error is ignored and the next call dereferences a
nil client.  In a handler gin recovers; in a cron job nothing does and the panel
dies with half of AddTraffic's transaction committed (the deferred function
looks at `err`, which is nil).

### Abstractions

- Time is counted in days and moves only at the instants of `Instants`; `up` and
  `down` are one number, since the code reads their sum.
- An e-mail is not renamed; an inbound keeps its tag, and a client its inbound
  (`Home`).  A new row of `inbounds` gets a new id, so one is not added under an
  identifier that a request under way still refers to.
- The reads at the start of a handler are one step.  `BeginDelInbound` makes the
  API call and deletes the rows of stats in one step.
- Database statements fail only on constraints: the unique e-mail and the
  foreign key of `client_traffics.inbound_id`.
- Xray is its users per inbound, its counters and whether it answers.  It is
  taken to be there as soon as `Start` begins; the real `IsRunning` is false for
  the moment until the goroutine has forked (`xray/process.go:272`).  The old
  process is not waited for; a new one that dies because a port was still taken
  is `XrayCrashes`.
- Other calls of `AddTraffic`'s kind (outbounds, notices, WebSocket pushes) do
  not touch this state and are left out.

### Properties

- `NoDoubleBilling`, `BillingBounded`: what was billed to a client, plus what is
  in transit or still in Xray's counters, is at most what it used.  The second is
  the inductive form: rows that a `ResetClientTraffic` under way has read, and
  will write back, count too.
- `EnforcedAtCommit`: when AddTraffic commits, no enabled client and no enabled
  inbound is past its limit or its expiry.
- `CutOff` (liveness): a client over its limit stops being served.
- `ComesBack` (liveness): an Xray that died or failed to start is started again,
  unless it was stopped by hand.
- `InStep`: with nothing in flight and no restart due, Xray serves exactly the
  users of the configuration that would be generated from the database.
- `SkipsInStep`: a `RestartXray(false)` that leaves Xray alone does so when Xray
  is in step.

### Fairness

The cron jobs are weakly fair since the scheduler fires them for ever; a
restart, the job and a handler that began are weakly fair since goroutines run to
their end; Xray answers after it was forked.  A panic that is due happens
(`Panics`).  Nothing is assumed of the environment: requests, crashes, time and
traffic.

### Divergences seen while modelling

One has a run (`renewal`; see `findings`).  The model also shows these, which no run
keeps:

- the 30 s job clears the flag before it calls `RestartXray(false)`
  (`web/web.go:311`), which is skipped when the generated configuration is the one
  Xray was started with: a handler that asked for a restart because its second API
  call was refused is not heard (`SkipsInStep` with an API that refuses);
- `UpdateInbound` drops the error of `DelInbound` (`web/service/inbound.go:972`):
  when it disables an inbound and the call is refused, Xray goes on serving it and
  no restart is asked for;
- `AddInbound` hands disabled clients to the API (`web/service/inbound.go:353`),
  where the generated configuration leaves them out;
- `SetInboundEnable` puts a mixed or http inbound back without its accounts
  (`inbound.go:830`), and compares with a row it read before a concurrent restart
  generated its configuration (`inbound.go:806`);
- a `RestartXray` that a cron job decided on before Xray was stopped by hand, and
  that waits for the lock, starts Xray again (`web/service/xray.go:452`).

## Cloudflared

`CloudflaredManager.tla` models `cloudflared/manager.go`, its process handle and
the resolution of settings and environment.  `Tunnel.tla` is what the manager
promises: it keeps at most one tunnel, the one it was last told to keep, and puts
it back when it drops.

| Variable | Code |
|---|---|
| `cfg`, `proc`, `fp`, `gen` | the fields of `Manager`; `proc` is the generation under which the process was started |
| `procs` | every process launched: its arguments, `alive`, `exited` or `reaped` (`done` closed), `intentionalStop`, and its supervisor: watching, holding a restart timer, ended |
| `env` | the `XUI_CF_*` variables, fixed when the panel starts |

`m.mu` makes `Apply`, `Stop` and the body of the restart timer one step each;
between them processes drop, die from their signals, are reaped, and supervisors
wake.  `Applied` follows the order of `Apply`: disabled or invalid or not
installed, unchanged, stop then start; a launch may fail.

`MaxEvents = 6` calls and drops allow two complete generations with their drops
and a stale timer of each: a third generation repeats the second.  Fairness is
weak fairness of the processes' and supervisors' own steps: a killed process
dies, `Wait` returns, goroutines and timers run.

`OneTunnel` says that a process that was not told to stop is the manager's own,
with the configuration last applied.  `ImplementsTunnel` is refinement of
`Tunnel` with its liveness, which holds when the relaunch by the timer succeeds
(`MayFail = {"apply"}`): a relaunch that fails is logged and the timer is not set
again (`cloudflared/manager.go`, the end of the supervisor), so a tunnel stays
down until the next `Apply`.

## MTProto sidecars

`MtprotoSidecars.tla` models `mtproto/manager.go`, the orphan sweep, the handlers
of `web/service/mtproto_service.go` and `web/job/mtproto_job.go`.

| Variable | Code |
|---|---|
| `inbounds`, `rows` | the mtproto rows of `inbounds`; table `mtproto_clients` |
| `procs` | `Manager.procs`: what each process serves, its stats port, its counters (`count`) and `lastByClient` or `lastUp`/`lastDown` (`last`) |
| `orphans`, `swept` | mtg processes of an earlier panel; `Manager.swept` |
| `multi` | `MultiUserSupported()`: mtg-multi, or mtg with a single secret |
| `job` | `MtprotoJob.Run` with what it has read: desired instances, snapshots, deltas, renewals |
| `op` | per handler, the request with what it has read |
| `consumed`, `edits`, `faults` | what clients really used; how much of the bounds is spent |

`Manager.mu` makes `Ensure`, `Remove`, `Reconcile`, `StopAll` and the two halves
of a collection atomic; there are no transactions, so each SQL statement is a
step.  Abstractions: the reads at the start of a handler, and those of
`buildDesired`, are one step; the loops of single-row statements in the job and
in `RehealInbound` are one step each; stopping a process is synchronous; an
inbound exists at the start (creating one with its first client is left out);
configuration files and the parsing of metrics are left out.  A job run is taken
to be over before the first run of a reloaded server, which `SkipIfStillRunning`
does not ensure across two schedulers (`web/web.go:403`).  With single-secret mtg
a port that a collection still has to ask is not handed out again meanwhile
(`Asked`): the counters of mtg carry no name, and a stranger's counter would be
billed; with mtg-multi they do, and ports are reused freely.

- `NeverOverbilled`: used <= all time <= really used, for every client.
- `Converges` (liveness): the sidecars come to be in step with the database and no
  client past a limit stays enabled.  Fairness: the job fires for ever and
  handlers run to their end.

Bounds: one inbound with two clients, since a process serves one inbound and the
state shared by two is the ports; two ports let an old and a new process differ
or a port come back; two domains, for the change that alters every secret; one
request and one fault against the job, which has nine steps for them to fall
between; one unit of traffic, which the client that is there at first has as its
quota; two days, for a renewal.  Two handlers against the job are left out for
their size.

## AmneziaWG

`AwgTunnel.tla` models `web/service/awg_service.go` with `awg/manager.go` and
`shared/wgengine`.  `web/service/wg_service.go` is the same program.

| Variable | Code |
|---|---|
| `mode` | `userspaceMode()`: an interface in the kernel, or a device of `wgengine` |
| `server`, `rows` | tables `awg_servers` (one row) and `awg_clients`; `used` is upload + download, `last` is `LastPeerUp + LastPeerDown` |
| `conf` | the configuration file, or `lastConf` |
| `tunnel` | the interface: the parameters it was made with and the counter of each peer |
| `params.bounced`, `params.link` | the obfuscation and the Xray routing; the MTU, the address, PostUp and PostDown |
| `op` | for each handler, the job and the start: where it is and what it has read |
| `consumed`, `smooth`, `behind`, `events` | what clients really used; whether nothing overlapped or failed so far; whether another link was saved since the interface was made; requests and faults so far |

No lock is taken anywhere.  `applyServerConfig` is the steps `ListClients`,
`WriteServerConfig` (with the look whether the interface is up), `Sync` and
`BringUp`; the job is `JobStats`, `JobRows`, `JobBill`, `JobRenew`, `JobDelayed`,
`JobDisable` and then the same application.  A handler has one step per
statement.  The transaction of the job's bill and its per-row loops of renewal
and delayed start are one step each after the look-up they work from.  Upload and
download, and their baselines, are added into one number each (the code treats
both alike).  Addresses and port forwarding rules are in `PortForwards`; NDP, keys and the
hand-over to Xray are left out.  gorm is external: an `UPDATE` without a condition is refused,
a zero-valued column with a default of true is inserted as true, and `Save`
inserts a row that is gone.  The job does not overlap itself
(`SkipIfStillRunning`).  A userspace reload may fail as a fault, because the new
device is opened before the old one is closed (`shared/wgengine/engine.go:97`).

- `BilledOnce`: used <= all time <= really used, for every client, over bounces
  of the interface, restarts of the panel and stale rows.  It holds unless the
  form of a client is saved (`form_update` shows the violation).
- `TunnelInStep`: as long as nothing overlapped and no call failed, the interface,
  when all is quiet, is up exactly when the server is enabled, with no disabled peer
  and the server's obfuscation and Xray routing, and in userspace with its link as
  well.  A kernel interface may have an older link, if another was saved since it was
  made (`behind`): `SaveServer` bounces it only for obfuscation and Xray routing
  (`awg_service.go:93-131`), and the sync it does otherwise gives the kernel what
  `awg-quick strip` leaves of the file, which is neither MTU, address, PostUp nor
  PostDown (`awg/manager.go:106-114`).  They wait for the next bounce.  The code
  promises none of this where callers overlap or a call fails: see below.

Bounds of `tunnel`: one client, since every statement is about one row and the
interface treats peers alike; it is absent at first, or renews; one handler
against the job and the start; two requests or faults; two days; two units of
traffic, one before and one after a baseline; a first setting, one with another link
that is only synced, and one with another obfuscation too, which takes a bounce.

Seen while modelling, without a run: `ResetAllClientTraffics` resets nothing, its
second `UPDATE` having no condition (`awg_service.go:895`); a client added as
disabled is enabled; a reset is undone by a job that read the row before; the older of two lists may be the one
applied last (`awg_service.go:959`); the job, or a handler that read the server
before it was switched off, brings the interface up again; a failed sync is not
tried again.

## Addresses and forwarded ports

`PortForwards.tla` models what `AwgTunnel` leaves out of the same service, in kernel
mode: `shared/ipam`, `shared/portfwd`, PostUp and PostDown of `awg/config.go`, and the
handlers, the job and the start of `web/service/awg_service.go` as far as they
allocate an address, change who has forwarded ports, or touch the firewall.

| Variable | Code |
|---|---|
| `server`, `rows` | tables `awg_servers` and `awg_clients`: the flags, the external interface, the addresses and the list of ports |
| `conf` | the forwarding rules listed in PostUp and PostDown of the file, which are the same; `None` without a file |
| `up` | `IsInterfaceUp` |
| `rules` | the firewall: how many copies of each rule it has |
| `op` | for each handler, the job and the start: where it is and what it has read |
| `apart`, `smooth`, `told`, `events` | history: whether requests have overlapped; whether, since the host started, anything has overlapped or failed, and whether whoever changed what should be forwarded has told the firewall; requests, runs and faults so far |

An address is its offset in the pool.  `Hosts4` and `Hosts6` are the candidates of the
two loops, with the 64-bit shift of the second one and its cap of 65536.  A rule is
all the lines that one client's list of ports makes, under its UUID; lists are as
`Normalize` leaves them.  The way into the firewall matters: `BringUp` and `BringDown`
run what the file says at that moment, `Sync` neither, and `ApplyForwardingDiff` what
the handler has read.  `-A` appends a copy whether or not there is one, `-D` takes one
away; a PostDown whose first command fails may be given up there.  Of accounting only
this is left: the job may take or give back the flag of any client that has limits.

- `OwnAddresses`: as long as no two requests overlapped, every client has addresses of
  its own, in both pools, that are not the server's, whether enabled or not, whatever
  was deleted, cleared or left half done before.  The job and the start may overlap
  anything.
- `ForwardsInStep`: when all is quiet, the firewall has each rule of the enabled
  clients once while the interface is up, and nothing while it is down.  The code
  promises it only if nothing overlapped and no call failed, and if nobody changed
  what should be forwarded without telling the firewall (`told`): the job and
  `ResetAllClientTraffics` change flags of clients with forwarded ports, and
  `SaveServer` the external interface without a bounce.  A restart of the host, which
  empties the firewall, starts afresh.

Seen while modelling, without a run:

- the rule of a client that the job disabled is in no PostDown any more, and the
  deletion of the client does not revoke it (`awg_service.go:838`, `1013`): it stays
  until the host restarts, for an address that another client may be given
  (`ForwardsInStep` without `told`);
- two additions at the same time choose the same address: the clients are read at
  `awg_service.go:442`, the row is created at 477 (`OwnAddresses` without `apart`);
- a pool of 63 host bits or more, a /64 say, has no address to give: the shift of
  `ipam.go:82` is negative or zero, and `Hosts6` is empty.

Bounds of `forwards`: two clients, since a rule or an address that is wrong is
wrong against one other; pools of eight, of which five and six are candidates and the server has one;
one list of ports, or none; two external interfaces; one handler against the job and
the start, four requests, runs, faults or restarts: add, change, and one more that
meets what they left.  That two handlers leave
`OwnAddresses` and `ForwardsInStep` true is proved.

## Live feed

`WebSocketClient.tla` is the client of one page, `WsHub.tla` the hub with the
handlers and pumps of its connections, `PanelFeed.tla` both together with the
overview page.  A socket and the connection it belongs to share a name.
`InboundsPage.tla` is the list of inbounds in one session while another session
edits.

| Variable | Code |
|---|---|
| `sock`, `ws` | `readyState` of each socket; `this.ws` |
| `isConnected`, `shouldReconnect`, `reconnectAttempts`, `reconnectTimer` | the fields of the same names |
| `used` | whether the page has called `connect()` |
| `clients`, `registerQ`, `unregisterQ`, `broadcastQ`, `cancelled` | `h.clients`, `h.register`, `h.unregister`, `h.broadcast`, `h.ctx` |
| `loop`, `todo`, `dead` | the goroutine of `Run`: in the select, in `fanout` (with the targets not served yet and those to evict), waiting after a panic, stopped, or gone |
| `send`, `closed` | a client's `Send` channel |
| `registering`, `reader`, `link`, `old` | the handler on its way to `Register`; `readPump`; the connection itself; the clients of a hub that a reload has replaced |
| `stale`, `pollers` | whether the overview's status has aged; the intervals of `startPolling` |
| `version`, `shown`, `feed`, `recent`, `enriching` | edits committed and shown; messages on their way; the throttle of `inbounds` messages; handlers of a list that await their requests |

A browser task is one action, and so is one case of the hub's select; `fanout`
lets go of its lock after copying the registry, so each send and the eviction are
steps of their own, between which `Unregister` may remove a client directly.
`Connect` has its early return, `OnOpen` and `OnClose` speak of the client and not
of the socket they came from, as in the code.  Of a broadcast only the fact that
it is delivered matters.  Two messages are never listened for: `client_stats`,
which no page uses, and `invalidate` on the inbounds page (see below).

- `NeverStranded`: a client that is to reconnect has a live socket or a pending
  retry, in any use of its interface; `OneSocket`: in the use the pages make of it
  there is one socket at most.
- `RegistryOpen`, `Served`: the registry holds open channels of this hub, and a
  connection whose pumps run is in it or queued for it.
- `Evicted` (liveness): a client whose connection is over leaves the registry,
  even when its unregistration overtook its registration.
- `Freshens` (liveness): when the network, panics and reloads have calmed down,
  the overview goes on being brought up to date, by the feed or by a poller.

Both liveness properties are of the form `Unrest \/ []<>..`: connections that are
lost for ever prove nothing.  `Frozen` names two states that `Freshens` leaves out
because the page does freeze in them: the hub has used up its restarts while the
sockets stay open, and a connection that was made while the hub was being stopped
survives the reload without any hub having taken it.  `isConnected` stays true, so
the pollers stop.

Fairness: weak for timers, sockets, pumps and the sends of `fanout`, which their
runtimes schedule; strong for the cases of the select, since Go chooses among the
ready ones at random; a panel that was stopped is started again.  Nothing is
assumed of the network, of panics and of stops.

Bounds of `feed`: two sockets, as one that is over and the next are all that can
meet; queues of one, so that each is full as soon as it is used; one attempt
before the maximum, one poller counted; one kind of message.  `stale_page` needs
one edit.

## Inbound dialog, links and outbounds

`FormFields.tla` says what the classes of `web/assets/js/model` have in common: a
constructor with positional parameters, `fromJson`, `toJson`, and the exceptions
(fields that are written only when set, that fall back to a default, that are not
read, headers that are written only when complete, a pair of keys of which one
without the other is replaced).  `InboundClasses.tla`, `InboundSettings.tla` and `OutboundClasses.tla` are
those classes, one definition each.  `InboundDialog.tla` is the dialog, and
`ShareLinks.tla` the links made from an inbound and the outbound made from a link.

| Variable | Code |
|---|---|
| `dialog` | `inModal`: `visible`, `isEdit`, and `inModal.inbound` as its protocol, network, security, method and the fields that differ from a new object |
| `row` | the row saved last, with the JSON of each class |
| `meant` | what the dialog held when it was saved |
| `asked` | a request for a key pair that is out: by OK or by the button, whether the dialog still holds the inbound it was made for |
| `strayed` | whether `row` was saved by an OK pressed in another dialog |
| `edits` | fields entered |

A value is one of those the code tells apart (`Value`): absent, empty, the
constructor's default, entered, given by the server or a link; a key that was drawn
when the object was read, and the null of an emptied number.  A list of headers has
a Host or not, has a name twice, or has headers without a name or a value, some or
all.  A user or a password may have a character that a URL escapes or that Base64
spells with `-` or `_` after `genSSLink` (`"special"`); `"encoded"` is the same as a
URL spells it.

- `KeptSettings`: a row that is opened again shows what was saved, whatever was
  chosen, entered and cloned before.  `Lost` names what the code gives up:
  a field that was emptied and whose class falls back to a default or does not write
  it; the null of an emptied number; headers without a name or a value, which
  `toV2Headers` skips (`inbound.js:177`); the second of two headers with one name,
  where one value is written for each; and, of a WireGuard peer whose public key was
  emptied, both keys, since the constructor draws a new pair and its private key
  replaces the one that was read (`inbound.js:3290`).
- `FlowCarried`, `SecurityFits`: choices made in any order leave no flow on a
  stream that cannot carry it and no security where there can be none.  Reality
  chosen on a network that has it survives a change to one that has not: the
  dialog sets a property nothing reads (`inbound_modal.html:252`), so
  `SecurityFits` asks only for a stream that can have TLS.
- `RealityKeyed`: no Reality is saved without a private key by an OK that was
  pressed on it.  An OK that waits for its key pair confirms whatever the dialog
  holds when the answer arrives; such rows (`strayed`) are left out, and no property
  calls the stray save itself wrong.
- `LinkCarries`: the outbound imported from an inbound's link, saved and opened
  again, has its protocol, network and security and, for every field that an outbound
  has for a value of the inbound, the value that `NetworkWanted`, `SecurityWanted` and
  `SettingsWanted` name.  That is the inbound's own, with three exceptions, which the
  property states as they are:
    - a user is as the link spells it.  `new URL(link).toString()` escapes it
      (`inbound.js:2147` for Trojan), and the regular expression of `fromParamLink`
      does not unescape it (`outbound.js:1316`): a Trojan password with a `>` arrives
      as `%3E`, and the outbound does not log in with it;
    - of a VMess link the xHTTP mode and the ECH list arrive empty.  `genVmessLink`
      writes the mode as `type` (`inbound.js:1848`) and `fromVmessLink` reads `mode`,
      although the comment above it is about not dropping it (`outbound.js:1223`);
    - of a Hysteria link no TLS arrives: `fromHysteriaLink` reads none of it.

  Two kinds of link make no outbound at all (`Importable`): one without a user, which
  the regular expressions do not match, and a Shadowsocks link whose Base64 has `-` or
  `_`, which `atob` rejects.
- `OutboundKept`: an imported outbound that is opened and saved again does not
  change, nor does a form of any outbound class with a field entered.

What the values do not tell apart, besides wording: of `serverNames` and `shortIds`
only the first, which is what a link carries; the order of headers, which `toV2Headers`
groups by name; an address of a WireGuard peer without a mask, which gets one; the
number of a fallback's `xver` that is no integer, which becomes 0; an `mtu` of Tun out
of range; a VLESS test seed of fewer than four numbers; the parts of a mask that its
type does not show.  `"special"` stands for the characters that a URL
escapes in front of the address; `/`, `?` and `#`, which end that part of it, are left
out.

Bounds of the run: one entered field besides the four that decide which others are
shown, and any number of choices.  A class treats its fields independently but for these
gates, so that two entered fields meet nowhere else; the proofs have no such bound.
Each protocol, network and security is tried with every field the forms offer.

## Runs

| Run | Specification | Properties | Shows |
|---|---|---|---|
| `inbounds` | `Spec`, two clients, every request but stop, an API that refuses only while Xray is not up, one fault | `TypeOK`, `NoDoubleBilling`, `BillingBounded`, `EnforcedAtCommit` | nothing is billed twice and each commit enforces the limits, while inbounds and clients come, change, are reset and go |
| `live` | `FairSpec`, a client that renews on day 2, API refusals, one fault, one reset, restart or stop | `EnforcedAtCommit`, `CutOff`, `ComesBack` | enforcement over a renewal; it reaches Xray in the end; recovery |
| `instep` | `SerialSpec`, every request but `AddInbound`, a client with a quota and an expiry, 3 requests, one fault | `InStep`, `SkipsInStep` | no divergence, and no restart skipped that was needed, when operations do not overlap and API calls succeed |
| `renewal` | `SerialSpec` | `InStep` violated | the code diverges without any overlap |
| `cloudflared` | `FairSpec`, 6 events | `TypeOK`, `OneTunnel`, `ImplementsTunnel` | at most one tunnel, the wanted one, put back when it drops |
| `sidecars` | `FairSpec`, 2 clients of which one has a quota of one unit, one request, one fault | `TypeOK`, `NeverOverbilled`, `Converges` | nothing is billed twice between the steps of the job, and the sidecars converge to the database |
| `tunnel` | `Spec`, both modes, all requests but the form | `TypeOK`, `BilledOnce`, `TunnelInStep` | baselines survive races, bounces and restarts; the interface follows the database when nothing overlaps, but for a link saved under a kernel interface |
| `form_update` | `Spec`, the form only | `BilledOnce` violated | saving a form bills the traffic again |
| `forwards` | `Spec`, 2 clients, every request, job, faults and restarts | `TypeOK`, `OwnAddresses`, `ForwardsInStep` | addresses have one owner, and the firewall has each wanted rule once |
| `feed` | `FairFeed`, 2 sockets, queues of one | `FeedTypeOK`, `OneSocket`, `RegistryOpen`, `Served`, `NeverStranded`, `Freshens`, `Evicted` | the feed survives lost connections, full queues, panics and reloads, or the page polls |
| `stale_page` | `Spec`, one edit | `SeesEdits` violated | an inbound switched off elsewhere stays shown as on |
| `form` | `InboundSpec`, one field, any choices | `DialogTypeOK`, `KeptSettings`, `FlowCarried`, `SecurityFits`, `RealityKeyed`, `LinkCarries`, `OutboundKept` | what is saved is shown again but for what `Lost` names, fits together, and arrives through its link but for the three exceptions above |

Bounds of the first four: `MaxUse` units of traffic per client, `MaxEdits`
requests, `MaxFaults` crashes of the panel or of Xray or failed starts, `Instants`
after day 1.  One inbound is enough because every statement of the code is about
the clients of one inbound at a time; two clients let one be renewed while
another is disabled; a handler races the job and the restart in every run under
`Spec` (that two handlers that race each other bill nothing twice is proved).

`SerialSpec` allows at most one of a handler, a traffic job and a restart until
Xray answers.  A start that failed counts as a restart under way until the panel
tries again, and this is needed: without an API port `AddClient` panics in its API
call after it saved the row of `client_traffics`, and before it saves the settings
(`inbound.go:1221` and `1233`); the row is disabled when it expires, and a later `AddClient`
of the same e-mail keeps that row while Xray is told to serve the user.  `Steady`
names what else `instep` leaves out, all listed above as divergences: refused calls,
mixed and http inbounds, renewing clients, and `AddInbound`, which hands disabled
clients to the API.  The resets that ask for nothing (the bot's and the periodic
one) are in: without overlaps a row they enable has its settings entry disabled, or
was enabled before.
`CHECK_DEADLOCK FALSE` because the bounded environment may have nothing left to do
and the panel then idles.

Each property of a passing run has a mutant in `PROJECT.json`, a slip in one mapped
definition that the property catches; its comment in the module says what the bug
is.

## Proofs

All hold for every value of the constants that meets the assumptions of the
modules (`ConstantsAssumption`, `NoneAssumption`).

- `XrayEnforcementProofs.TypeCorrect`: `Spec => []TypeOK`, one lemma per
  operation, on lemmas about the type of what each operator returns.
- `XrayTrafficProofs.BillingIsBounded` and `NeverBilledTwice`: `BillingBounded`
  with `TypeOK` is inductive.  `NoDoubleBilling` alone is not: a
  `ResetClientTraffic` under way holds a row that it will write back over the
  table, so the rows held in `op` must be bounded too, and what is outstanding
  must be bounded even when there is no row, since one may be inserted.  The
  actions fall in three groups: those that bill (the outstanding amount moves to
  the row), those that only reset or drop, and the client's own use (both sides
  grow).
- `XrayTrafficProofs.CommitsEnforce`: `Spec => EnforcedAtCommit`, from lemmas on
  what `AfterDisabling` and `AfterClosing` leave behind and on the steps that
  can commit; the helper invariant `JobWaits` says that a restart made by the
  traffic job finds the job waiting.
- `XrayTrafficProofs.StaysInStep` and `RestartsSkippedInStep`: `InStep` and
  `SkipsInStep` of `SerialSpec`, if `Steady`.  The assumption is about the constants
  and is what the run `instep` satisfies; each part of it is there because the code
  diverges without it (`renewal` and the list above).  The inductive
  invariant `Following` has four parts besides the types.  `Fit`: an entry of the
  settings is where its e-mail belongs, each row of stats has an entry, and an
  enabled entry has an enabled row.  `RequestsFit` and `Follows`: what a request
  read before is what the tables still hold, and Xray serves the users it will have
  when the request is over, but for the steps that are still to come.  `RestartFits`:
  what a restart has read is what the tables hold, and a process that starts serves
  its configuration.  `ServesFit`: with no request under way and no restart about to
  replace it, Xray serves `Wanted`, the generated configuration, whether or not a
  restart is due.  That is more than `InStep` says and has to be, since the flag is
  cleared before the restart.  The API calls of AddTraffic are folds over the
  clients it disables; the lemmas about them follow one client through the fold.
- `MtprotoProofs.TypeCorrect` and `BilledIsUsed`: `Spec => []NeverOverbilled`.  The
  invariant `Accounted` says that a client's use leaves room for its bill and for
  all that may still be billed: what the running process counts beyond its
  baseline, what the snapshot of a collection counts beyond its own, and the reading
  that is about to be written, whichever of them end up in the row.  It has to hold
  for every row somebody holds and may save, and needs `Structure`: a
  sidecar serves clients of its inbound, no two running ones share a port, only
  served clients have counts, and without names in the counters (single-secret mtg)
  the process that answers on a snapshot's port is the one it was taken of.
- `CloudflaredProofs.TypeCorrect`, `AtMostOneTunnel`, `ManagerImplementsTunnel`:
  `OneTunnel` follows from `CurrentIsWanted` (the manager's process has its
  generation and the last configuration) and `OthersAreVoid` (the others were told
  to stop or are gone, and only the manager's supervisor can find its generation
  current), which are inductive together.  The same invariant maps every step to
  a step of `Tunnel` or a stutter (the safety part), whether or not launches
  succeed.
- `AwgProofs.TypeCorrect` and `BilledAtMostOnce`, the latter for every workload
  without `UpdateClient`: a bill is computed from a row, a baseline and a counter
  that were read at three different times, so `BilledOnce` is strengthened to
  `BillsCovered`.  For every row that is or may become the client's (the table's,
  the one a handler will save, the one the job bills from, and an empty one), its
  total plus what the interface counts beyond its baseline is at most what was
  used, and so is its total plus what the job has read beyond the baseline plus
  what the interface counts beyond what the job has read.  Steps other than the
  job's look at the counters, its bill and the traffic itself only copy rows and
  restart counters (`Kept`); these three have a lemma each.
- `AwgProofs.TunnelAgrees`: `Spec => []TunnelInStep`, for every workload.  The
  invariant `StepByStep` says that while the history is smooth at most one actor is
  at work, and `AtWork` says for each program counter how interface, tables and
  what that actor has read stand to each other: which of them agree already, and
  which it is about to bring together.  Whoever becomes free leaves them agreeing,
  but for the link of a kernel interface, of which it says that another one was saved
  since the interface was made (`behind`) whenever it is not the server's.
- `PortForwardsProofs.TypeCorrect`, `AddressesAreOwn` and `ForwardsAreInStep`, for
  pools of any size, any clients and any number of handlers.  They rest on `Inv`, what
  each program counter says of what its actor has read.  `OwnAddresses` needs
  `Addressed`: a row that a handler has read or made, and will save, has addresses
  that no other client has; while requests have not overlapped there is one such
  handler at most, and `NextFree` offers no address that the table has, nor the
  server's.  `ForwardsInStep` needs `Calm`: while the
  history is smooth one actor is at work at most, and `Settling` says for each of its
  program counters how the file, the firewall, the tables and what it has read stand
  to each other: whether the file already lists what is wanted, and whether the firewall is
  still that of the row before.  The part that
  makes it inductive is that PostDown is what PostUp was: the file lists exactly what
  the firewall has whenever the interface may go down.
- `PanelFeedProofs.ClientNeverStranded` and `PagesOneSocket`: in any use of
  the interface `NeverStranded` is inductive together with two facts (`Stranding`):
  the socket the client holds is alive, and a client that was never used has
  neither a live socket nor a retry.  In the pages' use `OneSocket` and `Coherent`
  (`isConnected` is true exactly when the socket held is open) are inductive
  together.
- `PanelFeedProofs.HubServes`: `RegistryOpen` and `Served` need each other and an order
  (`Registry`): a connection is on its way to the registry, in the queue to it or
  in it, once and in this order, with an open channel until it is taken out.
- `PanelFeedProofs.FeedImplementsParts`: every step of the composition is a step of
  `PagesSpec` and of `HubSpec` or leaves their variables alone, so that `FeedSafe`
  has the invariants of the parts for the whole without another induction;
  `FeedTyped` adds the types of what belongs to neither part.
- `FormProofs.DialogTyped`, `FlowsAreCarried`, `SecurityIsFitting`,
  `RealityHasItsKey` and `SettingsAreKept`, for any number of entered fields and
  edits: the bounds of the run `form` are not assumed.  First the classes.  One that
  is `WellFormed` (its `fromJson` passes as many values as the constructor has
  parameters, in their order, each from the key `toJson` writes) turns every field
  into `Back` of it, and a second reading changes nothing; each class of
  `inbound.js` is shown to be well formed; a pair of keys is drawn anew first
  (`Seen`).  `BackOrLost`: what comes back is what was there, or `Lost` names it.  Then
  the row: a dialog is `Sound` when its choices fit together whatever their order, a
  saved row is what a sound dialog wrote, and a dialog opened on it or cloned from it
  is sound again.
  `RealityKeyed` needs in addition who is asked for a key pair, and whether the
  dialog still holds the inbound it was asked for.

- `FormProofs.LinksCarry` and `OutboundsAreKept`, again for any number of
  entered fields and edits.  They rest on the invariant of the dialog: an inbound
  that was saved has the classes its link is made of (`HasLink`), the path of a TCP
  header is not empty because a saved row gives it its default, and a flow is there
  only where a link has one.  A value is then followed in three stages, one lemma for
  each network, security and protocol: from the inbound into its link (`Carries`: the
  parameter has the value, or is absent because the value is empty), from the link
  through the constructors' positions into a form, and through `toJson` and `fromJson`
  of the outbound class.  A user goes through `Quoted` on the way, and of the three
  exceptions it is proved what arrives in their place.  `RereadTwice` is the reason for the second theorem: what
  has been read again once stays what it is, in every class, for every form.  It is
  not the same as for an inbound, since the gate that decides whether a field is
  written is itself a field that reading may change: the action of a `FinalRule` that
  was emptied comes back as the default and opens the gate of its delay.  That a gate
  never closes (`GateKept`) is what makes it true.

Only model-checked: liveness (`CutOff`, `ComesBack`, `Converges`, `Freshens`,
`Evicted`, the liveness of `ImplementsTunnel`), which with fairness and ENABLED is
out of the prover's reach.

## Not modelled

- Services with state of their own: the IP limit job, custom geo files, LDAP
  synchronisation, outbound tests, the Telegram bot's conversations, migrations,
  `DbConnection` questions (a transaction that asks its own pool for a second
  connection, as in `DelDepletedClients`), the bulk handlers of `InboundService`.
- Pure algorithms: the syntax of lists of ports (`portfwd.Parse`), the choice of a
  listen port, the comparison of configurations.
- Forwarded ports in userspace mode, PostUp and PostDown written by hand, a change of
  the pools under clients that have addresses.
- Of the front end: the dialogs for clients and bulk changes, the state of the
  outbound dialog (its classes are modelled), the settings pages, the utilities of
  `util/index.js`, the classes of AmneziaWG and WireGuard peers, whose rows live in
  tables of their own.  Nine tenths of the JavaScript in the repository is
  vendored (the editor and its linter, `codemirror/jshint.js` above all) and is
  no part of the program's logic.
- The settings, sessions, login, subscriptions, server status, installers: key
  and value reads, rendering, system calls.
- Failures of the disk, of memory, of the clock.

## Plan

1. (done) `ClientTraffics`, `XrayEnforcement`; `Tunnel`, `CloudflaredManager`;
   `MtprotoSidecars`; `AwgTunnel`; `WebSocketClient`, `WsHub`, `PanelFeed`,
   `InboundsPage`; the dialog, its classes and the links; `PortForwards`; the proofs above.
2. (done) Proofs of every safety property that a passing run checks.
3. An abstract `Accounting` (used, billed, lost) that `XrayEnforcement`,
   `MtprotoSidecars` and `AwgTunnel` implement, by INSTANCE with a refinement
   mapping, checked by TLC and its step simulation proved.
4. Breadth: `CheckClientIp`, `CustomGeo`, `OutboundTests`; the outbound dialog; two handlers against the job
   in `MtprotoSidecars`.  Runs that ask one question of two modules are merged to
   make room.
