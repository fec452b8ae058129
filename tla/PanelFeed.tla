----------------------------- MODULE PanelFeed -----------------------------
(***************************************************************************)
(* The live feed from end to end: the hub of the server (WsHub), the       *)
(* client of the browser (WebSocketClient), and between them the overview  *)
(* page (web/html/index.html), which shows the status it is sent and polls *)
(* for it when the feed fails.  A socket of the browser and the connection *)
(* of the server it belongs to have one name.                              *)
(***************************************************************************)
EXTENDS WebSocketClient, WsHub

CONSTANT MaxPollers      \* bound of the model on the pollers that are counted

ASSUME NamesAssumption == Conns = Sockets
ASSUME MaxPollersAssumption == MaxPollers \in Nat

VARIABLES stale,         \* has time passed since the page last showed a status?
          pollers        \* intervals started by startPolling and not cleared

pageVars == <<stale, pollers>>
feedVars == <<clientVars, hubVars, pageVars>>

FeedTypeOK ==
    /\ ClientTypeOK
    /\ HubTypeOK
    /\ stale \in BOOLEAN
    /\ pollers \in 0 .. MaxPollers

FeedInit == ClientInit /\ HubInit /\ stale = FALSE /\ pollers = 0

AtMost(n) == IF n < MaxPollers THEN n ELSE MaxPollers

---------------------------------------------------------------------------
\* The page and its socket.
Mount(s) ==
    /\ ~used
    /\ Connect(s)
    /\ UNCHANGED <<hubVars, pageVars>>

\* A name is free for a new socket when the server has forgotten the last one too.
Retry(s) ==
    /\ Free(s)
    /\ TimerFires(s)
    /\ UNCHANGED <<hubVars, pageVars>>

Opens(s) ==
    /\ OnOpen(s)
    /\ Upgrade(s)
    /\ UNCHANGED pageVars

\* The page has a listener of its own for "disconnected", which looks at
\* reconnectAttempts before the retry is scheduled, and one for "error"; each
\* starts another poller.
Polls(events) ==
    LET n == (IF "error" \in events THEN 1 ELSE 0)
               + IF reconnectAttempts >= MaxReconnects THEN 1 ELSE 0
    IN  pollers' = AtMost(pollers + n)

\* The attempt fails: an error event, then the close event.
Fails(s) ==
    /\ sock[s] = "connecting"
    /\ OnClose(s)
    /\ Polls({"error"})
    /\ UNCHANGED <<hubVars, stale>>

\* An open connection is over, with an error event before the close event or not.
Closes(s) ==
    /\ sock[s] = "open"
    /\ ~link[s]
    /\ OnClose(s)
    /\ \E events \in {{}, {"error"}} : Polls(events)
    /\ UNCHANGED <<hubVars, stale>>

\* The browser receives a status; the listener shows it.
Receives(s) ==
    /\ WriterSends(s)
    /\ stale' = FALSE
    /\ UNCHANGED <<clientVars, pollers>>

\* startPolling's interval: it ends itself when the feed is back, else asks the
\* panel, which answers when it is up.
PollTick ==
    /\ pollers > 0
    /\ IF isConnected
         THEN pollers' = pollers - 1 /\ UNCHANGED stale
         ELSE /\ ~cancelled
              /\ stale' = FALSE
              /\ UNCHANGED pollers
    /\ UNCHANGED <<clientVars, hubVars>>

Age ==
    /\ used
    /\ stale' = TRUE
    /\ UNCHANGED <<clientVars, hubVars, pollers>>

\* The server's side alone.
HubLoop(A) == A /\ UNCHANGED <<clientVars, pageVars>>

StatusTick == HubLoop(\E m \in Msgs : Broadcast(m))
Connection(c) == HubLoop(Register(c) \/ ReaderEnds(c) \/ WriterEnds(c))
Panics == HubLoop(Panic)
Loss == HubLoop(\E c \in Conns : LinkLost(c))
StopPanel == HubLoop(Stop)

FeedNext ==
    \/ \E s \in Sockets : \/ Mount(s) \/ Retry(s) \/ Opens(s) \/ Fails(s)
                          \/ Closes(s) \/ Receives(s) \/ Connection(s)
    \/ PollTick \/ Age \/ StatusTick \/ Loss \/ StopPanel
    \/ HubLoop(TakeRegister) \/ HubLoop(TakeUnregister) \/ HubLoop(TakeBroadcast)
    \/ HubLoop(\E c \in Conns : FanoutSend(c)) \/ HubLoop(FanoutEvict)
    \/ HubLoop(Shutdown) \/ Panics \/ HubLoop(Recover) \/ HubLoop(Restart)

FeedSpec == FeedInit /\ [][FeedNext]_feedVars

\* Timers fire, sockets resolve, goroutines run.  Go's select takes each case that
\* is ready again and again, hence strong fairness for the cases of the hub.  The
\* network, panics and the stopping of the panel are under no fairness; a panel
\* that is stopped is started again.
FeedFairness ==
    /\ WF_feedVars(\E s \in Sockets : Mount(s))
    /\ WF_feedVars(\E s \in Sockets : Retry(s))
    /\ WF_feedVars(PollTick)
    /\ \A s \in Sockets : /\ WF_feedVars(Opens(s) \/ Fails(s))
                          /\ WF_feedVars(Closes(s))
                          /\ WF_feedVars(Receives(s))
                          /\ WF_feedVars(Connection(s))
    /\ WF_feedVars(StatusTick)
    /\ WF_feedVars(HubLoop(\E c \in Conns : FanoutSend(c)) \/ HubLoop(FanoutEvict))
    /\ SF_feedVars(HubLoop(TakeRegister))
    /\ SF_feedVars(HubLoop(TakeUnregister))
    /\ SF_feedVars(HubLoop(TakeBroadcast))
    /\ SF_feedVars(HubLoop(Shutdown))
    /\ WF_feedVars(HubLoop(Recover))
    /\ WF_feedVars(HubLoop(Restart))

FairFeed == FeedSpec /\ FeedFairness

---------------------------------------------------------------------------
\* Connections lost, panics and stops of the panel that go on for ever.
Unrest == []<><<Loss \/ StopPanel \/ Panics>>_feedVars

\* The page is never frozen: when the unrest ends, the overview goes on being
\* brought up to date, by the feed or by a poller (index.html:1599-1612,
\* 1635-1675).  Two states of the server are left out because the code does freeze
\* the page in them: the hub has used up its restarts while the sockets stay open,
\* and the page's connection survives a restart of the panel without the hub ever
\* having taken it.
Frozen ==
    \/ loop = "gone"
    \/ \E s \in Sockets \cap old : sock[s] = "open" /\ ~closed[s]

Freshens == Unrest \/ []<>(~stale \/ Frozen)

\* A client whose connection is over leaves the registry, even when its
\* unregistration overtook its registration and found nothing to remove: the
\* broadcasts that go on fill its channel (hub.go:237-255).
NoZombie == (\A c \in clients : reader[c]) \/ loop = "gone"

Evicted == Unrest \/ []<>NoZombie
===========================================================================
