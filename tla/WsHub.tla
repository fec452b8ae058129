------------------------------- MODULE WsHub -------------------------------
(***************************************************************************)
(* The server's end of the live feed: the hub (web/websocket/hub.go), a    *)
(* goroutine that owns the registry of clients, and for each connection    *)
(* the handler and the two pumps of web/controller/websocket.go.  The      *)
(* channels between them have the code's discipline and smaller bounds.    *)
(***************************************************************************)
EXTENDS Naturals, Sequences, FiniteSets

CONSTANTS Conns,            \* connections; one that is over is used again
          Msgs,             \* marshalled messages
          ControlQueue,     \* hubControlQueue, 64 in the code
          BroadcastQueue,   \* hubBroadcastQueue, 2048
          SendQueue         \* clientSendQueue, 512

ASSUME QueueAssumption ==
    /\ ControlQueue \in Nat \ {0}
    /\ BroadcastQueue \in Nat \ {0}
    /\ SendQueue \in Nat \ {0}

VARIABLES clients,      \* h.clients, the registry
          registerQ, unregisterQ, broadcastQ,
          loop,         \* where the hub's goroutine is
          todo, dead,   \* fanout: targets not served yet, targets to evict
          cancelled,    \* h.ctx
          send, closed, \* the Send channel of each client
          registering,  \* connections upgraded, on their way to hub.Register
          reader,       \* does readPump run?
          link,         \* do the two ends still see each other?  writePump runs
                        \* on a link that is up: what it would still take from the
                        \* channel of one that is down is lost either way
          old           \* connections of a hub that a restart has replaced

queueVars == <<registerQ, unregisterQ, broadcastQ>>
hubVars  == <<clients, queueVars, loop, todo, dead, cancelled,
              send, closed, registering, reader, link, old>>

HubTypeOK ==
    /\ clients \subseteq Conns
    /\ registerQ \in Seq(Conns)
    /\ unregisterQ \in Seq(Conns)
    /\ broadcastQ \in Seq(Msgs)
    /\ loop \in {"select", "fanout", "crashed", "stopped", "gone"}
    /\ todo \subseteq Conns
    /\ dead \subseteq Conns
    /\ cancelled \in BOOLEAN
    /\ send \in [Conns -> Seq(Msgs)]
    /\ closed \in [Conns -> BOOLEAN]
    /\ registering \subseteq Conns
    /\ reader \in [Conns -> BOOLEAN]
    /\ link \in [Conns -> BOOLEAN]
    /\ old \subseteq Conns

HubInit ==
    /\ clients = {} /\ todo = {} /\ dead = {} /\ registering = {} /\ old = {}
    /\ registerQ = <<>> /\ unregisterQ = <<>> /\ broadcastQ = <<>>
    /\ loop = "select"
    /\ cancelled = FALSE
    /\ send = [c \in Conns |-> <<>>]
    /\ closed = [c \in Conns |-> FALSE]
    /\ reader = [c \in Conns |-> FALSE]
    /\ link = [c \in Conns |-> FALSE]

Queued(q) == {q[i] : i \in 1 .. Len(q)}

\* Nothing refers to c any more: the next connection may be given its name.
Free(c) ==
    /\ c \notin registering /\ ~reader[c] /\ ~link[c]
    /\ c \notin clients \cup todo \cup dead
    /\ c \notin Queued(registerQ) \cup Queued(unregisterQ)

\* A bug: the channel is closed and the client stays registered.
RemoveClosing(cs) ==
    /\ UNCHANGED clients
    /\ closed' = [c \in Conns |-> closed[c] \/ c \in clients \cap cs]

\* h.removeClient and its like: out of the registry, and the channel closed,
\* once, by whoever takes the client out.
Remove(cs) ==
    /\ clients' = clients \ cs
    /\ closed' = [c \in Conns |-> closed[c] \/ c \in clients \cap cs]

---------------------------------------------------------------------------
\* The handler of one connection.

\* HandleWebSocket up to the upgrade: only while the panel's listener is open.
Upgrade(c) ==
    /\ Free(c)
    /\ ~cancelled
    /\ registering' = registering \cup {c}
    /\ link' = [link EXCEPT ![c] = TRUE]
    /\ send' = [send EXCEPT ![c] = <<>>]
    /\ closed' = [closed EXCEPT ![c] = FALSE]
    /\ old' = old \ {c}
    /\ UNCHANGED <<clients, queueVars, loop, todo, dead, cancelled,
                   reader>>

\* hub.Register, then the pumps start.  When the hub is being stopped both cases
\* of the select are ready, and the pumps start all the same.
StartPumps(c) ==
    /\ registering' = registering \ {c}
    /\ reader' = [reader EXCEPT ![c] = TRUE]

\* A bug: a registration that finds the queue full is dropped.
RegisterOrDrop(c) ==
    /\ c \in registering
    /\ registerQ' = IF c \notin old /\ Len(registerQ) < ControlQueue
                      THEN Append(registerQ, c) ELSE registerQ
    /\ StartPumps(c)
    /\ UNCHANGED <<clients, unregisterQ, broadcastQ, loop, todo, dead,
                   cancelled, send, closed, link, old>>

Register(c) ==
    /\ c \in registering
    /\ \/ /\ c \notin old
          /\ Len(registerQ) < ControlQueue
          /\ registerQ' = Append(registerQ, c)
       \/ /\ cancelled \/ c \in old
          /\ UNCHANGED registerQ
    /\ StartPumps(c)
    /\ UNCHANGED <<clients, unregisterQ, broadcastQ, loop, todo, dead,
                   cancelled, send, closed, link, old>>

\* readPump ends on a read error; hub.Unregister queues the client, or removes it
\* itself when the queue is full; then the connection is closed.  A connection of
\* a replaced hub unregisters with that one.
ReaderEnds(c) ==
    /\ reader[c]
    /\ ~link[c]
    /\ reader' = [reader EXCEPT ![c] = FALSE]
    /\ IF c \in old
         THEN UNCHANGED <<clients, closed, unregisterQ>>
         ELSE IF Len(unregisterQ) < ControlQueue
                THEN /\ unregisterQ' = Append(unregisterQ, c)
                     /\ UNCHANGED <<clients, closed>>
                ELSE /\ Remove({c})
                     /\ UNCHANGED unregisterQ
    /\ UNCHANGED <<registerQ, broadcastQ, loop, todo, dead, cancelled,
                   send, registering, link, old>>

\* writePump: a message for the browser, on a link that is up.
WriterSends(c) ==
    /\ c \notin registering
    /\ link[c]
    /\ send[c] # <<>>
    /\ send' = [send EXCEPT ![c] = Tail(@)]
    /\ UNCHANGED <<clients, queueVars, loop, todo, dead, cancelled,
                   closed, registering, reader, link, old>>

\* writePump finds the channel closed and empty, and closes the connection.
WriterEnds(c) ==
    /\ c \notin registering
    /\ link[c]
    /\ send[c] = <<>>
    /\ closed[c]
    /\ link' = [link EXCEPT ![c] = FALSE]
    /\ UNCHANGED <<clients, queueVars, loop, todo, dead, cancelled,
                   send, closed, registering, reader, old>>

\* The network or the browser drops the connection, or a write or a ping fails.
LinkLost(c) ==
    /\ link[c]
    /\ link' = [link EXCEPT ![c] = FALSE]
    /\ UNCHANGED <<clients, queueVars, loop, todo, dead, cancelled,
                   send, closed, registering, reader, old>>

---------------------------------------------------------------------------
\* The hub's goroutine: one case of the select of runOnce at a time.
connVars == <<registering, reader, link, old>>

TakeRegister ==
    /\ loop = "select"
    /\ registerQ # <<>>
    /\ registerQ' = Tail(registerQ)
    /\ clients' = clients \cup {Head(registerQ)}
    /\ UNCHANGED <<unregisterQ, broadcastQ, loop, todo, dead, cancelled,
                   send, closed, connVars>>

TakeUnregister ==
    /\ loop = "select"
    /\ unregisterQ # <<>>
    /\ unregisterQ' = Tail(unregisterQ)
    /\ Remove({Head(unregisterQ)})
    /\ UNCHANGED <<registerQ, broadcastQ, loop, todo, dead, cancelled,
                   send, connVars>>

\* fanout takes a copy of the registry and lets go of the lock; the message stays
\* at the head of the queue here until it is delivered.
TakeBroadcast ==
    /\ loop = "select"
    /\ broadcastQ # <<>>
    /\ IF clients = {}
         THEN broadcastQ' = Tail(broadcastQ) /\ UNCHANGED <<loop, todo, dead>>
         ELSE /\ loop' = "fanout"
              /\ todo' = clients
              /\ dead' = {}
              /\ UNCHANGED broadcastQ
    /\ UNCHANGED <<clients, registerQ, unregisterQ, cancelled, send,
                   closed, connVars>>

\* A bug: a message for a full channel is dropped and the client kept.
FanoutSendDropping(c) ==
    /\ loop = "fanout"
    /\ c \in todo
    /\ todo' = todo \ {c}
    /\ send' = IF ~closed[c] /\ Len(send[c]) < SendQueue
                 THEN [send EXCEPT ![c] = Append(@, Head(broadcastQ))] ELSE send
    /\ UNCHANGED <<clients, queueVars, loop, dead, cancelled, closed, connVars>>

\* trySend: a full channel, or one closed since the copy was made, marks c dead.
FanoutSend(c) ==
    /\ loop = "fanout"
    /\ c \in todo
    /\ todo' = todo \ {c}
    /\ IF ~closed[c] /\ Len(send[c]) < SendQueue
         THEN send' = [send EXCEPT ![c] = Append(@, Head(broadcastQ))] /\ UNCHANGED dead
         ELSE dead' = dead \cup {c} /\ UNCHANGED send
    /\ UNCHANGED <<clients, queueVars, loop, cancelled, closed, connVars>>

FanoutEvict ==
    /\ loop = "fanout"
    /\ todo = {}
    /\ Remove(dead)
    /\ dead' = {}
    /\ loop' = "select"
    /\ broadcastQ' = Tail(broadcastQ)
    /\ UNCHANGED <<registerQ, unregisterQ, todo, cancelled, send, connVars>>

\* ctx.Done is one more case of the select: the hub may serve others before it.
Shutdown ==
    /\ loop = "select"
    /\ cancelled
    /\ Remove(clients)
    /\ loop' = "stopped"
    /\ UNCHANGED <<queueVars, todo, dead, cancelled, send, connVars>>

\* A panic in the loop is recovered; the message being delivered is lost.  The
\* loop waits and starts again, or has used up its attempts (Run counts every
\* panic of the hub's life): how many are left is abstracted, any may be the last.
Panic ==
    /\ loop \in {"select", "fanout"}
    /\ loop' \in {"crashed", "gone"}
    /\ broadcastQ' = IF loop = "fanout" THEN Tail(broadcastQ) ELSE broadcastQ
    /\ todo' = {} /\ dead' = {}
    /\ UNCHANGED <<clients, registerQ, unregisterQ, cancelled, send, closed, connVars>>

\* The wait ends: a new loop, or nothing when the hub was stopped meanwhile.
Recover ==
    /\ loop = "crashed"
    /\ \/ loop' = "select"
       \/ cancelled /\ loop' = "gone"
    /\ UNCHANGED <<clients, queueVars, todo, dead, cancelled, send, closed,
                   connVars>>

---------------------------------------------------------------------------
\* The callers.

\* hub.Broadcast and enqueue: nothing when nobody is registered, dropped when the
\* queue stays full for enqueueTimeout or the hub is stopped.
Broadcast(m) ==
    /\ clients # {}
    /\ ~cancelled
    /\ Len(broadcastQ) < BroadcastQueue + IF loop = "fanout" THEN 1 ELSE 0
    /\ broadcastQ' = Append(broadcastQ, m)
    /\ UNCHANGED <<clients, registerQ, unregisterQ, loop, todo, dead,
                   cancelled, send, closed, connVars>>

\* Server.Stop: the hub's context, and with it the listener.
Stop ==
    /\ ~cancelled
    /\ cancelled' = TRUE
    /\ UNCHANGED <<clients, queueVars, loop, todo, dead, send, closed, connVars>>

\* The panel is started again in the same process (SIGHUP): a new hub; the
\* connections whose pumps still run belong to the old one.
Ended == loop \in {"stopped", "gone"}

Restart ==
    /\ cancelled
    /\ Ended
    /\ clients' = {} /\ todo' = {} /\ dead' = {}
    /\ registerQ' = <<>> /\ unregisterQ' = <<>> /\ broadcastQ' = <<>>
    /\ loop' = "select"
    /\ cancelled' = FALSE
    /\ old' = {c \in Conns : c \in registering \/ reader[c]}
    /\ UNCHANGED <<send, closed, registering, reader, link>>

HubNext ==
    \/ TakeRegister \/ TakeUnregister \/ TakeBroadcast \/ FanoutEvict
    \/ Shutdown \/ Panic \/ Recover \/ Stop \/ Restart
    \/ \E m \in Msgs : Broadcast(m)
    \/ \E c \in Conns : \/ Upgrade(c) \/ Register(c) \/ FanoutSend(c)
                        \/ ReaderEnds(c) \/ WriterSends(c) \/ WriterEnds(c)
                        \/ LinkLost(c)

HubSpec == HubInit /\ [][HubNext]_hubVars

---------------------------------------------------------------------------
\* The registry holds clients of this hub whose channel is open: nobody sends for
\* long on a channel that is closed, and a channel is closed by the one that took
\* the client out, whichever of the hub, the eviction and a direct Unregister it
\* was (hub.go:206-215, 247-254, 363-371).
RegistryOpen == \A c \in clients : ~closed[c] /\ c \notin old

\* Nobody is forgotten: as long as the hub is not being stopped, a connection
\* whose pumps run on an open channel is in the registry or in the queue to it,
\* whatever was queued, evicted or removed directly (hub.go:343-372).
Served ==
    ~cancelled => \A c \in Conns \ old :
        reader[c] /\ ~closed[c] => c \in clients \cup Queued(registerQ)
===========================================================================
