-------------------------- MODULE PanelFeedProofs --------------------------
(***************************************************************************)
(* The hub, the client and the two together.  The registry of the hub, for *)
(* any number of connections and any queues: types, RegistryOpen, Served.  *)
(* The client of the feed, for any number of sockets: however the          *)
(* interface is used, a client that is to reconnect does; used as the      *)
(* pages use it, it has one live socket.  The composition uses its two     *)
(* parts as they are meant to be used: what is proved of the client in the *)
(* pages' use and of the hub holds in it.                                  *)
(***************************************************************************)
EXTENDS PanelFeed, TLAPS

---------------------------------------------------------------------------
(* The hub.                                                                *)
LEMMA EmptyQueue == ASSUME NEW S PROVE <<>> \in Seq(S)
  OBVIOUS

\* What the ends of a queue say of what is in it.
LEMMA QueuedAppend ==
    ASSUME NEW S, NEW q \in Seq(S), NEW e \in S
    PROVE  Queued(Append(q, e)) = Queued(q) \cup {e}
  <1>1. /\ Len(Append(q, e)) = Len(q) + 1
        /\ \A i \in 1 .. Len(q) : Append(q, e)[i] = q[i]
        /\ Append(q, e)[Len(q) + 1] = e
        /\ Len(q) \in Nat
    OBVIOUS
  <1>2. \A i \in 1 .. Len(q) + 1 : i \in 1 .. Len(q) \/ i = Len(q) + 1
    BY <1>1
  <1>3. ASSUME NEW x \in Queued(Append(q, e)) PROVE x \in Queued(q) \cup {e}
    <2>1. PICK i \in 1 .. Len(q) + 1 : x = Append(q, e)[i]
      BY <1>1 DEF Queued
    <2> QED
      BY <2>1, <1>1, <1>2 DEF Queued
  <1>4. ASSUME NEW x \in Queued(q) PROVE x \in Queued(Append(q, e))
    <2>1. PICK i \in 1 .. Len(q) : x = q[i]
      BY DEF Queued
    <2>2. i \in 1 .. Len(Append(q, e)) /\ Append(q, e)[i] = x
      BY <2>1, <1>1
    <2> QED
      BY <2>2 DEF Queued
  <1>5. e \in Queued(Append(q, e))
    <2>1. Len(q) + 1 \in 1 .. Len(Append(q, e))
      BY <1>1
    <2> QED
      BY <2>1, <1>1 DEF Queued
  <1> QED
    BY <1>3, <1>4, <1>5

LEMMA QueuedHead ==
    ASSUME NEW S, NEW q \in Seq(S), q # <<>>
    PROVE  /\ Head(q) \in Queued(q)
           /\ Tail(q) \in Seq(S)
           /\ Queued(Tail(q)) \subseteq Queued(q)
           /\ Queued(q) \subseteq Queued(Tail(q)) \cup {Head(q)}
  <1>1. /\ Len(q) \in Nat \ {0}
        /\ Head(q) = q[1]
        /\ Len(Tail(q)) = Len(q) - 1
        /\ Tail(q) \in Seq(S)
        /\ \A i \in 1 .. Len(q) - 1 : Tail(q)[i] = q[i + 1]
    OBVIOUS
  <1>2. Head(q) \in Queued(q)
    <2>1. 1 \in 1 .. Len(q)
      BY <1>1
    <2> QED
      BY <2>1, <1>1 DEF Queued
  <1>3. ASSUME NEW x \in Queued(Tail(q)) PROVE x \in Queued(q)
    <2>1. PICK i \in 1 .. Len(q) - 1 : x = q[i + 1]
      BY <1>1 DEF Queued
    <2>2. i + 1 \in 1 .. Len(q)
      BY <1>1
    <2> QED
      BY <2>1, <2>2 DEF Queued
  <1>4. ASSUME NEW x \in Queued(q) PROVE x \in Queued(Tail(q)) \cup {Head(q)}
    <2>1. PICK i \in 1 .. Len(q) : x = q[i]
      BY DEF Queued
    <2>2. CASE i = 1
      BY <2>1, <2>2, <1>1
    <2>3. CASE i # 1
      <3>1. i - 1 \in 1 .. Len(q) - 1 /\ (i - 1) + 1 = i
        BY <2>3, <1>1
      <3>2. Tail(q)[i - 1] = x /\ i - 1 \in 1 .. Len(Tail(q))
        BY <3>1, <2>1, <1>1
      <3> QED
        BY <3>2 DEF Queued
    <2> QED
      BY <2>2, <2>3
  <1> QED
    BY <1>1, <1>2, <1>3, <1>4

\* No element twice: a connection registers once.
NoneTwice(q) == \A i, j \in 1 .. Len(q) : q[i] = q[j] => i = j

LEMMA NoneTwiceAppend ==
    ASSUME NEW S, NEW q \in Seq(S), NEW e \in S, NoneTwice(q), e \notin Queued(q)
    PROVE  NoneTwice(Append(q, e))
  <1>1. /\ Len(Append(q, e)) = Len(q) + 1
        /\ \A i \in 1 .. Len(q) : Append(q, e)[i] = q[i]
        /\ Append(q, e)[Len(q) + 1] = e
        /\ Len(q) \in Nat
    OBVIOUS
  <1>2. \A i \in 1 .. Len(q) : q[i] # e
    BY DEF Queued
  <1>3. \A i \in 1 .. Len(q) + 1 : i \in 1 .. Len(q) \/ i = Len(q) + 1
    BY <1>1
  <1> QED
    BY <1>1, <1>2, <1>3 DEF NoneTwice

LEMMA NoneTwiceTail ==
    ASSUME NEW S, NEW q \in Seq(S), q # <<>>, NoneTwice(q)
    PROVE  NoneTwice(Tail(q)) /\ Head(q) \notin Queued(Tail(q))
  <1>1. /\ Len(q) \in Nat \ {0}
        /\ Head(q) = q[1]
        /\ Len(Tail(q)) = Len(q) - 1
        /\ \A i \in 1 .. Len(q) - 1 : Tail(q)[i] = q[i + 1]
    OBVIOUS
  <1>2. \A i \in 1 .. Len(q) - 1 : i + 1 \in 1 .. Len(q) /\ i + 1 # 1
    BY <1>1
  <1>3. NoneTwice(Tail(q))
    <2> SUFFICES ASSUME NEW i \in 1 .. Len(q) - 1, NEW j \in 1 .. Len(q) - 1,
                        q[i + 1] = q[j + 1]
                 PROVE  i = j
      BY <1>1 DEF NoneTwice
    <2>1. i + 1 = j + 1
      BY <1>2 DEF NoneTwice
    <2> QED
      BY <2>1
  <1>4. ASSUME Head(q) \in Queued(Tail(q)) PROVE FALSE
    <2>1. PICK i \in 1 .. Len(q) - 1 : q[1] = q[i + 1]
      BY <1>4, <1>1 DEF Queued
    <2>2. 1 \in 1 .. Len(q)
      BY <1>1
    <2>3. i + 1 = 1
      BY <2>1, <2>2, <1>2 DEF NoneTwice
    <2> QED
      BY <2>3, <1>2
  <1> QED
    BY <1>3, <1>4

---------------------------------------------------------------------------
\* The inductive invariant: a connection is on its way to the registry, in the
\* queue to it or in it, once and in this order, with an open channel until it is
\* taken out.
Registry ==
    /\ RegistryOpen
    /\ Served
    /\ NoneTwice(registerQ)
    /\ \A c \in Queued(registerQ) : ~closed[c] /\ c \notin old /\ c \notin clients
    /\ \A c \in registering :
         /\ ~closed[c] /\ ~reader[c]
         /\ c \notin clients /\ c \notin Queued(registerQ)

\* A message is being delivered: it is the head of the queue.
Delivering == loop = "fanout" => broadcastQ # <<>>

IInv == HubTypeOK /\ Registry

\* What a step can disturb it by: the registry, its queue, the channels and the
\* states of the connections.  A step that leaves them alone keeps it.
LEMMA RegistryFrame ==
    ASSUME Registry, clients' = clients, registerQ' = registerQ, closed' = closed,
           old' = old, registering' = registering, reader' = reader,
           cancelled => cancelled'
    PROVE  Registry'
  BY DEF Registry, RegistryOpen, Served, NoneTwice, Queued

\* Taking clients out of the registry keeps it, and so does the end of a reader.
LEMMA RegistryRemove ==
    ASSUME HubTypeOK, Registry, NEW cs \in SUBSET Conns, Remove(cs),
           registerQ' = registerQ, old' = old, registering' = registering,
           cancelled' = cancelled, \A c \in Conns : reader'[c] => reader[c]
    PROVE  Registry' /\ clients' \subseteq Conns /\ closed' \in [Conns -> BOOLEAN]
  <1>1. clients' = clients \ cs
    BY DEF Remove
  <1>2. \A c \in Conns : closed'[c] = (closed[c] \/ c \in clients \cap cs)
    BY DEF Remove
  <1>3. closed' \in [Conns -> BOOLEAN] /\ clients' \subseteq Conns
    BY <1>1 DEF Remove, HubTypeOK
  <1>4. Queued(registerQ)' = Queued(registerQ)
    BY DEF Queued
  <1>5. Queued(registerQ) \subseteq Conns
    BY DEF Queued, HubTypeOK
  <1>6. RegistryOpen'
    BY <1>1, <1>2 DEF RegistryOpen, Registry, HubTypeOK
  <1>7. Served'
    <2> SUFFICES ASSUME ~cancelled', NEW c \in Conns \ old', reader'[c], ~closed'[c]
                 PROVE  c \in clients' \cup Queued(registerQ)'
      BY DEF Served
    <2>1. ~cancelled /\ c \in Conns \ old /\ reader[c] /\ ~closed[c]
      BY <1>2
    <2>2. c \in clients \cup Queued(registerQ)
      BY <2>1 DEF Registry, Served
    <2> QED
      BY <2>2, <1>1, <1>2, <1>4
  <1>8. NoneTwice(registerQ)'
    BY DEF Registry, NoneTwice
  <1>9. \A c \in Queued(registerQ)' : ~closed'[c] /\ c \notin old' /\ c \notin clients'
    BY <1>1, <1>2, <1>4, <1>5 DEF Registry
  <1>10. \A c \in registering' :
            /\ ~closed'[c] /\ ~reader'[c]
            /\ c \notin clients' /\ c \notin Queued(registerQ)'
    BY <1>1, <1>2, <1>4 DEF Registry, HubTypeOK
  <1> QED
    BY <1>3, <1>6, <1>7, <1>8, <1>9, <1>10 DEF Registry

\* The handler of a connection.
LEMMA UpgradeStep ==
    ASSUME IInv, NEW c \in Conns, Upgrade(c)
    PROVE  IInv'
  <1> USE DEF IInv
  <1>1. HubTypeOK'
    BY DEF Upgrade, HubTypeOK, queueVars
  <1>2. Queued(registerQ)' = Queued(registerQ)
    BY DEF Queued, Upgrade, queueVars
  <1>3. /\ c \notin registering /\ ~reader[c] /\ c \notin clients
        /\ c \notin Queued(registerQ)
    BY DEF Upgrade, Free
  <1>4. /\ registering' = registering \cup {c}
        /\ closed' = [closed EXCEPT ![c] = FALSE]
        /\ old' = old \ {c}
        /\ UNCHANGED <<clients, cancelled, reader, registerQ>>
    BY DEF Upgrade, queueVars
  <1>5. RegistryOpen' /\ Served'
    BY <1>2, <1>3, <1>4 DEF Registry, RegistryOpen, Served, HubTypeOK
  <1>6. NoneTwice(registerQ)'
    BY <1>4 DEF Registry, NoneTwice
  <1>7. Registry'
    BY <1>2, <1>3, <1>4, <1>5, <1>6 DEF Registry, HubTypeOK
  <1> QED
    BY <1>1, <1>7

LEMMA RegisterStep ==
    ASSUME IInv, NEW c \in Conns, Register(c)
    PROVE  IInv'
  <1> USE DEF IInv
  <1>1. /\ registering' = registering \ {c}
        /\ reader' = [reader EXCEPT ![c] = TRUE]
        /\ UNCHANGED <<clients, cancelled, closed, old>>
        /\ c \in registering
    BY DEF Register, StartPumps
  <1>2. CASE registerQ' = Append(registerQ, c) /\ c \notin old
    <2>1. HubTypeOK'
      BY <1>2 DEF Register, StartPumps, HubTypeOK
    <2>2. Queued(registerQ') = Queued(registerQ) \cup {c}
      BY <1>2, QueuedAppend DEF HubTypeOK
    <2>3. NoneTwice(registerQ')
      BY <1>1, <1>2, NoneTwiceAppend DEF Registry, HubTypeOK
    <2>4. RegistryOpen' /\ Served'
      BY <1>1, <2>2 DEF Registry, RegistryOpen, Served, HubTypeOK
    <2>5. Registry'
      BY <1>1, <1>2, <2>2, <2>3, <2>4 DEF Registry, HubTypeOK
    <2> QED
      BY <2>1, <2>5
  <1>3. CASE registerQ' = registerQ /\ (cancelled \/ c \in old)
    <2>1. HubTypeOK'
      BY <1>3 DEF Register, StartPumps, HubTypeOK
    <2>2. Queued(registerQ') = Queued(registerQ) /\ NoneTwice(registerQ')
      BY <1>3 DEF Registry
    <2>3. RegistryOpen' /\ Served'
      BY <1>1, <1>3, <2>2 DEF Registry, RegistryOpen, Served, HubTypeOK
    <2>4. Registry'
      BY <1>1, <1>3, <2>2, <2>3 DEF Registry, HubTypeOK
    <2> QED
      BY <2>1, <2>4
  <1> QED
    BY <1>2, <1>3 DEF Register

LEMMA ReaderEndsStep ==
    ASSUME IInv, NEW c \in Conns, ReaderEnds(c)
    PROVE  IInv'
  <1> USE DEF IInv
  <1>1. /\ reader' = [reader EXCEPT ![c] = FALSE]
        /\ UNCHANGED <<registerQ, cancelled, old, registering>>
    BY DEF ReaderEnds
  <1>2. \A d \in Conns : reader'[d] => reader[d]
    BY <1>1 DEF HubTypeOK
  <1>3. CASE UNCHANGED <<clients, closed>>
    <2>1. HubTypeOK'
      <3>1. unregisterQ' \in Seq(Conns)
        <4>1. unregisterQ' = unregisterQ \/ unregisterQ' = Append(unregisterQ, c)
          BY DEF ReaderEnds
        <4>2. unregisterQ \in Seq(Conns)
          BY DEF HubTypeOK
        <4>3. Append(unregisterQ, c) \in Seq(Conns)
          BY <4>2
        <4> QED
          BY <4>1, <4>2, <4>3
      <3>2. reader' \in [Conns -> BOOLEAN]
        BY <1>1 DEF HubTypeOK
      <3> QED
        BY <1>1, <1>3, <3>1, <3>2 DEF ReaderEnds, HubTypeOK
    <2>2. Remove({})
      <3>1. closed' = [d \in Conns |-> closed[d] \/ d \in clients \cap {}]
        BY <1>3 DEF HubTypeOK
      <3> QED
        BY <3>1, <1>3 DEF Remove
    <2>3. Registry'
      BY <2>2, <1>1, <1>2, RegistryRemove
    <2> QED
      BY <2>1, <2>3
  <1>4. CASE Remove({c}) /\ UNCHANGED unregisterQ
    <2>1. Registry' /\ clients' \subseteq Conns /\ closed' \in [Conns -> BOOLEAN]
      BY <1>4, <1>1, <1>2, RegistryRemove
    <2>2. HubTypeOK'
      BY <1>4, <2>1 DEF ReaderEnds, HubTypeOK
    <2> QED
      BY <2>1, <2>2
  <1> QED
    BY <1>3, <1>4 DEF ReaderEnds

LEMMA PumpStep ==
    ASSUME IInv, NEW c \in Conns, WriterSends(c) \/ WriterEnds(c) \/ LinkLost(c)
    PROVE  IInv'
  <1> USE DEF IInv
  <1>1. HubTypeOK'
    <2>1. CASE WriterSends(c)
      <3>1. Tail(send[c]) \in Seq(Msgs)
        BY <2>1 DEF WriterSends, HubTypeOK
      <3>2. send' \in [Conns -> Seq(Msgs)]
        BY <2>1, <3>1 DEF WriterSends, HubTypeOK
      <3> QED
        BY <3>2, <2>1 DEF WriterSends, HubTypeOK, queueVars
    <2>2. CASE WriterEnds(c)
      BY <2>2 DEF WriterEnds, HubTypeOK, queueVars
    <2>3. CASE LinkLost(c)
      BY <2>3 DEF LinkLost, HubTypeOK, queueVars
    <2> QED
      BY <2>1, <2>2, <2>3
  <1>2. Registry'
    BY RegistryFrame DEF WriterSends, WriterEnds, LinkLost, queueVars
  <1> QED
    BY <1>1, <1>2

---------------------------------------------------------------------------
\* The hub's goroutine.
LEMMA TakeRegisterStep ==
    ASSUME IInv, TakeRegister
    PROVE  IInv'
  <1> USE DEF IInv
  <1> DEFINE c == Head(registerQ)
  <1>1. /\ registerQ # <<>>
        /\ registerQ' = Tail(registerQ)
        /\ clients' = clients \cup {c}
        /\ UNCHANGED <<cancelled, closed, old, registering, reader>>
    BY DEF TakeRegister, connVars
  <1>2. /\ c \in Queued(registerQ)
        /\ Tail(registerQ) \in Seq(Conns)
        /\ Queued(registerQ') \subseteq Queued(registerQ)
        /\ Queued(registerQ) \subseteq Queued(registerQ') \cup {c}
    BY <1>1, QueuedHead DEF HubTypeOK
  <1>3. NoneTwice(registerQ') /\ c \notin Queued(registerQ')
    BY <1>1, NoneTwiceTail DEF Registry, HubTypeOK
  <1>4. c \in Conns
    BY <1>1 DEF HubTypeOK
  <1>5. HubTypeOK'
    BY <1>1, <1>2, <1>4 DEF TakeRegister, HubTypeOK, connVars
  <1>6. RegistryOpen'
    BY <1>1, <1>2 DEF Registry, RegistryOpen
  <1>7. Served'
    BY <1>1, <1>2 DEF Registry, Served
  <1>8. Registry'
    BY <1>1, <1>2, <1>3, <1>6, <1>7 DEF Registry
  <1> QED
    BY <1>5, <1>8

LEMMA TakeUnregisterStep ==
    ASSUME IInv, TakeUnregister
    PROVE  IInv'
  <1> USE DEF IInv
  <1>1. Head(unregisterQ) \in Conns /\ Tail(unregisterQ) \in Seq(Conns)
    BY DEF TakeUnregister, HubTypeOK
  <1>2. Registry' /\ clients' \subseteq Conns /\ closed' \in [Conns -> BOOLEAN]
    BY <1>1, RegistryRemove DEF TakeUnregister, connVars
  <1>3. HubTypeOK'
    BY <1>1, <1>2 DEF TakeUnregister, HubTypeOK, connVars
  <1> QED
    BY <1>2, <1>3

LEMMA FanoutEvictStep ==
    ASSUME IInv, broadcastQ # <<>>, FanoutEvict
    PROVE  IInv'
  <1> USE DEF IInv
  <1>1. Registry' /\ clients' \subseteq Conns /\ closed' \in [Conns -> BOOLEAN]
    BY RegistryRemove DEF FanoutEvict, connVars, HubTypeOK
  <1>2. Tail(broadcastQ) \in Seq(Msgs)
    BY DEF HubTypeOK
  <1>3. HubTypeOK'
    BY <1>1, <1>2 DEF FanoutEvict, HubTypeOK, connVars
  <1> QED
    BY <1>1, <1>3

LEMMA ShutdownStep ==
    ASSUME IInv, Shutdown
    PROVE  IInv'
  <1> USE DEF IInv
  <1>1. Registry' /\ clients' \subseteq Conns /\ closed' \in [Conns -> BOOLEAN]
    BY RegistryRemove DEF Shutdown, connVars, HubTypeOK, queueVars
  <1>2. HubTypeOK'
    BY <1>1 DEF Shutdown, HubTypeOK, connVars, queueVars
  <1> QED
    BY <1>1, <1>2

\* The steps of the loop, of the callers and of the panel that leave the registry,
\* or all of it, alone.
LEMMA QuietStep ==
    ASSUME IInv, Delivering,
           \/ TakeBroadcast \/ Panic \/ Recover \/ Stop
           \/ \E c \in Conns : FanoutSend(c)
           \/ \E m \in Msgs : Broadcast(m)
    PROVE  IInv'
  <1> USE DEF IInv
  <1>1. Registry'
    BY RegistryFrame
    DEF TakeBroadcast, Panic, Recover, Stop, FanoutSend, Broadcast, queueVars, connVars
  <1>2. broadcastQ # <<>> => Head(broadcastQ) \in Msgs /\ Tail(broadcastQ) \in Seq(Msgs)
    BY DEF HubTypeOK
  <1>3. CASE TakeBroadcast
    BY <1>1, <1>2, <1>3 DEF TakeBroadcast, HubTypeOK, connVars
  <1>4. CASE Panic
    BY <1>1, <1>2, <1>4 DEF Panic, Delivering, HubTypeOK, connVars
  <1>5. CASE Recover
    BY <1>1, <1>5 DEF Recover, HubTypeOK, connVars, queueVars
  <1>6. CASE Stop
    BY <1>1, <1>6 DEF Stop, HubTypeOK, connVars, queueVars
  <1>7. ASSUME NEW c \in Conns, FanoutSend(c) PROVE IInv'
    <2>1. Append(send[c], Head(broadcastQ)) \in Seq(Msgs)
      BY <1>2, <1>7 DEF FanoutSend, Delivering, HubTypeOK
    <2>2. send' \in [Conns -> Seq(Msgs)] /\ dead' \subseteq Conns
      BY <1>7, <2>1 DEF FanoutSend, HubTypeOK
    <2> QED
      BY <1>1, <1>7, <2>2 DEF FanoutSend, HubTypeOK, connVars, queueVars
  <1>8. ASSUME NEW m \in Msgs, Broadcast(m) PROVE IInv'
    <2>1. broadcastQ' \in Seq(Msgs)
      BY <1>8 DEF Broadcast, HubTypeOK
    <2> QED
      BY <1>1, <1>8, <2>1 DEF Broadcast, HubTypeOK, connVars
  <1> QED
    BY <1>3, <1>4, <1>5, <1>6, <1>7, <1>8

LEMMA RestartStep ==
    ASSUME IInv, Restart
    PROVE  IInv'
  <1> USE DEF IInv
  <1>1. /\ clients' = {} /\ registerQ' = <<>> /\ cancelled' = FALSE
        /\ old' = {c \in Conns : c \in registering \/ reader[c]}
        /\ UNCHANGED <<closed, registering, reader>>
    BY DEF Restart
  <1>2. HubTypeOK'
    <2>1. old' \subseteq Conns
      BY <1>1
    <2>2. registerQ' \in Seq(Conns) /\ unregisterQ' \in Seq(Conns) /\ broadcastQ' \in Seq(Msgs)
      BY EmptyQueue DEF Restart
    <2> QED
      BY <2>1, <2>2 DEF Restart, HubTypeOK
  <1>3. Queued(registerQ') = {} /\ NoneTwice(registerQ')
    BY <1>1 DEF Queued, NoneTwice
  <1>4. RegistryOpen' /\ Served'
    BY <1>1 DEF RegistryOpen, Served
  <1>5. Registry'
    BY <1>1, <1>3, <1>4 DEF Registry
  <1> QED
    BY <1>2, <1>5

LEMMA DeliveringStep ==
    ASSUME HubTypeOK, Delivering, HubNext
    PROVE  Delivering'
  <1>1. CASE \E m \in Msgs : Broadcast(m)
    <2>1. PICK m \in Msgs : Broadcast(m)
      BY <1>1
    <2>2. broadcastQ' = Append(broadcastQ, m) /\ broadcastQ \in Seq(Msgs)
      BY <2>1 DEF Broadcast, HubTypeOK
    <2>3. broadcastQ' # <<>>
      BY <2>2
    <2> QED
      BY <2>3 DEF Delivering
  <1>2. CASE TakeRegister \/ TakeUnregister \/ Shutdown \/ Stop
    BY <1>2 DEF Delivering, TakeRegister, TakeUnregister, Shutdown, Stop, queueVars
  <1>4. CASE TakeBroadcast
    BY <1>4 DEF Delivering, TakeBroadcast
  <1>5. CASE FanoutEvict
    BY <1>5 DEF Delivering, FanoutEvict
  <1>6. CASE Panic
    <2>1. loop' # "fanout"
      BY <1>6 DEF Panic
    <2> QED
      BY <2>1 DEF Delivering
  <1>7. CASE Recover
    <2>1. loop' # "fanout"
      BY <1>7 DEF Recover
    <2> QED
      BY <2>1 DEF Delivering
  <1>8. CASE Restart
    BY <1>8 DEF Delivering, Restart
  <1>3. ASSUME NEW c \in Conns,
               \/ Upgrade(c) \/ Register(c) \/ FanoutSend(c) \/ ReaderEnds(c)
               \/ WriterSends(c) \/ WriterEnds(c) \/ LinkLost(c)
        PROVE  Delivering'
    BY <1>3
    DEF Delivering, Upgrade, Register, FanoutSend, ReaderEnds, WriterSends,
        WriterEnds, LinkLost, queueVars
  <1> QED
    BY <1>1, <1>2, <1>3, <1>4, <1>5, <1>6, <1>7, <1>8 DEF HubNext

\* However registrations, unregistrations, evictions, panics and restarts follow
\* each other, the registry has only clients with an open channel, and a
\* connection with an open channel is in it or on its way (hub.go:166-256,
\* 343-379): a channel is never closed twice, no connection is left out.
THEOREM HubServes == HubSpec => [](HubTypeOK /\ RegistryOpen /\ Served)
<1>1. HubInit => IInv /\ Delivering
  <2> SUFFICES ASSUME HubInit PROVE IInv /\ Delivering
    OBVIOUS
  <2>1. HubTypeOK
    <3>1. registerQ \in Seq(Conns) /\ unregisterQ \in Seq(Conns) /\ broadcastQ \in Seq(Msgs)
      BY EmptyQueue DEF HubInit
    <3>2. send \in [Conns -> Seq(Msgs)]
      BY EmptyQueue DEF HubInit
    <3>3. /\ closed \in [Conns -> BOOLEAN] /\ reader \in [Conns -> BOOLEAN]
          /\ link \in [Conns -> BOOLEAN]
      BY DEF HubInit
    <3> QED
      BY <3>1, <3>2, <3>3 DEF HubInit, HubTypeOK
  <2>2. Queued(registerQ) = {} /\ NoneTwice(registerQ)
    BY DEF HubInit, Queued, NoneTwice
  <2>3. Registry
    BY <2>2 DEF HubInit, Registry, RegistryOpen, Served
  <2> QED
    BY <2>1, <2>3 DEF HubInit, IInv, Delivering
<1>2. IInv /\ Delivering /\ [HubNext]_hubVars => IInv' /\ Delivering'
  <2> SUFFICES ASSUME IInv, Delivering, [HubNext]_hubVars PROVE IInv' /\ Delivering'
    OBVIOUS
  <2>1. CASE HubNext
    <3>1. Delivering'
      BY <2>1, DeliveringStep DEF IInv
    <3>2. CASE FanoutEvict
      BY <3>1, <3>2, FanoutEvictStep DEF Delivering, FanoutEvict
    <3>3. CASE TakeRegister \/ TakeUnregister \/ Shutdown \/ Restart
      BY <3>1, <3>3, TakeRegisterStep, TakeUnregisterStep, ShutdownStep, RestartStep
    <3>4. CASE \/ TakeBroadcast \/ Panic \/ Recover \/ Stop
               \/ \E m \in Msgs : Broadcast(m)
      BY <3>1, <3>4, QuietStep
    <3>5. ASSUME NEW c \in Conns,
                 \/ Upgrade(c) \/ Register(c) \/ FanoutSend(c) \/ ReaderEnds(c)
                 \/ WriterSends(c) \/ WriterEnds(c) \/ LinkLost(c)
          PROVE  IInv'
      BY <3>5, UpgradeStep, RegisterStep, QuietStep, ReaderEndsStep, PumpStep
    <3> QED
      BY <2>1, <3>1, <3>2, <3>3, <3>4, <3>5 DEF HubNext
  <2>2. CASE UNCHANGED hubVars
    <3>1. HubTypeOK' /\ Delivering'
      BY <2>2 DEF hubVars, queueVars, IInv, HubTypeOK, Delivering
    <3>2. Registry'
      BY <2>2, RegistryFrame DEF hubVars, queueVars, IInv
    <3> QED
      BY <3>1, <3>2 DEF IInv
  <2> QED
    BY <2>1, <2>2
<1>3. IInv => HubTypeOK /\ RegistryOpen /\ Served
  BY DEF IInv, Registry
<1> QED
  BY <1>1, <1>2, <1>3, PTL DEF HubSpec

---------------------------------------------------------------------------
(* The client.                                                             *)
LEMMA ClientStart ==
    ASSUME ClientInit
    PROVE  ClientTypeOK /\ Alive = {}
  <1>1. reconnectAttempts \in 0 .. MaxReconnects
    BY MaxReconnectsAssumption DEF ClientInit
  <1>2. sock \in [Sockets -> ReadyState]
    BY DEF ClientInit, ReadyState
  <1>3. Alive = {}
    BY DEF ClientInit, Alive
  <1> QED
    BY <1>1, <1>2, <1>3 DEF ClientInit, ClientTypeOK

\* A step of the documented interface, one disjunct each.
LEMMA ClientStepTyped ==
    ASSUME ClientTypeOK, ClientNext
    PROVE  ClientTypeOK'
  <1> USE DEF ClientTypeOK, ReadyState
  <1>1. CASE ConnectThrows
    BY <1>1, MaxReconnectsAssumption DEF ConnectThrows, OpenThrows
  <1>2. CASE Disconnect
    <2>1. sock' \in [Sockets -> ReadyState]
      <3>1. CASE ws = NoSocket
        BY <1>2, <3>1 DEF Disconnect
      <3>2. CASE ws # NoSocket
        BY <1>2, <3>2 DEF Disconnect
      <3> QED
        BY <3>1, <3>2
    <2>2. reconnectAttempts' \in 0 .. MaxReconnects
      BY <1>2, MaxReconnectsAssumption DEF Disconnect
    <2> QED
      BY <1>2, <2>1, <2>2 DEF Disconnect
  <1>3. CASE TimerFiresThrows
    BY <1>3, MaxReconnectsAssumption DEF TimerFiresThrows, OpenThrows
  <1>4. ASSUME NEW s \in Sockets, Connect(s) PROVE ClientTypeOK'
    BY <1>4 DEF Connect, OpenSocket
  <1>5. ASSUME NEW s \in Sockets, TimerFires(s) PROVE ClientTypeOK'
    BY <1>5 DEF TimerFires, OpenSocket
  <1>6. ASSUME NEW s \in Sockets, OnOpen(s) PROVE ClientTypeOK'
    BY <1>6, MaxReconnectsAssumption DEF OnOpen
  <1>7. ASSUME NEW s \in Sockets, OnOversized(s) PROVE ClientTypeOK'
    BY <1>7 DEF OnOversized
  <1>8. ASSUME NEW s \in Sockets, OnClose(s) PROVE ClientTypeOK'
    <2>1. sock' \in [Sockets -> ReadyState]
      BY <1>8 DEF OnClose
    <2>2. reconnectAttempts' \in 0 .. MaxReconnects /\ reconnectTimer' \in BOOLEAN
      <3>1. CASE shouldReconnect
        BY <1>8, <3>1, MaxReconnectsAssumption DEF OnClose, ScheduleReconnect
      <3>2. CASE ~shouldReconnect
        BY <1>8, <3>2 DEF OnClose, ScheduleReconnect
      <3> QED
        BY <3>1, <3>2
    <2> QED
      BY <1>8, <2>1, <2>2 DEF OnClose
  <1> QED
    BY <1>1, <1>2, <1>3, <1>4, <1>5, <1>6, <1>7, <1>8 DEF ClientNext

\* The socket the client holds is alive, and a client that lost its socket has
\* scheduled the retry: the close event is the only one that takes the socket from
\* a client that is to reconnect, and it schedules.
Stranding ==
    /\ ws # NoSocket => ws \in Alive
    /\ NeverStranded
    /\ ~used => Alive = {} /\ ~reconnectTimer

LEMMA StrandingStep ==
    ASSUME ClientTypeOK, Stranding, ClientNext
    PROVE  Stranding'
  <1> USE DEF ClientTypeOK, ReadyState, Stranding, NeverStranded, Alive
  <1>1. CASE ConnectThrows
    BY <1>1 DEF ConnectThrows, OpenThrows
  <1>2. CASE Disconnect
    <2>1. ws' = NoSocket /\ used' /\ ~shouldReconnect' /\ ~reconnectTimer'
      BY <1>2 DEF Disconnect
    <2> QED
      BY <2>1
  <1>3. CASE TimerFiresThrows
    BY <1>3 DEF TimerFiresThrows, OpenThrows
  <1>4. ASSUME NEW s \in Sockets, Connect(s) PROVE Stranding'
    BY <1>4, NoSocketAssumption DEF Connect, OpenSocket
  <1>5. ASSUME NEW s \in Sockets, TimerFires(s) PROVE Stranding'
    BY <1>5, NoSocketAssumption DEF TimerFires, OpenSocket
  <1>6. ASSUME NEW s \in Sockets, OnOpen(s) PROVE Stranding'
    BY <1>6 DEF OnOpen
  <1>7. ASSUME NEW s \in Sockets, OnOversized(s) PROVE Stranding'
    BY <1>7 DEF OnOversized
  <1>8. ASSUME NEW s \in Sockets, OnClose(s) PROVE Stranding'
    <2>1. used /\ ws' = NoSocket /\ used' = used /\ shouldReconnect' = shouldReconnect
      BY <1>8 DEF OnClose
    <2>2. shouldReconnect => reconnectTimer'
      BY <1>8 DEF OnClose, ScheduleReconnect
    <2> QED
      BY <2>1, <2>2
  <1> QED
    BY <1>1, <1>2, <1>3, <1>4, <1>5, <1>6, <1>7, <1>8 DEF ClientNext

\* However connect() and disconnect() are called and whenever the events of old
\* and new sockets arrive, a client that is to reconnect holds a live socket or
\* has scheduled the retry (websocket.js:43-62, 115-120, 176-202).
THEOREM ClientNeverStranded == ClientSpec => [](ClientTypeOK /\ NeverStranded)
<1> DEFINE Inv == ClientTypeOK /\ Stranding
<1>1. ClientInit => Inv
  BY ClientStart DEF ClientInit, Stranding, NeverStranded
<1>2. Inv /\ [ClientNext]_clientVars => Inv'
  <2> SUFFICES ASSUME Inv, [ClientNext]_clientVars PROVE Inv'
    OBVIOUS
  <2>1. CASE ClientNext
    BY <2>1, ClientStepTyped, StrandingStep
  <2>2. CASE UNCHANGED clientVars
    BY <2>2
    DEF clientVars, ClientTypeOK, Stranding, NeverStranded, Alive
  <2> QED
    BY <2>1, <2>2
<1>3. Inv => ClientTypeOK /\ NeverStranded
  BY DEF Stranding
<1> QED
  BY <1>1, <1>2, <1>3, PTL DEF ClientSpec

---------------------------------------------------------------------------
\* A step of a page is a step of the interface.
LEMMA PageStepIsClientStep == PageNext => ClientNext
  BY DEF PageNext, ClientNext

\* The pages never let go of a live socket, so every event comes from the socket
\* that the client holds.
Pages ==
    /\ OneSocket
    /\ Coherent
    /\ ~used => Alive = {} /\ ~reconnectTimer
    /\ ws # NoSocket => ws \in Alive

LEMMA PagesStep ==
    ASSUME ClientTypeOK, Pages, PageNext
    PROVE  Pages'
  <1> USE DEF ClientTypeOK, ReadyState, Pages, OneSocket, Coherent, Alive
  <1>1. ASSUME NEW s \in Sockets, ~used, Connect(s) PROVE Pages'
    BY <1>1, NoSocketAssumption DEF Connect, OpenSocket
  <1>2. ASSUME NEW s \in Sockets, TimerFires(s) PROVE Pages'
    BY <1>2, NoSocketAssumption DEF TimerFires, OpenSocket
  <1>3. ASSUME NEW s \in Sockets, OnOpen(s) PROVE Pages'
    BY <1>3, NoSocketAssumption DEF OnOpen
  <1>4. ASSUME NEW s \in Sockets, OnClose(s) PROVE Pages'
    BY <1>4, NoSocketAssumption DEF OnClose, ScheduleReconnect
  <1> QED
    BY <1>1, <1>2, <1>3, <1>4 DEF PageNext

\* A page has one live socket at most, the one its client holds, no retry while it
\* has one, and isConnected says whether it is open (websocket.js:37-50, 106-120).
THEOREM PagesOneSocket == PagesSpec => [](OneSocket /\ Coherent)
<1> DEFINE Inv == ClientTypeOK /\ Pages
<1>1. ClientInit => Inv
  BY ClientStart, NoSocketAssumption DEF ClientInit, Pages, OneSocket, Coherent
<1>2. Inv /\ [PageNext]_clientVars => Inv'
  <2> SUFFICES ASSUME Inv, [PageNext]_clientVars PROVE Inv'
    OBVIOUS
  <2>1. CASE PageNext
    BY <2>1, ClientStepTyped, PageStepIsClientStep, PagesStep
  <2>2. CASE UNCHANGED clientVars
    BY <2>2 DEF clientVars, ClientTypeOK, Pages, OneSocket, Coherent, Alive
  <2> QED
    BY <2>1, <2>2
<1>3. Inv => OneSocket /\ Coherent
  BY DEF Pages
<1> QED
  BY <1>1, <1>2, <1>3, PTL DEF PagesSpec

---------------------------------------------------------------------------
(* The feed from end to end.                                               *)

\* A step of the feed is a step of the page's client or leaves it alone ...
LEMMA FeedStepOfClient == FeedNext => [PageNext]_clientVars
  <1> SUFFICES ASSUME FeedNext PROVE [PageNext]_clientVars
    OBVIOUS
  <1>1. CASE \E s \in Sockets : \/ Mount(s) \/ Retry(s) \/ Opens(s) \/ Fails(s)
                               \/ Closes(s) \/ Receives(s) \/ Connection(s)
    <2>1. PICK s \in Sockets : \/ Mount(s) \/ Retry(s) \/ Opens(s) \/ Fails(s)
                               \/ Closes(s) \/ Receives(s) \/ Connection(s)
      BY <1>1
    <2>2. CASE Mount(s)
      BY <2>2 DEF Mount, PageNext
    <2>3. CASE Retry(s) \/ Opens(s) \/ Fails(s) \/ Closes(s)
      BY <2>3 DEF Retry, Opens, Fails, Closes, PageNext
    <2>4. CASE Receives(s) \/ Connection(s)
      BY <2>4 DEF Receives, Connection, HubLoop
    <2> QED
      BY <2>1, <2>2, <2>3, <2>4
  <1>2. CASE ~\E s \in Sockets : \/ Mount(s) \/ Retry(s) \/ Opens(s) \/ Fails(s)
                                \/ Closes(s) \/ Receives(s) \/ Connection(s)
    BY <1>2 DEF FeedNext, PollTick, Age, StatusTick, Loss, StopPanel, Panics, HubLoop
  <1> QED
    BY <1>1, <1>2

\* ... and a step of the hub or leaves it alone.
LEMMA FeedStepOfHub == FeedNext => [HubNext]_hubVars
  <1> SUFFICES ASSUME FeedNext PROVE [HubNext]_hubVars
    OBVIOUS
  <1>1. CASE \E s \in Sockets : \/ Mount(s) \/ Retry(s) \/ Opens(s) \/ Fails(s)
                               \/ Closes(s) \/ Receives(s) \/ Connection(s)
    <2>1. PICK s \in Sockets : \/ Mount(s) \/ Retry(s) \/ Opens(s) \/ Fails(s)
                               \/ Closes(s) \/ Receives(s) \/ Connection(s)
      BY <1>1
    <2>2. CASE Mount(s) \/ Retry(s) \/ Fails(s) \/ Closes(s)
      BY <2>2 DEF Mount, Retry, Fails, Closes
    <2>3. CASE Opens(s) \/ Receives(s) \/ Connection(s)
      BY <2>3, NamesAssumption DEF Opens, Receives, Connection, HubLoop, HubNext
    <2> QED
      BY <2>1, <2>2, <2>3
  <1>2. CASE PollTick \/ Age
    BY <1>2 DEF PollTick, Age
  <1>3. CASE StatusTick \/ Loss \/ StopPanel \/ Panics
    BY <1>3 DEF StatusTick, Loss, StopPanel, Panics, HubLoop, HubNext
  <1>4. CASE \/ HubLoop(TakeRegister) \/ HubLoop(TakeUnregister)
             \/ HubLoop(TakeBroadcast) \/ HubLoop(\E c \in Conns : FanoutSend(c))
             \/ HubLoop(FanoutEvict) \/ HubLoop(Shutdown)
             \/ HubLoop(Recover) \/ HubLoop(Restart)
    BY <1>4 DEF HubLoop, HubNext
  <1> QED
    BY <1>1, <1>2, <1>3, <1>4 DEF FeedNext

\* The feed from end to end uses the client as a page does and the hub as a hub
\* (index.html:1630-1676, controller/websocket.go:72-91).
THEOREM FeedImplementsParts == FeedSpec => PagesSpec /\ HubSpec
<1>1. FeedInit => ClientInit /\ HubInit
  BY DEF FeedInit
<1>2. [FeedNext]_feedVars => [PageNext]_clientVars /\ [HubNext]_hubVars
  BY FeedStepOfClient, FeedStepOfHub DEF feedVars
<1> QED
  BY <1>1, <1>2, PTL DEF FeedSpec, PagesSpec, HubSpec

LEMMA PagesAreClients == PagesSpec => ClientSpec
<1>1. [PageNext]_clientVars => [ClientNext]_clientVars
  BY PageStepIsClientStep
<1> QED
  BY <1>1, PTL DEF PagesSpec, ClientSpec

\* In the feed from end to end the page has one live socket and waits for a retry
\* whenever it has none, and the hub serves every connection it has taken.
THEOREM FeedSafe ==
    FeedSpec => [](OneSocket /\ Coherent /\ NeverStranded /\ RegistryOpen /\ Served)
  BY FeedImplementsParts, PagesAreClients, PagesOneSocket, ClientNeverStranded,
     HubServes, PTL

\* The page's own state.
PageTyped == stale \in BOOLEAN /\ pollers \in 0 .. MaxPollers

LEMMA PollersBound == ASSUME NEW n \in Nat PROVE AtMost(n) \in 0 .. MaxPollers
  BY MaxPollersAssumption DEF AtMost

LEMMA PollsTyped ==
  ASSUME PageTyped, NEW events, Polls(events), UNCHANGED stale
  PROVE  PageTyped'
<1> DEFINE n == (IF "error" \in events THEN 1 ELSE 0)
                  + IF reconnectAttempts >= MaxReconnects THEN 1 ELSE 0
<1>1. n \in Nat
  OBVIOUS
<1>2. pollers' = AtMost(pollers + n)
  BY DEF Polls
<1> HIDE DEF n
<1>3. pollers \in Nat
  BY MaxPollersAssumption DEF PageTyped
<1> QED
  BY <1>1, <1>2, <1>3, PollersBound DEF PageTyped

LEMMA PageStepTyped == PageTyped /\ [FeedNext]_feedVars => PageTyped'
  <1> SUFFICES ASSUME PageTyped, [FeedNext]_feedVars PROVE PageTyped'
    OBVIOUS
  <1>1. ASSUME UNCHANGED pageVars PROVE PageTyped'
    BY <1>1 DEF pageVars, PageTyped
  <1>2. CASE \E s \in Sockets : Fails(s) \/ Closes(s)
    BY <1>2, PollsTyped DEF Fails, Closes
  <1>3. CASE \E s \in Sockets : Mount(s) \/ Retry(s) \/ Opens(s) \/ Connection(s)
    BY <1>1, <1>3, Zenon DEF Mount, Retry, Opens, Connection, HubLoop
  <1>4. CASE \E s \in Sockets : Receives(s)
    BY <1>4 DEF Receives, PageTyped
  <1>5. CASE PollTick \/ Age
    <2>1. stale' \in BOOLEAN
      BY <1>5, Zenon DEF PollTick, Age, PageTyped
    <2>2. pollers' = pollers \/ (pollers > 0 /\ pollers' = pollers - 1)
      BY <1>5 DEF PollTick, Age
    <2>3. pollers' \in 0 .. MaxPollers
      BY <2>2, MaxPollersAssumption DEF PageTyped
    <2> QED
      BY <2>1, <2>3 DEF PageTyped
  <1>6. CASE \/ StatusTick \/ Loss \/ StopPanel \/ Panics
             \/ HubLoop(TakeRegister) \/ HubLoop(TakeUnregister) \/ HubLoop(TakeBroadcast)
             \/ HubLoop(\E c \in Conns : FanoutSend(c)) \/ HubLoop(FanoutEvict)
             \/ HubLoop(Shutdown) \/ HubLoop(Recover) \/ HubLoop(Restart)
    BY <1>1, <1>6, Zenon DEF StatusTick, Loss, StopPanel, Panics, HubLoop
  <1>7. CASE UNCHANGED feedVars
    BY <1>1, <1>7 DEF feedVars
  <1> QED
    BY <1>2, <1>3, <1>4, <1>5, <1>6, <1>7 DEF FeedNext

\* The client, the hub and the page together keep their types; the pollers that
\* failures start stay within the model's bound.
THEOREM FeedTyped == FeedSpec => []FeedTypeOK
<1>1. FeedInit => PageTyped
  <2> SUFFICES ASSUME FeedInit PROVE PageTyped
    OBVIOUS
  <2>1. stale \in BOOLEAN
    BY Zenon DEF FeedInit
  <2>2. pollers \in 0 .. MaxPollers
    BY MaxPollersAssumption DEF FeedInit
  <2> QED
    BY <2>1, <2>2 DEF PageTyped
<1>2. FeedSpec => []PageTyped
  BY <1>1, PageStepTyped, PTL DEF FeedSpec
<1>3. FeedSpec => [](ClientTypeOK /\ HubTypeOK)
  BY FeedImplementsParts, PagesAreClients, ClientNeverStranded, HubServes, PTL
<1>4. ClientTypeOK /\ HubTypeOK /\ PageTyped => FeedTypeOK
  BY DEF FeedTypeOK, PageTyped
<1> QED
  BY <1>2, <1>3, <1>4, PTL
===========================================================================
