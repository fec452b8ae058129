------------------------- MODULE WebSocketClient -------------------------
(***************************************************************************)
(* The browser's end of the live feed (web/assets/js/websocket.js): one    *)
(* object per page, window.wsClient, over the sockets it opens.  A browser *)
(* task (an event handler, a timer, a call of the page) runs to its end    *)
(* before the next, so each is one action.  What the handlers of the page  *)
(* do when an event is emitted is in PanelFeed.                            *)
(***************************************************************************)
EXTENDS Naturals, FiniteSets

CONSTANTS Sockets,       \* the sockets of the browser; a closed one is used again
          NoSocket,      \* this.ws === null
          MaxReconnects  \* maxReconnectAttempts

ASSUME NoSocketAssumption == NoSocket \notin Sockets
ASSUME MaxReconnectsAssumption == MaxReconnects \in Nat

VARIABLES sock,              \* readyState of each socket
          ws,                \* this.ws
          isConnected,
          shouldReconnect,
          reconnectAttempts,
          reconnectTimer,    \* is a retry pending?
          used               \* has the page called connect() yet?

clientVars == <<sock, ws, isConnected, shouldReconnect, reconnectAttempts,
                reconnectTimer, used>>

ReadyState == {"connecting", "open", "closing", "closed"}

ClientTypeOK ==
    /\ sock \in [Sockets -> ReadyState]
    /\ ws \in Sockets \cup {NoSocket}
    /\ isConnected \in BOOLEAN
    /\ shouldReconnect \in BOOLEAN
    /\ reconnectAttempts \in 0 .. MaxReconnects
    /\ reconnectTimer \in BOOLEAN
    /\ used \in BOOLEAN

ClientInit ==
    /\ sock = [s \in Sockets |-> "closed"]
    /\ ws = NoSocket
    /\ isConnected = FALSE
    /\ shouldReconnect = TRUE
    /\ reconnectAttempts = 0
    /\ reconnectTimer = FALSE
    /\ used = FALSE

Alive == {s \in Sockets : sock[s] # "closed"}

---------------------------------------------------------------------------
\* A bug: the attempts are counted on without end.
ScheduleReconnectUncapped ==
    IF shouldReconnect
      THEN reconnectTimer' = TRUE /\ reconnectAttempts' = reconnectAttempts + 1
      ELSE UNCHANGED <<reconnectTimer, reconnectAttempts>>

\* A bug: a connection that was lost is not tried again.
ScheduleReconnectNever == UNCHANGED <<reconnectTimer, reconnectAttempts>>

\* #scheduleReconnect: counts the attempt up to the maximum, replaces a pending
\* retry.  The length of the delay is left out.
ScheduleReconnect ==
    IF shouldReconnect
      THEN /\ reconnectTimer' = TRUE
           /\ reconnectAttempts' = IF reconnectAttempts < MaxReconnects
                                     THEN reconnectAttempts + 1
                                     ELSE reconnectAttempts
      ELSE UNCHANGED <<reconnectTimer, reconnectAttempts>>

\* #openSocket: the constructor returns a socket that is connecting ...
OpenSocket(s) ==
    /\ sock[s] = "closed"
    /\ sock' = [sock EXCEPT ![s] = "connecting"]
    /\ ws' = s
    /\ UNCHANGED <<isConnected, reconnectAttempts>>

\* ... or throws, which is a failed attempt.
OpenThrows ==
    /\ reconnectAttempts' = IF reconnectAttempts < MaxReconnects
                              THEN reconnectAttempts + 1
                              ELSE reconnectAttempts
    /\ UNCHANGED <<sock, ws, isConnected>>

\* connect()
AlreadyConnected == ws # NoSocket /\ sock[ws] \in {"open", "connecting"}

Connect(s) ==
    /\ ~AlreadyConnected
    /\ shouldReconnect' = TRUE
    /\ used' = TRUE
    /\ OpenSocket(s)
    /\ reconnectTimer' = FALSE

ConnectThrows ==
    /\ ~AlreadyConnected
    /\ shouldReconnect' = TRUE
    /\ used' = TRUE
    /\ OpenThrows
    /\ reconnectTimer' = TRUE

\* disconnect(): the page lets go of the socket, whose close event comes later.
Disconnect ==
    /\ used
    /\ shouldReconnect' = FALSE
    /\ reconnectTimer' = FALSE
    /\ reconnectAttempts' = 0
    /\ sock' = IF ws # NoSocket THEN [sock EXCEPT ![ws] = "closing"] ELSE sock
    /\ ws' = NoSocket
    /\ isConnected' = FALSE
    /\ UNCHANGED used

\* A bug: the timer is an interval.
TimerFiresAgain(s) ==
    /\ reconnectTimer
    /\ OpenSocket(s)
    /\ UNCHANGED <<shouldReconnect, reconnectTimer, used>>

\* The callback of the retry timer.
TimerFires(s) ==
    /\ reconnectTimer
    /\ reconnectTimer' = FALSE
    /\ OpenSocket(s)
    /\ UNCHANGED <<shouldReconnect, used>>

TimerFiresThrows ==
    /\ reconnectTimer
    /\ OpenThrows
    /\ UNCHANGED <<shouldReconnect, reconnectTimer, used>>

\* The open event of socket s: the handler speaks of the client, not of s.
OnOpen(s) ==
    /\ sock[s] = "connecting"
    /\ sock' = [sock EXCEPT ![s] = "open"]
    /\ isConnected' = TRUE
    /\ reconnectAttempts' = 0
    /\ UNCHANGED <<ws, shouldReconnect, reconnectTimer, used>>

\* A message above the payload limit on socket s: the client closes this.ws,
\* whichever socket the message came by.
OnOversized(s) ==
    /\ sock[s] = "open"
    /\ ws # NoSocket
    /\ sock' = [sock EXCEPT ![ws] = "closing"]
    /\ UNCHANGED <<ws, isConnected, shouldReconnect, reconnectAttempts,
                   reconnectTimer, used>>

\* The close event of socket s (a failed one has had its error event in the same
\* task): the handler drops this.ws, whichever socket closed, and schedules.
OnClose(s) ==
    /\ sock[s] # "closed"
    /\ sock' = [sock EXCEPT ![s] = "closed"]
    /\ isConnected' = FALSE
    /\ ws' = NoSocket
    /\ ScheduleReconnect
    /\ UNCHANGED <<shouldReconnect, used>>

---------------------------------------------------------------------------
\* Any use of the documented interface.
ClientNext ==
    \/ ConnectThrows
    \/ Disconnect
    \/ TimerFiresThrows
    \/ \E s \in Sockets : \/ Connect(s)
                          \/ TimerFires(s)
                          \/ OnOpen(s)
                          \/ OnOversized(s)
                          \/ OnClose(s)

ClientSpec == ClientInit /\ [][ClientNext]_clientVars

\* The use the panel's pages make of it: connect() once, when the page is
\* mounted, and never disconnect().  Their URL is of their own origin, so the
\* constructor does not throw, and the hub sends nothing above the limit.
PageNext ==
    \/ \E s \in Sockets : ~used /\ Connect(s)
    \/ \E s \in Sockets : TimerFires(s) \/ OnOpen(s) \/ OnClose(s)

PagesSpec == ClientInit /\ [][PageNext]_clientVars

---------------------------------------------------------------------------
\* However the interface is used, a client that is to reconnect has a socket
\* whose close event will schedule the retry, or a retry that is scheduled: no
\* order of connect(), disconnect(), old and new close events leaves the page
\* waiting for nothing (websocket.js:115-120, 176-202).
NeverStranded ==
    used /\ shouldReconnect =>
        reconnectTimer \/ (ws # NoSocket /\ ws \in Alive)

\* The pages have one live socket at most, and it is the one the client holds;
\* a retry is pending only when there is none, so that no message is shown
\* twice (websocket.js:37-42).
OneSocket ==
    /\ \A s \in Alive : s = ws
    /\ reconnectTimer => Alive = {}

\* isConnected, which the pages' pollers stop on, is true exactly when the
\* socket the client holds is open.
Coherent == isConnected <=> \E s \in Sockets : ws = s /\ sock[s] = "open"
===========================================================================
