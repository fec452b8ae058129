---------------------------- MODULE InboundsPage ----------------------------
(***************************************************************************)
(* The inbounds page of one administrator (web/html/inbounds.html) while   *)
(* another one edits: what the controller broadcasts after an edit, what   *)
(* the hub lets through (web/websocket/hub.go), and what the page makes of *)
(* it.  The feed is up all the time (PanelFeed has the connection) and     *)
(* hands messages over in order.  The page's auto-refresh is off, as it is *)
(* until the administrator switches it on.                                 *)
(***************************************************************************)
EXTENDS Naturals, Sequences

CONSTANTS MaxEdits,    \* bound of the model on the edits
          Large        \* more clients than broadcastInboundsUpdateClientLimit?

VARIABLES version,     \* edits committed to the database
          feed,        \* messages on their way to the page
          recent,      \* was a list broadcast less than minBroadcastInterval ago?
          enriching,   \* lists whose asynchronous handlers have not finished
          shown        \* the edits the page shows

vars == <<version, feed, recent, enriching, shown>>

Lists == [type : {"inbounds"}, version : 0 .. MaxEdits]
Messages == Lists \cup {[type |-> "invalidate"]}

TypeOK ==
    /\ version \in 0 .. MaxEdits
    /\ feed \in Seq(Messages)
    /\ recent \in BOOLEAN
    /\ enriching \subseteq 0 .. MaxEdits
    /\ shown \in 0 .. MaxEdits

Init ==
    /\ version = 0 /\ feed = <<>> /\ recent = FALSE
    /\ enriching = {} /\ shown = 0

Invalidate == feed' = Append(feed, [type |-> "invalidate"]) /\ UNCHANGED recent

\* broadcastInboundsUpdate: the list, unless it is long; the hub drops the list of
\* an edit that follows another one too closely.
BroadcastList ==
    IF recent THEN UNCHANGED <<feed, recent>>
    ELSE /\ feed' = Append(feed, [type |-> "inbounds", version |-> version'])
         /\ recent' = TRUE

BroadcastUpdate == IF Large THEN Invalidate ELSE BroadcastList

Commit == version < MaxEdits /\ version' = version + 1

\* Adding, changing or deleting an inbound or a client.
Edit == Commit /\ BroadcastUpdate /\ UNCHANGED <<enriching, shown>>

\* setInboundEnable: "Other open sessions re-fetch via REST".
Toggle == Commit /\ Invalidate /\ UNCHANGED <<enriching, shown>>

IntervalEnds ==
    /\ recent
    /\ recent' = FALSE
    /\ UNCHANGED <<version, feed, enriching, shown>>

\* The page listens for "inbounds" only.  Its handler waits for three answers of
\* the panel before it shows the list it was given.
Receive ==
    /\ feed # <<>>
    /\ feed' = Tail(feed)
    /\ enriching' = IF Head(feed).type = "inbounds"
                      THEN enriching \cup {Head(feed).version}
                      ELSE enriching
    /\ UNCHANGED <<version, recent, shown>>

SetInbounds(v) ==
    /\ v \in enriching
    /\ enriching' = enriching \ {v}
    /\ shown' = v
    /\ UNCHANGED <<version, feed, recent>>

Show == \E v \in enriching : SetInbounds(v)

Next == Edit \/ Toggle \/ IntervalEnds \/ Receive \/ Show

Spec == Init /\ [][Next]_vars /\ WF_vars(IntervalEnds) /\ WF_vars(Receive) /\ WF_vars(Show)

\* What the hub and the controller say of an edit: the page of every other session
\* comes to show it, from the list or by fetching it when it is told to
\* (hub.go:25-31, controller/inbound.go:34-37, 245-249).
SeesEdits == <>[](shown = version)
===========================================================================
