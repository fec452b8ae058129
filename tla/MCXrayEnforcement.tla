-------------------------- MODULE MCXrayEnforcement -------------------------
(***************************************************************************)
(* Values for the constants of XrayEnforcement, and the environments in    *)
(* which the runs look at it.                                              *)
(***************************************************************************)
EXTENDS XrayEnforcement

CONSTANTS i1, e1, e2, a1, a2

OneInbound == {i1}
OneClient  == {e1}
TwoClients == {e1, e2}
OneAdmin   == {a1}

AllAtOne   == [e \in Emails |-> i1]
UserKind   == [i \in OneInbound |-> "user"]

Client(on, expiry, total, reset) ==
    [enable |-> on, expiry |-> expiry, total |-> total, reset |-> reset]
Inbound(total, clients) ==
    [enable |-> TRUE, used |-> 0, total |-> total, expiry |-> 0, clients |-> clients]
Form(on) == [enable |-> on, total |-> 0, expiry |-> 0]

Free     == Client(TRUE, 0, 0, 0)
Off      == Client(FALSE, 0, 0, 0)
Limited  == Client(TRUE, 2, 1, 0)     \* one unit, until day 2
Renewing == Client(TRUE, 2, 1, 2)     \* renewed every two days
OnUse    == Client(TRUE, -1, 0, 0)    \* one day from the first use

Frozen    == {}
UntilDay2 == {2}
OddDays   == {3, 5}       \* nothing happens at the very instant of an expiry

\* What the database holds at the start.
FirstOf(total, a, b) ==
    [i \in OneInbound |-> Inbound(total, [e \in Emails |-> IF e = e1 THEN a ELSE b])]
RenewingAndOnUse == FirstOf(0, Renewing, OnUse)
MeteredInbound == FirstOf(1, Free, None)
LimitedAlone   == FirstOf(0, Limited, None)
RenewingAlone  == FirstOf(0, Renewing, None)

\* What administrators ask for.
ClientRequests  == {"AddClient", "UpdateClient", "DelClient", "ResetClient", "ResetByEmail"}
InboundRequests == {"AddInbound", "DelInbound", "SetInboundEnable", "UpdateInbound",
                    "ResetAll", "Periodic", "ResetByEmail", "Restart"}
AllButStop == ClientRequests \cup InboundRequests
ButtonsAndReset == {"ResetClient", "Restart", "Stop"}
SteadyRequests  == Requests \ {"AddInbound"}
NoRequests      == {}
NoForms         == {}
NoEntries       == {}
OnAndOff        == {Form(TRUE), Form(FALSE)}
JustOff         == {Form(FALSE)}
LimitedOrOff    == {Limited, Off}
JustFree        == {Free}

=============================================================================
