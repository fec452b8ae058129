-------------------------- MODULE MCMtprotoSidecars --------------------------
(***************************************************************************)
(* Instances of MtprotoSidecars for TLC.                                   *)
(***************************************************************************)
EXTENDS MtprotoSidecars

MCHome == [c \in Clients |-> 1]

\* A quota of one unit, and a disabled client whose expiry renews.
MCForms == {[enable |-> TRUE, total |-> 1, expiry |-> 0, reset |-> 0],
            [enable |-> FALSE, total |-> 0, expiry |-> 2, reset |-> 1]}

\* One client, the other one to be added.
OneRow(row) == [c \in Clients |-> IF c = 1 THEN row ELSE None]

FreshRow == [enable |-> TRUE, used |-> 0, allTime |-> 0, total |-> 0,
             expiry |-> 0, reset |-> 0, secret |-> "d1"]

RenewingRow == OneRow([FreshRow EXCEPT !.expiry = 2, !.reset = 1])
QuotaRow == OneRow([FreshRow EXCEPT !.total = 1])
RenewedQuotaRow == OneRow([FreshRow EXCEPT !.total = 1, !.expiry = 2, !.reset = 1])

AllRequests == Requests
==============================================================================
