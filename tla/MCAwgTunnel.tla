------------------------------ MODULE MCAwgTunnel ------------------------------
(***************************************************************************)
(* Instances of AwgTunnel for TLC.                                         *)
(***************************************************************************)
EXTENDS AwgTunnel

MCDefaultParams == [bounced |-> "plain", link |-> "first"]

\* Another link alone, and with an obfuscation that takes a bounce.
MCParams == {MCDefaultParams, [MCDefaultParams EXCEPT !.link = "second"],
             [bounced |-> "obfuscated", link |-> "second"]}

OneParams == {MCDefaultParams}

\* Disabled with a quota, renewing, starting with its first traffic.
MCForms == {[enable |-> FALSE, total |-> 1, expiry |-> 0, reset |-> 0],
            [enable |-> TRUE, total |-> 0, expiry |-> -1, reset |-> 0]}

FreshRow == [enable |-> TRUE, total |-> 0, expiry |-> 0, reset |-> 0,
             used |-> 0, allTime |-> 0, last |-> 0]

\* No client yet, or one that renews.
MCFirstTables == {[c \in Clients |-> r] :
                    r \in {None, [FreshRow EXCEPT !.total = 1, !.expiry = 2, !.reset = 1]}}

\* All but the form of a client, which zeroes the baseline.
BaselineKept == Requests \ {"UpdateClient"}

FormOnly == {"UpdateClient"}
===============================================================================
