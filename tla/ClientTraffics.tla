--------------------------- MODULE ClientTraffics ---------------------------
(***************************************************************************)
(* The rows of table client_traffics, the client entries of an inbound's   *)
(* settings JSON, and the rules by which AddTraffic (web/service/          *)
(* inbound.go) bills, renews and disables them.  Everything here is a      *)
(* constant-level operator: a table is a function from keys to rows or     *)
(* None, and an operator maps a table to the table that the corresponding  *)
(* SQL statement or Go loop leaves behind.                                 *)
(*                                                                         *)
(* Time is counted in days.  up + down is one number, used: the code only  *)
(* ever reads the sum.                                                     *)
(***************************************************************************)
EXTENDS Integers, FiniteSets

\* A row of client_traffics (xray.ClientTraffic).  expiry = 0 is "never";
\* expiry < 0 is "-expiry days after the first use".
Row == [enable: BOOLEAN, used: Nat, allTime: Nat, expiry: Int, total: Nat, reset: Nat]

\* What an administrator chooses for a client; the element of settings.clients.
Entry == [enable: BOOLEAN, expiry: Int, total: Nat, reset: Nat]

CONSTANT None    \* no row, no entry
ASSUME NoneAssumption == None \notin Row /\ None \notin Entry

Keys(f) == {x \in DOMAIN f : f[x] # None}

-----------------------------------------------------------------------------
(* The WHERE clauses.                                                      *)

Due(r, now)       == r.expiry > 0 /\ r.expiry <= now
Exhausted(r)      == r.total > 0 /\ r.used >= r.total
Depleted(r, now)  == Exhausted(r) \/ Due(r, now)
Renewable(r, now) == r.reset > 0 /\ Due(r, now)

\* (Mutant: without the expiry.)
ExhaustedIn(stats, now) == {e \in Keys(stats) : stats[e].enable /\ Exhausted(stats[e])}
DepletedIn(stats, now)  == {e \in Keys(stats) : stats[e].enable /\ Depleted(stats[e], now)}
RenewableIn(stats, now) == {e \in Keys(stats) : Renewable(stats[e], now)}

-----------------------------------------------------------------------------
(* AddClientStat, UpdateClientStat and the resets.                         *)

NewRow(c) == [enable |-> c.enable, used |-> 0, allTime |-> 0,
              expiry |-> c.expiry, total |-> c.total, reset |-> c.reset]

UpdatedRow(r, c) == [r EXCEPT !.enable = c.enable, !.expiry = c.expiry,
                              !.total = c.total, !.reset = c.reset]

\* (Mutant: a reset moves the traffic it forgets to the all-time counter.)
ResetRowMoving(r) == [r EXCEPT !.enable = TRUE, !.used = 0, !.allTime = @ + r.used]

ResetRow(r) == [r EXCEPT !.enable = TRUE, !.used = 0]

-----------------------------------------------------------------------------
(* The steps of AddTraffic on client_traffics, in the order in which the   *)
(* function takes them.                                                    *)

\* adjustTraffics: the first report on a client whose expiry is relative
\* makes it absolute, counting from the (negative) expiry of its settings
\* entry; the row copies it.
StartsClock(r)  == r.expiry < 0
Started(c, now) == now - c.expiry

\* addClientTraffic: d is the traffic Xray reported for the client.
Billed(r, d) == [r EXCEPT !.used = @ + d, !.allTime = @ + d]

\* autoRenewClients: "for newExpiryTime < now { newExpiryTime += reset }".
NextExpiry(expiry, step, now) ==
    expiry + step * ((now - expiry + step - 1) \div step)

RenewedRow(r, now) == [r EXCEPT !.enable = TRUE, !.used = 0,
                                !.expiry = NextExpiry(@, r.reset, now)]

AfterRenewal(stats, E, now) ==
    [e \in DOMAIN stats |-> IF e \in E THEN RenewedRow(stats[e], now) ELSE stats[e]]

\* disableInvalidClients.
AfterDisable(stats, now) ==
    [e \in DOMAIN stats |->
        IF e \in DepletedIn(stats, now) THEN [stats[e] EXCEPT !.enable = FALSE] ELSE stats[e]]
=============================================================================
