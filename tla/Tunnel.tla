-------------------------------- MODULE Tunnel --------------------------------
(***************************************************************************)
(* What the panel is promised by the cloudflared manager: it keeps at most *)
(* one tunnel, the one it was last told to keep, and puts back a tunnel    *)
(* that dropped, for as long as it is kept.                                *)
(***************************************************************************)
CONSTANTS Configs, None

VARIABLES kept, up     \* the configuration undertaken, whether it is served now

Init == kept = None /\ up = FALSE

\* Nothing is kept any more; a launch that failed is not undertaken.
Release == kept' = None /\ up' = FALSE

\* Another tunnel replaces the one that was kept.
Keep(c) == kept' = c /\ up' = TRUE

Drop == up /\ up' = FALSE /\ UNCHANGED kept

PutBack == kept # None /\ ~up /\ up' = TRUE /\ UNCHANGED kept

Next == Release \/ (\E c \in Configs : Keep(c)) \/ Drop \/ PutBack

SafeSpec == Init /\ [][Next]_<<kept, up>>

Spec == SafeSpec /\ WF_<<kept, up>>(PutBack)
===============================================================================
