---------------------------- MODULE MCCloudflared ----------------------------
(***************************************************************************)
(* Instances of CloudflaredManager for TLC.                                *)
(***************************************************************************)
EXTENDS CloudflaredManager

CONSTANTS t1, panel, none

MCTokens == {t1}
MCTargets == {panel}

\* Nothing set; a token in an egg variable; a mode without what it needs.
MCEnvs ==
  LET unset == [enable |-> "unset", mode |-> "unset", token |-> "unset", target |-> "unset"]
  IN {unset, [unset EXCEPT !.token = t1], [unset EXCEPT !.mode = "token", !.enable = "yes"]}

\* Off, a quick tunnel, a named tunnel; a mode unknown to the panel.
MCSettings ==
  LET off == [enable |-> FALSE, mode |-> "quick", token |-> none, target |-> none]
  IN {off, [off EXCEPT !.enable = TRUE], [off EXCEPT !.enable = TRUE, !.token = t1, !.mode = "other"]}

MCMayFail == {"apply"}
==============================================================================
