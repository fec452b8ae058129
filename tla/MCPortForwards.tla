---------------------------- MODULE MCPortForwards ----------------------------
(***************************************************************************)
(* Instances of PortForwards for TLC.                                      *)
(***************************************************************************)
EXTENDS PortForwards, TLC

\* With a quota, without one and switched off, with no port forwarded.
MCForms == {[enable |-> TRUE, ports |-> "443", limits |-> TRUE],
            [enable |-> FALSE, ports |-> "443", limits |-> FALSE],
            [enable |-> TRUE, ports |-> None, limits |-> TRUE]}

Alike == Permutations(Clients) \cup Permutations(Exts)
===============================================================================
