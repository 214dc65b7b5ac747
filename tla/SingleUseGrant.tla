---------------------------- MODULE SingleUseGrant ----------------------------
(***************************************************************************)
(* What an approval promises (docs/approval-capable-hosts.md, "at-most-    *)
(* once forwarding per grant"): a request is asked for, a person grants or *)
(* withdraws it, a grant is spent once, and only a spent grant performs    *)
(* its effect, once.  Crashes show as grants spent and never performed.    *)
(***************************************************************************)
EXTENDS Naturals

CONSTANTS Grants

VARIABLES
  status,     \* of each grant
  performed   \* how often its effect was sent out

gvars == <<status, performed>>

GInit ==
  /\ status = [g \in Grants |-> "none"]
  /\ performed = [g \in Grants |-> 0]

Become(g, from, to) ==
  /\ status[g] \in from
  /\ status' = [status EXCEPT ![g] = to]
  /\ UNCHANGED performed

Ask(g)      == Become(g, {"none"}, "asked")
Grant(g)    == Become(g, {"asked"}, "granted")
Withdraw(g) == Become(g, {"asked", "granted"}, "withdrawn")
Spend(g)    == Become(g, {"granted"}, "spent")

Perform(g) ==
  /\ status[g] = "spent"
  /\ performed[g] = 0
  /\ performed' = [performed EXCEPT ![g] = 1]
  /\ UNCHANGED status

GNext ==
  \E g \in Grants :
    Ask(g) \/ Grant(g) \/ Withdraw(g) \/ Spend(g) \/ Perform(g)

GSpec == GInit /\ [][GNext]_gvars
=============================================================================
