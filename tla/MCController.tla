------------------------------ MODULE MCController ------------------------------
(***************************************************************************)
(* Small instances of the controller and its plugin for TLC.               *)
(***************************************************************************)
EXTENDS ReadinessPlugin

\* continuous rule: condition c1 must be True, taint t1, on nodes labelled l1
Continuous == [mode |-> "continuous", req |-> [c \in {"c1"} |-> "True"],
               taint |-> "t1", sel |-> {"l1"}]
Bootstrap == [Continuous EXCEPT !.mode = "bootstrap-only"]
\* the same rule recreated for other nodes
Moved == [Continuous EXCEPT !.sel = {"l2"}]
\* a second rule, of the other mode, with a taint of its own
Second == [Bootstrap EXCEPT !.taint = "t2"]

MCContinuous == {Continuous}
MCBootstrap == {Bootstrap}
MCMoved == {Continuous, Moved}
MCTwo == {Continuous, Second}

NodeWith(s, ts) == [exists |-> TRUE, conds |-> [c \in Conds |-> s], label |-> "l1",
                    taints |-> ts, completed |-> {}]

\* one kind of node: no condition reported, no taint
MCNewNodes == {[n \in Nodes |-> NodeWith("Missing", {})]}
\* nodes that are ready or not, registered with the taint or not
MCAnyNodes == [Nodes -> {NodeWith(s, ts) : s \in {"True", "False"}, ts \in {{}, {"t1"}}}]

\* a ready node that registered with the taint
MCTaintedNodes == {[n \in Nodes |-> NodeWith("True", {"t1"})]}

\* a ready node that registered with the second rule's taint and a foreign one
MCForeignNodes == {[n \in Nodes |-> NodeWith("True", {"t2", "f"})]}

MCNoRules == {[r \in Rules |-> NoRule]}
MCOneRule == {[r \in Rules |-> FreshRule(Continuous, FALSE)]}
MCBootRule == {[r \in Rules |-> FreshRule(Bootstrap, FALSE)]}
MCTwoRules == {[r \in Rules |-> FreshRule(IF r = "r1" THEN Continuous ELSE Second, FALSE)]}
===============================================================================
