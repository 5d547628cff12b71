----------------------------- MODULE MCGateway -----------------------------
(* An instance of Gateway for TLC: a node, one of another template that     *)
(* takes its address when it has died, one that provides every function,    *)
(* and one elsewhere that does not provide the function asked for.          *)
EXTENDS Gateway

MCNodes == {"n1", "n2", "n3", "n4"}
MCTemplates == {"one", "other", "all"}
MCAddresses == {"a", "b", "c"}
MCTemplateOf ==
    [n \in MCNodes |-> CASE n = "n1" -> "one" [] n = "n3" -> "all" [] OTHER -> "other"]
MCAddr == [n \in MCNodes |-> CASE n = "n3" -> "b" [] n = "n4" -> "c" [] OTHER -> "a"]
MCProvides ==
    [t \in MCTemplates |-> CASE t = "one" -> {"f"} [] t = "all" -> {"*"} [] OTHER -> {"g"}]
MCBefore == {{"n3", "n4"}, {"n1", "n3", "n4"}}
MCFunctionOf == [r \in Requests |-> "f"]
=============================================================================
