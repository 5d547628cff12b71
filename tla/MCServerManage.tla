--------------------------- MODULE MCServerManage ---------------------------
(***************************************************************************)
(* Instances of ServerManage.  Template 1 is the Manager's own; a Gateway  *)
(* template refers to the DataCenter template; the workers ask for a       *)
(* template by id or by type.                                              *)
(***************************************************************************)
EXTENDS ServerManage, TLC

CONSTANTS w1, w2, w3, c1, c2

Plain == [type |-> "Manager", refs |-> {}]
Data  == [type |-> "DataCenter", refs |-> {}]
Gate  == [type |-> "Gateway", refs |-> {2}]

MCConfigs == {Plain, Data, Gate}
EditConfigs == {Plain, Gate}

OneOfEach == 1 :> [replicas |-> 1, cfg |-> Plain]
          @@ 2 :> [replicas |-> 1, cfg |-> Data]
          @@ 3 :> [replicas |-> 1, cfg |-> Gate]
OnePlain == [OneOfEach EXCEPT ![2].cfg = Plain]
TwoData == [OneOfEach EXCEPT ![2].replicas = 2]

\* Two workers for the DataCenter template, one for any Gateway.
MCMode == [w \in Workers |-> IF w = w2 THEN "IncludeType" ELSE "AssignTemplate"]
MCTargets == [w \in Workers |->
    CASE w = w1 -> {2} [] w = w2 -> {"Gateway"} [] OTHER -> {2, 3}]
=============================================================================
