---------------------------- MODULE MCBatchList ----------------------------
(***************************************************************************)
(* Limits and files for the run of BatchList: of two configurations each   *)
(* allows a file that the other refuses, and the environment of a pod, if  *)
(* it sets both limits, mixes them; two headers mean the same field and    *)
(* one means none; one revision has a mandatory rule for every field, the  *)
(* other none at all.                                                      *)
(***************************************************************************)
EXTENDS BatchList

MCConfigurations == {[size |-> 1, rows |-> 2], [size |-> 2, rows |-> 1]}

MCAliases == [f \in Fields |-> IF f = "DAC" THEN {"first_name", "dac"} ELSE {"dob"}]

MCEnvironments == {[size |-> {}, rows |-> {}], [size |-> {1}, rows |-> {2}]}

MCRule(texts) == [required |-> TRUE, fitting |-> texts]

MCRules ==
    [v \in Revisions |->
        IF v = "US_CA_08292017"
        THEN [f \in Fields |-> MCRule(IF f = "DAC" THEN {"x", "y"} ELSE {"y"})]
        ELSE [f \in {} |-> MCRule({})]]
=============================================================================
