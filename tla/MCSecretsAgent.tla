--------------------------- MODULE MCSecretsAgent ---------------------------
(* Two agents, four strings of which the rules flag one and three fit a     *)
(* page, batches of two; the model's answers are no list, name an index     *)
(* that is not in the batch, are unsure, are no numbers, or name one string *)
(* twice                                                                    *)
EXTENDS SecretsAgent

CONSTANTS s1, s2, s3, s4

MCTexts == <<s1, s2, s3, s4>>

Item(index, predicate, confidence) ==
    [index |-> index, predicate |-> predicate, confidence |-> confidence]

Secret == "contains_hardcoded_secret"
Strange == "suspicious_string"

MCRules == [s \in ToSet(MCTexts) |-> IF s = s2 THEN {Strange} ELSE {}]

MCResponses ==
    {Garbage,
     <<Item(2, Secret, 90), Item(1, Secret, 70)>>,
     <<Item(0, Secret, 20), Odd, Item(1, Strange, NaN)>>,
     <<Item(-1, Secret, 90), Item(0, Secret, 120), Item(0, Strange, 60)>>}
=============================================================================
