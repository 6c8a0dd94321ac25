----------------------------- MODULE MCSettings -----------------------------
EXTENDS Settings, TLC

MCKeyName == [k \in ApiKeys |-> IF k = "c" THEN "n2" ELSE "n1"]
=============================================================================
