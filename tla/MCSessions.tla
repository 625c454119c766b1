----------------------------- MODULE MCSessions -----------------------------
(* Sessions on small instances. *)
EXTENDS Sessions, TLC

CONSTANTS i1, i2, canonical, variant, foreign, alias

Symmetric == Permutations({i1, i2})

\* sanitize cuts and trims: "lab-" is a legal request and becomes "lab", and two
\* names of more than 48 characters may become one.
SanitizeCollides == [n \in Names |-> IF n = variant THEN canonical
                                    ELSE IF n = alias THEN foreign ELSE n]

OneForeign == {foreign}
NoForeign == {}
AllPoints == Points
AllFailures == FailureKinds

\* Crashes that leave no directory without a record and no record without a
\* topology file behind.
SafePoints == Points \ {"record", "files", "delete"}

\* Failures that Scavenge can make good later.
Recoverable == {"validate", "deploy", "proof", "destroy", "save"}
NoFailures == {}

\* Between Mkdir and the rename of session.json.
HalfCreated == {"record"}
FileFailures == {"files"}
=============================================================================
