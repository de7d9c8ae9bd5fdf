--------------------------- MODULE MCSubmitGate ---------------------------
EXTENDS SubmitGate, TLC

CONSTANTS s1, s2, i1, i2, r1, r2, v1, v2, a, aIntent

\* Campaign ids "a" and "a.intent": the result of the second has the name of
\* the intent of the first.
MCIntentPath == (a :> "a.intent.json") @@ (aIntent :> "a.intent.intent.json")
MCResultPath == (a :> "a.json") @@ (aIntent :> "a.intent.json")
MCFreshIntent == (s1 :> i1) @@ (s2 :> i2)
MCFreshResult == (s1 :> r1) @@ (s2 :> r2)
MCPaths == {i1, i2, r1, r2} \cup {MCIntentPath[c] : c \in Campaigns}
                            \cup {MCResultPath[c] : c \in Campaigns}

\* Each configuration for one campaign, the default one for both.
MCRequests ==
  {r \in Request :
     \/ r.once /\ r.scan /\ r.upload
     \/ r.campaign = a /\ r.once /\ ~r.scan
     \/ r.campaign = a /\ ~r.once /\ r.scan /\ r.upload}

\* Submitters, with the names under their uuids, are interchangeable, and so
\* are the valid versions.
Symmetry ==
  {(s1 :> s2) @@ (s2 :> s1) @@ (i1 :> i2) @@ (i2 :> i1) @@ (r1 :> r2) @@ (r2 :> r1)}
    \cup Permutations({v1, v2})
=============================================================================
