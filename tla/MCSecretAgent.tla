-------------------------- MODULE MCSecretAgent --------------------------
\* Two calls for one key and a third for another key.
EXTENDS SecretAgent, TLC

CONSTANTS c1, c2, c3, k1, k2

SharedKey == (c1 :> k1) @@ (c2 :> k1) @@ (c3 :> k2)
TwoCalls  == (c1 :> k1) @@ (c2 :> k1)

CallSymmetry == Permutations({c1, c2})

=============================================================================
