---------------------------- MODULE MCProvenance ----------------------------
(* Small instances of Provenance: records of two contributors.             *)
EXTENDS Provenance, TLC

CONSTANTS
    first, next, later, rival, reused, hmacOnly, unkeyed, altered, unsigned, old,
    s1, w1, w2, k1, k2, m1, m2, n1, n2, n3, n4, n5

(* A record of the stream of k1, signed with the key of k1.                *)
Signed(nonce, seq) ==
    [nonce |-> nonce, session |-> s1, key |-> k1, seq |-> seq, ts |-> 1, schema |-> "1.0",
     signature |-> m1, hmac |-> Absent]

Fields ==
    (first :> Signed(n1, 0))                            \* opens the stream
    @@ (next :> Signed(n2, 1))
    @@ (later :> Signed(n3, 2))
    @@ (rival :> Signed(n4, 2))                         \* the number of later again
    @@ (reused :> Signed(n1, 1))                        \* the nonce of first again
    @@ (hmacOnly :> [Signed(n5, 2) EXCEPT               \* the other contributor
                       !.key = k2, !.signature = Absent, !.hmac = m2])
    @@ (unkeyed :> [Signed(n5, 1) EXCEPT !.key = k2])   \* signed, but k2 has no public key
    @@ (altered :> [Signed(n4, 2) EXCEPT !.signature = m2])
    @@ (unsigned :> [Signed(n2, 1) EXCEPT !.key = Absent, !.signature = Absent])
    @@ (old :> [Signed(n2, 1) EXCEPT !.schema = "other"])

FieldsOfRecord == [r \in Record |-> Fields[r]]

(* k1 holds a public key, k2 an HMAC secret.                               *)
Public == (k1 :> m1) @@ (k2 :> Absent)
Secret == (k1 :> Absent) @@ (k2 :> m2)

Workers == Permutations({w1, w2})

(* later and rival differ in their nonces only, and no other record of the *)
(* first instance has one of these.                                        *)
Rivals == { later :> x @@ rival :> y @@ n3 :> Content[x].nonce @@ n4 :> Content[y].nonce :
              << x, y >> \in { << later, rival >>, << rival, later >> } }
Alike == { f @@ g : f \in Workers, g \in Rivals }

NoMismatch == { {} }
ModelMismatch == { {}, {"model"} }

=============================================================================
