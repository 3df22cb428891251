--------------------------- MODULE MCRunAdmission ---------------------------
(***************************************************************************)
(* Instances of RunAdmissionProps for TLC.                                 *)
(***************************************************************************)
EXTENDS RunAdmissionProps, TLC

CONSTANTS h1, h2, h3, p1, p2

Post(analyst, issuer, key, body) ==
  [analyst |-> analyst, issuer |-> issuer, key |-> key, body |-> body]

\* A key used for two bodies and two issuers, and by two analysts; a request
\* without a key for a third issuer.
Mixed == {Post("ann", "acme", "k", "b1"), Post("ann", "acme", "k", "b2"),
          Post("ann", "bolt", "k", "b1"), Post("bob", "acme", "k", "b1"),
          Post("ann", "core", NoKey, "b1")}

TwoProcesses == h1 :> p1 @@ h2 :> p1 @@ h3 :> p2
=============================================================================
