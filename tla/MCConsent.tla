----------------------------- MODULE MCConsent -----------------------------
(***************************************************************************)
(* One parent with one or two purchases; consent and revocation logged.    *)
(***************************************************************************)
EXTENDS Consent

ConsentEvents == {Obtained, Revoked}
=============================================================================
