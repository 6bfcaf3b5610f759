------------------------------ MODULE MCConsent -----------------------------
(***************************************************************************)
(* Two requests, one or two approval codes and two racing callers: enough  *)
(* for a code to be reused, for two verdicts to race on one request and    *)
(* for a signature over one request to be presented for another.           *)
(***************************************************************************)
EXTENDS Consent

MCCanon == [a \in Addrs |-> CHOOSE r \in Roots : TRUE]
=============================================================================
