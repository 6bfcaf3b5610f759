------------------------------- MODULE Wallet -------------------------------
(***************************************************************************)
(* cmd/devtool: how a person makes the documents, the approvals and the    *)
(* revocations that the servers see.                                       *)
(*                                                                         *)
(* The root file names its key by the checksummed address FileAddr[r].     *)
(* sign-psa and sign-grant sign a file in place: they fill in the root     *)
(* only where the file leaves it out, so a document may spell its root     *)
(* otherwise, or name a root that the key is not.                          *)
(***************************************************************************)
EXTENDS Attest

CONSTANT FileAddr  \* root -> the address that its root file and revoke use

ASSUME FileAddrAssumption ==
  \A r \in Roots : FileAddr[r] \in Addrs => Canon[FileAddr[r]] = r

\* No signature over a document is the sentinel.
ASSUME SignatureAssumption == \A r \in Roots :
  /\ \A p \in PSADocs : NoSig # [by |-> r, over |-> PSADigest(p)]
  /\ \A g \in GrantDocs : NoSig # [by |-> r, over |-> AgentGrantDigest(g)]

\* gen-agent: an identifier and a fresh key, named by its thumbprint.
AgentFile(agent, key) == [id |-> agent, thumb |-> key, x |-> key]

FillRoot(r, doc) == [doc EXCEPT !.root = IF @ = None THEN FileAddr[r] ELSE @]

SignPSA(r, p) ==
  LET filled == FillRoot(r, p) IN
    [filled EXCEPT !.sig = [by |-> r, over |-> PSADigest(filled)]]

\* --agent fills the three agent fields together; without it they stay as
\* the file has them, thumbprint and transport key as they may be.
SignGrant(r, g, file) ==
  LET rooted == FillRoot(r, g)
      filled == IF file = None THEN rooted
                ELSE [rooted EXCEPT !.agent = file.id, !.thumb = file.thumb,
                                    !.pubKey = file.x]
  IN [filled EXCEPT !.sig = [by |-> r, over |-> AgentGrantDigest(filled)]]

\* sign-approval signs whatever digest it is given, or that of a request.
SignApproval(r, digest) == [by |-> r, over |-> digest]

\* revoke names the root as the root file does, whatever the document says.
Revocation(r, nonce) == <<FileAddr[r], nonce>>
=============================================================================
