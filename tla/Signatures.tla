----------------------------- MODULE Signatures -----------------------------
(***************************************************************************)
(* Root keys, the address strings that name them, and root signatures.     *)
(*                                                                         *)
(* A root is a secp256k1 key; documents name it by an address string.      *)
(* Hex casing and the 0x prefix are presentation, so several strings can   *)
(* name one root: Canon[a] is the root that string a names.  The code      *)
(* compares addresses in two ways, and the models keep them apart:         *)
(* normalised (AddrEq) where a signature is checked, and as raw strings    *)
(* (=) where an address is a map key.                                      *)
(*                                                                         *)
(* Signatures are ideal: sig.by is the root whose key made sig, sig.over   *)
(* the digest it was made over, and recovery against another digest never  *)
(* yields that root.                                                       *)
(***************************************************************************)
CONSTANTS Addrs,   \* address strings, as documents and map keys spell them
          Roots,   \* the secp256k1 keys: the persons
          Canon,   \* Canon[a] is the root that address string a names
          Agents,  \* agent identifiers
          NoSig    \* an absent or malformed signature

ASSUME CanonAssumption == Canon \in [Addrs -> Roots]

AddrEq(a, b) == Canon[a] = Canon[b]

\* ECDSA recovery over the digest, then the normalised address comparison.
\* The ERC-1271 fallback is nil in psd and resd (EOA-only mode).
VerifyRootSig(root, digest, sig) ==
  /\ sig # NoSig
  /\ sig.over = digest
  /\ sig.by = Canon[root]
=============================================================================
