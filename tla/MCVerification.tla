--------------------------- MODULE MCVerification ---------------------------
(* Task a verifies and b reads the news; a rendering has room for one long *)
(* message or two short ones.  Two different discoveries have one          *)
(* fingerprint.  The sessions are alike.                                   *)
EXTENDS Verification, TLC

CONSTANTS a, b, avoid, found, other, verified, plain, uses, sorry, s1, s2

MCFingerprint ==
  (found :> found) @@ (other :> found) @@ (verified :> verified) @@ (avoid :> avoid)
MCPriority == (found :> 2) @@ (other :> 2) @@ (verified :> 2) @@ (avoid :> 3)
MCSize == (found :> 1) @@ (other :> 2) @@ (verified :> 2) @@ (avoid :> 1)
MCSymmetry == Permutations({s1, s2})
=============================================================================
