----------------------------- MODULE LeakyBucket -----------------------------
(***************************************************************************)
(* What the room's refusal budget promises: the refusals a room pays for   *)
(* fill a bucket that leaks at a constant rate, and no refusal is paid for *)
(* that the bucket has no place for.  In any stretch of time they are at   *)
(* most a full bucket and what leaked meanwhile.                           *)
(***************************************************************************)
EXTENDS Naturals

CONSTANTS
  Size,     \* what the bucket holds
  Portion   \* what one refusal pours into it

VARIABLE level

Init == level = 0
Pour == level + Portion <= Size /\ level' = level + Portion
Leak == level' = IF level = 0 THEN 0 ELSE level - 1
Renew == level' = 0
Next == Pour \/ Leak \/ Renew
Spec == Init /\ [][Next]_level
=============================================================================
