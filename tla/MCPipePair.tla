----------------------------- MODULE MCPipePair -----------------------------
(* Symmetry of messages and ends, and boundaries of the size classes for TLC.    *)
EXTENDS PipePair, TLC

Symmetry == Permutations(Messages) \cup Permutations(Ends)

(* Next to every power of two the class that Allocate computes is the first *)
(* one whose messages are larger than the capacity.                         *)
ASSUME SizeClasses ==
  \A k \in 0..kAllocateStop, d \in {-1, 0, 1} :
    LET capacity == 2^k + d
    IN  capacity <= 2^kAllocateStop => IndexOf(capacity) = FirstClassAbove(capacity)
=============================================================================
