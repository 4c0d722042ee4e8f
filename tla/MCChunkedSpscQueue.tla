------------------------- MODULE MCChunkedSpscQueue -------------------------
(* The queue over chunks of two slots.                                     *)
EXTENDS ChunkedSpscQueue, TLC

\* Nothing depends on which address malloc returns.
AddressesAreAlike == Permutations(Chunks)
=============================================================================
