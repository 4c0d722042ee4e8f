------------------------------ MODULE Channel ------------------------------
(***************************************************************************)
(* What the lock-free queue of spsc_queue.hpp promises the two threads     *)
(* that share it, with no slot, pointer or compare-and-swap in sight.      *)
(*                                                                         *)
(* The writer stages items; it may take back an item of a message it has   *)
(* not completed; a commit makes every completed item visible at once and  *)
(* never a part of an incomplete message.  The reader takes visible items  *)
(* in the order they were written, and may fall asleep only when there is  *)
(* nothing for it to take.  Each commit ends that sleep, so the writer     *)
(* always learns of a sleeping reader and can wake it.                     *)
(***************************************************************************)
EXTENDS Integers, Sequences

CONSTANT Items          \* what the writer may write

VARIABLES
  staged,               \* written and not yet committed, oldest first
  complete,             \* how many of the staged items end a whole message
  visible,              \* committed and not yet taken
  taken,                \* everything the reader took, in order
  asleep                \* the reader found nothing and nobody has committed since

vars == <<staged, complete, visible, taken, asleep>>

Init ==
  /\ staged = <<>>
  /\ complete = 0
  /\ visible = <<>>
  /\ taken = <<>>
  /\ asleep = FALSE

\* The writer adds an item; unless more of its message is to come, all the
\* staged items are complete.
Stage(item, incomplete) ==
  /\ staged' = Append(staged, item)
  /\ complete' = IF incomplete THEN complete ELSE Len(staged) + 1
  /\ UNCHANGED <<visible, taken, asleep>>

\* The writer takes back the last item of an incomplete message.
Unstage ==
  /\ complete < Len(staged)
  /\ staged' = SubSeq(staged, 1, Len(staged) - 1)
  /\ UNCHANGED <<complete, visible, taken, asleep>>

\* The completed items become visible together, and the reader is awake.
Commit ==
  /\ complete > 0
  /\ visible' = visible \o SubSeq(staged, 1, complete)
  /\ staged' = SubSeq(staged, complete + 1, Len(staged))
  /\ complete' = 0
  /\ asleep' = FALSE
  /\ UNCHANGED taken

\* The reader takes the oldest visible item; a sleeping reader never does.
Take ==
  /\ ~asleep
  /\ visible # <<>>
  /\ taken' = Append(taken, Head(visible))
  /\ visible' = Tail(visible)
  /\ UNCHANGED <<staged, complete, asleep>>

\* The reader finds nothing to take.
FallAsleep ==
  /\ visible = <<>>
  /\ asleep' = TRUE
  /\ UNCHANGED <<staged, complete, visible, taken>>

Next ==
  \/ \E item \in Items, incomplete \in BOOLEAN : Stage(item, incomplete)
  \/ Unstage
  \/ Commit
  \/ Take
  \/ FallAsleep

Spec == Init /\ [][Next]_vars
=============================================================================
