--------------------------- MODULE PipePairProofs ---------------------------
(***************************************************************************)
(* How long the two ends of PipePair live, proved for all messages and     *)
(* capacities.  The argument is about the references only: an end holds    *)
(* its peer until it terminates or is destroyed, and an end that somebody  *)
(* holds is there.                                                         *)
(***************************************************************************)
EXTENDS PipePair, FiniteSetTheorems, TLAPS

PipeType == [terminated : BOOLEAN, peer_terminated : BOOLEAN, terminating : BOOLEAN,
             peer : BOOLEAN, handle : BOOLEAN, alive : BOOLEAN]

\* The references to and from an end.
EndInv(e) ==
  /\ pipe[e].alive <=> Referred(pipe, e)
  /\ pipe[e].peer <=> pipe[e].alive /\ ~pipe[e].terminated
  /\ pipe[e].terminating => pipe[e].handle /\ ~pipe[e].terminated
  /\ queue[e].alive = pipe[e].alive

LifeInv ==
  /\ pipe \in [Ends -> PipeType]
  /\ DOMAIN queue = Ends
  /\ \A e \in Ends : "alive" \in DOMAIN queue[e]
  /\ \A e \in Ends : EndInv(e)
  /\ FaultsOnlyAfterTerminate
  /\ fault = NoFault \/ fault.by \in Ends

-----------------------------------------------------------------------------
(* There are two ends, and each is the other one of the other.              *)
LEMMA TwoEnds ==
  ASSUME NEW e \in Ends
  PROVE  /\ Other(e) \in Ends
         /\ Other(e) # e
         /\ Other(Other(e)) = e
         /\ \A f \in Ends : f = e \/ f = Other(e)
<1>1. PICK a \in Ends, b \in Ends : a # b /\ \A h \in Ends : h = a \/ h = b
  <2>1. Cardinality(Ends \ {e}) = 1 /\ IsFiniteSet(Ends \ {e})
    BY AllocatorAssumption, FS_RemoveElement
  <2>2. PICK f : Ends \ {e} = {f}
    BY <2>1, FS_Singleton
  <2>3. QED
    BY <2>2
<1>2. \E f \in Ends : f # e
  BY <1>1
<1>3. Other(e) \in Ends /\ Other(e) # e
  BY <1>2 DEF Other
<1>4. \E f \in Ends : f # Other(e)
  BY <1>3
<1>5. Other(Other(e)) \in Ends /\ Other(Other(e)) # Other(e)
  BY <1>4 DEF Other
<1>6. QED
  BY <1>1, <1>3, <1>5

(* At the beginning both ends are there, and hold each other.               *)
LEMMA InitLife == Init => LifeInv
<1> SUFFICES ASSUME Init PROVE LifeInv
  OBVIOUS
<1>1. pipe \in [Ends -> PipeType] /\ DOMAIN queue = Ends
  BY DEF Init, PipeType
<1>2. ASSUME NEW e \in Ends
      PROVE  EndInv(e) /\ "alive" \in DOMAIN queue[e]
  BY <1>2, TwoEnds DEF Init, EndInv, Referred
<1>3. QED
  BY <1>1, <1>2 DEF Init, LifeInv, FaultsOnlyAfterTerminate

(* A step that changes no reference, and destroys nothing.                  *)
LEMMA QuietStep ==
  ASSUME LifeInv,
         UNCHANGED <<pipe, fault>>,
         DOMAIN queue' = Ends,
         \A e \in Ends : "alive" \in DOMAIN queue'[e] /\ queue'[e].alive = queue[e].alive
  PROVE  LifeInv'
BY DEF LifeInv, EndInv, Referred, FaultsOnlyAfterTerminate

(* Writing to a queue does not delete it.                                   *)
LEMMA WrittenQueue ==
  ASSUME NEW q, "alive" \in DOMAIN q, NEW m
  PROVE  /\ "alive" \in DOMAIN Staged(q, m) /\ Staged(q, m).alive = q.alive
         /\ "alive" \in DOMAIN Flushed(q, m) /\ Flushed(q, m).alive = q.alive
BY DEF Staged, Flushed

(* A step that changes only what an end has read or that it terminates.     *)
LEMMA SamePeers ==
  ASSUME LifeInv,
         NEW e \in Ends,
         \/ pipe' = pipe
         \/ pipe' = [pipe EXCEPT ![e].peer_terminated = TRUE]
         \/ /\ pipe' = [pipe EXCEPT ![e].terminating = TRUE]
            /\ pipe[e].handle /\ ~pipe[e].terminated,
         UNCHANGED fault,
         DOMAIN queue' = Ends,
         \A f \in Ends : "alive" \in DOMAIN queue'[f] /\ queue'[f].alive = queue[f].alive
  PROVE  LifeInv'
<1>1. pipe' \in [Ends -> PipeType]
  <2>1. pipe \in [Ends -> PipeType]
    BY DEF LifeInv
  <2>2. /\ [pipe[e] EXCEPT !.peer_terminated = TRUE] \in PipeType
        /\ [pipe[e] EXCEPT !.terminating = TRUE] \in PipeType
    BY <2>1 DEF PipeType
  <2>3. QED
    BY <2>1, <2>2
<1>2. ASSUME NEW f \in Ends
      PROVE  /\ pipe'[f].alive = pipe[f].alive /\ pipe'[f].peer = pipe[f].peer
             /\ pipe'[f].handle = pipe[f].handle
             /\ pipe'[f].terminated = pipe[f].terminated
             /\ pipe'[f].terminating => pipe'[f].handle /\ ~pipe'[f].terminated
  <2>1. pipe[f].terminating => pipe[f].handle /\ ~pipe[f].terminated
    BY <1>2 DEF LifeInv, EndInv
  <2>2. pipe \in [Ends -> PipeType]
    BY DEF LifeInv
  <2>3. CASE pipe' = pipe
    BY <2>1, <2>3
  <2>4. CASE pipe' = [pipe EXCEPT ![e].peer_terminated = TRUE]
    BY <1>2, <2>1, <2>2, <2>4 DEF PipeType
  <2>5. CASE /\ pipe' = [pipe EXCEPT ![e].terminating = TRUE]
             /\ pipe[e].handle /\ ~pipe[e].terminated
    BY <1>2, <2>1, <2>2, <2>5 DEF PipeType
  <2>6. QED
    BY <2>3, <2>4, <2>5
<1>3. ASSUME NEW f \in Ends PROVE EndInv(f)'
  BY <1>2, TwoEnds DEF LifeInv, EndInv, Referred
<1>4. FaultsOnlyAfterTerminate'
  BY <1>2 DEF LifeInv, FaultsOnlyAfterTerminate, NoFault
<1>5. QED
  BY <1>1, <1>3, <1>4 DEF LifeInv

(* A call that finds something gone, made by an end that is terminated.     *)
LEMMA FaultStep ==
  ASSUME LifeInv, NEW e \in Ends, NEW call \in {"Unwrite", "Recycle"},
         Faults(call, e), pipe[e].terminated
  PROVE  LifeInv'
BY DEF LifeInv, EndInv, Referred, FaultsOnlyAfterTerminate, Faults

(* An end whose thread is making calls is there, and so is its peer unless  *)
(* it has terminated.                                                       *)
LEMMA ReadyEnd ==
  ASSUME LifeInv, NEW e \in Ends, pipe[e].handle
  PROVE  /\ pipe[e].alive /\ queue[e].alive
         /\ ~pipe[e].terminated => pipe[e].peer /\ queue[Other(e)].alive
<1>1. pipe[e].alive /\ queue[e].alive
  BY DEF LifeInv, EndInv, Referred, PipeType
<1>2. ASSUME ~pipe[e].terminated PROVE pipe[e].peer /\ queue[Other(e)].alive
  BY <1>1, <1>2, TwoEnds DEF LifeInv, EndInv, Referred, PipeType
<1>3. QED
  BY <1>1, <1>2

(* What is left of the pair when references were released: the pair p is    *)
(* right but for an end that nobody refers to any more.                     *)
LEMMA DropStep ==
  ASSUME LifeInv, fault = NoFault,
         NEW p \in [Ends -> PipeType],
         \A e \in Ends :
           /\ p[e].alive = pipe[e].alive
           /\ Referred(p, e) => p[e].alive
           /\ p[e].peer <=> p[e].alive /\ ~p[e].terminated
           /\ p[e].terminating => p[e].handle /\ ~p[e].terminated,
         Drop(p)
  PROVE  LifeInv'
<1> DEFINE ends == {e \in Ends : pipe[e].alive /\ Gone(p, e)}
<1>1. /\ pipe' = [e \in Ends |->
                    IF e \in ends THEN [p[e] EXCEPT !.alive = FALSE, !.peer = FALSE] ELSE p[e]]
      /\ queue' = [e \in Ends |-> IF e \in ends THEN DeletedQueue ELSE queue[e]]
      /\ fault' = NoFault
  BY DEF Drop
<1>2. pipe' \in [Ends -> PipeType]
  <2>1. ASSUME NEW e \in Ends
        PROVE  [p[e] EXCEPT !.alive = FALSE, !.peer = FALSE] \in PipeType
    <3>1. p[e] \in PipeType
      OBVIOUS
    <3>2. QED
      BY <3>1 DEF PipeType
  <2> HIDE DEF ends
  <2>2. QED
    BY <1>1, <2>1
<1>3. ASSUME NEW e \in Ends
      PROVE  EndInv(e)' /\ "alive" \in DOMAIN queue'[e]
  <2>1. ASSUME NEW f \in Ends
        PROVE  /\ pipe'[f].alive <=> p[f].alive /\ ~Gone(p, f)
               /\ pipe'[f].peer <=> p[f].peer /\ ~Gone(p, f)
               /\ pipe'[f].handle = p[f].handle
               /\ pipe'[f].terminating = p[f].terminating
               /\ pipe'[f].terminated = p[f].terminated
    BY <1>1, <2>1 DEF PipeType
  <2>2. queue'[e].alive = pipe'[e].alive /\ "alive" \in DOMAIN queue'[e]
    <3>1. CASE e \in ends
      <4>1. queue'[e] = DeletedQueue /\ ~pipe'[e].alive
        BY <1>1, <1>3, <2>1, <3>1
      <4>2. DeletedQueue.alive = FALSE /\ "alive" \in DOMAIN DeletedQueue
        BY DEF DeletedQueue
      <4>3. pipe'[e].alive \in BOOLEAN
        BY <1>2 DEF PipeType
      <4>4. QED
        BY <4>1, <4>2, <4>3
    <3>2. CASE e \notin ends
      <4>1. queue'[e] = queue[e] /\ pipe'[e] = p[e]
        BY <1>1, <1>3, <3>2
      <4>2. QED
        BY <4>1 DEF LifeInv, EndInv
    <3>3. QED
      BY <3>1, <3>2
  <2>3. pipe'[e].alive <=> Referred(pipe', e)
    BY <2>1, TwoEnds DEF Referred, Gone, PipeType
  <2>4. pipe'[e].peer <=> pipe'[e].alive /\ ~pipe'[e].terminated
    BY <2>1
  <2>5. pipe'[e].terminating => pipe'[e].handle /\ ~pipe'[e].terminated
    BY <2>1
  <2>6. QED
    BY <2>2, <2>3, <2>4, <2>5 DEF EndInv, Referred
<1>4. QED
  BY <1>1, <1>2, <1>3 DEF LifeInv, FaultsOnlyAfterTerminate

(* Every step.                                                              *)
LEMMA NextLife == LifeInv /\ [Next]_vars => LifeInv'
<1> SUFFICES ASSUME LifeInv, [Next]_vars PROVE LifeInv'
  OBVIOUS
<1> USE DEF UnchangedButOwners
<1>1. CASE UNCHANGED vars
  <2>1. QED
    BY <1>1, QuietStep DEF vars, LifeInv
<1>2. ASSUME NEW e \in Ends, EndNext(e) PROVE LifeInv'
  <2> DEFINE Quiet == /\ UNCHANGED <<pipe, fault>>
                      /\ DOMAIN queue' = Ends
                      /\ \A f \in Ends : /\ "alive" \in DOMAIN queue'[f]
                                         /\ queue'[f].alive = queue[f].alive
  <2>1. ASSUME UNCHANGED <<pipe, fault, queue>> PROVE LifeInv'
    BY <2>1, QuietStep DEF LifeInv
  <2>2. ASSUME NEW capacity \in Capacities, NEW m \in Messages, Allocate(e, capacity, m)
        PROVE  LifeInv'
    BY <2>1, <2>2 DEF Allocate
  <2>3. ASSUME NEW capacity \in Capacities, AllocateWaits(e, capacity) PROVE LifeInv'
    BY <2>1, <2>3 DEF AllocateWaits
  <2>4. ASSUME Consume(e) PROVE LifeInv'
    BY <2>1, <2>4 DEF Consume
  <2>5. ASSUME NEW m \in Messages, Allocated(e, m) PROVE LifeInv'
    BY <2>1, <2>5 DEF Allocated
  <2>6. ASSUME NEW m \in Messages, Releasemessage_t(e, m) PROVE LifeInv'
    BY <2>1, <2>6 DEF Releasemessage_t
  <2>7. ASSUME NEW m \in Messages, Recyclemessage_t(e, m) PROVE LifeInv'
    <3>1. CASE pipe[e].peer
      BY <2>1, <2>7, <3>1 DEF Recyclemessage_t
    <3>2. CASE ~pipe[e].peer
      <4>1. pipe[e].terminated
        BY <2>7, <3>2, ReadyEnd DEF Recyclemessage_t, Ready
      <4>2. QED
        BY <2>7, <3>2, <4>1, FaultStep DEF Recyclemessage_t
    <3>3. QED
      BY <3>1, <3>2
  <2>8. ASSUME NEW m \in Messages, NEW incomplete \in BOOLEAN, Write(e, m, incomplete)
        PROVE  LifeInv'
    <3>1. queue[Other(e)].alive /\ pipe[e].peer
      BY <2>8, ReadyEnd DEF Write, Ready
    <3>2. Quiet
      <4>1. /\ UNCHANGED <<pipe, fault>>
            /\ queue' = [queue EXCEPT ![Other(e)] =
                           IF incomplete THEN Staged(queue[Other(e)], m)
                           ELSE Flushed(queue[Other(e)], m)]
        BY <2>8, <3>1 DEF Write
      <4>2. QED
        BY <4>1, WrittenQueue DEF LifeInv
    <3>3. QED
      BY <3>2, QuietStep
  <2>9. ASSUME Unwrite(e) PROVE LifeInv'
    <3>1. CASE queue[Other(e)].alive
      <4>1. Quiet
        BY <2>9, <3>1 DEF Unwrite, LifeInv
      <4>2. QED
        BY <4>1, QuietStep
    <3>2. CASE ~queue[Other(e)].alive
      <4>1. pipe[e].terminated
        BY <2>9, <3>2, ReadyEnd DEF Unwrite, Ready
      <4>2. QED
        BY <2>9, <3>2, <4>1, FaultStep DEF Unwrite
    <3>3. QED
      BY <3>1, <3>2
  <2>10. ASSUME Read(e) PROVE LifeInv'
    <3>1. queue[e].alive
      BY <2>10, ReadyEnd DEF Read, Ready
    <3>2. UNCHANGED fault
          /\ DOMAIN queue' = Ends
          /\ \A f \in Ends : "alive" \in DOMAIN queue'[f] /\ queue'[f].alive = queue[f].alive
      BY <2>10, <3>1 DEF Read, LifeInv
    <3>3. pipe' \in {pipe, [pipe EXCEPT ![e].peer_terminated = TRUE]}
      BY <2>10, <3>1 DEF Read
    <3>4. QED
      BY <3>2, <3>3, SamePeers
  <2>11. ASSUME Terminate(e) PROVE LifeInv'
    <3>1. queue[Other(e)].alive /\ pipe[e].peer /\ pipe[e].handle
      BY <2>11, ReadyEnd DEF Terminate, Ready
    <3>2. UNCHANGED fault
          /\ DOMAIN queue' = Ends
          /\ \A f \in Ends : "alive" \in DOMAIN queue'[f] /\ queue'[f].alive = queue[f].alive
      <4>1. /\ UNCHANGED fault
            /\ queue' = [queue EXCEPT ![Other(e)] = Flushed(queue[Other(e)], NULL)]
        BY <2>11, <3>1 DEF Terminate
      <4>2. QED
        BY <4>1, WrittenQueue DEF LifeInv
    <3>3. pipe' = [pipe EXCEPT ![e].terminating = TRUE] /\ ~pipe[e].terminated
      BY <2>11, <3>1 DEF Terminate
    <3>4. QED
      BY <3>1, <3>2, <3>3, SamePeers
  <2>12. ASSUME TerminateReset(e) PROVE LifeInv'
    <3> DEFINE p == [pipe EXCEPT ![e].terminating = FALSE, ![e].terminated = TRUE,
                                 ![e].peer = FALSE]
    <3>1. fault = NoFault /\ Drop(p) /\ pipe[e].terminating
      BY <2>12 DEF TerminateReset
    <3>2. pipe[e].handle /\ ~pipe[e].terminated /\ pipe[e].alive
      BY <3>1, ReadyEnd DEF LifeInv, EndInv
    <3>3. p \in [Ends -> PipeType]
      <4>1. pipe \in [Ends -> PipeType] /\ pipe[e] \in PipeType
        BY DEF LifeInv
      <4>2. [pipe[e] EXCEPT !.terminating = FALSE, !.terminated = TRUE, !.peer = FALSE]
              \in PipeType
        BY <4>1 DEF PipeType
      <4>3. p = [pipe EXCEPT ![e] = [pipe[e] EXCEPT !.terminating = FALSE,
                                                    !.terminated = TRUE, !.peer = FALSE]]
        BY <4>1 DEF PipeType
      <4>4. QED
        BY <4>1, <4>2, <4>3
    <3>4. ASSUME NEW f \in Ends
          PROVE  /\ p[f].alive = pipe[f].alive
                 /\ Referred(p, f) => p[f].alive
                 /\ p[f].peer <=> p[f].alive /\ ~p[f].terminated
                 /\ p[f].terminating => p[f].handle /\ ~p[f].terminated
      BY <3>2, <3>4, TwoEnds DEF LifeInv, EndInv, Referred, PipeType
    <3> HIDE DEF p
    <3>5. QED
      BY <3>1, <3>3, <3>4, DropStep
  <2>13. ASSUME DropHandle(e) PROVE LifeInv'
    <3> DEFINE p == [pipe EXCEPT ![e].handle = FALSE]
    <3>1. fault = NoFault /\ Drop(p) /\ ~pipe[e].terminating
      BY <2>13 DEF DropHandle, Ready
    <3>3. p \in [Ends -> PipeType]
      BY DEF LifeInv, PipeType
    <3>4. ASSUME NEW f \in Ends
          PROVE  /\ p[f].alive = pipe[f].alive
                 /\ Referred(p, f) => p[f].alive
                 /\ p[f].peer <=> p[f].alive /\ ~p[f].terminated
                 /\ p[f].terminating => p[f].handle /\ ~p[f].terminated
      BY <3>1, <3>4, TwoEnds DEF LifeInv, EndInv, Referred, PipeType
    <3> HIDE DEF p
    <3>5. QED
      BY <3>1, <3>3, <3>4, DropStep
  <2>14. QED
    BY <1>2, <2>2, <2>3, <2>4, <2>5, <2>6, <2>7, <2>8, <2>9, <2>10, <2>11, <2>12, <2>13
       DEF EndNext
<1>3. QED
  BY <1>1, <1>2 DEF Next

(* What LifeInv says of the pair when the application has let go of it.     *)
LEMMA LifeImplies == LifeInv => FaultsOnlyAfterTerminate /\ OneTerminateFreesThePair
<1> SUFFICES ASSUME LifeInv PROVE FaultsOnlyAfterTerminate /\ OneTerminateFreesThePair
  OBVIOUS
<1>1. ASSUME \A e \in Ends : ~pipe[e].handle, NEW f \in Ends, pipe[f].terminated,
             NEW e \in Ends
      PROVE  ~pipe[e].alive
  <2>1. ~pipe[Other(f)].alive
    BY <1>1, TwoEnds DEF LifeInv, EndInv, Referred
  <2>2. ~pipe[f].alive
    BY <1>1, <2>1, TwoEnds DEF LifeInv, EndInv, Referred
  <2>3. QED
    BY <1>1, <2>1, <2>2, TwoEnds
<1>2. QED
  BY <1>1 DEF LifeInv, OneTerminateFreesThePair

(* For all messages and capacities: an end is there exactly while somebody  *)
(* refers to it, and it refers to its peer until it terminates              *)
(* (pipe.cpp:7-59, 139-152).                                                *)
THEOREM PairLives == Spec => []LifeInv
BY InitLife, NextLife, PTL DEF Spec

(* For all messages and capacities: a call finds its peer or a queue gone   *)
(* only if its end has terminated, and then only Unwrite and                *)
(* Recyclemessage_t do.                                                     *)
THEOREM NoFaultBeforeTerminate == Spec => []FaultsOnlyAfterTerminate
BY PairLives, LifeImplies, PTL

(* For all messages and capacities: when the application holds neither end  *)
(* and one of them has terminated, both are destroyed, whatever the order.  *)
THEOREM CycleIsBroken == Spec => []OneTerminateFreesThePair
BY PairLives, LifeImplies, PTL
=============================================================================
