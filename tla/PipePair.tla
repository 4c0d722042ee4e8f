------------------------------ MODULE PipePair ------------------------------
(***************************************************************************)
(* A pair of pipe_t objects (src/src/pipe.cpp) in both directions, with    *)
(* their allocators: whose a message is at any time, how the two ends      *)
(* terminate, and which object lives how long.  Each end is used by a      *)
(* thread of its own.                                                      *)
(*                                                                         *)
(* Module Pipe models one direction of this at a finer grain.  Here the    *)
(* calls of the queues are atomic, waiting and waking are left out, and    *)
(* what is added is the allocators, the shared_ptr<pipe_t> of the          *)
(* application (`handle') and of the other end (`peer'), the destructors,  *)
(* and calls through a null pointer or on a queue that is deleted.         *)
(***************************************************************************)
EXTENDS MessageAllocator, Functions

VARIABLES
  pipe,                 \* the two ends
  queue,                \* the in_queue_ of each end: flushed and incomplete messages
  built,                \* messages the thread of an end has allocated
  got,                  \* messages the thread of an end has read
  leaked,               \* history: messages in the queue of an end when it was deleted
  fault                 \* a call on what is gone, after which nothing is defined

vars == <<allocatorVars, pipe, queue, built, got, leaked, fault>>

NoFault == [call |-> "none", by |-> NULL]

\* The thread of e is between two calls, and can make another.
Ready(e) == fault = NoFault /\ pipe[e].handle /\ asking[e] = NULL /\ ~pipe[e].terminating

Faults(call, e) ==
  /\ fault' = [call |-> call, by |-> e]
  /\ UNCHANGED <<allocatorVars, pipe, queue, built, got, leaked>>

UnchangedButOwners == UNCHANGED <<pipe, leaked, fault>>

-----------------------------------------------------------------------------
\* A reference count of zero in the pair p; an end that is destroyed for it
\* takes its own reference to the other end with it.
Referred(p, e) == p[e].handle \/ p[Other(e)].peer

\* With a bug in it: the reference of the other end does not count.
GoneByHandle(p, e) == ~p[e].handle

Gone(p, e) == ~Referred(p, e) \/ (~p[e].handle /\ ~Referred(p, Other(e)))

DeletedQueue == [flushed |-> <<>>, incomplete |-> <<>>, alive |-> FALSE]

(* Operations with a bug in them, for the properties stated below.          *)
DropBothQueues(p) ==
  LET ends == {e \in Ends : pipe[e].alive /\ Gone(p, e)}
      In(e) == Members(queue[e].flushed \o queue[e].incomplete) \ {NULL}
  IN  /\ pipe' = [e \in Ends |->
                    IF e \in ends THEN [p[e] EXCEPT !.alive = FALSE, !.peer = FALSE] ELSE p[e]]
      /\ queue' = [e \in Ends |-> IF ends # {} THEN DeletedQueue ELSE queue[e]]
      /\ leaked' = [e \in Ends |-> IF ends # {} THEN leaked[e] \cup In(e) ELSE leaked[e]]
      /\ DestroyAllocators(ends)
      /\ UNCHANGED <<built, got, fault>>

(* The destructors of the ends that are destroyed when the references       *)
(* become those in p: each deletes its in_queue_ and its allocator.         *)
Drop(p) ==
  LET ends == {e \in Ends : pipe[e].alive /\ Gone(p, e)}
      In(e) == Members(queue[e].flushed \o queue[e].incomplete) \ {NULL}
  IN  /\ pipe' = [e \in Ends |->
                    IF e \in ends THEN [p[e] EXCEPT !.alive = FALSE, !.peer = FALSE] ELSE p[e]]
      /\ queue' = [e \in Ends |-> IF e \in ends THEN DeletedQueue ELSE queue[e]]
      /\ leaked' = [e \in Ends |-> IF e \in ends THEN leaked[e] \cup In(e) ELSE leaked[e]]
      /\ DestroyAllocators(ends)
      /\ UNCHANGED <<built, got, fault>>

(* With a bug in it: the peer_ is not reset.                                *)
TerminateKeepsPeer(e) ==
  /\ fault = NoFault /\ pipe[e].terminating
  /\ Drop([pipe EXCEPT ![e].terminating = FALSE, ![e].terminated = TRUE])

-----------------------------------------------------------------------------
(* CreatePipePair.                                                          *)
Init ==
  /\ AllocatorInit
  /\ pipe = [e \in Ends |-> [terminated |-> FALSE, peer_terminated |-> FALSE,
                             terminating |-> FALSE, peer |-> TRUE,
                             handle |-> TRUE, alive |-> TRUE]]
  /\ queue = [e \in Ends |-> [flushed |-> <<>>, incomplete |-> <<>>, alive |-> TRUE]]
  /\ built = [e \in Ends |-> {}]
  /\ got = [e \in Ends |-> {}]
  /\ leaked = [e \in Ends |-> {}]
  /\ fault = NoFault

(* allocator()->Allocate.                                                   *)
Allocate(e, capacity, m) ==
  /\ Ready(e)
  /\ AllocateBig(e, capacity, m) \/ AllocateFree(e, capacity, m)
  /\ built' = [built EXCEPT ![e] = @ \cup {m}]
  /\ UNCHANGED <<queue, got>> /\ UnchangedButOwners

AllocateWaits(e, capacity) ==
  /\ Ready(e)
  /\ AllocateConsume(e, capacity)
  /\ UNCHANGED <<queue, built, got>> /\ UnchangedButOwners

Consume(e) ==
  /\ fault = NoFault
  /\ ConsumeOne(e)
  /\ UNCHANGED <<queue, built, got>> /\ UnchangedButOwners

Allocated(e, m) ==
  /\ fault = NoFault
  /\ AllocateRest(e, m)
  /\ built' = [built EXCEPT ![e] = @ \cup {m}]
  /\ UNCHANGED <<queue, got>> /\ UnchangedButOwners

(* Releasemessage_t.                                                        *)
Releasemessage_t(e, m) ==
  /\ Ready(e) /\ m \in built[e]
  /\ Release(e, m)
  /\ built' = [built EXCEPT ![e] = @ \ {m}]
  /\ UNCHANGED <<queue, got>> /\ UnchangedButOwners

\* A queue after Write, and after Write and Flush.
Staged(q, m) == [q EXCEPT !.incomplete = Append(q.incomplete, m)]
Flushed(q, m) ==
  [q EXCEPT !.flushed = q.flushed \o Append(q.incomplete, m), !.incomplete = <<>>]

(* Write of a message that the application has filled.  A complete one      *)
(* flushes what was written before it.                                      *)
Write(e, m, incomplete) ==
  /\ Ready(e) /\ m \in built[e]
  /\ ~pipe[e].terminated
  /\ IF queue[Other(e)].alive /\ pipe[e].peer
     THEN /\ queue' = [queue EXCEPT ![Other(e)] =
                          IF incomplete THEN Staged(@, m) ELSE Flushed(@, m)]
          /\ heap' = [heap EXCEPT ![m].dirty = TRUE]
          /\ built' = [built EXCEPT ![e] = @ \ {m}]
          /\ UNCHANGED <<free_lists, idle_queue, asking, got>> /\ UnchangedButOwners
     ELSE Faults("Write", e)

(* Unwrite does not look at terminated_.                                    *)
Unwrite(e) ==
  /\ Ready(e)
  /\ IF queue[Other(e)].alive
     THEN LET staged == queue[Other(e)].incomplete
          IN  /\ staged # <<>>
              /\ queue' = [queue EXCEPT ![Other(e)].incomplete = SubSeq(@, 1, Len(@) - 1)]
              /\ built' = [built EXCEPT ![e] = @ \cup {staged[Len(staged)]}]
              /\ UNCHANGED <<allocatorVars, got>> /\ UnchangedButOwners
     ELSE Faults("Unwrite", e)

(* Read and CheckRead find a message, or the null message.                  *)
Read(e) ==
  /\ Ready(e)
  /\ ~pipe[e].peer_terminated
  /\ IF queue[e].alive
     THEN /\ queue[e].flushed # <<>>
          /\ queue' = [queue EXCEPT ![e].flushed = Tail(@)]
          /\ LET m == Head(queue[e].flushed)
             IN  IF m = NULL
                 THEN /\ pipe' = [pipe EXCEPT ![e].peer_terminated = TRUE]
                      /\ UNCHANGED <<heap, got>>
                 ELSE /\ heap' = [heap EXCEPT ![m].read = TRUE]
                      /\ got' = [got EXCEPT ![e] = @ \cup {m}]
                      /\ UNCHANGED pipe
          /\ UNCHANGED <<free_lists, idle_queue, asking, built, leaked, fault>>
     ELSE Faults("Read", e)

(* Recyclemessage_t: to the allocator of the peer, if there is one.         *)
Recyclemessage_t(e, m) ==
  /\ Ready(e) /\ m \in got[e]
  /\ IF pipe[e].peer
     THEN /\ Recycle(Other(e), m)
          /\ got' = [got EXCEPT ![e] = @ \ {m}]
          /\ UNCHANGED <<queue, built>> /\ UnchangedButOwners
     ELSE Faults("Recycle", e)

(* Terminate: the null message is written and flushed, and with it what was *)
(* incomplete; then the reference to the peer is released.                  *)
Terminate(e) ==
  /\ Ready(e)
  /\ ~pipe[e].terminated
  /\ IF queue[Other(e)].alive /\ pipe[e].peer
     THEN /\ queue' = [queue EXCEPT ![Other(e)] = Flushed(@, NULL)]
          /\ pipe' = [pipe EXCEPT ![e].terminating = TRUE]
          /\ UNCHANGED <<allocatorVars, built, got, leaked, fault>>
     ELSE Faults("Terminate", e)

TerminateReset(e) ==
  /\ fault = NoFault /\ pipe[e].terminating
  /\ Drop([pipe EXCEPT ![e].terminating = FALSE, ![e].terminated = TRUE, ![e].peer = FALSE])

(* The application lets go of its shared_ptr to the end.                    *)
DropHandle(e) ==
  /\ Ready(e)
  /\ Drop([pipe EXCEPT ![e].handle = FALSE])

EndNext(e) ==
  \/ \E capacity \in Capacities, m \in Messages : Allocate(e, capacity, m)
  \/ \E capacity \in Capacities : AllocateWaits(e, capacity)
  \/ Consume(e)
  \/ \E m \in Messages : Allocated(e, m)
  \/ \E m \in Messages : Releasemessage_t(e, m) \/ Recyclemessage_t(e, m)
  \/ \E m \in Messages, incomplete \in BOOLEAN : Write(e, m, incomplete)
  \/ Unwrite(e) \/ Read(e)
  \/ Terminate(e) \/ TerminateReset(e) \/ DropHandle(e)

Next == \E e \in Ends : EndNext(e)

Spec == Init /\ [][Next]_vars
-----------------------------------------------------------------------------
(* The types of the variables; an end lives exactly as long as its queue,   *)
(* and while it is referred to.                                             *)
TypeOK ==
  /\ DOMAIN heap \subseteq Messages
  /\ \A m \in DOMAIN heap : heap[m] \in MessageType
  /\ \A e \in Ends :
       /\ \A i \in Lists : free_lists[e][i] \in Seq(Messages)
       /\ idle_queue[e] \in Seq(Messages)
       /\ asking[e] \in Capacities \cup {NULL}
       /\ \A field \in DOMAIN pipe[e] : pipe[e][field] \in BOOLEAN
       /\ queue[e].flushed \in Seq(Messages \cup {NULL})
       /\ queue[e].incomplete \in Seq(Messages)
       /\ queue[e].alive <=> pipe[e].alive
       /\ Referred(pipe, e) => pipe[e].alive
  /\ UNION {built[e] \cup got[e] \cup leaked[e] : e \in Ends} \subseteq Messages

\* The messages of an end, by the place where they are; in the queue to it
\* what is incomplete is behind what is flushed.
Queued(e) == queue[e].flushed \o queue[e].incomplete

Held(e) == [queue  |-> Members(Queued(e)) \ {NULL},
            idle   |-> Members(idle_queue[e]),
            free   |-> UNION {Members(free_lists[e][i]) : i \in Lists},
            built  |-> built[e],
            got    |-> got[e],
            leaked |-> leaked[e]]

Places == {"queue", "idle", "free", "built", "got", "leaked"}

\* Who has the message m, and where.
Owners(m) == {owner \in Ends \X Places : m \in Held(owner[1])[owner[2]]}

(* Every message on the heap is in one place, however the two threads pass  *)
(* it back and forth: no use after free, no double delete and no leak but   *)
(* in the queue of an end that was destroyed.  It goes back to the          *)
(* allocator that made it, into the list of its size, once.                 *)
EveryMessageHasOneOwner ==
  /\ \A m \in Messages : Cardinality(Owners(m)) = IF m \in DOMAIN heap THEN 1 ELSE 0
  /\ \A e \in Ends :
       /\ IsInjective(Queued(e)) /\ IsInjective(idle_queue[e])
       /\ \A m \in Kept(e) : heap[m].origin = e
       /\ \A m \in Members(idle_queue[e]) : heap[m].index # -1
       /\ \A i \in Lists :
            /\ IsInjective(free_lists[e][i])
            /\ \A m \in Members(free_lists[e][i]) : heap[m].index = i

(* A message has room for what it was allocated for, when it is new and     *)
(* when it comes from a free list: the multiplication finds the first class *)
(* whose messages are larger than that.                                     *)
MessageFits ==
  \A m \in DOMAIN heap :
    /\ heap[m].asked <= heap[m].capacity
    /\ heap[m].index # -1 => heap[m].index = FirstClassAbove(heap[m].asked)

(* Only a message that came back from the peer keeps its old contents in    *)
(* the free list: what was released by the thread that built it is cleared. *)
StaleWasRead ==
  \A e \in Ends, i \in Lists : \A m \in Members(free_lists[e][i]) :
    heap[m].dirty => heap[m].read

(* As long as an end is not terminated none of its calls finds its peer or  *)
(* a queue gone, whatever the other end does; and once it is, only Unwrite  *)
(* and Recyclemessage_t do (pipe.cpp:90, 159).                              *)
FaultsOnlyAfterTerminate ==
  fault # NoFault =>
    pipe[fault.by].terminated /\ fault.call \in {"Unwrite", "Recycle"}

(* The two ends refer to each other, and one Terminate is enough to free    *)
(* both when the application has let go of them (pipe.cpp:150).             *)
OneTerminateFreesThePair ==
  (\A e \in Ends : ~pipe[e].handle) /\ (\E e \in Ends : pipe[e].terminated)
    => \A e \in Ends : ~pipe[e].alive

(* "Each message_t returned from the Read API should be recycled through    *)
(* this API" (pipe.hpp:65-66): an end that has read messages still has the  *)
(* peer it is to give them back to.                                         *)
ReadIsRecyclable ==
  \A e \in Ends : pipe[e].handle /\ got[e] # {} => pipe[e].peer
=============================================================================
