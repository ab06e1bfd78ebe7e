------------------------- MODULE BlockingItemQueue -------------------------
(***************************************************************************)
(* The subclass of ItemQueue whose `add` sleeps and retries when the queue *)
(* is full (collector/BlockingItemQueue.scala).  Workers and close are     *)
(* inherited; only add is overridden.                                      *)
(***************************************************************************)
EXTENDS ItemQueue

CONSTANT
  FullCap   \* bound: the queueFull counter is not followed beyond this value

ASSUME FullCapAssumption == FullCap \in Nat

-----------------------------------------------------------------------------
(* add(item), in its caller's thread.                                      *)

\* `if (!running) QueueClosed` is an expression whose value is discarded:
\* the call goes on to offer whether or not the queue is closed.
AddEnters(i) ==
  /\ call[i] = "idle"
  /\ call' = [call EXCEPT ![i] = "offering"]
  /\ UNCHANGED <<queue, queueFull, process, workerVars, closeVars>>

\* Mutant: a full queue is refused as in the superclass.
OfferRefusedInstead(i) == OfferRejected(i)

OfferSleeps(i) ==
  /\ call[i] = "offering"
  /\ Len(queue) >= MaxSize
  /\ queueFull' = IF queueFull < FullCap THEN queueFull + 1 ELSE queueFull
  /\ call' = [call EXCEPT ![i] = "sleeping"]
  /\ UNCHANGED <<queue, process, workerVars, closeVars>>

WakesUp(i) ==
  /\ call[i] = "sleeping"
  /\ call' = [call EXCEPT ![i] = "offering"]
  /\ UNCHANGED <<queue, queueFull, process, workerVars, closeVars>>

BlockingAddStep(i) ==
  AddEnters(i) \/ OfferAccepted(i) \/ OfferSleeps(i) \/ WakesUp(i)

-----------------------------------------------------------------------------
BlockingNext ==
  \/ \E i \in Items : BlockingAddStep(i) \/ ProcessReturns(i) \/ ProcessCompletes(i)
  \/ \E w \in Workers : WorkerStep(w)
  \/ CloseStep

BlockingSpec == Init /\ [][BlockingNext]_vars
=============================================================================
