----------------------------- MODULE PushDispatch -----------------------------
(***************************************************************************)
(* PythonSource::push: concurrent push_change calls on one Python-defined  *)
(* source, and the queries subscribed to it.                               *)
(*                                                                         *)
(* Every call is a task of its own on the multi-threaded runtime.  It      *)
(* takes the source's dispatch mutex, and inside it the engine numbers the *)
(* change with fetch_add and then awaits its way to each subscriber's      *)
(* bounded channel.  A query discards any change whose number is not above *)
(* the highest it has seen.  Cancelling the Python awaitable drops the     *)
(* task at whatever await it is suspended at, which releases the mutex or  *)
(* its place in the mutex's queue.                                         *)
(*                                                                         *)
(* The mutex queue, the channels and the query's filter belong to tokio    *)
(* and drasi-lib; they are modelled from what components.rs says of them.  *)
(***************************************************************************)
EXTENDS Naturals, Sequences

CONSTANTS
  Pushes,   \* the push_change calls, each carrying one change
  Queries,  \* the queries subscribed to the source
  Capacity  \* the bound of a subscriber's channel

ASSUME CapacityAssumption == Capacity \in Nat \ {0}

VARIABLES
  pc,        \* where each call is
  waiters,   \* the calls queued on the mutex, first come first served
  nextSeq,   \* the source's sequence counter
  seqOf,     \* the number a change was given, 0 while it has none
  reached,   \* the subscribers a dispatch has got to
  inbox,     \* the channel of each query
  highest,   \* the highest number each query has seen
  processed, \* history: what each query has processed, in order
  discarded  \* history: what each query's filter has thrown away

vars == <<pc, waiters, nextSeq, seqOf, reached, inbox, highest, processed,
          discarded>>

PushState ==
  {"idle", "queued", "holding", "dispatching", "done", "cancelled"}

TypeOK ==
  /\ pc \in [Pushes -> PushState]
  /\ waiters \in Seq(Pushes)
  /\ nextSeq \in Nat
  /\ seqOf \in [Pushes -> Nat]
  /\ reached \in [Pushes -> SUBSET Queries]
  /\ inbox \in [Queries -> Seq(Pushes)]
  /\ highest \in [Queries -> Nat]
  /\ processed \in [Queries -> Seq(Pushes)]
  /\ discarded \in [Queries -> SUBSET Pushes]

Init ==
  /\ pc = [p \in Pushes |-> "idle"]
  /\ waiters = <<>>
  /\ nextSeq = 0
  /\ seqOf = [p \in Pushes |-> 0]
  /\ reached = [p \in Pushes |-> {}]
  /\ inbox = [q \in Queries |-> <<>>]
  /\ highest = [q \in Queries |-> 0]
  /\ processed = [q \in Queries |-> <<>>]
  /\ discarded = [q \in Queries |-> {}]

-----------------------------------------------------------------------------
\* Mutant of HoldsLock: the guard outlives the call
HoldsLockForGood(p) == pc[p] \in {"holding", "dispatching", "done"}

\* the call has the dispatch mutex's guard
HoldsLock(p) == pc[p] \in {"holding", "dispatching"}

Goto(p, to) == pc' = [pc EXCEPT ![p] = to]

\* push_change spawns the task and it reaches dispatch.lock().await
Request(p) ==
  /\ pc[p] = "idle"
  /\ Goto(p, "queued")
  /\ waiters' = Append(waiters, p)
  /\ UNCHANGED <<nextSeq, seqOf, reached, inbox, highest, processed, discarded>>

\* Mutant of Acquire: push without the mutex, as before it was added
AcquireUnserialised(p) ==
  /\ pc[p] = "queued"
  /\ waiters # <<>>
  /\ Head(waiters) = p
  /\ Goto(p, "holding")
  /\ waiters' = Tail(waiters)
  /\ UNCHANGED <<nextSeq, seqOf, reached, inbox, highest, processed, discarded>>

\* the mutex is free and goes to the call that has waited longest
Acquire(p) ==
  /\ pc[p] = "queued"
  /\ waiters # <<>>
  /\ Head(waiters) = p
  /\ \A other \in Pushes : ~HoldsLock(other)
  /\ Goto(p, "holding")
  /\ waiters' = Tail(waiters)
  /\ UNCHANGED <<nextSeq, seqOf, reached, inbox, highest, processed, discarded>>

\* dispatch_source_change numbers the change with fetch_add
TakeSequence(p) ==
  /\ pc[p] = "holding"
  /\ Goto(p, "dispatching")
  /\ nextSeq' = nextSeq + 1
  /\ seqOf' = [seqOf EXCEPT ![p] = nextSeq + 1]
  /\ UNCHANGED <<waiters, reached, inbox, highest, processed, discarded>>

\* Mutant of Deliver: try_send, which gives up on a full channel
DeliverOrDrop(p, q) ==
  /\ pc[p] = "dispatching"
  /\ q \notin reached[p]
  /\ inbox' = IF Len(inbox[q]) < Capacity
              THEN [inbox EXCEPT ![q] = Append(@, p)] ELSE inbox
  /\ reached' = [reached EXCEPT ![p] = @ \cup {q}]
  /\ UNCHANGED <<pc, waiters, nextSeq, seqOf, highest, processed, discarded>>

\* ... and awaits room in one subscriber's channel after another
Deliver(p, q) ==
  /\ pc[p] = "dispatching"
  /\ q \notin reached[p]
  /\ Len(inbox[q]) < Capacity
  /\ inbox' = [inbox EXCEPT ![q] = Append(@, p)]
  /\ reached' = [reached EXCEPT ![p] = @ \cup {q}]
  /\ UNCHANGED <<pc, waiters, nextSeq, seqOf, highest, processed, discarded>>

\* Mutant of Finish: returns once one subscriber has the change
FinishAtFirst(p) ==
  /\ pc[p] = "dispatching"
  /\ reached[p] # {}
  /\ Goto(p, "done")
  /\ UNCHANGED <<waiters, nextSeq, seqOf, reached, inbox, highest, processed,
                 discarded>>

\* every subscriber has the change: push returns and drops the guard
Finish(p) ==
  /\ pc[p] = "dispatching"
  /\ reached[p] = Queries
  /\ Goto(p, "done")
  /\ UNCHANGED <<waiters, nextSeq, seqOf, reached, inbox, highest, processed,
                 discarded>>

\* the task is suspended: it waits for the mutex, or for the wake-up that
\* hands it over, or for room in a channel
Suspended(p) ==
  \/ pc[p] \in {"queued", "holding"}
  \/ pc[p] = "dispatching" /\ reached[p] # Queries

\* Mutant of Cancel: the place in the queue outlives the call
CancelKeepingPlace(p) ==
  /\ Suspended(p)
  /\ Goto(p, "cancelled")
  /\ UNCHANGED <<waiters, nextSeq, seqOf, reached, inbox, highest, processed, discarded>>

\* the Python awaitable is cancelled: the suspended task is dropped, and with
\* it the guard or the place in the queue
Cancel(p) ==
  /\ Suspended(p)
  /\ Goto(p, "cancelled")
  /\ \/ /\ pc[p] = "queued"
        /\ \E i \in DOMAIN waiters :
             /\ waiters[i] = p
             /\ waiters' = SubSeq(waiters, 1, i - 1)
                             \o SubSeq(waiters, i + 1, Len(waiters))
     \/ pc[p] # "queued" /\ UNCHANGED waiters
  /\ UNCHANGED <<nextSeq, seqOf, reached, inbox, highest, processed, discarded>>

\* the query takes the next change off its channel, through the filter
Process(q) ==
  /\ inbox[q] # <<>>
  /\ LET p == Head(inbox[q]) IN
       IF seqOf[p] <= highest[q]
       THEN /\ discarded' = [discarded EXCEPT ![q] = @ \cup {p}]
            /\ UNCHANGED <<highest, processed>>
       ELSE /\ highest' = [highest EXCEPT ![q] = seqOf[p]]
            /\ processed' = [processed EXCEPT ![q] = Append(@, p)]
            /\ UNCHANGED discarded
  /\ inbox' = [inbox EXCEPT ![q] = Tail(@)]
  /\ UNCHANGED <<pc, waiters, nextSeq, seqOf, reached>>

Push(p) ==
  \/ Request(p) \/ Acquire(p) \/ TakeSequence(p)
  \/ \E q \in Queries : Deliver(p, q)
  \/ Finish(p) \/ Cancel(p)

Next == (\E p \in Pushes : Push(p)) \/ (\E q \in Queries : Process(q))

\* the runtime polls every ready task and a query keeps draining its channel;
\* nothing obliges the application to push or to cancel
Fairness ==
  /\ \A p \in Pushes :
       /\ WF_vars(Acquire(p)) /\ WF_vars(TakeSequence(p)) /\ WF_vars(Finish(p))
       /\ \A q \in Queries : WF_vars(Deliver(p, q))
  /\ \A q \in Queries : WF_vars(Process(q))

Spec == Init /\ [][Next]_vars

FairSpec == Spec /\ Fairness

-----------------------------------------------------------------------------
(* Properties *)

\* The query's filter never throws a change away: whatever the interleaving
\* of pushes and cancellations, the channels carry increasing numbers.  This
\* is what the dispatch mutex is for; without it gathered pushes lose changes.
NothingDiscarded == \A q \in Queries : discarded[q] = {}

Processed(q, p) == \E i \in DOMAIN processed[q] : processed[q][i] = p

\* A push that returned has left its change with every query: each has processed it
\* or has it in its channel, through full channels and whatever else is cancelled.
ReturnedIsWithQueries ==
  \A p \in Pushes, q \in Queries : pc[p] = "done" =>
    Processed(q, p) \/ \E i \in DOMAIN inbox[q] : inbox[q][i] = p

\* While a call waits for the mutex, another one has it or it can be handed on: the
\* first in the queue is a call that is still there to take it.
MutexIsHandedOn ==
  (\E p \in Pushes : pc[p] = "queued") =>
    \/ \E p \in Pushes : HoldsLock(p)
    \/ waiters # <<>> /\ pc[Head(waiters)] = "queued"

\* Dispatch keeps the abstract promise: one order for every query, and a
\* change is passed over only when the call that pushed it was cancelled
\* part-way through its subscribers.
Feed == INSTANCE OrderedFeed WITH
  Changes   <- Pushes,
  place     <- seqOf,
  accepted  <- nextSeq,
  abandoned <- {p \in Pushes : pc[p] = "cancelled" /\ seqOf[p] # 0},
  consumed  <- processed

RefinesOrderedFeed == Feed!Spec

\* Every query processes every change whose push returned, although the
\* channels are bounded and other pushes are cancelled around it.
ReturnedIsProcessed ==
  \A p \in Pushes, q \in Queries : pc[p] = "done" ~> Processed(q, p)

\* A call never waits for ever on the mutex: calls cancelled ahead of it or
\* while holding it leave nothing behind.
NoPushStarves ==
  \A p \in Pushes : pc[p] = "queued" ~> pc[p] \in {"done", "cancelled"}
=============================================================================
