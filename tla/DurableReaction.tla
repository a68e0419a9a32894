--------------------------- MODULE DurableReaction ---------------------------
(***************************************************************************)
(* components.rs: PythonReaction, the reaction that hands query results    *)
(* to a Python callable, durable or not, with its registration in          *)
(* engine.rs.  Both kinds start alike and run the same loop, which writes  *)
(* the checkpoint after the callback; at the next start the results after  *)
(* the checkpoint are handed to the loop again.  A durable reaction waits  *)
(* for its async callback, and its checkpoint and outbox outlive the       *)
(* process; an ordinary one calls and no more, and its checkpoint does     *)
(* not.  Stops and crashes come between any two steps.                     *)
(*                                                                         *)
(* The outbox, the checkpoint store, the processing loop and the recovery  *)
(* at start are drasi-lib's, modelled from CHANGELOG.md, the guide         *)
(* python-reactions.md and the comments and tests about them.  A reaction  *)
(* reads one query here.                                                   *)
(***************************************************************************)
EXTENDS Integers

CONSTANTS
  MaxResults, \* bound: the query produces no more results than this
  Capacity,   \* how many results the query's outbox keeps
  Callbacks,  \* the callables the application registers
  Policies    \* the recovery policies it asks for

ASSUME Assumptions ==
  /\ MaxResults \in Nat /\ Capacity \in Nat \ {0}
  /\ Callbacks \subseteq {"coroutine", "plain", "object", "blocking", "none"}
  /\ Policies \subseteq {"strict", "auto_reset", "skip_gap", "unknown"}

VARIABLES
  setup,      \* the stores of the engine, and what the application registers
  policy,     \* the recovery policy it is registered with, or Unregistered
  produced,   \* results the query has produced
  oldest,     \* the result before the first one the outbox still has
  stored,     \* the checkpoint in the state store
  task,       \* the processing task: "off", "idle", "calling" or "called"
  known,      \* the checkpoint the loop goes by
  next,       \* the result the loop takes next
  running,    \* results whose coroutine outlived the task that awaited it
  handled,    \* history: results a callback ran to its end for
  gaveUp,     \* history: passed over by recovery or skip_gap, or a dropped coroutine
  doubtful,   \* history: handled when their checkpoint could no longer be written
  origin,     \* history: the result before the first one of the checkpoints
  forgotten   \* history: the last result of a checkpoint unread at a start, or lost

outbox == <<produced, oldest>>
histories == <<handled, gaveUp, doubtful, origin, forgotten>>
vars == <<setup, policy, outbox, stored, task, known, next, running, histories>>

Results == 1..MaxResults
NoCheckpoint == -1
Unregistered == "unregistered"
Later(m, n) == IF m > n THEN m ELSE n

(***************************************************************************)
(* Registration.  "coroutine" is a function written with async def,        *)
(* "plain" one without, "object" a callable that is no function and whose  *)
(* result cannot be awaited, "blocking" a function of the kind asked for   *)
(* that makes a blocking call of drasi.sync, through which the reaction    *)
(* was registered, "none" not callable at all.  After a crash the          *)
(* application registers the same reaction, perhaps with another policy.   *)
(***************************************************************************)
Setup == [durable : BOOLEAN, stateStore : BOOLEAN, indexStore : BOOLEAN,
          callback : Callbacks]

RequireCallable == setup.callback # "none"
\* only functions and methods are looked at
RequireCoroutineFunction == setup.callback # "plain"
ParseRecoveryPolicy(p) == p \in {"strict", "auto_reset", "skip_gap"}

\* add_durable_python_reaction: the checks before the reaction is made
DurableAccepts(p) ==
  /\ setup.stateStore /\ setup.indexStore
  /\ RequireCallable
  /\ RequireCoroutineFunction
  /\ ParseRecoveryPolicy(p)

\* add_python_reaction has one; its policy is the default
OrdinaryAccepts(p) == RequireCallable /\ p = "strict"

Add(p) ==
  /\ policy = Unregistered
  /\ IF setup.durable THEN DurableAccepts(p) ELSE OrdinaryAccepts(p)
  /\ policy' = p
  /\ UNCHANGED <<setup, outbox, stored, task, known, next, running, histories>>

-----------------------------------------------------------------------------
(* The query, and recovery when the reaction starts                        *)

Produce ==
  /\ produced < MaxResults
  /\ produced' = produced + 1
  /\ oldest' = Later(oldest, produced + 1 - Capacity)
  /\ UNCHANGED <<setup, policy, stored, task, known, next, running, histories>>

NeedsSnapshotOnFreshStart == policy = "auto_reset"
Gap == stored # NoCheckpoint /\ stored < oldest

\* No callback handles from..to in this run or a later one.
GiveUp(from, to) == gaveUp' = gaveUp \union {n \in from..to : n \notin handled}

\* the checkpoint moves to the head of the result set
Reset == stored' = produced /\ next' = produced + 1

\* Mutant of Recover: a strict policy resets as well
RecoverAlwaysResets ==
  \/ /\ stored = NoCheckpoint
     /\ origin' = IF NeedsSnapshotOnFreshStart THEN produced ELSE oldest
     /\ IF NeedsSnapshotOnFreshStart
        THEN Reset
        ELSE stored' = stored /\ next' = oldest + 1
     /\ UNCHANGED gaveUp
  \/ /\ Gap
     /\ \/ policy # "skip_gap" /\ Reset /\ GiveUp(stored + 1, produced)
        \/ /\ policy = "skip_gap"
           /\ next' = oldest + 1
           /\ GiveUp(stored + 1, oldest)
           /\ UNCHANGED stored
     /\ UNCHANGED origin
  \/ /\ stored # NoCheckpoint /\ ~Gap
     /\ next' \in (oldest + 1)..(stored + 1)
     /\ UNCHANGED <<stored, gaveUp, origin>>

Recover ==
  \/ /\ stored = NoCheckpoint
     /\ origin' = IF NeedsSnapshotOnFreshStart THEN produced ELSE oldest
     /\ IF NeedsSnapshotOnFreshStart
        THEN Reset
        ELSE stored' = stored /\ next' = oldest + 1
     /\ UNCHANGED gaveUp
  \/ /\ Gap
     /\ \/ policy = "auto_reset" /\ Reset /\ GiveUp(stored + 1, produced)
        \/ /\ policy = "skip_gap"
           /\ next' = oldest + 1
           /\ GiveUp(stored + 1, oldest)
           /\ UNCHANGED stored
     /\ UNCHANGED origin
  \/ /\ stored # NoCheckpoint /\ ~Gap
     /\ next' \in (oldest + 1)..(stored + 1)
     /\ UNCHANGED <<stored, gaveUp, origin>>

\* Mutant of Start: the loop is not given the checkpoints
StartWithoutCheckpoints(readable) ==
  /\ policy # Unregistered /\ task = "off"
  /\ Recover
  /\ known' = NoCheckpoint
  /\ forgotten' = IF readable THEN forgotten ELSE Later(forgotten, stored')
  /\ task' = "idle"
  /\ UNCHANGED <<setup, policy, outbox, running, handled, doubtful>>

\* start, of both kinds: checkpoints that cannot be read are taken for none.
Start(readable) ==
  /\ policy # Unregistered /\ task = "off"
  /\ Recover
  /\ known' = IF readable THEN stored' ELSE NoCheckpoint
  /\ forgotten' = IF readable THEN forgotten ELSE Later(forgotten, stored')
  /\ task' = "idle"
  /\ UNCHANGED <<setup, policy, outbox, running, handled, doubtful>>

-----------------------------------------------------------------------------
(* The processing loop                                                     *)

Deliver ==
  /\ task = "idle" /\ next <= produced
  /\ IF next <= known
     THEN next' = next + 1 /\ UNCHANGED task
     ELSE task' = "calling" /\ UNCHANGED next
  /\ UNCHANGED <<setup, policy, outbox, stored, known, running, histories>>

\* dispatch calls and no more, so a coroutine it gets back is dropped;
\* dispatch_async awaits it.
Runs == setup.durable \/ setup.callback # "coroutine"

\* A durable callback runs on the loop captured when it was registered.
OnLoop == setup.durable

\* Mutant of RunRefuses: _Loop.run without its check
RunNeverRefuses == FALSE

\* sync.py, _Loop.run: a blocking call made on a thread that runs a loop raises.
\* One that waited there would wait for the loop it keeps from running.
RunRefuses == OnLoop
Stuck == setup.callback = "blocking" /\ OnLoop /\ ~RunRefuses

\* The awaited coroutine, or the call, ends well.
Return ==
  /\ task = "calling"
  /\ setup.durable => setup.callback = "coroutine"
  /\ task' = "called"
  /\ IF Runs
     THEN handled' = handled \union {next} /\ UNCHANGED gaveUp
     ELSE GiveUp(next, next) /\ UNCHANGED handled
  /\ UNCHANGED <<setup, policy, outbox, stored, known, next, running, doubtful,
                 origin, forgotten>>

\* Mutant of Raise: an error in the callback counts as its end
RaiseSwallowed ==
  /\ task = "calling"
  /\ Runs /\ ~Stuck
  /\ task' = "called"
  /\ UNCHANGED <<setup, policy, outbox, stored, known, next, running, histories>>

\* It raises, or there is nothing to await: the policy decides.
Raise ==
  /\ task = "calling"
  /\ Runs /\ ~Stuck
  /\ IF policy = "skip_gap"
     THEN task' = "called" /\ GiveUp(next, next)
     ELSE task' = "off" /\ UNCHANGED gaveUp
  /\ UNCHANGED <<setup, policy, outbox, stored, known, next, running, handled,
                 doubtful, origin, forgotten>>

WriteCheckpoint ==
  /\ task = "called"
  /\ task' = "idle"
  /\ next' = next + 1
  /\ stored' = next /\ known' = next
  /\ UNCHANGED <<setup, policy, outbox, running, histories>>

-----------------------------------------------------------------------------
(* What interrupts it                                                      *)

\* No checkpoint will be written for what the callback has just handled.
LeaveInDoubt ==
  doubtful' = IF task = "called" THEN doubtful \union ({next} \intersect handled)
              ELSE doubtful

\* stop_common ends the task; a coroutine it was awaiting goes on by itself.
Stop ==
  /\ task # "off"
  /\ task' = "off"
  /\ running' = IF task = "calling" /\ Runs THEN running \union {next} ELSE running
  /\ LeaveInDoubt
  /\ UNCHANGED <<setup, policy, outbox, stored, known, next, handled, gaveUp,
                 origin, forgotten>>

RunningEnds(n) ==
  /\ n \in running
  /\ running' = running \ {n}
  /\ \/ handled' = handled \union {n} /\ doubtful' = doubtful \union {n}
     \/ UNCHANGED <<handled, doubtful>>
  /\ UNCHANGED <<setup, policy, outbox, stored, task, known, next, gaveUp,
                 origin, forgotten>>

\* The process dies and takes the registration along, an outbox in memory, and
\* the checkpoint of an ordinary reaction: after a restart it starts from scratch.
Crash ==
  /\ policy # Unregistered
  /\ policy' = Unregistered
  /\ task' = "off"
  /\ running' = {}
  /\ oldest' = IF setup.indexStore THEN oldest ELSE produced
  /\ IF setup.durable
     THEN UNCHANGED <<stored, forgotten>>
     ELSE stored' = NoCheckpoint /\ forgotten' = Later(forgotten, stored)
  /\ LeaveInDoubt
  /\ UNCHANGED <<setup, produced, known, next, handled, gaveUp, origin>>

-----------------------------------------------------------------------------
Init ==
  /\ setup \in Setup
  /\ policy = Unregistered
  /\ produced = 0 /\ oldest = 0
  /\ stored = NoCheckpoint
  /\ task = "off"
  /\ known = NoCheckpoint
  /\ next = 1
  /\ running = {}
  /\ handled = {} /\ gaveUp = {} /\ doubtful = {}
  /\ origin = 0
  /\ forgotten = NoCheckpoint

Loop == Deliver \/ Return \/ Raise \/ WriteCheckpoint

Next ==
  \/ \E p \in Policies : Add(p)
  \/ Produce
  \/ \E readable \in BOOLEAN : Start(readable)
  \/ Loop
  \/ Stop
  \/ \E n \in Results : RunningEnds(n)
  \/ Crash

Spec == Init /\ [][Next]_vars
FairSpec == Spec /\ WF_vars(Loop)

-----------------------------------------------------------------------------
TypeOK ==
  /\ setup \in Setup
  /\ policy \in Policies \union {Unregistered}
  /\ produced \in 0..MaxResults /\ oldest \in 0..produced
  /\ stored \in -1..MaxResults /\ known \in -1..MaxResults
  /\ task \in {"off", "idle", "calling", "called"}
  /\ next \in 1..MaxResults + 1
  /\ running \subseteq Results
  /\ handled \subseteq Results /\ gaveUp \subseteq Results
  /\ doubtful \subseteq handled
  /\ origin \in 0..MaxResults
  /\ forgotten \in -1..MaxResults

\* From the origin of the checkpoints on, they never cover a result no callback
\* has handled, unless the policy gave it up or its coroutine was dropped, however
\* often the reaction is stopped, killed or started on checkpoints it cannot read
\* (dispatch, dispatch_async and start: "a callback that raises does not advance the
\* checkpoint").  Nothing is said of results the outbox had lost when there was no
\* checkpoint yet, nor, under auto_reset, of those before the head it begins at.
NothingLost ==
  \A n \in Results : origin < n /\ n <= stored => n \in handled \union gaveUp

\* What the application is promised as a whole, by both kinds of reaction: from the
\* origin on every result at least once, again only while its checkpoint is not
\* written or after it was forgotten, and nothing given up under a strict policy by
\* a callback that runs, whatever stops, dies or cannot be read (components.rs:
\* 549-590).  An ordinary reaction forgets its checkpoint with the process, and with
\* it the origin.
Promise == INSTANCE ResultDelivery WITH
  durable <- setup.durable,
  lenient <- ~Runs \/ policy \in {"auto_reset", "skip_gap"},
  checkpoint <- stored,
  called <- running \union (IF task = "calling" THEN {next} ELSE {})

RefinesResultDelivery == Promise!Spec

\* A callback is called again for what was handled only if the run that handled it
\* ended before its checkpoint was written, or if it is behind a checkpoint that
\* could not be read, or was an ordinary reaction's when the process died: stops and
\* starts alone repeat nothing, for either kind.
RedeliveryExplained ==
  [][task = "idle" /\ task' = "calling" /\ next \in handled =>
       next \in doubtful \/ next <= forgotten]_vars

\* A reaction that is not stopped and does not fail works off every result.
KeepsUp == <>[](task # "off") => <>[](next = produced + 1)

\* The guide on async callbacks (python-reactions.md:31-32): what the loop is past,
\* the application's callback has handled, but for what skip_gap lets go.
AsyncCallbacksRun ==
  [][task = "called" /\ task' = "idle" => next \in handled \/ policy = "skip_gap"]_vars

=============================================================================
