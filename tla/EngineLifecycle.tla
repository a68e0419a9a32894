--------------------------- MODULE EngineLifecycle ---------------------------
(***************************************************************************)
(* The Drasi object's lifecycle: start, stop and close, and the calls that *)
(* register, replace, remove, start and stop queries and reactions, as     *)
(* concurrent tasks that suspend at every await.                           *)
(*                                                                         *)
(* The engine proper (drasi-lib) is modelled from what engine.rs and the   *)
(* tests say of it.  It starts an auto-start query the moment it is added, *)
(* running or not; it starts auto-start queries and then reactions in its  *)
(* own start(); it marks a query it starts a second time as failed; and a  *)
(* reaction cannot subscribe to a query that is stopped.  The binding      *)
(* works round that: what is registered while the engine is stopped is     *)
(* registered with auto-start off and put on a deferred list, which start()*)
(* goes through itself, queries first.                                     *)
(***************************************************************************)
EXTENDS Naturals, FiniteSets

CONSTANTS
  Callers,    \* the application's concurrent calls
  Queries,    \* query ids
  Reactions,  \* reaction ids
  Watches,    \* Watches[r]: the queries reaction r subscribes to
  Ops,        \* the calls this application makes
  Cancellable,\* those of them whose awaitable it may cancel
  SerialIds,  \* it never overlaps two calls on the same component
  SerialLifecycle, \* nor start, stop or close with any other call
  None        \* no component

ComponentOps == {"add", "update", "remove", "start_one", "stop_one", "stream"}
EngineOps == {"start", "stop", "close"}
Components == Queries \cup Reactions

ASSUME Assumptions ==
  /\ Queries \cap Reactions = {}
  /\ None \notin Components
  /\ Watches \in [Reactions -> SUBSET Queries]
  /\ Ops \subseteq ComponentOps \cup EngineOps
  /\ Cancellable \subseteq Ops
  /\ SerialIds \in BOOLEAN /\ SerialLifecycle \in BOOLEAN

VARIABLES
  closed,   \* Inner::closed
  core,     \* the engine: "stopped", "running" or "shutdown"
  status,   \* each component's status in the engine
  auto,     \* the auto-start flag the engine stores for it
  deferred, \* Inner::deferred_queries and deferred_reactions
  call,     \* what each caller has in flight
  wanted,   \* history: the components registered with auto_start=True
  halted,   \* history: the components stopped one by one since the last start
  complete, \* history: the last start() returned without error
  tripped,  \* history: what the engine refused to start as already running,
            \* or unknown, on behalf of start()
  early     \* history: the deferred reactions start() started while an
            \* auto-start query of theirs was still stopped

vars == <<closed, core, status, auto, deferred, call, wanted, halted, complete,
          tripped, early>>
history == <<wanted, halted, complete, tripped, early>>

Steps ==
  {"idle", "check", "apply", "note", "forget", "clone_q", "queries", "start_q",
   "await", "clone_r", "reactions", "start_r"}

Idle == [op |-> "none", on |-> None, want |-> FALSE, hold |-> FALSE,
         todo |-> {}, step |-> "idle"]

TypeOK ==
  /\ closed \in BOOLEAN
  /\ core \in {"stopped", "running", "shutdown"}
  /\ status \in [Components ->
                   {"absent", "stopped", "starting", "running", "error"}]
  /\ auto \in [Components -> BOOLEAN]
  /\ deferred \in SUBSET Components
  /\ call \in [Callers -> [op : Ops \cup {"none"}, on : Components \cup {None},
                           want : BOOLEAN, hold : BOOLEAN,
                           todo : SUBSET Components, step : Steps]]
  /\ wanted \in SUBSET Components
  /\ halted \in SUBSET Components
  /\ complete \in BOOLEAN
  /\ tripped \in SUBSET Components
  /\ early \in SUBSET Components

\* create(): an engine without components
Created ==
  /\ core = "stopped"
  /\ status = [x \in Components |-> "absent"]
  /\ auto = [x \in Components |-> FALSE]
  /\ wanted = {} /\ complete = FALSE

\* from_config(), which starts the engine and then adds what the configuration
\* lists, queries before reactions, with auto-start as it is: the queries started
\* at once, each reaction after them.  If any part fails there is no engine.
FromConfig ==
  \E listed \in SUBSET Components :
    /\ core = "running" /\ complete = TRUE
    /\ wanted \in SUBSET listed
    /\ \A r \in Reactions \cap listed : Watches[r] \subseteq listed
    /\ auto = [x \in Components |-> x \in wanted]
    /\ status \in [Components -> {"absent", "stopped", "starting", "running", "error"}]
    /\ \A x \in Components \ wanted :
         status[x] = IF x \in listed THEN "stopped" ELSE "absent"
    /\ \A q \in Queries \cap wanted : status[q] \in {"starting", "running", "error"}
    /\ \A r \in Reactions \cap wanted :
         \/ status[r] = "running" /\ Watches[r] \subseteq wanted
         \/ status[r] = "error" /\ \E q \in Watches[r] : status[q] \in {"stopped", "error"}

Init ==
  /\ Created \/ FromConfig
  /\ closed = FALSE
  /\ deferred = {}
  /\ call = [c \in Callers |-> Idle]
  /\ halted = {} /\ tripped = {} /\ early = {}

-----------------------------------------------------------------------------
(* The engine's view of components *)

Present(x) == status[x] # "absent"
Live(s) == s \in {"starting", "running"}
Active(x) == Live(status[x])

\* every query r subscribes to is at least starting, given statuses st
Subscribable(r, st) == \A q \in Watches[r] : Live(st[q])

\* the status x gets when the engine starts it
Launched(x, st) ==
  IF x \in Queries THEN "starting"
  ELSE IF Subscribable(x, st) THEN "running" ELSE "error"

Quiesced == [x \in Components |-> IF Active(x) THEN "stopped" ELSE status[x]]

\* r is started while a query it needs, itself to be started, is still stopped
TooEarly(r) == \E q \in Watches[r] : status[q] = "stopped" /\ q \in wanted

-----------------------------------------------------------------------------
(* Entering and leaving a call *)

InFlight(c) == call[c].step # "idle"
Return(c) == call' = [call EXCEPT ![c] = Idle]
At(c, op, step) == call[c].op = op /\ call[c].step = step
Goto(c, step) == call' = [call EXCEPT ![c].step = step]

MayOverlap(op, x) ==
  \A d \in Callers : InFlight(d) =>
    /\ SerialIds => ~(call[d].op \in ComponentOps /\ call[d].on = x)
    /\ SerialLifecycle => op \notin EngineOps /\ call[d].op \notin EngineOps

\* a call on a component: ensure_open runs at once, the rest in a task;
\* query_results and on_query_results ("stream") have no ensure_open
BeginComponent(c, op, x, want) ==
  /\ ~InFlight(c)
  /\ op \in Ops \cap ComponentOps
  /\ op # "stream" => ~closed
  /\ op = "stream" => x \in Reactions /\ want
  /\ MayOverlap(op, x)
  /\ call' = [call EXCEPT ![c] =
       [op |-> op, on |-> x, want |-> want, hold |-> FALSE, todo |-> {},
        step |-> IF op \in {"add", "update", "stream"} THEN "check" ELSE "apply"]]
  /\ UNCHANGED <<closed, core, status, auto, deferred, history>>

\* start, stop, or close, which sets the closed flag before its task runs
BeginEngine(c, op) ==
  /\ ~InFlight(c)
  /\ op \in Ops \cap EngineOps
  /\ MayOverlap(op, None)
  /\ closed' = (closed \/ op = "close")
  /\ call' = [call EXCEPT ![c] =
       [op |-> op, on |-> None, want |-> FALSE, hold |-> FALSE, todo |-> {},
        step |-> "apply"]]
  /\ UNCHANGED <<core, status, auto, deferred, history>>

\* the awaitable is cancelled and the task dropped between two awaits
Cancel(c) ==
  /\ InFlight(c)
  /\ call[c].op \in Cancellable
  /\ Return(c)
  /\ UNCHANGED <<closed, core, status, auto, deferred, history>>

-----------------------------------------------------------------------------
(* Registering, replacing and removing a component *)

\* Mutant of Check: hands the engine the auto-start flag as it is
CheckNothing(c) ==
  /\ call[c].step = "check"
  /\ Goto(c, "apply")
  /\ UNCHANGED <<closed, core, status, auto, deferred, history>>

\* register_query's defer and hold_reaction_until_queries: is_running is read
\* here and used after the next await
Check(c) ==
  /\ call[c].step = "check"
  /\ call' = [call EXCEPT ![c].step = "apply",
                          ![c].hold = call[c].want /\ core # "running"]
  /\ UNCHANGED <<closed, core, status, auto, deferred, history>>

Flag(c) == call[c].want /\ ~call[c].hold

\* the engine takes the definition of x; a query with auto-start on starts
\* there and then, a reaction if the engine runs
Install(c, x) ==
  /\ status' = [status EXCEPT ![x] =
       IF Flag(c) /\ core # "shutdown" /\ (x \in Queries \/ core = "running")
       THEN Launched(x, status) ELSE "stopped"]
  /\ auto' = [auto EXCEPT ![x] = Flag(c)]
  /\ wanted' = IF call[c].want THEN wanted \cup {x} ELSE wanted \ {x}
  /\ halted' = halted \ {x}
  /\ Goto(c, "note")
  /\ UNCHANGED <<closed, core, deferred, complete, tripped, early>>

\* a new id, and a reaction's queries exist
ApplyAdd(c) ==
  LET x == call[c].on IN
  /\ At(c, "add", "apply") \/ At(c, "stream", "apply")
  /\ \/ /\ ~Present(x)
        /\ x \in Reactions => \A q \in Watches[x] : Present(q)
        /\ Install(c, x)
     \/ /\ Present(x) \/ (x \in Reactions /\ \E q \in Watches[x] : ~Present(q))
        /\ Return(c)
        /\ UNCHANGED <<closed, core, status, auto, deferred, history>>

\* an existing id; the engine restarts it if its new definition says so
ApplyUpdate(c) ==
  LET x == call[c].on IN
  /\ At(c, "update", "apply")
  /\ \/ Present(x) /\ Install(c, x)
     \/ /\ ~Present(x)
        /\ Return(c)
        /\ UNCHANGED <<closed, core, status, auto, deferred, history>>

\* Mutant of Note: a definition that need not wait stays on the list
NoteOnlyAdds(c) ==
  /\ call[c].step = "note"
  /\ deferred' = IF call[c].hold THEN deferred \cup {call[c].on} ELSE deferred
  /\ Return(c)
  /\ UNCHANGED <<closed, core, status, auto, history>>

\* note_deferred and note_deferred_reaction
Note(c) ==
  /\ call[c].step = "note"
  /\ deferred' = IF call[c].hold THEN deferred \cup {call[c].on}
                 ELSE deferred \ {call[c].on}
  /\ Return(c)
  /\ UNCHANGED <<closed, core, status, auto, history>>

\* the engine refuses to remove what a reaction depends on
ApplyRemove(c) ==
  LET x == call[c].on
      needed == \E r \in Reactions : Present(r) /\ x \in Watches[r]
  IN
  /\ At(c, "remove", "apply")
  /\ \/ /\ Present(x) /\ ~needed
        /\ status' = [status EXCEPT ![x] = "absent"]
        /\ auto' = [auto EXCEPT ![x] = FALSE]
        /\ wanted' = wanted \ {x}
        /\ halted' = halted \ {x}
        /\ Goto(c, "forget")
        /\ UNCHANGED <<closed, core, deferred, complete, tripped, early>>
     \/ /\ ~Present(x) \/ needed
        /\ Return(c)
        /\ UNCHANGED <<closed, core, status, auto, deferred, history>>

\* Mutant of Forget: the removed component stays on the deferred list
ForgetNothing(c) ==
  /\ call[c].step = "forget"
  /\ Return(c)
  /\ UNCHANGED <<closed, core, status, auto, deferred, history>>

\* forget_deferred_query and forget_deferred_reaction
Forget(c) ==
  /\ call[c].step = "forget"
  /\ deferred' = deferred \ {call[c].on}
  /\ Return(c)
  /\ UNCHANGED <<closed, core, status, auto, history>>

-----------------------------------------------------------------------------
(* Starting and stopping one component *)

ApplyStartOne(c) ==
  LET x == call[c].on IN
  /\ At(c, "start_one", "apply")
  /\ \/ /\ core = "running" /\ Present(x) /\ ~Active(x)
        /\ status' = [status EXCEPT ![x] = Launched(x, status)]
        /\ halted' = halted \ {x}
     \/ /\ core # "running" \/ ~Present(x) \/ Active(x)
        /\ UNCHANGED <<status, halted>>
  /\ Return(c)
  /\ UNCHANGED <<closed, core, auto, deferred, wanted, complete, tripped, early>>

ApplyStopOne(c) ==
  LET x == call[c].on IN
  /\ At(c, "stop_one", "apply")
  /\ \/ /\ Active(x)
        /\ status' = [status EXCEPT ![x] = "stopped"]
        /\ halted' = halted \cup {x}
     \/ /\ ~Active(x)
        /\ UNCHANGED <<status, halted>>
  /\ Return(c)
  /\ UNCHANGED <<closed, core, auto, deferred, wanted, complete, tripped, early>>

-----------------------------------------------------------------------------
(* start() *)

\* DrasiLib::start: auto-start queries, then auto-start reactions
CoreStart ==
  LET again == {q \in Queries : auto[q] /\ Active(q)}
      up == [x \in Components |->
               IF x \in again THEN "error"
               ELSE IF x \in Queries /\ auto[x] THEN "starting" ELSE status[x]]
      joining == {r \in Reactions : auto[r] /\ ~Active(r)}
  IN
  /\ status' = [x \in Components |->
                  IF x \in joining THEN Launched(x, up) ELSE up[x]]
  /\ tripped' = tripped \cup again
  /\ core' = "running"
  /\ halted' = {}
  /\ complete' = FALSE

\* Mutant of ApplyStart: the reactions come first and the queries never
ApplyStartReactionsFirst(c) ==
  /\ At(c, "start", "apply")
  /\ \/ /\ core = "stopped"
        /\ CoreStart
        /\ Goto(c, "clone_r")
        /\ UNCHANGED <<closed, auto, deferred, wanted, early>>
     \/ /\ core # "stopped"
        /\ Return(c)
        /\ UNCHANGED <<closed, core, status, auto, deferred, history>>

\* a running engine answers "already running", a closed one "shut down"
ApplyStart(c) ==
  /\ At(c, "start", "apply")
  /\ \/ /\ core = "stopped"
        /\ CoreStart
        /\ Goto(c, "clone_q")
        /\ UNCHANGED <<closed, auto, deferred, wanted, early>>
     \/ /\ core # "stopped"
        /\ Return(c)
        /\ UNCHANGED <<closed, core, status, auto, deferred, history>>

\* Mutant of Clone: takes the list instead of copying it
CloneAndClear(c) ==
  /\ \/ /\ call[c].step = "clone_q"
        /\ call' = [call EXCEPT ![c].step = "queries",
                                ![c].todo = deferred \cap Queries]
        /\ deferred' = deferred \ Queries
     \/ /\ call[c].step = "clone_r"
        /\ call' = [call EXCEPT ![c].step = "reactions",
                                ![c].todo = deferred \cap Reactions]
        /\ deferred' = deferred \ Reactions
  /\ UNCHANGED <<closed, core, status, auto, history>>

\* start_deferred_queries and start_deferred_reactions copy their list, which
\* is kept for the next start
Clone(c) ==
  /\ \/ /\ call[c].step = "clone_q"
        /\ call' = [call EXCEPT ![c].step = "queries",
                                ![c].todo = deferred \cap Queries]
     \/ /\ call[c].step = "clone_r"
        /\ call' = [call EXCEPT ![c].step = "reactions",
                                ![c].todo = deferred \cap Reactions]
  /\ UNCHANGED <<closed, core, status, auto, deferred, history>>

\* the next deferred component: skipped if it runs already
Pick(c, x) ==
  /\ call[c].step \in {"queries", "reactions"}
  /\ x \in call[c].todo
  /\ IF status[x] = "running"
     THEN call' = [call EXCEPT ![c].todo = @ \ {x}]
     ELSE call' = [call EXCEPT ![c].on = x, ![c].step =
                     IF call[c].step = "queries" THEN "start_q" ELSE "start_r"]
  /\ UNCHANGED <<closed, core, status, auto, deferred, history>>

\* core.start_query or core.start_reaction on a deferred component; an error
\* ends start() and leaves the engine running with the rest not started
StartDeferred(c) ==
  LET x == call[c].on
      refused == core # "running" \/ ~Present(x) \/ Active(x)
      query == call[c].step = "start_q"
      next == Launched(x, status)
  IN
  /\ call[c].step \in {"start_q", "start_r"}
  /\ \/ /\ refused
        /\ tripped' = IF core = "running" THEN tripped \cup {x} ELSE tripped
        /\ Return(c)
        /\ UNCHANGED <<status, early>>
     \/ /\ ~refused
        /\ status' = [status EXCEPT ![x] = next]
        /\ early' = IF ~query /\ TooEarly(x) THEN early \cup {x} ELSE early
        /\ \/ query /\ Goto(c, "await")
           \/ /\ ~query /\ next = "running"
              /\ call' = [call EXCEPT ![c].step = "reactions",
                                      ![c].todo = @ \ {x}, ![c].on = None]
           \/ ~query /\ next = "error" /\ Return(c)
        /\ UNCHANGED tripped
  /\ UNCHANGED <<closed, core, auto, deferred, wanted, halted, complete>>

\* await_query_running: Running ends the wait and Error ends start(); any
\* other status, the query's removal included, keeps it polling
Await(c) ==
  /\ call[c].step = "await"
  /\ \/ /\ status[call[c].on] = "running"
        /\ call' = [call EXCEPT ![c].step = "queries", ![c].on = None,
                                ![c].todo = @ \ {call[c].on}]
     \/ /\ status[call[c].on] = "error"
        /\ Return(c)
  /\ UNCHANGED <<closed, core, status, auto, deferred, history>>

\* Mutant of AwaitTimeout: the deadline only ends the wait for a query that is
\* still there
TimeoutIfPresent(c) ==
  /\ call[c].step = "await"
  /\ status[call[c].on] = "starting"
  /\ Return(c)
  /\ UNCHANGED <<closed, core, status, auto, deferred, history>>

\* Mutant of AwaitTimeout: the deadline is noted and nothing takes it up
TimeoutUnhandled(c) ==
  /\ call[c].step = "await"
  /\ status[call[c].on] \notin {"running", "error"}
  /\ Goto(c, "timed_out")
  /\ UNCHANGED <<closed, core, status, auto, deferred, history>>

\* ... until 30 seconds are up, which is an error of start()
AwaitTimeout(c) ==
  /\ call[c].step = "await"
  /\ status[call[c].on] \notin {"running", "error"}
  /\ Return(c)
  /\ UNCHANGED <<closed, core, status, auto, deferred, history>>

\* a list is done: on to the reactions, or start() returns
Finish(c) ==
  /\ call[c].todo = {}
  /\ \/ call[c].step = "queries" /\ Goto(c, "clone_r") /\ UNCHANGED complete
     \/ call[c].step = "reactions" /\ Return(c) /\ complete' = TRUE
  /\ UNCHANGED <<closed, core, status, auto, deferred, wanted, halted, tripped,
                 early>>

-----------------------------------------------------------------------------
(* stop() and close() *)

ApplyStop(c) ==
  /\ At(c, "stop", "apply")
  /\ \/ /\ core = "running"
        /\ core' = "stopped"
        /\ status' = Quiesced
        /\ complete' = FALSE
     \/ /\ core # "running"
        /\ UNCHANGED <<core, status, complete>>
  /\ Return(c)
  /\ UNCHANGED <<closed, auto, deferred, wanted, halted, tripped, early>>

ApplyClose(c) ==
  /\ At(c, "close", "apply")
  /\ core' = "shutdown"
  /\ status' = Quiesced
  /\ complete' = FALSE
  /\ Return(c)
  /\ UNCHANGED <<closed, auto, deferred, wanted, halted, tripped, early>>

\* a starting query settles in the background
QuerySettles(q) ==
  /\ status[q] = "starting"
  /\ \E s \in {"running", "error"} : status' = [status EXCEPT ![q] = s]
  /\ UNCHANGED <<closed, core, auto, deferred, call, history>>

-----------------------------------------------------------------------------
Begin(c) ==
  \/ \E op \in ComponentOps, x \in Components, want \in BOOLEAN :
       BeginComponent(c, op, x, want)
  \/ \E op \in EngineOps : BeginEngine(c, op)

\* the rest of a call, which the runtime drives
Step(c) ==
  \/ Check(c) \/ ApplyAdd(c) \/ ApplyUpdate(c) \/ Note(c)
  \/ ApplyRemove(c) \/ Forget(c)
  \/ ApplyStartOne(c) \/ ApplyStopOne(c)
  \/ ApplyStart(c) \/ Clone(c) \/ (\E x \in Components : Pick(c, x))
  \/ StartDeferred(c) \/ Await(c) \/ AwaitTimeout(c) \/ Finish(c)
  \/ ApplyStop(c) \/ ApplyClose(c)

Next ==
  \/ \E c \in Callers : Begin(c) \/ Step(c) \/ Cancel(c)
  \/ \E q \in Queries : QuerySettles(q)

Spec == Init /\ [][Next]_vars

\* a spawned task is polled until it is done; queries, and the application,
\* owe nothing
FairSpec == Spec /\ \A c \in Callers : WF_vars(Step(c))

-----------------------------------------------------------------------------
(* Properties *)

\* no call on x is in flight
Settled(x) == \A c \in Callers : ~(call[c].op \in ComponentOps /\ call[c].on = x)
NoEngineCall == \A c \in Callers : call[c].op \notin EngineOps

\* A component asked to auto-start has exactly one starter, the engine or the
\* deferred list; any other has none, and nothing removed is left on the list.
\* It needs calls on one component not to overlap, and nothing more.
ExactlyOneStarter ==
  \A x \in Components : Settled(x) =>
    IF x \in wanted THEN Present(x) /\ (auto[x] <=> x \notin deferred)
    ELSE ~auto[x] /\ x \notin deferred

\* Nothing runs in an engine that is not running: the premature start of
\* queries in the engine's add_query is suppressed, however they got there.
QuietWhileStopped ==
  core # "running" => \A x \in Components : ~Active(x)

\* start() is never refused a component because it already runs or is gone.
StartNeverTrips == tripped = {}

\* After a start() that succeeded, and while the engine runs, every component
\* that asked to auto-start has been started, unless it was stopped by name.
NoneLeftBehind ==
  core = "running" /\ complete /\ NoEngineCall =>
    \A x \in wanted : Settled(x) /\ status[x] = "stopped" => x \in halted

\* A reaction the binding holds back is never started before its queries.
HeldReactionsFollowQueries == early = {}

\* After a start() that succeeded, an auto-start reaction whose queries all run
\* is running too: start() starts every component configured to auto-start.
StartStartsReactions ==
  core = "running" /\ complete /\ NoEngineCall =>
    \A r \in (Reactions \cap wanted) \ halted :
      Settled(r) /\ (\A q \in Watches[r] : status[q] = "running")
        => status[r] = "running"

\* The guide error-handling.md:102-103 and the comment of close (engine.rs:567-568):
\* once close() was called, nothing adds a component.
ClosedAdmitsNothing ==
  [][closed => \A x \in Components : Present(x)' => Present(x)]_vars

\* Every call returns, whatever is removed, stopped or closed around it.
CallsReturn == \A c \in Callers : InFlight(c) ~> ~InFlight(c)
=============================================================================
