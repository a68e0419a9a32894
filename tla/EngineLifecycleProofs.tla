------------------------ MODULE EngineLifecycleProofs ------------------------
(***************************************************************************)
(* Proofs about EngineLifecycle for any number of callers, queries and     *)
(* reactions: its types; that a component never has two starters or none   *)
(* as long as calls on one component do not overlap; and what start(),     *)
(* stop() and close() guarantee as long as they overlap nothing.           *)
(***************************************************************************)
EXTENDS EngineLifecycle, TLAPS

CallType == [op : Ops \cup {"none"}, on : Components \cup {None},
             want : BOOLEAN, hold : BOOLEAN,
             todo : SUBSET Components, step : Steps]

StatusType == {"absent", "stopped", "starting", "running", "error"}

ComponentSteps == {"check", "apply", "note", "forget"}
StartSteps == {"apply", "clone_q", "queries", "start_q", "await", "clone_r",
               "reactions", "start_r"}

\* the steps a call of each kind goes through
WellFormed(r) ==
  /\ r.step = "idle" <=> r.op = "none"
  /\ r.op \in ComponentOps => r.on \in Components /\ r.step \in ComponentSteps
  /\ r.op \in EngineOps => r.step \in StartSteps
  /\ r.step = "note" => r.op \in {"add", "update", "stream"}
  /\ r.step = "forget" => r.op = "remove"
  /\ r.step \in {"start_q", "await", "start_r"} => r.on \in Components
  /\ r.hold => r.want

Shape == \A c \in Callers : WellFormed(call[c])

Typed == TypeOK /\ Shape

-----------------------------------------------------------------------------
(* Calls *)

LEMMA IdleType == Idle \in CallType /\ WellFormed(Idle)
  BY DEF Idle, CallType, Steps, WellFormed, ComponentOps, EngineOps

LEMMA OpSets ==
  /\ Ops \subseteq ComponentOps \cup EngineOps
  /\ ComponentOps \cap EngineOps = {}
  /\ "none" \notin ComponentOps \cup EngineOps
  BY Assumptions DEF ComponentOps, EngineOps

\* The calls stay well formed when one caller's record becomes another
\* well-formed one.
LEMMA SetCall ==
  ASSUME Typed, NEW c \in Callers, NEW r \in CallType, WellFormed(r),
         call' = [call EXCEPT ![c] = r]
  PROVE  call' \in [Callers -> CallType] /\ Shape'
  BY DEF Typed, TypeOK, CallType, Shape, WellFormed

\* The same for a step that returns.
LEMMA ReturnCall ==
  ASSUME Typed, NEW c \in Callers, Return(c)
  PROVE  call' \in [Callers -> CallType] /\ Shape'
  BY IdleType, SetCall DEF Return

\* The same for a step that only moves to step s.
LEMMA GotoCall ==
  ASSUME Typed, NEW c \in Callers, NEW s \in Steps, Goto(c, s),
         WellFormed([call[c] EXCEPT !.step = s])
  PROVE  call' \in [Callers -> CallType] /\ Shape'
<1> DEFINE r == [call[c] EXCEPT !.step = s]
<1>1. call[c] \in CallType
  BY DEF Typed, TypeOK, CallType
<1>2. r \in CallType
  BY <1>1 DEF CallType
<1>3. call' = [call EXCEPT ![c] = r]
  BY DEF Goto
<1> QED
  BY <1>2, <1>3, SetCall

\* A step that changes nothing but the calls keeps the types.
LEMMA OnlyCalls ==
  ASSUME Typed, call' \in [Callers -> CallType] /\ Shape',
         UNCHANGED <<closed, core, status, auto, deferred, history>>
  PROVE  Typed'
  BY DEF Typed, TypeOK, CallType, history

-----------------------------------------------------------------------------
(* Types *)

LEMMA InitTyped == Init => Typed
<1> SUFFICES ASSUME Init PROVE Typed
  OBVIOUS
<1>1. call \in [Callers -> CallType] /\ Shape
  BY IdleType DEF Init, Shape
<1>2. CASE Created
  BY <1>1, <1>2 DEF Init, Created, Typed, TypeOK, CallType
<1>3. CASE FromConfig
  <2>1. /\ core = "running" /\ complete = TRUE
        /\ wanted \in SUBSET Components
        /\ auto = [x \in Components |-> x \in wanted]
        /\ status \in [Components ->
                         {"absent", "stopped", "starting", "running", "error"}]
    BY <1>3 DEF FromConfig
  <2>2. auto \in [Components -> BOOLEAN]
    BY <2>1
  <2> QED
    BY <1>1, <2>1, <2>2 DEF Init, Typed, TypeOK, CallType
<1> QED
  BY <1>2, <1>3 DEF Init

LEMMA LaunchedType ==
  ASSUME NEW x, NEW st
  PROVE  Launched(x, st) \in {"starting", "running", "error"}
  BY DEF Launched

LEMMA InstallTyped ==
  ASSUME Typed, NEW c \in Callers, call[c].op \in {"add", "update", "stream"},
         Install(c, call[c].on)
  PROVE  Typed'
<1> DEFINE x == call[c].on
<1>0. call[c] \in CallType /\ WellFormed(call[c]) /\ Flag(c) \in BOOLEAN
  BY DEF Typed, TypeOK, CallType, Flag, Shape
<1>1. x \in Components /\ call[c].op \in ComponentOps
  BY <1>0 DEF WellFormed, ComponentOps
<1>2. call' \in [Callers -> CallType] /\ Shape'
  <2>1. WellFormed([call[c] EXCEPT !.step = "note"])
    BY <1>0, <1>1, OpSets DEF CallType, WellFormed, ComponentSteps
  <2>2. "note" \in Steps /\ Goto(c, "note")
    BY DEF Install, Steps
  <2> QED
    BY <2>1, <2>2, GotoCall
<1>3. status' \in [Components -> StatusType]
  <2> DEFINE s == IF Flag(c) /\ core # "shutdown"
                        /\ (x \in Queries \/ core = "running")
                  THEN Launched(x, status) ELSE "stopped"
  <2>1. s \in StatusType
    BY LaunchedType DEF StatusType
  <2>2. status' = [status EXCEPT ![x] = s]
    BY DEF Install
  <2>3. status \in [Components -> StatusType]
    BY DEF Typed, TypeOK, StatusType
  <2> HIDE DEF s
  <2> QED
    BY <2>1, <2>2, <2>3
<1>4. auto' \in [Components -> BOOLEAN]
  BY <1>0 DEF Typed, TypeOK, Install
<1> QED
  BY <1>1, <1>2, <1>3, <1>4 DEF Typed, TypeOK, Install, StatusType, CallType

\* Every step keeps the types and the shape of the calls.
LEMMA TypedStep == Typed /\ [Next]_vars => Typed'
<1> SUFFICES ASSUME Typed, [Next]_vars
             PROVE  Typed'
  OBVIOUS
<1>0. /\ call \in [Callers -> CallType]
      /\ \A c \in Callers : call[c] \in CallType /\ WellFormed(call[c])
  BY DEF Typed, TypeOK, CallType, Shape
<1>1. ASSUME NEW c \in Callers, NEW op \in ComponentOps, NEW x \in Components,
             NEW want \in BOOLEAN, BeginComponent(c, op, x, want)
      PROVE  Typed'
  <2> DEFINE r == [op |-> op, on |-> x, want |-> want, hold |-> FALSE,
                   todo |-> {}, step |-> IF op \in {"add", "update", "stream"}
                                         THEN "check" ELSE "apply"]
  <2>1. r \in CallType
    BY <1>1 DEF BeginComponent, CallType, Steps
  <2>2. WellFormed(r)
    BY <1>1, OpSets DEF WellFormed, ComponentSteps
  <2>3. call' = [call EXCEPT ![c] = r]
    BY <1>1 DEF BeginComponent
  <2> QED
    BY <2>1, <2>2, <2>3, <1>1, SetCall, OnlyCalls DEF BeginComponent
<1>2. ASSUME NEW c \in Callers, NEW op \in EngineOps, BeginEngine(c, op)
      PROVE  Typed'
  <2> DEFINE r == [op |-> op, on |-> None, want |-> FALSE, hold |-> FALSE,
                   todo |-> {}, step |-> "apply"]
  <2>1. r \in CallType
    BY <1>2 DEF BeginEngine, CallType, Steps
  <2>2. WellFormed(r)
    BY <1>2, OpSets DEF WellFormed, StartSteps
  <2>3. call' = [call EXCEPT ![c] = r]
    BY <1>2 DEF BeginEngine
  <2>4. call' \in [Callers -> CallType] /\ Shape'
    BY <2>1, <2>2, <2>3, SetCall
  <2> QED
    BY <2>4, <1>2 DEF BeginEngine, Typed, TypeOK, CallType, history
<1>3. ASSUME NEW c \in Callers, Cancel(c)
      PROVE  Typed'
  BY <1>3, ReturnCall, OnlyCalls DEF Cancel
<1>4. ASSUME NEW c \in Callers, Check(c)
      PROVE  Typed'
  <2> DEFINE h == call[c].want /\ core # "running"
             r == [call[c] EXCEPT !.step = "apply", !.hold = h]
  <2>1. h \in BOOLEAN /\ (h => call[c].want)
    BY <1>0 DEF CallType
  <2> HIDE DEF h
  <2>2. r \in CallType /\ WellFormed(r)
    BY <1>0, <1>4, <2>1, OpSets
    DEF Check, CallType, Steps, WellFormed, ComponentSteps, StartSteps
  <2>3. call' = [call EXCEPT ![c] = r]
    BY <1>0, <1>4 DEF Check, CallType, h
  <2> QED
    BY <2>2, <2>3, <1>4, SetCall, OnlyCalls DEF Check
<1>5. ASSUME NEW c \in Callers, ApplyAdd(c) \/ ApplyUpdate(c)
      PROVE  Typed'
  <2>1. CASE /\ Return(c)
             /\ UNCHANGED <<closed, core, status, auto, deferred, history>>
    BY <2>1, ReturnCall, OnlyCalls
  <2>2. CASE Install(c, call[c].on)
    BY <1>5, <2>2, InstallTyped DEF ApplyAdd, ApplyUpdate, At
  <2> QED
    BY <2>1, <2>2, <1>5 DEF ApplyAdd, ApplyUpdate
<1>6. ASSUME NEW c \in Callers, Note(c) \/ Forget(c)
      PROVE  Typed'
  <2>1. call[c].on \in Components /\ Return(c)
    BY <1>0, <1>6 DEF Note, Forget, WellFormed, ComponentOps
  <2> QED
    BY <2>1, <1>6, ReturnCall DEF Note, Forget, Typed, TypeOK, CallType, history
<1>7. ASSUME NEW c \in Callers, ApplyRemove(c)
      PROVE  Typed'
  <2>1. CASE /\ Return(c)
             /\ UNCHANGED <<closed, core, status, auto, deferred, history>>
    BY <2>1, ReturnCall, OnlyCalls
  <2>2. CASE /\ status' = [status EXCEPT ![call[c].on] = "absent"]
             /\ auto' = [auto EXCEPT ![call[c].on] = FALSE]
             /\ wanted' = wanted \ {call[c].on}
             /\ halted' = halted \ {call[c].on}
             /\ Goto(c, "forget")
             /\ UNCHANGED <<closed, core, deferred, complete, tripped, early>>
    <3>1. WellFormed([call[c] EXCEPT !.step = "forget"]) /\ "forget" \in Steps
      BY <1>0, <1>7, OpSets
      DEF ApplyRemove, At, WellFormed, CallType, ComponentSteps, ComponentOps,
          Steps
    <3>2. call' \in [Callers -> CallType] /\ Shape'
      BY <2>2, <3>1, GotoCall
    <3> QED
      BY <2>2, <3>2 DEF Typed, TypeOK, CallType
  <2> QED
    BY <2>1, <2>2, <1>7 DEF ApplyRemove
<1>8. ASSUME NEW c \in Callers, ApplyStartOne(c) \/ ApplyStopOne(c)
      PROVE  Typed'
  <2> DEFINE x == call[c].on
  <2>1. call[c].on \in Components /\ Return(c)
    BY <1>0, <1>8 DEF ApplyStartOne, ApplyStopOne, At, WellFormed, ComponentOps
  <2>2. status' \in [Components -> StatusType]
    BY <1>8, LaunchedType
    DEF ApplyStartOne, ApplyStopOne, Typed, TypeOK, StatusType
  <2> QED
    BY <2>1, <2>2, <1>8, ReturnCall
    DEF ApplyStartOne, ApplyStopOne, Typed, TypeOK, CallType, StatusType
<1>9. ASSUME NEW c \in Callers, ApplyStart(c)
      PROVE  Typed'
  <2>1. CASE /\ Return(c)
             /\ UNCHANGED <<closed, core, status, auto, deferred, history>>
    BY <2>1, ReturnCall, OnlyCalls
  <2>2. CASE /\ CoreStart
             /\ Goto(c, "clone_q")
             /\ UNCHANGED <<closed, auto, deferred, wanted, early>>
    <3>1. WellFormed([call[c] EXCEPT !.step = "clone_q"]) /\ "clone_q" \in Steps
      BY <1>0, <1>9, OpSets
      DEF ApplyStart, At, WellFormed, CallType, StartSteps, EngineOps, Steps
    <3>2. call' \in [Callers -> CallType] /\ Shape'
      BY <2>2, <3>1, GotoCall
    <3>3. status' \in [Components -> StatusType]
      BY <2>2, LaunchedType DEF CoreStart, Typed, TypeOK, StatusType
    <3>4. tripped' \in SUBSET Components
      BY <2>2 DEF CoreStart, Typed, TypeOK, Components
    <3> QED
      BY <2>2, <3>2, <3>3, <3>4
      DEF CoreStart, Typed, TypeOK, CallType, StatusType
  <2> QED
    BY <2>1, <2>2, <1>9 DEF ApplyStart
<1>10. ASSUME NEW c \in Callers, Clone(c)
       PROVE  Typed'
  <2>1. PICK s \in {"queries", "reactions"}, t \in SUBSET Components :
             call' = [call EXCEPT ![c].step = s, ![c].todo = t]
    BY <1>10 DEF Clone, Components
  <2> DEFINE r == [call[c] EXCEPT !.step = s, !.todo = t]
  <2>2. r \in CallType /\ WellFormed(r)
    BY <1>0, <1>10, OpSets
    DEF Clone, CallType, Steps, WellFormed, ComponentSteps, StartSteps
  <2>3. call' = [call EXCEPT ![c] = r]
    BY <1>0, <2>1 DEF CallType
  <2> QED
    BY <2>2, <2>3, <1>10, SetCall, OnlyCalls DEF Clone
<1>11. ASSUME NEW c \in Callers, NEW x \in Components, Pick(c, x)
       PROVE  Typed'
  <2>1. CASE call' = [call EXCEPT ![c].todo = @ \ {x}]
    <3> DEFINE r == [call[c] EXCEPT !.todo = @ \ {x}]
    <3>1. r \in CallType /\ WellFormed(r)
      BY <1>0 DEF CallType, WellFormed
    <3>2. call' = [call EXCEPT ![c] = r]
      BY <1>0, <2>1 DEF CallType
    <3> QED
      BY <3>1, <3>2, <1>11, SetCall, OnlyCalls DEF Pick
  <2>2. ASSUME NEW s \in {"start_q", "start_r"},
               call' = [call EXCEPT ![c].on = x, ![c].step = s]
        PROVE  Typed'
    <3> DEFINE r == [call[c] EXCEPT !.on = x, !.step = s]
    <3>1. r \in CallType /\ WellFormed(r)
      BY <1>0, <1>11, OpSets
      DEF Pick, CallType, Steps, WellFormed, ComponentSteps, StartSteps
    <3>2. call' = [call EXCEPT ![c] = r]
      BY <1>0, <2>2 DEF CallType
    <3> QED
      BY <3>1, <3>2, <1>11, SetCall, OnlyCalls DEF Pick
  <2> QED
    BY <2>1, <2>2, <1>11 DEF Pick
<1>12. ASSUME NEW c \in Callers, StartDeferred(c)
       PROVE  Typed'
  <2> DEFINE x == call[c].on
  <2>1. x \in Components
    BY <1>0, <1>12 DEF StartDeferred, WellFormed
  <2>2. call' \in [Callers -> CallType] /\ Shape'
    <3>1. CASE Return(c)
      BY <3>1, ReturnCall
    <3>2. CASE Goto(c, "await")
      <4>1. WellFormed([call[c] EXCEPT !.step = "await"]) /\ "await" \in Steps
        BY <1>0, <1>12, OpSets
        DEF StartDeferred, WellFormed, CallType, StartSteps, ComponentSteps, Steps
      <4> QED
        BY <3>2, <4>1, GotoCall
    <3>3. CASE call' = [call EXCEPT ![c].step = "reactions",
                                    ![c].todo = @ \ {x}, ![c].on = None]
      <4> DEFINE r == [call[c] EXCEPT !.step = "reactions", !.todo = @ \ {x},
                                      !.on = None]
      <4>1. r \in CallType /\ WellFormed(r)
        BY <1>0, <1>12, OpSets
        DEF StartDeferred, CallType, Steps, WellFormed, ComponentSteps, StartSteps
      <4>2. call' = [call EXCEPT ![c] = r]
        BY <1>0, <3>3 DEF CallType
      <4> QED
        BY <4>1, <4>2, SetCall
    <3> QED
      BY <3>1, <3>2, <3>3, <1>12 DEF StartDeferred
  <2>3. status' \in [Components -> StatusType]
    BY <1>12, LaunchedType DEF StartDeferred, Typed, TypeOK, StatusType
  <2> QED
    BY <2>1, <2>2, <2>3, <1>12
    DEF StartDeferred, Typed, TypeOK, CallType, StatusType
<1>13. ASSUME NEW c \in Callers, Await(c) \/ AwaitTimeout(c)
       PROVE  Typed'
  <2>1. CASE Return(c)
    BY <2>1, <1>13, ReturnCall, OnlyCalls DEF Await, AwaitTimeout
  <2>2. CASE call' = [call EXCEPT ![c].step = "queries", ![c].on = None,
                                  ![c].todo = @ \ {call[c].on}]
    <3> DEFINE r == [call[c] EXCEPT !.step = "queries", !.on = None,
                                    !.todo = @ \ {call[c].on}]
    <3>1. r \in CallType /\ WellFormed(r)
      BY <1>0, <1>13, OpSets
      DEF Await, AwaitTimeout, CallType, Steps, WellFormed, ComponentSteps,
          StartSteps
    <3>2. call' = [call EXCEPT ![c] = r]
      BY <1>0, <2>2 DEF CallType
    <3> QED
      BY <3>1, <3>2, <1>13, SetCall, OnlyCalls DEF Await, AwaitTimeout
  <2> QED
    BY <2>1, <2>2, <1>13 DEF Await, AwaitTimeout
<1>14. ASSUME NEW c \in Callers, Finish(c)
       PROVE  Typed'
  <2>1. call' \in [Callers -> CallType] /\ Shape'
    <3>1. CASE Return(c)
      BY <3>1, ReturnCall
    <3>2. CASE call[c].step = "queries" /\ Goto(c, "clone_r")
      <4>1. WellFormed([call[c] EXCEPT !.step = "clone_r"]) /\ "clone_r" \in Steps
        BY <1>0, <3>2, OpSets
        DEF WellFormed, CallType, StartSteps, ComponentSteps, Steps
      <4> QED
        BY <3>2, <4>1, GotoCall
    <3> QED
      BY <3>1, <3>2, <1>14 DEF Finish
  <2> QED
    BY <2>1, <1>14 DEF Finish, Typed, TypeOK, CallType
<1>15. ASSUME NEW c \in Callers, ApplyStop(c) \/ ApplyClose(c)
       PROVE  Typed'
  <2>1. status' \in [Components -> StatusType]
    BY <1>15 DEF ApplyStop, ApplyClose, Quiesced, Typed, TypeOK, StatusType
  <2> QED
    BY <2>1, <1>15, ReturnCall
    DEF ApplyStop, ApplyClose, Typed, TypeOK, CallType, StatusType
<1>16. ASSUME NEW q \in Queries, QuerySettles(q)
       PROVE  Typed'
  BY <1>16 DEF QuerySettles, Typed, TypeOK, Shape, history
<1>17. CASE UNCHANGED vars
  BY <1>17 DEF vars, Typed, TypeOK, Shape
<1> QED
  BY <1>1, <1>2, <1>3, <1>4, <1>5, <1>6, <1>7, <1>8, <1>9, <1>10, <1>11, <1>12,
     <1>13, <1>14, <1>15, <1>16, <1>17
  DEF Next, Begin, Step

THEOREM TypedInvariance == Spec => []Typed
<1>1. Init => Typed
  BY InitTyped
<1>2. Typed /\ [Next]_vars => Typed'
  BY TypedStep
<1> QED
  BY <1>1, <1>2, PTL DEF Spec

\* Every variable stays in its declared range in every execution of the
\* lifecycle, however many calls overlap and whichever are cancelled.
THEOREM TypeCorrect == Spec => []TypeOK
<1>1. Typed => TypeOK
  BY DEF Typed
<1> QED
  BY <1>1, TypedInvariance, PTL

-----------------------------------------------------------------------------
(* One starter *)

\* c has a call on x in flight
On(c, x) == call[c].op \in ComponentOps /\ call[c].on = x

\* the engine has a component's new flag and the deferred list does not yet
Mid(c) == call[c].step \in {"note", "forget"}

\* calls on one component do not overlap
Exclusive == \A c, d \in Callers, x \in Components : On(c, x) /\ On(d, x) => c = d

OneStarter(x) ==
  IF x \in wanted THEN Present(x) /\ (auto[x] <=> x \notin deferred)
  ELSE ~auto[x] /\ x \notin deferred

\* what holds of x while c is between the engine and the list
NotingOne(c, x) ==
  /\ Present(x)
  /\ x \in wanted <=> call[c].want
  /\ auto[x] <=> (call[c].want /\ ~call[c].hold)

ForgettingOne(x) == x \notin wanted /\ ~auto[x]

StarterOf(x) ==
  /\ (\A c \in Callers : On(c, x) => ~Mid(c)) => OneStarter(x)
  /\ \A c \in Callers : On(c, x) /\ call[c].step = "note" => NotingOne(c, x)
  /\ \A c \in Callers : On(c, x) /\ call[c].step = "forget" => ForgettingOne(x)

\* what the engine is to start, it has
AutoPresent == \A x \in Components : auto[x] => Present(x)

StarterInv ==
  Typed /\ Exclusive /\ AutoPresent /\ \A x \in Components : StarterOf(x)

\* The engine's start neither adds nor removes a component.
LEMMA CoreStartPresence ==
  ASSUME Typed, AutoPresent, CoreStart
  PROVE  \A x \in Components : Present(x)' <=> Present(x)
<1> SUFFICES ASSUME NEW x \in Components
             PROVE  Present(x)' <=> Present(x)
  OBVIOUS
<1>1. auto[x] => Present(x)
  BY DEF AutoPresent
<1>2. ~auto[x] => status'[x] = status[x]
  BY DEF CoreStart
<1>3. auto[x] => status'[x] # "absent"
  <2>1. CASE x \in Queries
    BY <2>1, <1>1, Assumptions DEF CoreStart, Present
  <2>2. CASE x \notin Queries
    BY <2>2, <1>1, LaunchedType DEF CoreStart, Present, Components
  <2> QED
    BY <2>1, <2>2
<1> QED
  BY <1>1, <1>2, <1>3 DEF Present

\* Every step keeps the engine's flags on components it has.
LEMMA AutoPresentStep ==
  ASSUME Typed, AutoPresent, [Next]_vars
  PROVE  AutoPresent'
<1>0. /\ status \in [Components -> StatusType]
      /\ auto \in [Components -> BOOLEAN]
      /\ \A c \in Callers : call[c].op \in ComponentOps => call[c].on \in Components
  BY DEF Typed, TypeOK, StatusType, Shape, WellFormed
<1>1. ASSUME UNCHANGED auto, \A x \in Components : Present(x)' <=> Present(x)
      PROVE  AutoPresent'
  BY <1>1 DEF AutoPresent
<1>2. ASSUME UNCHANGED <<auto, status>>
      PROVE  AutoPresent'
  BY <1>1, <1>2 DEF Present
<1>3. ASSUME NEW c \in Callers, ApplyAdd(c) \/ ApplyUpdate(c)
      PROVE  AutoPresent'
  <2>1. CASE Install(c, call[c].on)
    <3>1. call[c].on \in Components
      BY <1>0, <1>3 DEF ApplyAdd, ApplyUpdate, At, ComponentOps
    <3>2. status'[call[c].on] # "absent"
      BY <1>0, <2>1, <3>1, LaunchedType DEF Install
    <3>3. \A y \in Components \ {call[c].on} :
            status'[y] = status[y] /\ auto'[y] = auto[y]
      BY <1>0, <2>1 DEF Install
    <3> QED
      BY <3>2, <3>3 DEF AutoPresent, Present
  <2> QED
    BY <1>2, <1>3, <2>1 DEF ApplyAdd, ApplyUpdate
<1>4. ASSUME NEW c \in Callers, ApplyRemove(c)
      PROVE  AutoPresent'
  <2>1. CASE UNCHANGED <<auto, status>>
    BY <2>1, <1>2
  <2>2. CASE /\ status' = [status EXCEPT ![call[c].on] = "absent"]
             /\ auto' = [auto EXCEPT ![call[c].on] = FALSE]
    BY <1>0, <2>2 DEF AutoPresent, Present
  <2> QED
    BY <1>4, <2>1, <2>2 DEF ApplyRemove
<1>5. ASSUME NEW c \in Callers, ApplyStartOne(c) \/ ApplyStopOne(c)
      PROVE  AutoPresent'
  BY <1>0, <1>1, <1>5, LaunchedType
  DEF ApplyStartOne, ApplyStopOne, Present, Active, Live
<1>6. ASSUME NEW c \in Callers, ApplyStart(c)
      PROVE  AutoPresent'
  BY <1>1, <1>2, <1>6, CoreStartPresence DEF ApplyStart
<1>7. ASSUME NEW c \in Callers, StartDeferred(c)
      PROVE  AutoPresent'
  BY <1>0, <1>1, <1>7, LaunchedType DEF StartDeferred, Present
<1>8. ASSUME NEW c \in Callers, ApplyStop(c) \/ ApplyClose(c)
      PROVE  AutoPresent'
  BY <1>0, <1>1, <1>2, <1>8
  DEF ApplyStop, ApplyClose, Quiesced, Present, Active, Live
<1>9. ASSUME NEW q \in Queries, QuerySettles(q)
      PROVE  AutoPresent'
  BY <1>0, <1>1, <1>9 DEF QuerySettles, Present
<1>10. ASSUME NEW c \in Callers,
              \/ Begin(c) \/ Cancel(c) \/ Check(c) \/ Note(c) \/ Forget(c)
              \/ Clone(c) \/ (\E x \in Components : Pick(c, x))
              \/ Await(c) \/ AwaitTimeout(c) \/ Finish(c)
       PROVE  AutoPresent'
  BY <1>2, <1>10
  DEF Begin, BeginComponent, BeginEngine, Cancel, Check, Note, Forget, Clone,
      Pick, Await, AwaitTimeout, Finish
<1> QED
  BY <1>2, <1>3, <1>4, <1>5, <1>6, <1>7, <1>8, <1>9, <1>10 DEF Next, Step, vars

\* c keeps its target or returns, and the other calls stay as they are.
KeepsTarget(c) ==
  /\ \A d \in Callers \ {c} : call'[d] = call[d]
  /\ \A x \in Components : On(c, x)' => On(c, x)

LEMMA ReturnKeeps ==
  ASSUME Typed, NEW c \in Callers, Return(c)
  PROVE  KeepsTarget(c) /\ ~Mid(c)' /\ \A x \in Components : ~On(c, x)'
  BY OpSets DEF Typed, TypeOK, Return, KeepsTarget, On, Idle, Mid

LEMMA GotoKeeps ==
  ASSUME Typed, NEW c \in Callers, NEW s, Goto(c, s)
  PROVE  KeepsTarget(c) /\ call'[c].step = s /\ \A x \in Components : On(c, x)' <=> On(c, x)
  BY DEF Typed, TypeOK, Goto, KeepsTarget, On

\* A step of start() has no component for a target, before or after.
LEMMA StartHasNoTarget ==
  ASSUME Typed, NEW c \in Callers, call[c].step \in StartSteps \ {"apply"}
  PROVE  call[c].op \notin ComponentOps /\ \A x \in Components : ~On(c, x)
  BY DEF Typed, Shape, WellFormed, On, StartSteps, ComponentSteps

LEMMA StepKeeps ==
  ASSUME Typed, NEW c \in Callers, Step(c) \/ Cancel(c)
  PROVE  KeepsTarget(c)
<1>1. ASSUME Return(c) PROVE KeepsTarget(c)
  BY <1>1, ReturnKeeps
<1>2. ASSUME NEW s, Goto(c, s) PROVE KeepsTarget(c)
  BY <1>2, GotoKeeps
<1>3. CASE Check(c)
  BY <1>3 DEF Check, KeepsTarget, On, Typed, TypeOK
<1>4. CASE ApplyAdd(c) \/ ApplyUpdate(c)
  BY <1>1, <1>2, <1>4 DEF ApplyAdd, ApplyUpdate, Install
<1>5. CASE ApplyRemove(c) \/ Note(c) \/ Forget(c) \/ Cancel(c)
  BY <1>1, <1>2, <1>5 DEF ApplyRemove, Note, Forget, Cancel
<1>6. CASE ApplyStartOne(c) \/ ApplyStopOne(c) \/ ApplyStart(c)
  BY <1>1, <1>2, <1>6 DEF ApplyStartOne, ApplyStopOne, ApplyStart
<1>7. CASE \/ Clone(c) \/ (\E x \in Components : Pick(c, x))
           \/ StartDeferred(c) \/ Await(c)
  <2>1. call[c].op \notin ComponentOps
    BY <1>7, StartHasNoTarget DEF Clone, Pick, StartDeferred, Await, StartSteps
  <2>2. CASE Return(c)
    BY <2>2, <1>1
  <2>3. CASE \E s : Goto(c, s)
    BY <2>3, <1>2
  <2>4. CASE Clone(c)
    BY <2>1, <2>4 DEF Clone, KeepsTarget, On, Typed, TypeOK
  <2>5. CASE \E x \in Components : Pick(c, x)
    BY <2>1, <2>5 DEF Pick, KeepsTarget, On, Typed, TypeOK
  <2>6. CASE StartDeferred(c)
    BY <2>1, <2>2, <2>3, <2>6 DEF StartDeferred, KeepsTarget, On, Typed, TypeOK
  <2>7. CASE Await(c)
    BY <2>1, <2>2, <2>7 DEF Await, KeepsTarget, On, Typed, TypeOK
  <2> QED
    BY <1>7, <2>4, <2>5, <2>6, <2>7
<1>8. CASE AwaitTimeout(c) \/ Finish(c) \/ ApplyStop(c) \/ ApplyClose(c)
  BY <1>1, <1>2, <1>8 DEF AwaitTimeout, Finish, ApplyStop, ApplyClose
<1> QED
  BY <1>3, <1>4, <1>5, <1>6, <1>7, <1>8 DEF Step

\* Every step keeps calls on one component apart.
LEMMA ExclusiveStep ==
  ASSUME SerialIds, Typed, Exclusive, [Next]_vars
  PROVE  Exclusive'
<1>1. ASSUME NEW c \in Callers, KeepsTarget(c)
      PROVE  Exclusive'
  BY <1>1 DEF Exclusive, On, KeepsTarget
<1>2. ASSUME NEW c \in Callers, NEW op \in ComponentOps, NEW x \in Components,
             NEW want \in BOOLEAN, BeginComponent(c, op, x, want)
      PROVE  Exclusive'
  <2>1. \A d \in Callers : ~On(d, x)
    BY <1>2, OpSets
    DEF BeginComponent, MayOverlap, InFlight, On, Typed, Shape, WellFormed
  <2>2. \A d \in Callers \ {c} : call'[d] = call[d]
    BY <1>2 DEF BeginComponent, Typed, TypeOK
  <2>3. \A y \in Components : On(c, y)' => y = x
    BY <1>2 DEF BeginComponent, Typed, TypeOK, On
  <2> QED
    BY <2>1, <2>2, <2>3 DEF Exclusive, On
<1>3. ASSUME NEW c \in Callers, NEW op \in EngineOps, BeginEngine(c, op)
      PROVE  Exclusive'
  <2>1. KeepsTarget(c)
    BY <1>3, OpSets DEF BeginEngine, KeepsTarget, On, Typed, TypeOK
  <2> QED
    BY <2>1, <1>1
<1>4. ASSUME UNCHANGED call
      PROVE  Exclusive'
  BY <1>4 DEF Exclusive, On
<1> QED
  BY <1>1, <1>2, <1>3, <1>4, StepKeeps DEF Next, Begin, QuerySettles, vars

\* x's starter is as it was when x's flag, presence and place on the list are,
\* and the one call that moved neither was nor is between engine and list.
LEMMA StarterFrame ==
  ASSUME NEW c \in Callers, NEW x \in Components, StarterOf(x),
         \A d \in Callers \ {c} : call'[d] = call[d],
         ~(On(c, x) /\ Mid(c)), ~(On(c, x) /\ Mid(c))',
         auto'[x] = auto[x], x \in wanted' <=> x \in wanted,
         x \in deferred' <=> x \in deferred, Present(x)' <=> Present(x)
  PROVE  StarterOf(x)'
  BY DEF StarterOf, On, Mid, OneStarter, NotingOne, ForgettingOne

\* A step that touches no flag, no presence and no list leaves all starters
\* alone, if its caller is not between engine and list before or after.
LEMMA CalmStep ==
  ASSUME StarterInv, NEW c \in Callers,
         \A d \in Callers \ {c} : call'[d] = call[d],
         ~Mid(c), ~Mid(c)', UNCHANGED <<auto, wanted, deferred>>,
         \A x \in Components : Present(x)' <=> Present(x)
  PROVE  \A x \in Components : StarterOf(x)'
  BY StarterFrame DEF StarterInv

LEMMA InstallStarters ==
  ASSUME StarterInv, NEW c \in Callers, call[c].op \in {"add", "update", "stream"},
         call[c].step = "apply", Install(c, call[c].on)
  PROVE  \A x \in Components : StarterOf(x)'
<1>0. PICK x \in Components : x = call[c].on
  BY DEF StarterInv, Typed, Shape, WellFormed, ComponentOps
<1>1. On(c, x) /\ Install(c, x)
  BY <1>0 DEF On, ComponentOps
<1>2. KeepsTarget(c) /\ call'[c].step = "note" /\ On(c, x)'
  BY <1>1, GotoKeeps DEF Install, StarterInv
<1>3. status'[x] # "absent" /\ auto'[x] = Flag(c) /\ (x \in wanted' <=> call[c].want)
  BY <1>1, LaunchedType DEF Install, StarterInv, Typed, TypeOK
<1>4. call'[c].want = call[c].want /\ call'[c].hold = call[c].hold
  BY DEF Install, Goto, StarterInv, Typed, TypeOK
<1>5. StarterOf(x)'
  <2>1. \A d \in Callers : On(d, x)' => d = c
    BY <1>1, <1>2 DEF KeepsTarget, On, StarterInv, Exclusive
  <2>2. NotingOne(c, x)'
    BY <1>3, <1>4 DEF NotingOne, Present, Flag
  <2> QED
    BY <1>2, <2>1, <2>2 DEF StarterOf, Mid
<1>6. ASSUME NEW y \in Components, y # x
      PROVE  StarterOf(y)'
  <2>1. ~On(c, y) /\ ~On(c, y)'
    BY <1>1, <1>2, <1>6 DEF On, KeepsTarget
  <2>2. /\ auto'[y] = auto[y] /\ (y \in wanted' <=> y \in wanted)
        /\ UNCHANGED deferred /\ (Present(y)' <=> Present(y))
    BY <1>1, <1>6 DEF Install, StarterInv, Typed, TypeOK, Present
  <2>3. \A d \in Callers \ {c} : call'[d] = call[d]
    BY <1>2 DEF KeepsTarget
  <2>4. StarterOf(y)
    BY DEF StarterInv
  <2> QED
    BY <2>1, <2>2, <2>3, <2>4, StarterFrame
<1> QED
  BY <1>5, <1>6

\* Every step keeps each component's starter.
LEMMA StarterStep ==
  ASSUME SerialIds, Cancellable \subseteq EngineOps, StarterInv, [Next]_vars
  PROVE  \A x \in Components : StarterOf(x)'
<1>0. Typed /\ Exclusive /\ \A x \in Components : StarterOf(x)
  BY DEF StarterInv
<1>01. ASSUME NEW c \in Callers, Step(c) \/ Cancel(c)
       PROVE  \A d \in Callers \ {c} : call'[d] = call[d]
  BY <1>0, <1>01, StepKeeps DEF KeepsTarget
<1>02. ASSUME NEW c \in Callers, Return(c), ~Mid(c), Step(c) \/ Cancel(c),
              UNCHANGED <<auto, wanted, deferred>>,
              \A x \in Components : Present(x)' <=> Present(x)
       PROVE  \A x \in Components : StarterOf(x)'
  BY <1>0, <1>01, <1>02, ReturnKeeps, CalmStep
<1>1. ASSUME NEW c \in Callers, NEW op \in ComponentOps, NEW x \in Components,
             NEW want \in BOOLEAN, BeginComponent(c, op, x, want)
      PROVE  \A y \in Components : StarterOf(y)'
  <2>1. ~Mid(c) /\ ~Mid(c)' /\ \A d \in Callers \ {c} : call'[d] = call[d]
    BY <1>0, <1>1 DEF BeginComponent, InFlight, Mid, Typed, TypeOK
  <2>2. UNCHANGED <<auto, wanted, deferred, status>>
    BY <1>1 DEF BeginComponent, history
  <2> QED
    BY <2>1, <2>2, CalmStep DEF Present
<1>2. ASSUME NEW c \in Callers, NEW op \in EngineOps, BeginEngine(c, op)
      PROVE  \A x \in Components : StarterOf(x)'
  <2>1. ~Mid(c) /\ ~Mid(c)' /\ \A d \in Callers \ {c} : call'[d] = call[d]
    BY <1>0, <1>2 DEF BeginEngine, InFlight, Mid, Typed, TypeOK
  <2>2. UNCHANGED <<auto, wanted, deferred, status>>
    BY <1>2 DEF BeginEngine, history
  <2> QED
    BY <2>1, <2>2, CalmStep DEF Present
<1>3. ASSUME NEW c \in Callers, Cancel(c)
      PROVE  \A x \in Components : StarterOf(x)'
  <2>1. call[c].op \in EngineOps /\ Return(c)
    BY <1>3, OpSets DEF Cancel
  <2>2. ~Mid(c)
    BY <1>0, <2>1, OpSets DEF Mid, Typed, Shape, WellFormed, StartSteps
  <2>3. UNCHANGED <<auto, wanted, deferred, status>>
    BY <1>3 DEF Cancel, history
  <2> QED
    BY <1>02, <1>3, <2>1, <2>2, <2>3 DEF Present
<1>4. ASSUME NEW c \in Callers, Check(c)
      PROVE  \A x \in Components : StarterOf(x)'
  <2>1. ~Mid(c) /\ ~Mid(c)'
    BY <1>0, <1>4 DEF Check, Mid, Typed, TypeOK
  <2>2. UNCHANGED <<auto, wanted, deferred, status>>
    BY <1>4 DEF Check, history
  <2> QED
    BY <1>01, <1>4, <2>1, <2>2, CalmStep DEF Present, Step
<1>5. ASSUME NEW c \in Callers, ApplyAdd(c) \/ ApplyUpdate(c)
      PROVE  \A x \in Components : StarterOf(x)'
  <2>1. ~Mid(c) /\ call[c].step = "apply" /\ call[c].op \in {"add", "update", "stream"}
    BY <1>5 DEF ApplyAdd, ApplyUpdate, At, Mid
  <2>2. CASE Install(c, call[c].on)
    BY <2>1, <2>2, InstallStarters
  <2>3. CASE /\ Return(c)
             /\ UNCHANGED <<closed, core, status, auto, deferred, history>>
    BY <1>02, <1>5, <2>1, <2>3 DEF Step, Present, history
  <2> QED
    BY <1>5, <2>2, <2>3 DEF ApplyAdd, ApplyUpdate
<1>6. ASSUME NEW c \in Callers, Note(c) \/ Forget(c)
      PROVE  \A x \in Components : StarterOf(x)'
  <2>0. PICK x \in Components : x = call[c].on
    BY <1>0, <1>6 DEF Note, Forget, Typed, Shape, WellFormed, ComponentOps
  <2>1. On(c, x) /\ Return(c)
    BY <1>0, <1>6, <2>0 DEF Note, Forget, Typed, Shape, WellFormed, On, ComponentOps
  <2>2. UNCHANGED <<status, auto, wanted>>
    BY <1>6 DEF Note, Forget, history
  <2>3. StarterOf(x)'
    <3>1. \A d \in Callers : ~On(d, x)'
      BY <1>0, <1>01, <1>6, <2>1, ReturnKeeps DEF Exclusive, On, Step
    <3>2. CASE Note(c)
      <4>1. NotingOne(c, x) /\ (call[c].hold => call[c].want)
        BY <1>0, <2>1, <3>2 DEF Note, StarterOf, Typed, Shape, WellFormed
      <4>2. x \in deferred' <=> call[c].hold
        BY <2>0, <3>2 DEF Note
      <4>3. OneStarter(x)'
        BY <2>2, <4>1, <4>2 DEF OneStarter, NotingOne, Present
      <4> QED
        BY <3>1, <4>3 DEF StarterOf
    <3>3. CASE Forget(c)
      <4>1. ForgettingOne(x) /\ x \notin deferred'
        BY <1>0, <2>0, <2>1, <3>3 DEF Forget, StarterOf
      <4>2. OneStarter(x)'
        BY <2>2, <4>1 DEF OneStarter, ForgettingOne
      <4> QED
        BY <3>1, <4>2 DEF StarterOf
    <3> QED
      BY <1>6, <3>2, <3>3
  <2>4. ASSUME NEW y \in Components, y # x
        PROVE  StarterOf(y)'
    <3>1. y \in deferred' <=> y \in deferred
      BY <1>6, <2>0, <2>4 DEF Note, Forget
    <3>2. ~On(c, y) /\ ~On(c, y)'
      BY <1>0, <2>1, <2>4, ReturnKeeps DEF On
    <3> QED
      BY <1>0, <1>01, <1>6, <2>2, <2>4, <3>1, <3>2, StarterFrame DEF Step, Present
  <2> QED
    BY <2>3, <2>4
<1>7. ASSUME NEW c \in Callers, ApplyRemove(c)
      PROVE  \A x \in Components : StarterOf(x)'
  <2>00. PICK x \in Components : x = call[c].on
    BY <1>0, <1>7 DEF ApplyRemove, At, Typed, Shape, WellFormed, ComponentOps
  <2>0. ~Mid(c) /\ On(c, x)
    BY <1>0, <1>7, <2>00
    DEF ApplyRemove, At, Mid, Typed, Shape, WellFormed, On, ComponentOps
  <2>1. CASE /\ Return(c)
             /\ UNCHANGED <<closed, core, status, auto, deferred, history>>
    BY <1>02, <1>7, <2>0, <2>1 DEF Step, Present, history
  <2>2. CASE /\ status' = [status EXCEPT ![x] = "absent"]
             /\ auto' = [auto EXCEPT ![x] = FALSE]
             /\ wanted' = wanted \ {x}
             /\ halted' = halted \ {x}
             /\ Goto(c, "forget")
             /\ UNCHANGED <<closed, core, deferred, complete, tripped, early>>
    <3>1. KeepsTarget(c) /\ call'[c].step = "forget" /\ On(c, x)'
      BY <1>0, <2>0, <2>2, GotoKeeps
    <3>2. StarterOf(x)'
      <4>1. \A d \in Callers : On(d, x)' => d = c
        BY <1>0, <2>0, <3>1 DEF KeepsTarget, On, Exclusive
      <4>2. ForgettingOne(x)'
        BY <1>0, <2>0, <2>2 DEF ForgettingOne, Typed, TypeOK
      <4> QED
        BY <3>1, <4>1, <4>2 DEF StarterOf, Mid
    <3>3. ASSUME NEW y \in Components, y # x
          PROVE  StarterOf(y)'
      <4>1. ~On(c, y) /\ ~On(c, y)'
        BY <2>0, <3>1, <3>3 DEF On, KeepsTarget
      <4>2. /\ auto'[y] = auto[y] /\ (y \in wanted' <=> y \in wanted)
            /\ UNCHANGED deferred /\ (Present(y)' <=> Present(y))
        BY <1>0, <2>2, <3>3 DEF Typed, TypeOK, Present
      <4> QED
        BY <1>0, <3>1, <3>3, <4>1, <4>2, StarterFrame DEF KeepsTarget
    <3> QED
      BY <3>2, <3>3
  <2> QED
    BY <1>7, <2>00, <2>1, <2>2 DEF ApplyRemove
<1>8. ASSUME NEW c \in Callers, ApplyStartOne(c) \/ ApplyStopOne(c)
      PROVE  \A x \in Components : StarterOf(x)'
  <2>1. ~Mid(c) /\ Return(c) /\ UNCHANGED <<auto, wanted, deferred>>
    BY <1>8 DEF ApplyStartOne, ApplyStopOne, At, Mid
  <2>2. \A x \in Components : Present(x)' <=> Present(x)
    BY <1>0, <1>8, LaunchedType
    DEF ApplyStartOne, ApplyStopOne, Active, Live, Present, Typed, TypeOK
  <2> QED
    BY <1>02, <1>8, <2>1, <2>2 DEF Step
<1>9. ASSUME NEW c \in Callers, ApplyStart(c)
      PROVE  \A x \in Components : StarterOf(x)'
  <2>1. ~Mid(c) /\ ~Mid(c)'
    <3>1. Return(c) => ~Mid(c)'
      BY <1>0, ReturnKeeps
    <3>2. Goto(c, "clone_q") => ~Mid(c)'
      BY <1>0, GotoKeeps DEF Mid
    <3> QED
      BY <1>9, <3>1, <3>2 DEF ApplyStart, At, Mid
  <2>2. UNCHANGED <<auto, wanted, deferred>>
    BY <1>9 DEF ApplyStart, history
  <2>3. \A x \in Components : Present(x)' <=> Present(x)
    <3>1. CASE CoreStart
      BY <1>0, <3>1, CoreStartPresence DEF StarterInv
    <3>2. CASE UNCHANGED status
      BY <3>2 DEF Present
    <3> QED
      BY <1>9, <3>1, <3>2 DEF ApplyStart
  <2>4. \A d \in Callers \ {c} : call'[d] = call[d]
    <3>1. Step(c)
      BY <1>9 DEF Step
    <3> QED
      BY <1>01, <3>1
  <2> QED
    BY <2>1, <2>2, <2>3, <2>4, CalmStep
<1>10. ASSUME NEW c \in Callers, Clone(c) \/ \E x \in Components : Pick(c, x)
       PROVE  \A x \in Components : StarterOf(x)'
  <2>1. ~Mid(c) /\ ~Mid(c)'
    <3>1. CASE Clone(c)
      BY <1>0, <3>1 DEF Clone, Mid, Typed, TypeOK
    <3>2. CASE \E x \in Components : Pick(c, x)
      BY <1>0, <3>2 DEF Pick, Mid, Typed, TypeOK
    <3> QED
      BY <1>10, <3>1, <3>2
  <2>2. UNCHANGED <<auto, wanted, deferred, status>>
    BY <1>10 DEF Clone, Pick, history
  <2> QED
    BY <1>01, <1>10, <2>1, <2>2, CalmStep DEF Present, Step
<1>11. ASSUME NEW c \in Callers, StartDeferred(c)
       PROVE  \A x \in Components : StarterOf(x)'
  <2>1. ~Mid(c) /\ ~Mid(c)'
    <3>1. Return(c) => ~Mid(c)'
      BY <1>0, ReturnKeeps
    <3>2. Goto(c, "await") => ~Mid(c)'
      BY <1>0, GotoKeeps DEF Mid
    <3>3. call' = [call EXCEPT ![c].step = "reactions",
                               ![c].todo = @ \ {call[c].on}, ![c].on = None]
            => ~Mid(c)'
      BY DEF StarterInv, Typed, TypeOK, Mid
    <3> QED
      BY <1>11, <3>1, <3>2, <3>3 DEF StartDeferred, Mid
  <2>2. UNCHANGED <<auto, wanted, deferred>>
    BY <1>11 DEF StartDeferred
  <2>3. \A x \in Components : Present(x)' <=> Present(x)
    BY <1>0, <1>11, LaunchedType DEF StartDeferred, Present, Typed, TypeOK
  <2> QED
    BY <1>01, <1>11, <2>1, <2>2, <2>3, CalmStep DEF Step
<1>12. ASSUME NEW c \in Callers, Await(c) \/ AwaitTimeout(c) \/ Finish(c)
       PROVE  \A x \in Components : StarterOf(x)'
  <2>1. ~Mid(c) /\ ~Mid(c)'
    <3>1. Return(c) => ~Mid(c)'
      BY <1>0, ReturnKeeps
    <3>2. Goto(c, "clone_r") => ~Mid(c)'
      BY <1>0, GotoKeeps DEF Mid
    <3>3. call' = [call EXCEPT ![c].step = "queries", ![c].on = None,
                               ![c].todo = @ \ {call[c].on}]
            => ~Mid(c)'
      BY DEF StarterInv, Typed, TypeOK, Mid
    <3> QED
      BY <1>12, <3>1, <3>2, <3>3 DEF Await, AwaitTimeout, Finish, Mid
  <2>2. UNCHANGED <<auto, wanted, deferred, status>>
    BY <1>12 DEF Await, AwaitTimeout, Finish, history
  <2> QED
    BY <1>01, <1>12, <2>1, <2>2, CalmStep DEF Present, Step
<1>13. ASSUME NEW c \in Callers, ApplyStop(c) \/ ApplyClose(c)
       PROVE  \A x \in Components : StarterOf(x)'
  <2>1. ~Mid(c) /\ Return(c) /\ UNCHANGED <<auto, wanted, deferred>>
    BY <1>13 DEF ApplyStop, ApplyClose, At, Mid
  <2>2. \A x \in Components : Present(x)' <=> Present(x)
    BY <1>0, <1>13
    DEF ApplyStop, ApplyClose, Quiesced, Present, Active, Live, Typed, TypeOK
  <2> QED
    BY <1>02, <1>13, <2>1, <2>2 DEF Step
<1>14. ASSUME UNCHANGED <<call, auto, wanted, deferred>>,
              \A x \in Components : Present(x)' <=> Present(x)
       PROVE  \A x \in Components : StarterOf(x)'
  BY <1>0, <1>14
  DEF StarterOf, OneStarter, NotingOne, ForgettingOne, On, Mid
<1>15. ASSUME NEW q \in Queries, QuerySettles(q)
       PROVE  \A x \in Components : StarterOf(x)'
  <2>1. \A x \in Components : Present(x)' <=> Present(x)
    BY <1>0, <1>15 DEF QuerySettles, Present, Typed, TypeOK
  <2> QED
    BY <1>14, <1>15, <2>1 DEF QuerySettles, history
<1> QED
  BY <1>1, <1>2, <1>3, <1>4, <1>5, <1>6, <1>7, <1>8, <1>9, <1>10, <1>11, <1>12,
     <1>13, <1>14, <1>15
  DEF Next, Begin, Step, Present, vars

\* They have their starters to begin with, after from_config too.
LEMMA InitStarters == Init => StarterInv
<1> SUFFICES ASSUME Init PROVE StarterInv
  OBVIOUS
<1>1. Typed
  BY InitTyped
<1>2. \A c \in Callers, x \in Components : ~On(c, x)
  BY OpSets DEF Init, Idle, On
<1>3. \A x \in Components : OneStarter(x) /\ (auto[x] => Present(x))
  <2>1. CASE Created
    BY <2>1 DEF Init, Created, OneStarter
  <2>2. CASE FromConfig
    BY <2>2 DEF Init, FromConfig, OneStarter, Present, Components
  <2> QED
    BY <2>1, <2>2 DEF Init
<1> QED
  BY <1>1, <1>2, <1>3 DEF StarterInv, Exclusive, AutoPresent, StarterOf

\* A component asked to auto-start always has exactly one starter, the engine's
\* stored flag or the binding's deferred list, and any other has none: for any
\* number of callers, if calls on one component do not overlap and no call on a
\* component is cancelled half way.
THEOREM OneStarterEach ==
  ASSUME SerialIds, Cancellable \subseteq EngineOps
  PROVE  Spec => []ExactlyOneStarter
<1>1. StarterInv /\ [Next]_vars => StarterInv'
  BY TypedStep, ExclusiveStep, AutoPresentStep, StarterStep DEF StarterInv
<1>2. StarterInv => ExactlyOneStarter
  BY DEF StarterInv, StarterOf, ExactlyOneStarter, Settled, OneStarter, On
<1> QED
  BY InitStarters, <1>1, <1>2, PTL DEF Spec

-----------------------------------------------------------------------------
(* An orderly application                                                  *)

\* start, stop and close overlap nothing
EngineAlone ==
  \A c, d \in Callers : c # d /\ call[c].op \in EngineOps => ~InFlight(d)

\* a component is held back by what is_running says still
Checked ==
  \A c \in Callers : call[c].step = "apply" /\ call[c].op \in {"add", "update", "stream"} =>
    (call[c].hold <=> call[c].want /\ core # "running")

OnQueries == {"queries", "start_q", "await"}
OnReactions == {"reactions", "start_r"}
Starting(c) == call[c].step \in StartSteps \ {"apply"}

\* the deferred components that start() has yet to reach
Waiting(c) ==
  IF call[c].step = "clone_q" THEN deferred
  ELSE IF call[c].step = "clone_r" THEN deferred \cap Reactions
  ELSE IF call[c].step \in {"queries", "start_q"} THEN call[c].todo \cup (deferred \cap Reactions)
  ELSE IF call[c].step = "await" THEN (call[c].todo \ {call[c].on}) \cup (deferred \cap Reactions)
  ELSE call[c].todo

\* what start() goes through is deferred, and the step is about one of them
Deferrals(c) ==
  /\ call[c].step \in OnQueries => call[c].todo \subseteq deferred \cap Queries
  /\ call[c].step \in OnReactions => call[c].todo \subseteq deferred \cap Reactions
  /\ call[c].step \in {"start_q", "await", "start_r"} => call[c].on \in call[c].todo

\* what it has yet to reach is quiet, the rest is not
Progress(c) ==
  /\ core = "running" /\ ~complete
  /\ \A x \in Waiting(c) : ~Active(x)
  /\ \A x \in wanted \ Waiting(c) : status[x] # "stopped"

OnItsWay == \A c \in Callers : Starting(c) => Deferrals(c) /\ Progress(c)

\* and once it is done, the rest is everything that was not stopped by name
Complete ==
  core = "running" /\ complete => \A x \in wanted \ halted : status[x] # "stopped"

Orderly ==
  /\ EngineAlone /\ Checked
  /\ QuietWhileStopped
  /\ OnItsWay /\ Complete
  /\ StartNeverTrips /\ HeldReactionsFollowQueries

OrderlyInv == StarterInv /\ Orderly

-----------------------------------------------------------------------------
(* Calls of an orderly application                                         *)

\* A step of start() belongs to one of the engine's calls.
LEMMA StartingIsEngineOp ==
  ASSUME Typed, NEW c \in Callers, Starting(c)
  PROVE  call[c].op \in EngineOps
  BY OpSets DEF Typed, TypeOK, Shape, WellFormed, Starting, StartSteps, ComponentSteps

\* While one of the engine's calls is on its way no component has a call on it.
LEMMA NobodyElse ==
  ASSUME Typed, EngineAlone, NEW c \in Callers, call[c].op \in EngineOps
  PROVE  /\ \A d \in Callers \ {c} : call[d].step = "idle" /\ call[d].op = "none"
         /\ \A d \in Callers : call[d].op \notin ComponentOps
  BY OpSets DEF Typed, Shape, WellFormed, EngineAlone, InFlight

\* So each component has its one starter then.
LEMMA AllSettled ==
  ASSUME StarterInv, EngineAlone, NEW c \in Callers, call[c].op \in EngineOps
  PROVE  \A x \in Components : OneStarter(x)
  BY NobodyElse DEF StarterInv, StarterOf, On

\* A call under way stays the call it is, or returns.
LEMMA SameCall ==
  ASSUME Typed, NEW c \in Callers, Step(c) \/ Cancel(c)
  PROVE  /\ \A d \in Callers \ {c} : call'[d] = call[d]
         /\ call'[c] = Idle \/ call'[c].op = call[c].op
         /\ call'[c].step = "apply" => Check(c)
         /\ InFlight(c)
<1>0. /\ call \in [Callers -> CallType] /\ InFlight(c)
      /\ WellFormed(call[c])
  BY DEF Typed, TypeOK, CallType, Shape, InFlight, Cancel, Step, Check, ApplyAdd, ApplyUpdate,
         Note, ApplyRemove, Forget, ApplyStartOne, ApplyStopOne, ApplyStart, Clone, Pick,
         StartDeferred, Await, AwaitTimeout, Finish, ApplyStop, ApplyClose, At
<1>1. \A d \in Callers \ {c} : call'[d] = call[d]
  BY StepKeeps DEF KeepsTarget
<1>2. Return(c) => call'[c] = Idle /\ call'[c].step # "apply"
  BY <1>0 DEF Return, Idle
<1>3. ASSUME NEW s \in Steps, Goto(c, s)
      PROVE  call'[c].op = call[c].op /\ call'[c].step = s
  BY <1>0, <1>3 DEF Goto, CallType
<1>4. CASE Check(c)
  BY <1>0, <1>1, <1>4 DEF Check, CallType
<1>5. CASE \/ ApplyAdd(c) \/ ApplyUpdate(c) \/ ApplyRemove(c) \/ Note(c) \/ Forget(c)
           \/ Cancel(c) \/ ApplyStartOne(c) \/ ApplyStopOne(c) \/ ApplyStart(c)
           \/ AwaitTimeout(c) \/ Finish(c) \/ ApplyStop(c) \/ ApplyClose(c)
  <2>1. Return(c) \/ \E s \in Steps \ {"apply"} : Goto(c, s)
    BY <1>5 DEF ApplyAdd, ApplyUpdate, Install, ApplyRemove, Note, Forget, Cancel, ApplyStartOne,
                ApplyStopOne, ApplyStart, AwaitTimeout, Finish, ApplyStop, ApplyClose, Steps
  <2> QED
    BY <1>0, <1>1, <1>2, <1>3, <2>1
<1>6. CASE Clone(c)
  BY <1>0, <1>1, <1>6 DEF Clone, CallType
<1>7. CASE \E x \in Components : Pick(c, x)
  BY <1>0, <1>1, <1>7 DEF Pick, CallType
<1>8. CASE StartDeferred(c)
  <2>1. CASE Return(c)
    BY <2>1, <1>0, <1>1, <1>2
  <2>2. CASE Goto(c, "await")
    <3>1. "await" \in Steps
      BY DEF Steps
    <3> QED
      BY <2>2, <3>1, <1>0, <1>1, <1>3
  <2>3. CASE call' = [call EXCEPT ![c].step = "reactions", ![c].todo = @ \ {call[c].on},
                                  ![c].on = None]
    BY <2>3, <1>0, <1>1 DEF CallType
  <2> QED
    BY <1>8, <2>1, <2>2, <2>3 DEF StartDeferred
<1>9. CASE Await(c)
  <2>1. CASE Return(c)
    BY <2>1, <1>0, <1>1, <1>2
  <2>2. CASE call' = [call EXCEPT ![c].step = "queries", ![c].on = None,
                                  ![c].todo = @ \ {call[c].on}]
    BY <2>2, <1>0, <1>1 DEF CallType
  <2> QED
    BY <1>9, <2>1, <2>2 DEF Await
<1> QED
  BY <1>4, <1>5, <1>6, <1>7, <1>8, <1>9 DEF Step

\* A call of the engine that begins is alone, and any other finds none of them.
LEMMA BegunAlone ==
  ASSUME SerialLifecycle, Typed, NEW c \in Callers, Begin(c)
  PROVE  /\ \A d \in Callers \ {c} : call'[d] = call[d]
         /\ ~InFlight(c)
         /\ \A d \in Callers : InFlight(d) =>
              call[d].op \notin EngineOps /\ call'[c].op \notin EngineOps
         /\ call'[c].step = "apply" => call'[c].op \notin {"add", "update", "stream"}
         /\ ~Starting(c)'
         /\ UNCHANGED <<core, status, auto, deferred, history>>
<1>0. call \in [Callers -> CallType]
  BY DEF Typed, TypeOK, CallType
<1>1. ASSUME NEW op \in ComponentOps, NEW x \in Components, NEW want \in BOOLEAN,
             BeginComponent(c, op, x, want)
      PROVE  /\ call'[c].op = op
             /\ call'[c].step = IF op \in {"add", "update", "stream"} THEN "check" ELSE "apply"
             /\ MayOverlap(op, x)
  BY <1>0, <1>1 DEF BeginComponent
<1>2. ASSUME NEW op \in EngineOps, BeginEngine(c, op)
      PROVE  call'[c].op = op /\ call'[c].step = "apply" /\ MayOverlap(op, None)
  BY <1>0, <1>2 DEF BeginEngine
<1>3. \A d \in Callers \ {c} : call'[d] = call[d]
  BY <1>0 DEF Begin, BeginComponent, BeginEngine
<1>4. UNCHANGED <<core, status, auto, deferred, history>> /\ ~InFlight(c)
  BY DEF Begin, BeginComponent, BeginEngine
<1>5. CASE \E op \in ComponentOps, x \in Components, want \in BOOLEAN :
             BeginComponent(c, op, x, want)
  BY <1>1, <1>3, <1>4, <1>5, OpSets DEF MayOverlap, Starting, StartSteps
<1>6. CASE \E op \in EngineOps : BeginEngine(c, op)
  BY <1>2, <1>3, <1>4, <1>6, OpSets
  DEF MayOverlap, Starting, StartSteps, EngineOps
<1> QED
  BY <1>5, <1>6 DEF Begin

\* Every step keeps the engine's calls apart from all others.
LEMMA AloneStep ==
  ASSUME SerialLifecycle, Typed, Typed', EngineAlone, [Next]_vars
  PROVE  EngineAlone'
<1>0. /\ \A c \in Callers : call[c].step = "idle" <=> call[c].op = "none"
      /\ "none" \notin EngineOps
  BY OpSets DEF Typed, Shape, WellFormed
<1>1. ASSUME NEW c \in Callers, Step(c) \/ Cancel(c)
      PROVE  EngineAlone'
  <2>1. /\ \A d \in Callers \ {c} : call'[d] = call[d]
        /\ call'[c].op = "none" \/ call'[c].op = call[c].op
        /\ InFlight(c)' => InFlight(c)
    BY <1>1, SameCall DEF Idle
  <2> QED
    BY <1>0, <2>1 DEF EngineAlone, InFlight
<1>2. ASSUME NEW c \in Callers, Begin(c)
      PROVE  EngineAlone'
  BY <1>0, <1>2, BegunAlone DEF EngineAlone, InFlight
<1>3. ASSUME UNCHANGED call
      PROVE  EngineAlone'
  BY <1>3 DEF EngineAlone, InFlight
<1> QED
  BY <1>1, <1>2, <1>3 DEF Next, QuerySettles, vars

\* Only the engine's calls change what is_running says.
LEMMA CoreStays ==
  ASSUME NEW c \in Callers, Step(c) \/ Cancel(c), call[c].op \notin EngineOps
  PROVE  UNCHANGED core
  BY DEF Step, Cancel, Check, ApplyAdd, ApplyUpdate, Install, Note, ApplyRemove, Forget,
         ApplyStartOne, ApplyStopOne, ApplyStart, Clone, Pick, StartDeferred, Await, AwaitTimeout,
         Finish, ApplyStop, ApplyClose, At, EngineOps

\* Every step keeps what a call has read from is_running true.
LEMMA CheckedStep ==
  ASSUME SerialLifecycle, Typed, EngineAlone, Checked, [Next]_vars
  PROVE  Checked'
<1>0. call \in [Callers -> CallType]
  BY DEF Typed, TypeOK, CallType
<1>1. ASSUME NEW c \in Callers, Check(c)
      PROVE  Checked'
  <2>1. /\ call'[c].hold = (call[c].want /\ core # "running")
        /\ call'[c].want = call[c].want
    BY <1>0, <1>1 DEF Check, CallType
  <2>2. UNCHANGED core /\ \A d \in Callers \ {c} : call'[d] = call[d]
    BY <1>0, <1>1 DEF Check
  <2> QED
    BY <2>1, <2>2 DEF Checked
<1>2. ASSUME NEW c \in Callers, Step(c) \/ Cancel(c), ~Check(c)
      PROVE  Checked'
  <2>1. /\ \A d \in Callers \ {c} : call'[d] = call[d]
        /\ call'[c].step # "apply"
    BY <1>2, SameCall
  <2>2. CASE call[c].op \in EngineOps
    <3>1. \A d \in Callers \ {c} : call[d].step = "idle"
      BY <2>2, NobodyElse
    <3> QED
      BY <2>1, <3>1 DEF Checked
  <2>3. CASE call[c].op \notin EngineOps
    BY <1>2, <2>1, <2>3, CoreStays DEF Checked
  <2> QED
    BY <2>2, <2>3
<1>3. ASSUME NEW c \in Callers, Begin(c)
      PROVE  Checked'
  BY <1>3, BegunAlone DEF Checked
<1>4. ASSUME UNCHANGED <<core, call>>
      PROVE  Checked'
  BY <1>4 DEF Checked
<1> QED
  BY <1>1, <1>2, <1>3, <1>4 DEF Next, QuerySettles, vars

-----------------------------------------------------------------------------
(* The engine and its components                                           *)

\* A step that leaves the components alone.
Undisturbed == UNCHANGED <<core, status, auto, deferred, wanted, halted, complete, tripped, early>>

LEMMA Quietly ==
  ASSUME NEW c \in Callers,
         \/ Begin(c) \/ Cancel(c) \/ Check(c) \/ Clone(c) \/ (\E x \in Components : Pick(c, x))
         \/ Await(c) \/ AwaitTimeout(c)
  PROVE  Undisturbed
  BY DEF Undisturbed, Begin, BeginComponent, BeginEngine, Cancel, Check, Clone, Pick, Await,
         AwaitTimeout, history

\* What the engine installs in an orderly application starts in a running engine only.
LEMMA InstallHeld ==
  ASSUME Typed, Checked, NEW c \in Callers, call[c].step = "apply",
         call[c].op \in {"add", "update", "stream"}
  PROVE  Flag(c) <=> call[c].want /\ core = "running"
  BY DEF Typed, TypeOK, Checked, Flag

LEMMA Settling ==
  ASSUME Typed, NEW q \in Queries, QuerySettles(q)
  PROVE  /\ status[q] = "starting" /\ status'[q] \in {"running", "error"}
         /\ \A x \in Components \ {q} : status'[x] = status[x]
         /\ UNCHANGED <<closed, core, auto, deferred, call, history>>
<1>1. status \in [Components -> StatusType] /\ q \in Components
  BY DEF Typed, TypeOK, StatusType, Components
<1> QED
  BY <1>1 DEF QuerySettles

\* Every step keeps a stopped engine quiet.
LEMMA QuietStep ==
  ASSUME StarterInv, Checked, QuietWhileStopped, [Next]_vars
  PROVE  QuietWhileStopped'
<1>0. /\ Typed /\ status \in [Components -> StatusType]
      /\ \A c \in Callers : call[c].op \in ComponentOps => call[c].on \in Components
  BY DEF StarterInv, Typed, TypeOK, StatusType, Shape, WellFormed
<1>1. ASSUME UNCHANGED <<core, status>>
      PROVE  QuietWhileStopped'
  BY <1>1 DEF QuietWhileStopped, Active
<1>2. ASSUME core' = "running"
      PROVE  QuietWhileStopped'
  BY <1>2 DEF QuietWhileStopped
<1>3. ASSUME NEW c \in Callers, ApplyAdd(c) \/ ApplyUpdate(c)
      PROVE  QuietWhileStopped'
  <2>1. CASE Install(c, call[c].on) /\ core # "running"
    <3>1. ~Flag(c)
      BY <1>0, <1>3, <2>1, InstallHeld DEF ApplyAdd, ApplyUpdate, At
    <3>2. status' = [status EXCEPT ![call[c].on] = "stopped"] /\ UNCHANGED core
      BY <2>1, <3>1 DEF Install
    <3> QED
      BY <1>0, <3>2 DEF QuietWhileStopped, Active, Live
  <2>2. CASE Install(c, call[c].on) /\ core = "running"
    BY <1>2, <2>2 DEF Install
  <2> QED
    BY <1>1, <1>3, <2>1, <2>2 DEF ApplyAdd, ApplyUpdate
<1>4. ASSUME NEW c \in Callers, ApplyRemove(c)
      PROVE  QuietWhileStopped'
  <2>1. CASE UNCHANGED <<core, status>>
    BY <1>1, <2>1
  <2>2. CASE status' = [status EXCEPT ![call[c].on] = "absent"] /\ UNCHANGED core
    BY <1>0, <2>2 DEF QuietWhileStopped, Active, Live
  <2> QED
    BY <1>4, <2>1, <2>2 DEF ApplyRemove
<1>5. ASSUME NEW c \in Callers, ApplyStartOne(c) \/ StartDeferred(c)
      PROVE  QuietWhileStopped'
  BY <1>1, <1>2, <1>5 DEF ApplyStartOne, StartDeferred
<1>6. ASSUME NEW c \in Callers, ApplyStopOne(c)
      PROVE  QuietWhileStopped'
  <2>1. CASE UNCHANGED <<core, status>>
    BY <1>1, <2>1
  <2>2. CASE status' = [status EXCEPT ![call[c].on] = "stopped"] /\ UNCHANGED core
    BY <1>0, <2>2 DEF QuietWhileStopped, Active, Live
  <2> QED
    BY <1>6, <2>1, <2>2 DEF ApplyStopOne
<1>7. ASSUME NEW c \in Callers, ApplyStart(c)
      PROVE  QuietWhileStopped'
  BY <1>1, <1>2, <1>7 DEF ApplyStart, CoreStart
<1>8. ASSUME NEW c \in Callers, ApplyStop(c) \/ ApplyClose(c)
      PROVE  QuietWhileStopped'
  <2>1. CASE UNCHANGED <<core, status>>
    BY <1>1, <2>1
  <2>2. CASE status' = Quiesced
    <3>1. \A x \in Components : ~Live(status'[x])
      BY <1>0, <2>2 DEF Quiesced, Active, Live
    <3> QED
      BY <3>1 DEF QuietWhileStopped, Active
  <2> QED
    BY <1>8, <2>1, <2>2 DEF ApplyStop, ApplyClose
<1>9. ASSUME NEW q \in Queries, QuerySettles(q)
      PROVE  QuietWhileStopped'
  <2>1. Active(q) /\ q \in Components /\ UNCHANGED core
    BY <1>0, <1>9, Settling DEF Active, Live, Components
  <2>2. core' = "running"
    BY <2>1 DEF QuietWhileStopped
  <2> QED
    BY <1>2, <2>2
<1>10. ASSUME NEW c \in Callers, Note(c) \/ Forget(c) \/ Finish(c)
       PROVE  QuietWhileStopped'
  BY <1>1, <1>10 DEF Note, Forget, Finish
<1> QED
  BY <1>1, <1>3, <1>4, <1>5, <1>6, <1>7, <1>8, <1>9, <1>10, Quietly
  DEF Next, Step, Undisturbed, vars

-----------------------------------------------------------------------------
(* The engine's start and what start() does after it                       *)

\* What one of the engine's calls meets: flags and list agree.
LEMMA Deferred ==
  ASSUME StarterInv, EngineAlone, NEW c \in Callers, call[c].op \in EngineOps
  PROVE  /\ \A x \in deferred : x \in Components /\ x \in wanted /\ Present(x) /\ ~auto[x]
         /\ \A x \in wanted \ deferred : x \in Components /\ Present(x) /\ auto[x]
<1>1. deferred \subseteq Components /\ wanted \subseteq Components
  BY DEF StarterInv, Typed, TypeOK
<1> QED
  BY <1>1, AllSettled DEF OneStarter

\* The engine starts what has its flag, finds none of it running, and leaves what
\* is deferred quiet.
LEMMA CoreStartDoes ==
  ASSUME StarterInv, EngineAlone, QuietWhileStopped, NEW c \in Callers,
         call[c].op \in EngineOps, core = "stopped", CoreStart
  PROVE  /\ core' = "running" /\ complete' = FALSE /\ tripped' = tripped
         /\ \A x \in deferred : status'[x] = status[x] /\ ~Live(status[x])
         /\ \A x \in wanted \ deferred : status'[x] # "stopped"
<1>0. status \in [Components -> StatusType] /\ core # "running"
  BY DEF StarterInv, Typed, TypeOK, StatusType
<1>1. \A x \in Components : ~Active(x)
  BY <1>0 DEF QuietWhileStopped
<1>2. {q \in Queries : auto[q] /\ Active(q)} = {}
  BY <1>1 DEF Components
<1>3. core' = "running" /\ complete' = FALSE /\ tripped' = tripped
  BY <1>2 DEF CoreStart
<1>4. ASSUME NEW x \in deferred
      PROVE  status'[x] = status[x] /\ ~Live(status[x])
  <2>1. x \in Components /\ ~auto[x]
    BY Deferred
  <2> QED
    BY <1>1, <2>1 DEF CoreStart, Active
<1>5. ASSUME NEW x \in wanted \ deferred
      PROVE  status'[x] # "stopped"
  <2>1. x \in Components /\ auto[x]
    BY Deferred
  <2>2. CASE x \in Queries
    <3>1. x \notin Reactions
      BY <2>2, Assumptions
    <3> QED
      BY <1>1, <2>1, <2>2, <3>1 DEF CoreStart
  <2>3. CASE x \notin Queries
    BY <1>1, <2>1, <2>3, LaunchedType DEF CoreStart, Components
  <2> QED
    BY <2>2, <2>3
<1> QED
  BY <1>3, <1>4, <1>5

\* A call that start() makes finds its component there and quiet.
LEMMA StartsQuiet ==
  ASSUME StarterInv, EngineAlone, OnItsWay, NEW c \in Callers, StartDeferred(c)
  PROVE  LET x == call[c].on IN
         /\ x \in call[c].todo /\ x \in Waiting(c) /\ x \in deferred /\ x \in Components
         /\ core = "running" /\ Present(x) /\ ~Active(x)
         /\ status' = [status EXCEPT ![x] = Launched(x, status)]
         /\ tripped' = tripped
<1>1. Starting(c) /\ call[c].step \in {"start_q", "start_r"}
  BY DEF StartDeferred, Starting, StartSteps
<1>2. Deferrals(c) /\ Progress(c) /\ call[c].op \in EngineOps
  BY <1>1, StartingIsEngineOp DEF OnItsWay, StarterInv
<1>3. /\ call[c].on \in call[c].todo /\ call[c].on \in Waiting(c) /\ call[c].on \in deferred
  BY <1>1, <1>2 DEF Deferrals, Waiting, OnQueries, OnReactions
<1>4. /\ core = "running" /\ Present(call[c].on) /\ ~Active(call[c].on)
      /\ call[c].on \in Components
  BY <1>2, <1>3, Deferred DEF Progress
<1> QED
  BY <1>3, <1>4 DEF StartDeferred

\* Every step keeps what start() has yet to reach quiet, and the rest not.
LEMMA OnItsWayStep ==
  ASSUME SerialLifecycle, StarterInv, Typed', EngineAlone, QuietWhileStopped, OnItsWay, [Next]_vars
  PROVE  OnItsWay'
<1>0. /\ Typed /\ call \in [Callers -> CallType] /\ status \in [Components -> StatusType]
      /\ deferred \subseteq Components /\ wanted \subseteq Components
  BY DEF StarterInv, Typed, TypeOK, CallType, StatusType
<1> SUFFICES ASSUME NEW d \in Callers, Starting(d)'
             PROVE  Deferrals(d)' /\ Progress(d)'
  BY DEF OnItsWay
<1>1. ASSUME NEW c \in Callers, Begin(c)
      PROVE  Deferrals(d)' /\ Progress(d)'
  <2>1. d # c /\ call'[d] = call[d] /\ Undisturbed
    BY <1>0, <1>1, BegunAlone, Quietly
  <2>2. Starting(d)
    BY <2>1 DEF Starting
  <2> QED
    BY <2>1, <2>2
    DEF OnItsWay, Undisturbed, Deferrals, Progress, Waiting, Active
<1>2. ASSUME NEW c \in Callers, c # d, Step(c) \/ Cancel(c)
      PROVE  FALSE
  <2>1. call'[d] = call[d] /\ InFlight(c)
    BY <1>0, <1>2, SameCall
  <2>2. Starting(d)
    BY <2>1 DEF Starting
  <2> QED
    BY <1>0, <1>2, <2>1, <2>2, StartingIsEngineOp DEF EngineAlone
<1>3. ASSUME NEW q \in Queries, QuerySettles(q)
      PROVE  Deferrals(d)' /\ Progress(d)'
  <2>1. Starting(d) /\ Deferrals(d) /\ Progress(d)
    BY <1>0, <1>3, Settling DEF Starting, OnItsWay
  <2>2. Deferrals(d)' /\ Waiting(d)' = Waiting(d)
    BY <1>0, <1>3, <2>1, Settling DEF Deferrals, Waiting
  <2>3. q \notin Waiting(d)
    BY <1>0, <1>3, <2>1, Settling DEF Progress, Active, Live
  <2>4. Waiting(d) \subseteq Components
    BY <1>0 DEF Waiting, CallType
  <2>5. (core = "running" /\ ~complete)'
    BY <1>0, <1>3, <2>1, Settling DEF Progress, history
  <2>6. \A x \in Waiting(d) : ~Active(x)'
    BY <1>0, <1>3, <2>1, <2>3, <2>4, Settling DEF Progress, Active
  <2>7. \A x \in wanted' \ Waiting(d) : status'[x] # "stopped"
    BY <1>0, <1>3, <2>1, Settling DEF Progress, history
  <2> QED
    BY <2>2, <2>5, <2>6, <2>7 DEF Progress
<1>4. CASE ApplyStart(d)
  <2>1. call[d].op \in EngineOps /\ core = "stopped" /\ CoreStart /\ Goto(d, "clone_q")
        /\ UNCHANGED <<deferred, wanted>>
    BY <1>0, <1>4 DEF ApplyStart, At, EngineOps, Starting, StartSteps, Return, Idle
  <2>2. call'[d].step = "clone_q"
    BY <1>0, <2>1 DEF Goto
  <2>3. Deferrals(d)' /\ Waiting(d)' = deferred
    BY <2>1, <2>2 DEF Deferrals, Waiting, OnQueries, OnReactions
  <2> QED
    BY <2>1, <2>3, CoreStartDoes DEF Progress, Active
<1>5. CASE Clone(d)
  <2>1. Starting(d) /\ Progress(d) /\ Undisturbed
    BY <1>5, Quietly DEF Clone, Starting, StartSteps, OnItsWay
  <2>2. Deferrals(d)' /\ Waiting(d)' = Waiting(d)
    <3>1. CASE call[d].step = "clone_q"
      <4>1. call'[d].step = "queries" /\ call'[d].todo = deferred \cap Queries
        BY <1>0, <1>5, <3>1 DEF Clone, CallType
      <4>2. (deferred \cap Queries) \cup (deferred \cap Reactions) = deferred
        BY <1>0 DEF Components
      <4> QED
        BY <2>1, <3>1, <4>1, <4>2 DEF Deferrals, Waiting, OnQueries, OnReactions, Undisturbed
    <3>2. CASE call[d].step = "clone_r"
      <4>1. call'[d].step = "reactions" /\ call'[d].todo = deferred \cap Reactions
        BY <1>0, <1>5, <3>2 DEF Clone, CallType
      <4> QED
        BY <2>1, <3>2, <4>1 DEF Deferrals, Waiting, OnQueries, OnReactions, Undisturbed
    <3> QED
      BY <1>5, <3>1, <3>2 DEF Clone
  <2> QED
    BY <2>1, <2>2 DEF Progress, Undisturbed, Active
<1>6. ASSUME NEW x \in Components, Pick(d, x)
      PROVE  Deferrals(d)' /\ Progress(d)'
  <2>1. Starting(d) /\ Deferrals(d) /\ Progress(d) /\ Undisturbed
    BY <1>6, Quietly DEF Pick, Starting, StartSteps, OnItsWay
  <2>2. x \in call[d].todo /\ x \in Waiting(d)
    BY <1>6 DEF Pick, Waiting
  <2>3. status[x] # "running"
    BY <2>1, <2>2 DEF Progress, Active, Live
  <2>4. /\ call'[d].todo = call[d].todo /\ call'[d].on = x
        /\ call'[d].step = IF call[d].step = "queries" THEN "start_q" ELSE "start_r"
    BY <1>0, <1>6, <2>3 DEF Pick, CallType
  <2>5. Deferrals(d)' /\ Waiting(d)' = Waiting(d)
    BY <1>6, <2>1, <2>2, <2>4
    DEF Pick, Deferrals, Waiting, OnQueries, OnReactions, Undisturbed
  <2> QED
    BY <2>1, <2>5 DEF Progress, Undisturbed, Active
<1>7. CASE StartDeferred(d)
  <2> DEFINE x == call[d].on
  <2>1. Starting(d) /\ Deferrals(d) /\ Progress(d) /\ call[d].step \in {"start_q", "start_r"}
    BY <1>7 DEF StartDeferred, Starting, StartSteps, OnItsWay
  <2>2. /\ x \in call[d].todo /\ x \in Waiting(d) /\ x \in deferred /\ x \in Components
        /\ status' = [status EXCEPT ![x] = Launched(x, status)]
        /\ core = "running" /\ Present(x) /\ ~Active(x)
    BY <1>7, StartsQuiet
  <2>3. UNCHANGED <<core, deferred, wanted, complete>>
    BY <1>7 DEF StartDeferred
  <2>4. Deferrals(d)' /\ Waiting(d)' = Waiting(d) \ {x}
    <3>1. CASE call[d].step = "start_q"
      <4>1. Goto(d, "await")
        BY <1>0, <1>7, <2>2, <3>1 DEF StartDeferred
      <4>2. call'[d].step = "await" /\ call'[d].todo = call[d].todo /\ call'[d].on = x
        BY <1>0, <4>1 DEF Goto, CallType
      <4>3. x \notin Reactions
        BY <2>1, <2>2, <3>1, Assumptions DEF Deferrals, OnQueries
      <4> QED
        BY <2>1, <2>2, <2>3, <3>1, <4>2, <4>3 DEF Deferrals, Waiting, OnQueries, OnReactions
    <3>2. CASE call[d].step = "start_r"
      <4>1. ~Return(d)
        BY <1>0 DEF Return, Idle, Starting, StartSteps
      <4>2. call' = [call EXCEPT ![d].step = "reactions", ![d].todo = @ \ {x}, ![d].on = None]
        BY <1>7, <2>2, <3>2, <4>1 DEF StartDeferred
      <4>3. call'[d].step = "reactions" /\ call'[d].todo = call[d].todo \ {x}
        BY <1>0, <4>2 DEF CallType
      <4> QED
        BY <2>1, <2>2, <2>3, <3>2, <4>3 DEF Deferrals, Waiting, OnQueries, OnReactions
    <3> QED
      BY <2>1, <3>1, <3>2
  <2>5. status'[x] # "stopped" /\ \A y \in Components \ {x} : status'[y] = status[y]
    BY <1>0, <2>2, LaunchedType
  <2>6. Waiting(d) \subseteq Components
    BY <1>0 DEF Waiting, CallType
  <2> QED
    BY <1>0, <2>1, <2>3, <2>4, <2>5, <2>6 DEF Progress, Active
<1>8. CASE Await(d)
  <2>1. Starting(d) /\ Deferrals(d) /\ Progress(d) /\ Undisturbed /\ call[d].step = "await"
    BY <1>8, Quietly DEF Await, Starting, StartSteps, OnItsWay
  <2>2. ~Return(d)
    BY <1>0 DEF Return, Idle, Starting, StartSteps
  <2>3. call' = [call EXCEPT ![d].step = "queries", ![d].on = None,
                             ![d].todo = @ \ {call[d].on}]
    BY <1>8, <2>2 DEF Await
  <2>4. call'[d].step = "queries" /\ call'[d].todo = call[d].todo \ {call[d].on}
    BY <1>0, <2>3 DEF CallType
  <2>5. Deferrals(d)' /\ Waiting(d)' = Waiting(d)
    BY <2>1, <2>4 DEF Deferrals, Waiting, OnQueries, OnReactions, Undisturbed
  <2> QED
    BY <2>1, <2>5 DEF Progress, Undisturbed, Active
<1>9. CASE Finish(d)
  <2>1. ~Return(d)
    BY <1>0 DEF Return, Idle, Starting, StartSteps
  <2>2. /\ call[d].step = "queries" /\ call[d].todo = {} /\ Goto(d, "clone_r")
        /\ UNCHANGED <<core, status, deferred, wanted, complete>>
    BY <1>9, <2>1 DEF Finish
  <2>3. Progress(d) /\ call'[d].step = "clone_r"
    BY <1>0, <2>2 DEF Starting, StartSteps, OnItsWay, Goto
  <2>4. Deferrals(d)' /\ Waiting(d)' = Waiting(d)
    BY <2>2, <2>3 DEF Deferrals, Waiting, OnQueries, OnReactions
  <2> QED
    BY <2>2, <2>3, <2>4 DEF Progress, Active
<1>10. CASE Cancel(d) \/ AwaitTimeout(d) \/ ApplyAdd(d) \/ ApplyUpdate(d) \/ Note(d)
            \/ ApplyRemove(d) \/ Forget(d) \/ ApplyStartOne(d) \/ ApplyStopOne(d) \/ ApplyStop(d)
            \/ ApplyClose(d) \/ Check(d)
  <2>1. ~Return(d)
    BY <1>0 DEF Return, Idle, Starting, StartSteps
  <2>2. Check(d) => call'[d].step = "apply"
    BY <1>0 DEF Check, CallType
  <2>3. ~Check(d) => Goto(d, "note") \/ Goto(d, "forget")
    BY <1>10, <2>1
    DEF Cancel, AwaitTimeout, ApplyAdd, ApplyUpdate, Install, Note, ApplyRemove, Forget,
        ApplyStartOne, ApplyStopOne, ApplyStop, ApplyClose
  <2>4. ASSUME NEW s, Goto(d, s) PROVE call'[d].step = s
    BY <1>0, <2>4 DEF Goto, CallType
  <2> QED
    BY <2>2, <2>3, <2>4 DEF Starting, StartSteps
<1>11. CASE UNCHANGED vars
  BY <1>11
  DEF vars, history, Starting, OnItsWay, Deferrals, Progress, Waiting, Active
<1>12. ASSUME Step(d) \/ Cancel(d)
       PROVE  Deferrals(d)' /\ Progress(d)'
  BY <1>4, <1>5, <1>6, <1>7, <1>8, <1>9, <1>10, <1>12 DEF Step
<1> QED
  BY <1>1, <1>2, <1>3, <1>11, <1>12 DEF Next

\* Every step keeps what asked to auto-start started.
LEMMA CompleteStep ==
  ASSUME StarterInv, EngineAlone, Checked, QuietWhileStopped, OnItsWay, Complete, [Next]_vars
  PROVE  Complete'
<1>0. /\ Typed /\ call \in [Callers -> CallType] /\ status \in [Components -> StatusType]
      /\ wanted \subseteq Components
      /\ \A c \in Callers : call[c].op \in ComponentOps => call[c].on \in Components
  BY DEF StarterInv, Typed, TypeOK, CallType, StatusType, Shape, WellFormed
<1> SUFFICES ASSUME core' = "running", complete'
             PROVE  \A x \in wanted' \ halted' : status'[x] # "stopped"
  BY DEF Complete
<1>1. ASSUME UNCHANGED <<core, status, wanted, halted, complete>>
      PROVE  \A x \in wanted' \ halted' : status'[x] # "stopped"
  BY <1>1 DEF Complete
<1>2. ASSUME NEW c \in Callers, ApplyAdd(c) \/ ApplyUpdate(c)
      PROVE  \A x \in wanted' \ halted' : status'[x] # "stopped"
  <2>1. CASE Install(c, call[c].on)
    <3> DEFINE x == call[c].on
    <3>1. /\ x \in Components /\ core = "running" /\ complete
          /\ Flag(c) <=> call[c].want
      BY <1>0, <1>2, <2>1, InstallHeld
      DEF ApplyAdd, ApplyUpdate, At, Install, ComponentOps
    <3>2. call[c].want => status'[x] # "stopped"
      BY <1>0, <2>1, <3>1, LaunchedType DEF Install
    <3>3. ~call[c].want => x \notin wanted'
      BY <2>1 DEF Install
    <3>4. \A y \in Components \ {x} :
            /\ status'[y] = status[y]
            /\ y \in wanted' <=> y \in wanted
            /\ y \in halted' <=> y \in halted
      BY <1>0, <2>1 DEF Install
    <3>5. wanted' \subseteq Components
      BY <1>0, <2>1, <3>1 DEF Install
    <3> QED
      BY <3>1, <3>2, <3>3, <3>4, <3>5 DEF Complete
  <2> QED
    BY <1>1, <1>2, <2>1 DEF ApplyAdd, ApplyUpdate, history
<1>3. ASSUME NEW c \in Callers, ApplyRemove(c)
      PROVE  \A x \in wanted' \ halted' : status'[x] # "stopped"
  <2>1. CASE /\ status' = [status EXCEPT ![call[c].on] = "absent"]
             /\ wanted' = wanted \ {call[c].on} /\ halted' = halted \ {call[c].on}
             /\ UNCHANGED <<core, complete>>
    BY <1>0, <2>1 DEF Complete
  <2> QED
    BY <1>1, <1>3, <2>1 DEF ApplyRemove, history
<1>4. ASSUME NEW c \in Callers, ApplyStartOne(c)
      PROVE  \A x \in wanted' \ halted' : status'[x] # "stopped"
  <2>1. CASE /\ status' = [status EXCEPT ![call[c].on] = Launched(call[c].on, status)]
             /\ halted' = halted \ {call[c].on}
    BY <1>0, <1>4, <2>1, LaunchedType DEF Complete, ApplyStartOne
  <2> QED
    BY <1>1, <1>4, <2>1 DEF ApplyStartOne
<1>5. ASSUME NEW c \in Callers, ApplyStopOne(c)
      PROVE  \A x \in wanted' \ halted' : status'[x] # "stopped"
  <2>1. CASE /\ status' = [status EXCEPT ![call[c].on] = "stopped"]
             /\ halted' = halted \cup {call[c].on}
    BY <1>0, <1>5, <2>1 DEF Complete, ApplyStopOne
  <2> QED
    BY <1>1, <1>5, <2>1 DEF ApplyStopOne
<1>6. ASSUME NEW c \in Callers, ApplyStart(c)
      PROVE  \A x \in wanted' \ halted' : status'[x] # "stopped"
  BY <1>1, <1>6 DEF ApplyStart, CoreStart, history
<1>7. ASSUME NEW c \in Callers, StartDeferred(c)
      PROVE  \A x \in wanted' \ halted' : status'[x] # "stopped"
  <2>1. Progress(c)
    BY <1>7 DEF OnItsWay, StartDeferred, Starting, StartSteps
  <2> QED
    BY <1>7, <2>1 DEF Progress, StartDeferred
<1>8. ASSUME NEW c \in Callers, Finish(c)
      PROVE  \A x \in wanted' \ halted' : status'[x] # "stopped"
  <2>1. CASE call[c].step = "reactions"
    <3>1. Progress(c) /\ call[c].todo = {}
      BY <1>8, <2>1 DEF OnItsWay, Finish, Starting, StartSteps
    <3>2. Waiting(c) = {}
      BY <2>1, <3>1 DEF Waiting
    <3> QED
      BY <1>8, <3>1, <3>2 DEF Progress, Finish
  <2> QED
    BY <1>1, <1>8, <2>1 DEF Finish
<1>9. ASSUME NEW c \in Callers, ApplyStop(c) \/ ApplyClose(c)
      PROVE  \A x \in wanted' \ halted' : status'[x] # "stopped"
  BY <1>1, <1>9 DEF ApplyStop, ApplyClose
<1>10. ASSUME NEW q \in Queries, QuerySettles(q)
       PROVE  \A x \in wanted' \ halted' : status'[x] # "stopped"
  BY <1>0, <1>10, Settling DEF Complete, history
<1>11. ASSUME NEW c \in Callers, Note(c) \/ Forget(c)
       PROVE  \A x \in wanted' \ halted' : status'[x] # "stopped"
  BY <1>1, <1>11 DEF Note, Forget, history
<1> QED
  BY <1>1, <1>2, <1>3, <1>4, <1>5, <1>6, <1>7, <1>8, <1>9, <1>10, <1>11, Quietly
  DEF Next, Step, Undisturbed, vars, history

\* No step makes start() trip, or start a reaction before its queries.
LEMMA NoTripStep ==
  ASSUME StarterInv, EngineAlone, QuietWhileStopped, OnItsWay,
         StartNeverTrips, HeldReactionsFollowQueries, [Next]_vars
  PROVE  StartNeverTrips' /\ HeldReactionsFollowQueries'
<1>0. Typed
  BY DEF StarterInv
<1>1. ASSUME UNCHANGED <<tripped, early>>
      PROVE  StartNeverTrips' /\ HeldReactionsFollowQueries'
  BY <1>1 DEF StartNeverTrips, HeldReactionsFollowQueries
<1>2. ASSUME NEW c \in Callers, ApplyStart(c)
      PROVE  StartNeverTrips' /\ HeldReactionsFollowQueries'
  <2>1. CASE core = "stopped" /\ CoreStart /\ UNCHANGED early
    <3>1. tripped' = tripped
      BY <1>2, <2>1, CoreStartDoes DEF ApplyStart, At, EngineOps
    <3> QED
      BY <1>1, <2>1, <3>1
  <2> QED
    BY <1>1, <1>2, <2>1 DEF ApplyStart, history
<1>3. ASSUME NEW c \in Callers, StartDeferred(c)
      PROVE  StartNeverTrips' /\ HeldReactionsFollowQueries'
  <2> DEFINE x == call[c].on
  <2>1. tripped' = tripped
    BY <1>3, StartsQuiet
  <2>2. CASE call[c].step = "start_q"
    BY <1>1, <1>3, <2>1, <2>2 DEF StartDeferred
  <2>3. CASE call[c].step = "start_r"
    <3>1. Deferrals(c) /\ Progress(c)
      BY <2>3 DEF OnItsWay, Starting, StartSteps
    <3>2. x \in Reactions /\ Waiting(c) \subseteq Reactions
      BY <2>3, <3>1 DEF Deferrals, Waiting, OnReactions
    <3>3. \A q \in Watches[x] : q \in Queries /\ q \notin Reactions
      BY <3>2, Assumptions
    <3>4. ~TooEarly(x)
      BY <3>1, <3>2, <3>3 DEF TooEarly, Progress
    <3>5. UNCHANGED early
      BY <1>3, <3>4 DEF StartDeferred
    <3> QED
      BY <1>1, <2>1, <3>5
  <2> QED
    BY <1>3, <2>2, <2>3 DEF StartDeferred
<1>4. ASSUME NEW c \in Callers,
             \/ ApplyAdd(c) \/ ApplyUpdate(c) \/ Note(c) \/ ApplyRemove(c) \/ Forget(c)
             \/ ApplyStartOne(c) \/ ApplyStopOne(c) \/ Finish(c) \/ ApplyStop(c) \/ ApplyClose(c)
      PROVE  StartNeverTrips' /\ HeldReactionsFollowQueries'
  BY <1>1, <1>4
  DEF ApplyAdd, ApplyUpdate, Install, Note, ApplyRemove, Forget, ApplyStartOne, ApplyStopOne,
      Finish, ApplyStop, ApplyClose, history
<1>5. ASSUME NEW q \in Queries, QuerySettles(q)
      PROVE  StartNeverTrips' /\ HeldReactionsFollowQueries'
  BY <1>1, <1>5 DEF QuerySettles, history
<1> QED
  BY <1>1, <1>2, <1>3, <1>4, <1>5, Quietly DEF Next, Step, Undisturbed, vars, history

\* The initial states, those that from_config leaves behind among them, are orderly.
LEMMA InitOrderly == Init => OrderlyInv
<1> SUFFICES ASSUME Init PROVE OrderlyInv
  OBVIOUS
<1>1. StarterInv
  BY InitStarters
<1>2. /\ \A c \in Callers : call[c].step = "idle" /\ call[c].op = "none"
      /\ tripped = {} /\ early = {} /\ halted = {}
  BY DEF Init, Idle
<1>3. /\ EngineAlone /\ Checked /\ OnItsWay
      /\ StartNeverTrips /\ HeldReactionsFollowQueries
  BY <1>2, OpSets
  DEF EngineAlone, InFlight, Checked, OnItsWay, Starting, StartSteps, StartNeverTrips,
      HeldReactionsFollowQueries
<1>4. QuietWhileStopped /\ Complete
  <2>1. CASE Created
    BY <2>1 DEF Created, QuietWhileStopped, Active, Live, Complete
  <2>2. CASE FromConfig
    <3>1. /\ core = "running" /\ wanted \subseteq Components
          /\ \A q \in Queries \cap wanted : status[q] \in {"starting", "running", "error"}
          /\ \A r \in Reactions \cap wanted : status[r] \in {"running", "error"}
      BY <2>2 DEF FromConfig
    <3> QED
      BY <3>1 DEF QuietWhileStopped, Complete, Components
  <2> QED
    BY <2>1, <2>2 DEF Init
<1> QED
  BY <1>1, <1>3, <1>4 DEF OrderlyInv, Orderly

LEMMA OrderlyStep ==
  ASSUME SerialIds, SerialLifecycle, Cancellable \subseteq EngineOps, OrderlyInv, [Next]_vars
  PROVE  OrderlyInv'
<1>1. StarterInv /\ StarterInv'
  BY TypedStep, ExclusiveStep, AutoPresentStep, StarterStep DEF OrderlyInv, StarterInv
<1>2. Typed /\ Typed'
  BY <1>1 DEF StarterInv
<1> QED
  BY <1>1, <1>2, AloneStep, CheckedStep, QuietStep, OnItsWayStep, CompleteStep,
     NoTripStep
  DEF OrderlyInv, Orderly

-----------------------------------------------------------------------------
(* What an orderly application can rely on: one that overlaps neither      *)
(* calls on one component nor start, stop and close with anything, and     *)
(* cancels none but those three                                            *)

\* Every state of it satisfies the inductive invariant.
THEOREM OrderlyInvariance ==
  ASSUME SerialIds, SerialLifecycle, Cancellable \subseteq EngineOps
  PROVE  Spec => []OrderlyInv
<1>1. OrderlyInv /\ [Next]_vars => OrderlyInv'
  BY OrderlyStep
<1> QED
  BY <1>1, InitOrderly, PTL DEF Spec

\* Nothing runs in an engine that does not, although the engine starts an auto-start
\* query the moment it is added (register_query, engine.rs:95-118).
THEOREM Quiet ==
  ASSUME SerialIds, SerialLifecycle, Cancellable \subseteq EngineOps
  PROVE  Spec => []QuietWhileStopped
<1>1. OrderlyInv => QuietWhileStopped
  BY DEF OrderlyInv, Orderly
<1> QED
  BY <1>1, OrderlyInvariance, PTL

\* start() is never refused a component as running already or unknown, through any
\* number of restarts (start_deferred_queries and start_deferred_reactions).
THEOREM NeverTrips ==
  ASSUME SerialIds, SerialLifecycle, Cancellable \subseteq EngineOps
  PROVE  Spec => []StartNeverTrips
<1>1. OrderlyInv => StartNeverTrips
  BY DEF OrderlyInv, Orderly
<1> QED
  BY <1>1, OrderlyInvariance, PTL

\* After a start() that succeeded every component that asked to auto-start has been
\* started, whether the engine or the deferred list was to do it.
THEOREM NoneIsLeftBehind ==
  ASSUME SerialIds, SerialLifecycle, Cancellable \subseteq EngineOps
  PROVE  Spec => []NoneLeftBehind
<1>1. OrderlyInv => NoneLeftBehind
  BY DEF OrderlyInv, Orderly, Complete, NoneLeftBehind
<1> QED
  BY <1>1, OrderlyInvariance, PTL

\* A deferred reaction is started after the queries it reads.
THEOREM ReactionsFollow ==
  ASSUME SerialIds, SerialLifecycle, Cancellable \subseteq EngineOps
  PROVE  Spec => []HeldReactionsFollowQueries
<1>1. OrderlyInv => HeldReactionsFollowQueries
  BY DEF OrderlyInv, Orderly
<1> QED
  BY <1>1, OrderlyInvariance, PTL

=============================================================================
