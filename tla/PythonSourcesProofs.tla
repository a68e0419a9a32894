------------------------- MODULE PythonSourcesProofs -------------------------
(***************************************************************************)
(* Proofs about PythonSources for any number of callers, ids and objects:  *)
(* its types, and how far the map and the engine's registry may differ.    *)
(***************************************************************************)
EXTENDS PythonSources, TLAPS

CallSteps == {"idle", "apply", "record", "lookup", "dispatch"}

CallType == [op : Ops \cup {"none"}, on : Ids \cup {None},
             obj : Objects \cup {Plugin, None}, step : CallSteps,
             due : Objects \cup {None}, barred : SUBSET Objects]

\* the steps each kind of call goes through, and what it carries there
WellFormed(r) ==
  /\ r.step = "idle" <=> r.op = "none"
  /\ r.step # "idle" => r.on \in Ids
  /\ r.step \in {"lookup", "dispatch"} <=> r.op = "push"
  /\ r.step = "record" => r.op \in {"add_python", "remove"}
  /\ r.step = "record" /\ r.op = "add_python" => r.obj \in Objects
  /\ r.step = "dispatch" => r.obj \in Objects
  /\ r.due # None => r.op = "push"

Shape == \A c \in Callers : WellFormed(call[c])

\* an object is only ever found under the id it was created with
Homes ==
  /\ \A i \in Ids : registered[i] \in Objects => idOf[registered[i]] = i
  /\ \A i \in Ids : known[i] \in Objects => idOf[known[i]] = i
  /\ \A c \in Callers :
       call[c].step = "record" /\ call[c].obj \in Objects
         => idOf[call[c].obj] = call[c].on
  /\ \A o \in gone : idOf[o] \in Ids

\* what Apart promises of the calls in flight
Separate ==
  Apart => \A c, d \in Callers, i \in Ids :
             ~(On(c, {"add_python"}, i) /\ On(d, {"remove"}, i))

Typed == TypeOK /\ Shape

LEMMA OpNames == Ops \subseteq AllOps /\ "none" \notin Ops /\ None \notin Ids
  BY SourcesAssumption DEF AllOps

LEMMA IdleType == Idle \in CallType /\ WellFormed(Idle)
  BY DEF Idle, Made, CallType, CallSteps, WellFormed

\* The type invariant, with its record type named.
LEMMA TypeParts ==
  TypeOK <=> /\ registered \in [Ids -> Objects \cup {Plugin, None}]
             /\ known \in [Ids -> Objects \cup {None}]
             /\ idOf \in [Objects -> Ids \cup {None}]
             /\ call \in [Callers -> CallType]
             /\ \A c \in Callers : call[c].step = "dispatch" => call[c].obj \in Objects
             /\ replaced \in SUBSET Ids
             /\ gone \in SUBSET Objects
             /\ letDown \in SUBSET Objects
  BY DEF TypeOK, CallType, CallSteps

\* The calls keep their types and shape when one record is replaced by a
\* well-formed one.
LEMMA SetCall ==
  ASSUME Typed, NEW c \in Callers, NEW r \in CallType, WellFormed(r),
         call' = [call EXCEPT ![c] = r]
  PROVE  call' \in [Callers -> CallType] /\ Shape'
  BY TypeParts DEF Typed, Shape, WellFormed, CallType

LEMMA ReturnCall ==
  ASSUME Typed, NEW c \in Callers, Return(c)
  PROVE  /\ call' \in [Callers -> CallType] /\ Shape'
         /\ call'[c] = Idle
         /\ \A d \in Callers : d # c => call'[d] = call[d]
  BY IdleType, SetCall, TypeParts DEF Return, Typed

\* A step that moves to s with object o.
LEMMA MoveCall ==
  ASSUME Typed, NEW c \in Callers, NEW s \in CallSteps,
         NEW o \in Objects \cup {Plugin, None},
         call' = [call EXCEPT ![c].step = s, ![c].obj = o],
         WellFormed([call[c] EXCEPT !.step = s, !.obj = o])
  PROVE  /\ call' \in [Callers -> CallType] /\ Shape'
         /\ call'[c] = [call[c] EXCEPT !.step = s, !.obj = o]
         /\ \A d \in Callers : d # c => call'[d] = call[d]
<1> DEFINE r == [call[c] EXCEPT !.step = s, !.obj = o]
<1>1. call \in [Callers -> CallType]
  BY TypeParts DEF Typed
<1>2. r \in CallType
  BY <1>1 DEF CallType
<1>3. call' = [call EXCEPT ![c] = r]
  BY <1>1 DEF CallType
<1> QED
  BY <1>1, <1>2, <1>3, SetCall

-----------------------------------------------------------------------------
(* What each step does to the calls *)

\* only c's call changes
Others(c) == \A d \in Callers : d # c => call'[d] = call[d]

LEMMA BeginChangeFacts ==
  ASSUME Typed, NEW c \in Callers, NEW op \in Ops \ {"push"}, NEW i \in Ids,
         BeginChange(c, op, i)
  PROVE  /\ Typed'
         /\ call'[c] = Made(op, i, "apply")
         /\ \A d \in Callers : d # c =>
              /\ call'[d].op = call[d].op /\ call'[d].on = call[d].on
              /\ call'[d].obj = call[d].obj /\ call'[d].step = call[d].step
              /\ call'[d].barred = call[d].barred
              /\ call'[d].due \in {call[d].due, None}
              /\ op \in {"update", "remove"} /\ call[d].on = i
                   => call'[d].due = None
<1> DEFINE clear(d) == [call[d] EXCEPT !.due = None]
<1>1. call \in [Callers -> CallType] /\ \A d \in Callers : WellFormed(call[d])
  BY TypeParts DEF Typed, Shape
<1>2. /\ call'[c] = Made(op, i, "apply")
      /\ \A d \in Callers : d # c => call'[d] \in {call[d], clear(d)}
      /\ \A d \in Callers : d # c /\ op \in {"update", "remove"} /\ call[d].on = i
           => call'[d] = clear(d)
      /\ call' = [d \in Callers |-> call'[d]]
  BY DEF BeginChange
<1>3. Made(op, i, "apply") \in CallType /\ WellFormed(Made(op, i, "apply"))
  BY OpNames DEF Made, CallType, CallSteps, WellFormed
<1>4. \A d \in Callers : clear(d) \in CallType /\ WellFormed(clear(d))
  BY <1>1 DEF CallType, WellFormed
<1>5. \A d \in Callers : call'[d] \in CallType /\ WellFormed(call'[d])
  BY <1>1, <1>2, <1>3, <1>4
<1>6. \A d \in Callers : d # c =>
        /\ call'[d].op = call[d].op /\ call'[d].on = call[d].on
        /\ call'[d].obj = call[d].obj /\ call'[d].step = call[d].step
        /\ call'[d].barred = call[d].barred
        /\ call'[d].due \in {call[d].due, None}
        /\ op \in {"update", "remove"} /\ call[d].on = i => call'[d].due = None
  <2> SUFFICES ASSUME NEW d \in Callers, d # c
               PROVE  /\ call'[d].op = call[d].op /\ call'[d].on = call[d].on
                      /\ call'[d].obj = call[d].obj /\ call'[d].step = call[d].step
                      /\ call'[d].barred = call[d].barred
                      /\ call'[d].due \in {call[d].due, None}
                      /\ op \in {"update", "remove"} /\ call[d].on = i
                           => call'[d].due = None
    OBVIOUS
  <2>1. call[d] \in CallType /\ clear(d).due = None
    BY <1>1 DEF CallType
  <2> QED
    BY <1>2, <2>1 DEF CallType
<1>7. TypeOK'
  <2>1. call' \in [Callers -> CallType]
    BY <1>2, <1>5
  <2>2. \A d \in Callers : call'[d].step = "dispatch" => call'[d].obj \in Objects
    BY <1>5 DEF WellFormed
  <2> QED
    BY <2>1, <2>2, TypeParts DEF BeginChange, history, Typed, TypeOK, CallType, CallSteps
<1> QED
  BY <1>2, <1>5, <1>6, <1>7 DEF Typed, Shape

LEMMA BeginPushFacts ==
  ASSUME Typed, NEW c \in Callers, NEW i \in Ids, BeginPush(c, i)
  PROVE  /\ Typed'
         /\ Others(c)
         /\ call'[c].op = "push" /\ call'[c].on = i /\ call'[c].step = "lookup"
         /\ call'[c].barred = gone
         /\ call'[c].due = IF registered[i] \in Objects /\ ~Changing(i)
                           THEN registered[i] ELSE None
<1> DEFINE r == [Made("push", i, "lookup") EXCEPT
                   !.due = IF registered[i] \in Objects /\ ~Changing(i)
                           THEN registered[i] ELSE None,
                   !.barred = gone]
<1>1. call \in [Callers -> CallType] /\ gone \in SUBSET Objects
  BY TypeParts DEF Typed
<1>2. r \in CallType /\ WellFormed(r)
  BY <1>1 DEF BeginPush, Made, CallType, CallSteps, WellFormed
<1>3. call' = [call EXCEPT ![c] = r]
  BY DEF BeginPush
<1>4. call' \in [Callers -> CallType] /\ Shape'
  BY <1>2, <1>3, SetCall
<1>5. call'[c] = r /\ Others(c)
  BY <1>1, <1>3 DEF Others
<1>6. TypeOK'
  BY <1>4, TypeParts DEF BeginPush, history, Typed, TypeOK, CallType, CallSteps,
     Shape, WellFormed
<1> QED
  BY <1>4, <1>5, <1>6 DEF Typed, Made

\* A step that returns, in what it leaves of the calls.
LEMMA ReturnFacts ==
  ASSUME Typed, NEW c \in Callers, Return(c)
  PROVE  /\ call' \in [Callers -> CallType] /\ Shape'
         /\ call'[c].step = "idle" /\ call'[c].op = "none"
         /\ call'[c].due = None /\ call'[c].barred = {}
         /\ Others(c)
  BY ReturnCall DEF Others, Idle, Made

\* A step of c that moves on to s with an object that fits.
LEMMA MoveFacts ==
  ASSUME Typed, NEW c \in Callers, NEW s \in CallSteps, InFlight(c),
         NEW o \in Objects \cup {Plugin, None},
         call' = [call EXCEPT ![c].step = s, ![c].obj = o],
         \/ s = "record" /\ call[c].op = "add_python" /\ o \in Objects
         \/ s = "record" /\ call[c].op = "remove"
         \/ s = "dispatch" /\ call[c].op = "push" /\ o \in Objects
  PROVE  /\ call' \in [Callers -> CallType] /\ Shape'
         /\ call'[c].step = s /\ call'[c].obj = o
         /\ call'[c].op = call[c].op /\ call'[c].on = call[c].on
         /\ call'[c].due = call[c].due /\ call'[c].barred = call[c].barred
         /\ Others(c)
<1>1. call[c] \in CallType /\ WellFormed(call[c])
  BY TypeParts DEF Typed, Shape
<1>2. WellFormed([call[c] EXCEPT !.step = s, !.obj = o])
  BY <1>1 DEF WellFormed, CallType, InFlight
<1>3. /\ call' \in [Callers -> CallType] /\ Shape'
      /\ call'[c] = [call[c] EXCEPT !.step = s, !.obj = o]
      /\ Others(c)
  BY <1>2, MoveCall DEF Others
<1> QED
  BY <1>1, <1>3 DEF CallType

-----------------------------------------------------------------------------
(* Types *)

LEMMA InitTyped == Init => Typed
<1> SUFFICES ASSUME Init PROVE Typed
  OBVIOUS
<1>1. call \in [Callers -> CallType] /\ Shape
  BY IdleType DEF Init, Shape
<1>2. \A c \in Callers : call[c].step # "dispatch"
  BY DEF Init, Idle, Made
<1> QED
  BY <1>1, <1>2, TypeParts DEF Init, Typed

\* The calls a step leaves are typed: what is left to show of it.
LEMMA FromCalls ==
  ASSUME call' \in [Callers -> CallType], Shape',
         registered' \in [Ids -> Objects \cup {Plugin, None}],
         known' \in [Ids -> Objects \cup {None}],
         idOf' \in [Objects -> Ids \cup {None}],
         replaced' \in SUBSET Ids, gone' \in SUBSET Objects,
         letDown' \in SUBSET Objects
  PROVE  Typed'
<1>1. \A c \in Callers : call'[c].step = "dispatch" => call'[c].obj \in Objects
  BY DEF Shape, WellFormed
<1> QED
  BY <1>1 DEF Typed, TypeOK, CallType, CallSteps

LEMMA StepTyped ==
  ASSUME Typed, NEW c \in Callers, Step(c)
  PROVE  Typed'
<1>0. /\ call[c] \in CallType /\ WellFormed(call[c])
      /\ registered \in [Ids -> Objects \cup {Plugin, None}]
      /\ known \in [Ids -> Objects \cup {None}]
      /\ idOf \in [Objects -> Ids \cup {None}]
      /\ replaced \in SUBSET Ids /\ gone \in SUBSET Objects
      /\ letDown \in SUBSET Objects
  BY TypeParts DEF Typed, Shape
<1>1. InFlight(c) /\ call[c].on \in Ids
  BY <1>0 DEF Step, ApplyAddPython, Record, ApplyAdd, ApplyUpdate, ApplyRemove,
     Forget, Lookup, Dispatched, At, InFlight, WellFormed
<1>2. CASE ApplyAddPython(c)
  <2>1. CASE Return(c) /\ UNCHANGED <<registered, idOf>>
    BY <1>0, <1>2, <2>1, ReturnFacts, FromCalls DEF ApplyAddPython, history
  <2>2. ASSUME NEW o \in Objects,
               idOf' = [idOf EXCEPT ![o] = call[c].on],
               registered' = [registered EXCEPT ![call[c].on] = o],
               call' = [call EXCEPT ![c].step = "record", ![c].obj = o]
        PROVE  Typed'
    <3>1. call' \in [Callers -> CallType] /\ Shape'
      BY <1>1, <1>2, <2>2, MoveFacts DEF ApplyAddPython, At, CallSteps
    <3> QED
      BY <1>0, <1>1, <1>2, <2>2, <3>1, FromCalls DEF ApplyAddPython, history
  <2> QED
    BY <1>2, <2>1, <2>2 DEF ApplyAddPython
<1>3. CASE Record(c)
  BY <1>0, <1>1, <1>3, ReturnFacts, FromCalls DEF Record, At, WellFormed, history
<1>4. CASE ApplyAdd(c)
  BY <1>0, <1>1, <1>4, ReturnFacts, FromCalls DEF ApplyAdd, history
<1>5. CASE ApplyUpdate(c)
  BY <1>0, <1>1, <1>5, ReturnFacts, FromCalls DEF ApplyUpdate
<1>6. CASE ApplyRemove(c)
  <2>1. CASE Return(c) /\ UNCHANGED registered
    BY <1>0, <1>6, <2>1, ReturnFacts, FromCalls DEF ApplyRemove, history
  <2>2. CASE /\ registered' = [registered EXCEPT ![call[c].on] = None]
             /\ call' = [call EXCEPT ![c].step = "record",
                                     ![c].obj = registered[call[c].on]]
    <3> DEFINE o == registered[call[c].on]
    <3>0. o \in Objects \cup {Plugin, None} /\ call[c].op = "remove"
      BY <1>0, <1>1, <1>6 DEF ApplyRemove, At
    <3>1. call' = [call EXCEPT ![c].step = "record", ![c].obj = o]
      BY <2>2
    <3> HIDE DEF o
    <3>2. call' \in [Callers -> CallType] /\ Shape'
      BY <1>1, <3>0, <3>1, MoveFacts DEF CallSteps
    <3> QED
      BY <1>0, <1>1, <1>6, <2>2, <3>2, FromCalls DEF ApplyRemove, history
  <2> QED
    BY <1>6, <2>1, <2>2 DEF ApplyRemove
<1>7. CASE Forget(c)
  BY <1>0, <1>1, <1>7, ReturnFacts, FromCalls DEF Forget
<1>8. CASE Lookup(c)
  <2>1. CASE Return(c)
    <3>1. letDown' \in SUBSET Objects
      BY <1>0, <1>8 DEF Lookup
    <3> QED
      BY <1>0, <1>8, <2>1, <3>1, ReturnFacts, FromCalls DEF Lookup
  <2>2. CASE /\ known[call[c].on] # None /\ UNCHANGED letDown
             /\ call' = [call EXCEPT ![c].step = "dispatch",
                                     ![c].obj = known[call[c].on]]
    <3> DEFINE o == known[call[c].on]
    <3>0. o \in Objects /\ call[c].op = "push"
      BY <1>0, <1>1, <1>8, <2>2 DEF Lookup, At
    <3>1. call' = [call EXCEPT ![c].step = "dispatch", ![c].obj = o]
      BY <2>2
    <3> HIDE DEF o
    <3>2. call' \in [Callers -> CallType] /\ Shape'
      BY <1>1, <3>0, <3>1, MoveFacts DEF CallSteps
    <3> QED
      BY <1>0, <1>8, <2>2, <3>2, FromCalls DEF Lookup
  <2> QED
    BY <1>8, <2>1, <2>2 DEF Lookup
<1>9. CASE Dispatched(c)
  BY <1>0, <1>9, ReturnFacts, FromCalls DEF Dispatched, history
<1> QED
  BY <1>2, <1>3, <1>4, <1>5, <1>6, <1>7, <1>8, <1>9 DEF Step

LEMMA CancelTyped ==
  ASSUME Typed, NEW c \in Callers, Cancel(c)
  PROVE  Typed'
  BY TypeParts, ReturnFacts, FromCalls DEF Cancel, history, Typed

LEMMA TypedStep == Typed /\ [Next]_vars => Typed'
<1> SUFFICES ASSUME Typed, [Next]_vars PROVE Typed'
  OBVIOUS
<1>1. CASE UNCHANGED vars
  BY <1>1 DEF vars, Typed, TypeOK, Shape
<1> QED
  BY <1>1, BeginChangeFacts, BeginPushFacts, CancelTyped, StepTyped DEF Next

\* The variables keep their types, whatever the calls and their overlap.
THEOREM TypeCorrect == Spec => []TypeOK
<1>1. Spec => []Typed
  BY InitTyped, TypedStep, PTL DEF Spec
<1>2. Typed => TypeOK
  BY DEF Typed
<1> QED
  BY <1>1, <1>2, PTL

-----------------------------------------------------------------------------
(* The steps, by what they do to the two registries *)

Returns(c) ==
  /\ call'[c].step = "idle" /\ call'[c].op = "none"
  /\ call'[c].due = None /\ call'[c].barred = {}
  /\ Others(c)

MovesTo(c, s, o) ==
  /\ call'[c].step = s /\ call'[c].obj = o
  /\ call'[c].op = call[c].op /\ call'[c].on = call[c].on
  /\ call'[c].due = call[c].due /\ call'[c].barred = call[c].barred
  /\ Others(c)

Only(f, i, x) == [f EXCEPT ![i] = x]

Adds(c, o) ==
  /\ At(c, "add_python", "apply") /\ MovesTo(c, "record", o)
  /\ registered[call[c].on] = None /\ idOf[o] = None
  /\ registered' = Only(registered, call[c].on, o)
  /\ idOf' = Only(idOf, o, call[c].on)
  /\ UNCHANGED <<known, replaced, gone, letDown>>

Records(c) ==
  /\ At(c, "add_python", "record") /\ Returns(c)
  /\ known' = Only(known, call[c].on, call[c].obj)
  /\ UNCHANGED <<registered, idOf, replaced, gone, letDown>>

Plugs(c) ==
  /\ At(c, "add", "apply") /\ Returns(c)
  /\ registered[call[c].on] = None
  /\ registered' = Only(registered, call[c].on, Plugin)
  /\ UNCHANGED <<known, idOf, replaced, gone, letDown>>

Replaces(c) ==
  /\ At(c, "update", "apply") /\ Returns(c)
  /\ registered[call[c].on] # None
  /\ registered' = Only(registered, call[c].on, Plugin)
  /\ replaced' = IF registered[call[c].on] \in Objects
                 THEN replaced \cup {call[c].on} ELSE replaced
  /\ UNCHANGED <<known, idOf, gone, letDown>>

Removes(c) ==
  /\ At(c, "remove", "apply") /\ MovesTo(c, "record", registered[call[c].on])
  /\ registered' = Only(registered, call[c].on, None)
  /\ UNCHANGED <<known, idOf, replaced, gone, letDown>>

Forgets(c) ==
  /\ At(c, "remove", "record") /\ Returns(c)
  /\ known' = Only(known, call[c].on, None)
  /\ replaced' = replaced \ {call[c].on}
  /\ gone' = gone \cup ({call[c].obj} \cap Objects)
  /\ UNCHANGED <<registered, idOf, letDown>>

Finds(c) ==
  /\ At(c, "push", "lookup") /\ MovesTo(c, "dispatch", known[call[c].on])
  /\ known[call[c].on] \in Objects
  /\ UNCHANGED <<registered, known, idOf, replaced, gone, letDown>>

Refuses(c) ==
  /\ At(c, "push", "lookup") /\ Returns(c)
  /\ known[call[c].on] = None
  /\ letDown' = letDown \cup ({call[c].due} \cap Objects)
  /\ UNCHANGED <<registered, known, idOf, replaced, gone>>

\* nothing changes but that the call is over
Ends(c) ==
  Returns(c) /\ UNCHANGED <<registered, known, idOf, replaced, gone, letDown>>

LEMMA StepKinds ==
  ASSUME Typed, NEW c \in Callers, Step(c)
  PROVE  /\ call[c].on \in Ids
         /\ \/ \E o \in Objects : Adds(c, o)
            \/ Records(c) \/ Plugs(c) \/ Replaces(c) \/ Removes(c)
            \/ Forgets(c) \/ Finds(c) \/ Refuses(c)
            \/ Ends(c) /\ ~At(c, "add_python", "record") /\ ~At(c, "remove", "record")
<1>0. /\ call[c] \in CallType /\ WellFormed(call[c])
      /\ registered \in [Ids -> Objects \cup {Plugin, None}]
      /\ known \in [Ids -> Objects \cup {None}]
  BY TypeParts DEF Typed, Shape
<1>1. InFlight(c) /\ call[c].on \in Ids
  BY <1>0 DEF Step, ApplyAddPython, Record, ApplyAdd, ApplyUpdate, ApplyRemove,
     Forget, Lookup, Dispatched, At, InFlight, WellFormed
<1>a. Return(c) => Returns(c)
  BY ReturnFacts DEF Returns
<1>2. CASE ApplyAddPython(c)
  <2>1. CASE Return(c) /\ UNCHANGED <<registered, idOf>>
    BY <1>1, <1>2, <2>1, <1>a DEF ApplyAddPython, Ends, At, history
  <2>2. ASSUME NEW o \in Objects, idOf[o] = None, registered[call[c].on] = None,
               idOf' = [idOf EXCEPT ![o] = call[c].on],
               registered' = [registered EXCEPT ![call[c].on] = o],
               call' = [call EXCEPT ![c].step = "record", ![c].obj = o]
        PROVE  Adds(c, o)
    <3>1. MovesTo(c, "record", o)
      BY <1>1, <1>2, <2>2, MoveFacts DEF ApplyAddPython, At, CallSteps, MovesTo
    <3> QED
      BY <1>2, <2>2, <3>1 DEF ApplyAddPython, Adds, Only, history
  <2> QED
    BY <1>1, <1>2, <2>1, <2>2 DEF ApplyAddPython
<1>3. CASE Record(c)
  BY <1>1, <1>3, <1>a DEF Record, Records, Only, history
<1>4. CASE ApplyAdd(c)
  BY <1>1, <1>4, <1>a DEF ApplyAdd, Plugs, Ends, At, Only, history
<1>5. CASE ApplyUpdate(c)
  BY <1>0, <1>1, <1>5, <1>a, SourcesAssumption
     DEF ApplyUpdate, Replaces, Ends, At, Only
<1>6. CASE ApplyRemove(c)
  <2>1. CASE Return(c) /\ UNCHANGED registered
    BY <1>1, <1>6, <2>1, <1>a DEF ApplyRemove, Ends, At, history
  <2>2. CASE /\ registered' = [registered EXCEPT ![call[c].on] = None]
             /\ call' = [call EXCEPT ![c].step = "record",
                                     ![c].obj = registered[call[c].on]]
    <3> DEFINE o == registered[call[c].on]
    <3>0. o \in Objects \cup {Plugin, None} /\ call[c].op = "remove"
      BY <1>0, <1>1, <1>6 DEF ApplyRemove, At
    <3>1. call' = [call EXCEPT ![c].step = "record", ![c].obj = o]
      BY <2>2
    <3> HIDE DEF o
    <3>2. MovesTo(c, "record", o)
      BY <1>1, <3>0, <3>1, MoveFacts DEF CallSteps, MovesTo
    <3> QED
      BY <1>1, <1>6, <2>2, <3>2 DEF ApplyRemove, Removes, Only, history, o
  <2> QED
    BY <1>6, <2>1, <2>2 DEF ApplyRemove
<1>7. CASE Forget(c)
  BY <1>1, <1>7, <1>a DEF Forget, Forgets, Only
<1>8. CASE Lookup(c)
  <2>1. CASE Return(c) /\ known[call[c].on] = None
    BY <1>1, <1>8, <2>1, <1>a DEF Lookup, Refuses
  <2>2. CASE /\ known[call[c].on] # None /\ UNCHANGED letDown
             /\ call' = [call EXCEPT ![c].step = "dispatch",
                                     ![c].obj = known[call[c].on]]
    <3> DEFINE o == known[call[c].on]
    <3>0. o \in Objects /\ call[c].op = "push"
      BY <1>0, <1>1, <1>8, <2>2 DEF Lookup, At
    <3>1. call' = [call EXCEPT ![c].step = "dispatch", ![c].obj = o]
      BY <2>2
    <3> HIDE DEF o
    <3>2. MovesTo(c, "dispatch", o)
      BY <1>1, <3>0, <3>1, MoveFacts DEF CallSteps, MovesTo
    <3> QED
      BY <1>1, <1>8, <2>2, <3>0, <3>2 DEF Lookup, Finds, o
  <2> QED
    BY <1>8, <2>1, <2>2 DEF Lookup
<1>9. CASE Dispatched(c)
  BY <1>1, <1>9, <1>a DEF Dispatched, Ends, At, history
<1> QED
  BY <1>2, <1>3, <1>4, <1>5, <1>6, <1>7, <1>8, <1>9 DEF Step

LEMMA CancelKinds ==
  ASSUME Typed, NEW c \in Callers, Cancel(c)
  PROVE  Ends(c) /\ call[c].op \in Cancellable
  BY ReturnFacts DEF Cancel, Ends, Returns, history

-----------------------------------------------------------------------------
(* Where an object may be found, and who is changing what *)

LEMMA HomesStep ==
  ASSUME Typed, Homes, NEW c \in Callers, Step(c)
  PROVE  Homes'
<1> DEFINE i == call[c].on
<1>0. /\ i \in Ids
      /\ registered \in [Ids -> Objects \cup {Plugin, None}]
      /\ known \in [Ids -> Objects \cup {None}]
      /\ idOf \in [Objects -> Ids \cup {None}] /\ gone \in SUBSET Objects
      /\ call[c].obj \in Objects \cup {Plugin, None}
  BY StepKinds, TypeParts DEF Typed, CallType
<1>1. Plugin \notin Objects /\ None \notin Objects /\ None \notin Ids
  BY SourcesAssumption
<1>2. ASSUME NEW o \in Objects, Adds(c, o) PROVE Homes'
  <2>1. /\ idOf'[o] = i /\ \A x \in Objects : x # o => idOf'[x] = idOf[x]
        /\ registered'[i] = o
        /\ \A j \in Ids : j # i => registered'[j] = registered[j]
    BY <1>0, <1>2 DEF Adds, Only
  <2>2. \A j \in Ids : registered'[j] \in Objects => idOf'[registered'[j]] = j
    BY <1>0, <1>1, <1>2, <2>1 DEF Homes, Adds
  <2>3. \A j \in Ids : known'[j] \in Objects => idOf'[known'[j]] = j
    BY <1>0, <1>1, <1>2, <2>1 DEF Homes, Adds
  <2>4. \A d \in Callers :
          call'[d].step = "record" /\ call'[d].obj \in Objects
            => idOf'[call'[d].obj] = call'[d].on
    <3> SUFFICES ASSUME NEW d \in Callers, call'[d].step = "record",
                        call'[d].obj \in Objects
                 PROVE  idOf'[call'[d].obj] = call'[d].on
      OBVIOUS
    <3>1. CASE d = c
      BY <1>2, <2>1, <3>1 DEF Adds, MovesTo
    <3>2. CASE d # c
      <4>1. call'[d] = call[d]
        BY <1>2, <3>2 DEF Adds, MovesTo, Others
      <4>2. idOf[call[d].obj] = call[d].on /\ call[d].on \in Ids
        BY <4>1 DEF Homes, Typed, Shape, WellFormed
      <4> QED
        BY <1>1, <1>2, <2>1, <4>1, <4>2 DEF Adds
    <3> QED
      BY <3>1, <3>2
  <2>5. \A x \in gone' : idOf'[x] \in Ids
    BY <1>0, <1>1, <1>2, <2>1 DEF Homes, Adds
  <2> QED
    BY <2>2, <2>3, <2>4, <2>5 DEF Homes
<1>3. CASE Records(c)
  BY <1>0, <1>3 DEF Homes, Records, Returns, Others, Only, At
<1>4. CASE Plugs(c)
  BY <1>0, <1>1, <1>4 DEF Homes, Plugs, Returns, Others, Only
<1>5. CASE Replaces(c)
  BY <1>0, <1>1, <1>5 DEF Homes, Replaces, Returns, Others, Only
<1>6. CASE Removes(c)
  <2>1. \A d \in Callers :
          call'[d].step = "record" /\ call'[d].obj \in Objects
            => idOf'[call'[d].obj] = call'[d].on
    BY <1>0, <1>6 DEF Homes, Removes, MovesTo, Others
  <2>2. \A j \in Ids : registered'[j] \in Objects => registered'[j] = registered[j]
    BY <1>0, <1>1, <1>6 DEF Removes, Only
  <2> QED
    BY <1>6, <2>1, <2>2 DEF Homes, Removes
<1>7. CASE Forgets(c)
  <2>1. \A j \in Ids : known'[j] \in Objects => known'[j] = known[j]
    BY <1>0, <1>1, <1>7 DEF Forgets, Only
  <2>2. \A x \in gone' : idOf'[x] \in Ids
    BY <1>0, <1>7 DEF Homes, Forgets, At
  <2> QED
    BY <1>7, <2>1, <2>2 DEF Homes, Forgets, Returns, Others
<1>8. CASE Finds(c)
  BY <1>8 DEF Homes, Finds, MovesTo, Others
<1>9. CASE Refuses(c)
  BY <1>9 DEF Homes, Refuses, Returns, Others
<1>10. CASE Ends(c)
  BY <1>10 DEF Homes, Ends, Returns, Others
<1> QED
  BY <1>2, <1>3, <1>4, <1>5, <1>6, <1>7, <1>8, <1>9, <1>10, StepKinds

\* A step takes c's call on, or ends it; it never begins one.
LEMMA StepCalls ==
  ASSUME Typed, NEW c \in Callers, Step(c)
  PROVE  /\ Others(c)
         /\ call'[c].op \in {call[c].op, "none"}
         /\ call'[c].step # "idle" => call'[c].op = call[c].op /\ call'[c].on = call[c].on
         /\ call'[c].step \in {"idle", "record", "dispatch"}
         /\ call[c].step # "idle"
         /\ call'[c].due \in {call[c].due, None}
         /\ call'[c].barred \in {call[c].barred, {}}
<1>1. call[c].step # "idle"
  BY DEF Step, ApplyAddPython, Record, ApplyAdd, ApplyUpdate, ApplyRemove,
     Forget, Lookup, Dispatched, At
<1>2. ASSUME NEW s \in {"record", "dispatch"}, NEW o, MovesTo(c, s, o)
      PROVE  /\ Others(c)
             /\ call'[c].op = call[c].op /\ call'[c].on = call[c].on
             /\ call'[c].step \in {"record", "dispatch"}
             /\ call'[c].due = call[c].due /\ call'[c].barred = call[c].barred
  BY <1>2 DEF MovesTo
<1>3. ASSUME NEW o \in Objects, Adds(c, o) PROVE MovesTo(c, "record", o)
  BY <1>3 DEF Adds
<1>4. Removes(c) => MovesTo(c, "record", registered[call[c].on])
  BY DEF Removes
<1>5. Finds(c) => MovesTo(c, "dispatch", known[call[c].on])
  BY DEF Finds
<1>6. Records(c) \/ Plugs(c) \/ Replaces(c) \/ Forgets(c) \/ Refuses(c) \/ Ends(c)
        => Returns(c)
  BY DEF Records, Plugs, Replaces, Forgets, Refuses, Ends
<1>7. \/ Returns(c)
      \/ \E o : \E s \in {"record", "dispatch"} : MovesTo(c, s, o)
  BY <1>3, <1>4, <1>5, <1>6, StepKinds
<1> QED
  BY <1>1, <1>2, <1>7 DEF Returns

LEMMA SeparateStep ==
  ASSUME Typed, Separate, NEW c \in Callers, Step(c) \/ Cancel(c)
  PROVE  Separate'
<1>1. /\ Others(c)
      /\ call'[c].step # "idle" => /\ call'[c].op = call[c].op
                                   /\ call'[c].on = call[c].on
                                   /\ call[c].step # "idle"
  BY StepCalls, CancelKinds DEF Ends, Returns
<1>2. \A d \in Callers, i \in Ids :
        /\ On(d, {"add_python"}, i)' => On(d, {"add_python"}, i)
        /\ On(d, {"remove"}, i)' => On(d, {"remove"}, i)
  BY <1>1 DEF On, InFlight, Others
<1> QED
  BY <1>2 DEF Separate

LEMMA SeparateBegin ==
  ASSUME Typed, Separate, NEW c \in Callers, NEW op \in Ops \ {"push"},
         NEW i \in Ids, BeginChange(c, op, i)
  PROVE  Separate'
<1> SUFFICES ASSUME Apart, NEW d \in Callers, NEW e \in Callers, NEW j \in Ids,
                    On(d, {"add_python"}, j)', On(e, {"remove"}, j)'
             PROVE  FALSE
  BY DEF Separate
<1>0. /\ call'[c] = Made(op, i, "apply")
      /\ \A x \in Callers : x # c =>
           /\ call'[x].op = call[x].op /\ call'[x].on = call[x].on
           /\ call'[x].step = call[x].step
  BY BeginChangeFacts
<1>1. call'[c].op = op /\ call'[c].on = i /\ call'[c].step = "apply"
  BY <1>0 DEF Made
<1>2. \A x \in Callers : x # c =>
        /\ On(x, {"add_python"}, j)' => On(x, {"add_python"}, j)
        /\ On(x, {"remove"}, j)' => On(x, {"remove"}, j)
  BY <1>0 DEF On, InFlight
<1>3. MayOverlap(op, i)
  BY DEF BeginChange
<1>4. d = c => op = "add_python" /\ i = j
  BY <1>1 DEF On
<1>5. e = c => op = "remove" /\ i = j
  BY <1>1 DEF On
<1> QED
  BY <1>2, <1>3, <1>4, <1>5 DEF Separate, MayOverlap

LEMMA SeparatePush ==
  ASSUME Typed, Separate, NEW c \in Callers, NEW i \in Ids, BeginPush(c, i)
  PROVE  Separate'
<1>1. call'[c].op = "push" /\ Others(c)
  BY BeginPushFacts
<1>2. \A d \in Callers, j \in Ids :
        /\ On(d, {"add_python"}, j)' => On(d, {"add_python"}, j)
        /\ On(d, {"remove"}, j)' => On(d, {"remove"}, j)
  BY <1>1 DEF On, InFlight, Others
<1> QED
  BY <1>2 DEF Separate

\* a call of c begins
Begins(c) ==
  /\ UNCHANGED <<registered, known, idOf, replaced, gone, letDown>>
  /\ call[c].step = "idle"
  /\ call'[c].step \in {"apply", "lookup"}
  /\ \A d \in Callers : d # c =>
       /\ call'[d].op = call[d].op /\ call'[d].on = call[d].on
       /\ call'[d].obj = call[d].obj /\ call'[d].step = call[d].step
       /\ call'[d].barred = call[d].barred
       /\ call'[d].due \in {call[d].due, None}

LEMMA BeginKinds ==
  ASSUME Typed, NEW c \in Callers,
         \/ \E op \in Ops \ {"push"}, i \in Ids : BeginChange(c, op, i)
         \/ \E i \in Ids : BeginPush(c, i)
  PROVE  Begins(c)
<1>1. ASSUME NEW op \in Ops \ {"push"}, NEW i \in Ids, BeginChange(c, op, i)
      PROVE  Begins(c)
  <2>0. /\ call'[c] = Made(op, i, "apply")
        /\ \A d \in Callers : d # c =>
             /\ call'[d].op = call[d].op /\ call'[d].on = call[d].on
             /\ call'[d].obj = call[d].obj /\ call'[d].step = call[d].step
             /\ call'[d].barred = call[d].barred
             /\ call'[d].due \in {call[d].due, None}
    BY <1>1, BeginChangeFacts
  <2>1. call'[c].step = "apply"
    BY <2>0 DEF Made
  <2>2. /\ UNCHANGED <<registered, known, idOf, replaced, gone, letDown>>
        /\ call[c].step = "idle"
    BY <1>1 DEF BeginChange, history, InFlight
  <2> QED
    BY <2>0, <2>1, <2>2 DEF Begins
<1>2. ASSUME NEW i \in Ids, BeginPush(c, i)
      PROVE  Begins(c)
  <2>1. /\ UNCHANGED <<registered, known, idOf, replaced, gone, letDown>>
        /\ call[c].step = "idle"
    BY <1>2 DEF BeginPush, history, InFlight
  <2> QED
    BY <1>2, <2>1, BeginPushFacts DEF Begins, Others
<1> QED
  BY <1>1, <1>2

-----------------------------------------------------------------------------
(* Between the two registries, for an application that keeps adding and    *)
(* removing an id apart                                                    *)

\* what add_python_source has still to record is in the engine, or replaced
Adding ==
  \A c \in Callers : At(c, "add_python", "record") =>
    /\ registered[call[c].on] \in {call[c].obj, Plugin}
    /\ registered[call[c].on] = call[c].obj \/ call[c].on \in replaced

\* what remove_source has still to forget has no Python source in its place
Removing ==
  \A c \in Callers : At(c, "remove", "record") => registered[call[c].on] \notin Objects

Base == Typed /\ Homes /\ Separate /\ (Apart => Adding /\ Removing)

\* Two records between the registries are never on one id.
LEMMA NotBoth ==
  ASSUME Base, Apart, NEW c \in Callers, NEW d \in Callers,
         call[c].op = "add_python", call[c].step \in {"apply", "record"},
         call[d].op = "remove", call[d].step \in {"apply", "record"}
  PROVE  call[c].on # call[d].on
  BY DEF Base, Typed, Shape, WellFormed, Separate, On, InFlight

LEMMA AddingStep ==
  ASSUME Base, Apart, NEW c \in Callers, Step(c)
  PROVE  Adding'
<1> SUFFICES ASSUME NEW d \in Callers, At(d, "add_python", "record")'
             PROVE  /\ registered'[call'[d].on] \in {call'[d].obj, Plugin}
                    /\ \/ registered'[call'[d].on] = call'[d].obj
                       \/ call'[d].on \in replaced'
  BY DEF Adding
<1> DEFINE i == call[c].on
<1>0. /\ Typed /\ i \in Ids /\ call[d].on \in Ids \cup {None}
      /\ registered \in [Ids -> Objects \cup {Plugin, None}]
      /\ Plugin \notin Objects /\ None \notin Objects /\ Plugin # None
  BY StepKinds, TypeParts, SourcesAssumption DEF Base, Typed, CallType
<1>1. CASE d = c
  <2>1. \E o \in Objects : Adds(c, o)
    BY <1>0, <1>1, StepKinds DEF At, Records, Plugs, Replaces, Removes, Forgets,
       Finds, Refuses, Ends, Returns, MovesTo
  <2>2. PICK o \in Objects : Adds(c, o)
    BY <2>1
  <2>3. registered'[i] = o
    BY <1>0, <2>2 DEF Adds, Only
  <2> QED
    BY <1>1, <2>2, <2>3 DEF Adds, MovesTo
<1>2. CASE d # c
  <2>1. call'[d] = call[d]
    BY <1>0, <1>2, StepCalls DEF Others
  <2>2. /\ At(d, "add_python", "record") /\ call[d].on \in Ids
        /\ call[d].obj \in Objects
        /\ registered[call[d].on] \in {call[d].obj, Plugin}
        /\ registered[call[d].on] = call[d].obj \/ call[d].on \in replaced
    BY <2>1 DEF At, Base, Adding, Typed, Shape, WellFormed
  <2>3. CASE \E o \in Objects : Adds(c, o)
    BY <1>0, <2>1, <2>2, <2>3 DEF Adds, Only
  <2>4. CASE Plugs(c)
    BY <1>0, <2>1, <2>2, <2>4 DEF Plugs, Only
  <2>5. CASE Replaces(c)
    BY <1>0, <2>1, <2>2, <2>5 DEF Replaces, Only
  <2>6. CASE Removes(c)
    <3>1. i # call[d].on
      BY <2>2, <2>6, NotBoth DEF Removes, At
    <3> QED
      BY <1>0, <2>1, <2>2, <2>6, <3>1 DEF Removes, Only
  <2>7. CASE Forgets(c)
    <3>1. i # call[d].on
      BY <2>2, <2>7, NotBoth DEF Forgets, At
    <3> QED
      BY <2>1, <2>2, <2>7, <3>1 DEF Forgets
  <2>8. CASE Records(c) \/ Finds(c) \/ Refuses(c) \/ Ends(c)
    BY <2>1, <2>2, <2>8 DEF Records, Finds, Refuses, Ends
  <2> QED
    BY <1>0, <2>3, <2>4, <2>5, <2>6, <2>7, <2>8, StepKinds
<1> QED
  BY <1>1, <1>2

LEMMA RemovingStep ==
  ASSUME Base, Apart, NEW c \in Callers, Step(c)
  PROVE  Removing'
<1> SUFFICES ASSUME NEW d \in Callers, At(d, "remove", "record")'
             PROVE  registered'[call'[d].on] \notin Objects
  BY DEF Removing
<1> DEFINE i == call[c].on
<1>0. /\ Typed /\ i \in Ids
      /\ registered \in [Ids -> Objects \cup {Plugin, None}]
      /\ Plugin \notin Objects /\ None \notin Objects
  BY StepKinds, TypeParts, SourcesAssumption DEF Base, Typed
<1>1. CASE d = c
  <2>1. Removes(c)
    BY <1>0, <1>1, StepKinds DEF At, Adds, Records, Plugs, Replaces, Forgets,
       Finds, Refuses, Ends, Returns, MovesTo
  <2> QED
    BY <1>0, <1>1, <2>1 DEF Removes, MovesTo, Only
<1>2. CASE d # c
  <2>1. call'[d] = call[d]
    BY <1>0, <1>2, StepCalls DEF Others
  <2>2. At(d, "remove", "record") /\ registered[call[d].on] \notin Objects
    BY <2>1 DEF At, Base, Removing
  <2>3. call[d].on \in Ids
    BY <2>2 DEF At, Base, Typed, Shape, WellFormed
  <2>4. CASE \E o \in Objects : Adds(c, o)
    <3>1. i # call[d].on
      BY <2>2, <2>4, NotBoth DEF Adds, At
    <3> QED
      BY <1>0, <2>1, <2>2, <2>3, <2>4, <3>1 DEF Adds, Only
  <2>5. CASE Plugs(c) \/ Replaces(c) \/ Removes(c)
    BY <1>0, <2>1, <2>2, <2>3, <2>5 DEF Plugs, Replaces, Removes, Only
  <2>6. CASE Records(c) \/ Forgets(c) \/ Finds(c) \/ Refuses(c) \/ Ends(c)
    BY <2>1, <2>2, <2>6 DEF Records, Forgets, Finds, Refuses, Ends
  <2> QED
    BY <1>0, <2>4, <2>5, <2>6, StepKinds
<1> QED
  BY <1>1, <1>2

\* A call that begins or ends moves nothing from one registry to the other.
LEMMA QuietStep ==
  ASSUME Base, NEW c \in Callers, Begins(c) \/ Ends(c)
  PROVE  Homes' /\ (Apart => Adding' /\ Removing')
<1>1. \A d \in Callers : call'[d].step = "record" =>
        /\ call[d].step = "record" /\ call'[d].op = call[d].op
        /\ call'[d].on = call[d].on /\ call'[d].obj = call[d].obj
  BY DEF Begins, Ends, Returns, Others
<1>2. UNCHANGED <<registered, known, idOf, replaced, gone, letDown>>
  BY DEF Begins, Ends
<1>3. Homes'
  BY <1>1, <1>2 DEF Base, Homes
<1>4. Apart => Adding' /\ Removing'
  BY <1>1, <1>2 DEF Base, Adding, Removing, At
<1> QED
  BY <1>3, <1>4

LEMMA BaseInit == Init => Base
<1> SUFFICES ASSUME Init PROVE Base
  OBVIOUS
<1>1. \A c \in Callers : call[c].step = "idle"
  BY DEF Init, Idle, Made
<1> QED
  BY <1>1, InitTyped, SourcesAssumption DEF Init, Base, Homes, Separate, Adding,
     Removing, On, InFlight, At

LEMMA BaseStep == Base /\ [Next]_vars => Base'
<1> SUFFICES ASSUME Base, [Next]_vars PROVE Base'
  OBVIOUS
<1>0. Typed /\ Typed' /\ Homes /\ Separate
  BY TypedStep DEF Base
<1>1. CASE UNCHANGED vars
  BY <1>0, <1>1 DEF vars, Base, Homes, Separate, Adding, Removing, On, InFlight, At
<1>2. ASSUME NEW c \in Callers, Step(c) PROVE Base'
  BY <1>0, <1>2, HomesStep, SeparateStep, AddingStep, RemovingStep DEF Base
<1>3. ASSUME NEW c \in Callers, Cancel(c) PROVE Base'
  BY <1>0, <1>3, SeparateStep, CancelKinds, QuietStep DEF Base
<1>4. ASSUME NEW c \in Callers, NEW op \in Ops \ {"push"}, NEW i \in Ids,
             BeginChange(c, op, i)
      PROVE  Base'
  BY <1>0, <1>4, SeparateBegin, BeginKinds, QuietStep DEF Base
<1>5. ASSUME NEW c \in Callers, NEW i \in Ids, BeginPush(c, i)
      PROVE  Base'
  BY <1>0, <1>5, SeparatePush, BeginKinds, QuietStep DEF Base
<1> QED
  BY <1>1, <1>2, <1>3, <1>4, <1>5 DEF Next

-----------------------------------------------------------------------------
(* What has been removed stays out of reach *)

GoneForGood ==
  /\ \A o \in gone, i \in Ids : registered[i] # o /\ known[i] # o
  /\ \A c \in Callers : At(c, "add_python", "record") => call[c].obj \notin gone
  /\ \A c \in Callers : call[c].barred \subseteq gone

StrayInv == Base /\ GoneForGood /\ NoStrayPush

LEMMA ForgetGone ==
  ASSUME StrayInv, Apart, NEW c \in Callers, Forgets(c)
  PROVE  GoneForGood'
<1> DEFINE i == call[c].on
<1>0. /\ Typed /\ Homes /\ i \in Ids /\ call[c].obj \in Objects \cup {Plugin, None}
      /\ At(c, "remove", "record")
      /\ known \in [Ids -> Objects \cup {None}]
      /\ gone \in SUBSET Objects /\ None \notin Objects
  BY TypeParts, SourcesAssumption
     DEF StrayInv, Base, Typed, Shape, WellFormed, CallType, Forgets, At
<1>1. /\ known'[i] = None
      /\ \A j \in Ids : j # i => known'[j] = known[j]
      /\ UNCHANGED registered
  BY <1>0 DEF Forgets, Only
<1>2. ASSUME NEW o \in Objects, o = call[c].obj, NEW j \in Ids
      PROVE  registered[j] # o /\ known'[j] # o
  <2>1. idOf[o] = i /\ registered[i] \notin Objects
    BY <1>0, <1>2 DEF Homes, StrayInv, Base, Removing, At
  <2>2. registered[j] # o
    BY <1>0, <1>2, <2>1 DEF Homes
  <2>3. known'[j] # o
    BY <1>0, <1>1, <1>2, <2>1 DEF Homes
  <2> QED
    BY <2>2, <2>3
<1>3. ASSUME NEW o \in gone', NEW j \in Ids
      PROVE  registered'[j] # o /\ known'[j] # o
  <2>1. o \in gone \/ (o \in Objects /\ o = call[c].obj)
    BY <1>3 DEF Forgets
  <2> QED
    BY <1>0, <1>1, <1>2, <2>1 DEF StrayInv, GoneForGood
<1>4. ASSUME NEW d \in Callers, At(d, "add_python", "record")'
      PROVE  call'[d].obj \notin gone'
  <2>1. d # c /\ call'[d] = call[d]
    BY <1>4 DEF Forgets, Returns, Others, At
  <2>2. At(d, "add_python", "record") /\ call[d].obj \in Objects
    BY <1>0, <1>4, <2>1 DEF At, Typed, Shape, WellFormed
  <2>3. call[d].on # i
    BY <1>0, <2>2, NotBoth DEF StrayInv, At
  <2>4. call[d].obj # call[c].obj
    BY <1>0, <2>2, <2>3 DEF Homes, At
  <2> QED
    BY <2>1, <2>2, <2>4 DEF Forgets, StrayInv, GoneForGood
<1>5. \A d \in Callers : call'[d].barred \subseteq gone'
  BY DEF Forgets, Returns, Others, StrayInv, GoneForGood
<1> QED
  BY <1>3, <1>4, <1>5 DEF GoneForGood

LEMMA GoneStep ==
  ASSUME StrayInv, Apart, NEW c \in Callers, Step(c)
  PROVE  GoneForGood' /\ NoStrayPush'
<1> DEFINE i == call[c].on
<1>0. /\ Typed /\ Homes /\ i \in Ids
      /\ registered \in [Ids -> Objects \cup {Plugin, None}]
      /\ known \in [Ids -> Objects \cup {None}]
      /\ gone \in SUBSET Objects
      /\ Plugin \notin Objects /\ None \notin Objects /\ None \notin Ids
  BY StepKinds, TypeParts, SourcesAssumption DEF StrayInv, Base, Typed
<1>1. Others(c) /\ call'[c].barred \in {call[c].barred, {}}
  BY <1>0, StepCalls
<1>2. CASE Forgets(c)
  BY <1>1, <1>2, ForgetGone DEF StrayInv, NoStrayPush, Forgets, Returns, Others, At
<1>3. CASE ~Forgets(c)
  <2>1. UNCHANGED gone
    BY <1>0, <1>3, StepKinds DEF Adds, Records, Plugs, Replaces, Removes, Finds,
       Refuses, Ends
  <2>2. \A d \in Callers : call'[d].barred \subseteq gone'
    BY <1>1, <2>1 DEF Others, StrayInv, GoneForGood
  <2>3. \A o \in gone', j \in Ids : registered'[j] # o /\ known'[j] # o
    <3>1. CASE \E o \in Objects : Adds(c, o)
      BY <1>0, <2>1, <3>1 DEF Adds, Only, Homes, StrayInv, GoneForGood
    <3>2. CASE Records(c)
      BY <1>0, <2>1, <3>2 DEF Records, Only, StrayInv, GoneForGood
    <3>3. CASE Plugs(c) \/ Replaces(c) \/ Removes(c)
      BY <1>0, <2>1, <3>3 DEF Plugs, Replaces, Removes, Only, StrayInv, GoneForGood
    <3>4. CASE Finds(c) \/ Refuses(c) \/ Ends(c)
      BY <2>1, <3>4 DEF Finds, Refuses, Ends, StrayInv, GoneForGood
    <3> QED
      BY <1>0, <1>3, <3>1, <3>2, <3>3, <3>4, StepKinds
  <2>4. ASSUME NEW d \in Callers, At(d, "add_python", "record")'
        PROVE  call'[d].obj \notin gone'
    <3>1. CASE d # c
      BY <1>1, <2>1, <2>4, <3>1 DEF Others, At, StrayInv, GoneForGood
    <3>2. CASE d = c
      <4>1. PICK o \in Objects : Adds(c, o)
        BY <1>0, <2>4, <3>2, StepKinds DEF At, Records, Plugs, Replaces, Removes,
           Forgets, Finds, Refuses, Ends, Returns, MovesTo
      <4>2. idOf[o] = None /\ call'[c].obj = o
        BY <4>1 DEF Adds, MovesTo
      <4> QED
        BY <1>0, <2>1, <3>2, <4>2 DEF Homes
    <3> QED
      BY <3>1, <3>2
  <2>5. ASSUME NEW d \in Callers, At(d, "push", "dispatch")'
        PROVE  call'[d].obj \notin call'[d].barred
    <3>1. CASE d # c
      BY <1>1, <2>5, <3>1 DEF Others, At, StrayInv, NoStrayPush
    <3>2. CASE d = c
      <4>1. Finds(c)
        BY <1>0, <2>5, <3>2, StepKinds DEF At, Adds, Records, Plugs, Replaces,
           Removes, Forgets, Refuses, Ends, Returns, MovesTo
      <4>2. call'[c].obj = known[i] /\ call'[c].barred \subseteq gone
        BY <2>1, <2>2, <4>1 DEF Finds, MovesTo
      <4> QED
        BY <1>0, <3>2, <4>2 DEF StrayInv, GoneForGood
    <3> QED
      BY <3>1, <3>2
  <2> QED
    BY <2>2, <2>3, <2>4, <2>5 DEF GoneForGood, NoStrayPush
<1> QED
  BY <1>2, <1>3

LEMMA GoneBegin ==
  ASSUME StrayInv, NEW c \in Callers, Begins(c),
         call'[c].barred \subseteq gone
  PROVE  GoneForGood' /\ NoStrayPush'
  BY DEF Begins, StrayInv, GoneForGood, NoStrayPush, At

LEMMA GoneNext == StrayInv /\ Apart /\ [Next]_vars => StrayInv'
<1> SUFFICES ASSUME StrayInv, Apart, [Next]_vars PROVE StrayInv'
  OBVIOUS
<1>0. Base' /\ Typed
  BY BaseStep DEF StrayInv, Base
<1>1. CASE UNCHANGED vars
  BY <1>0, <1>1 DEF vars, StrayInv, GoneForGood, NoStrayPush, At
<1>2. ASSUME NEW c \in Callers, Step(c) PROVE StrayInv'
  BY <1>0, <1>2, GoneStep DEF StrayInv
<1>3. ASSUME NEW c \in Callers, Cancel(c) PROVE StrayInv'
  BY <1>0, <1>3, CancelKinds
     DEF Ends, Returns, Others, StrayInv, GoneForGood, NoStrayPush, At
<1>4. ASSUME NEW c \in Callers, NEW op \in Ops \ {"push"}, NEW i \in Ids,
             BeginChange(c, op, i)
      PROVE  StrayInv'
  <2>1. call'[c] = Made(op, i, "apply")
    BY <1>0, <1>4, BeginChangeFacts
  <2>2. call'[c].barred = {}
    BY <2>1 DEF Made
  <2> QED
    BY <1>0, <1>4, <2>2, BeginKinds, GoneBegin DEF StrayInv
<1>5. ASSUME NEW c \in Callers, NEW i \in Ids, BeginPush(c, i)
      PROVE  StrayInv'
  BY <1>0, <1>5, BeginPushFacts, BeginKinds, GoneBegin DEF StrayInv
<1> QED
  BY <1>1, <1>2, <1>3, <1>4, <1>5 DEF Next

\* If adding and removing one id are kept apart, a push made after
\* remove_source returned never reaches the object it removed, whatever else
\* overlaps it and whatever is cancelled.
THEOREM NoStray ==
  ASSUME Apart
  PROVE  Spec => []NoStrayPush
<1>1. Init => StrayInv
  <2> SUFFICES ASSUME Init PROVE StrayInv
    OBVIOUS
  <2>1. \A c \in Callers : call[c].step = "idle" /\ call[c].barred = {}
    BY DEF Init, Idle, Made
  <2>2. gone = {}
    BY DEF Init
  <2> QED
    BY <2>1, <2>2, BaseInit DEF StrayInv, GoneForGood, NoStrayPush, At
<1>2. StrayInv /\ [Next]_vars => StrayInv'
  BY GoneNext
<1>3. StrayInv => NoStrayPush
  BY DEF StrayInv
<1> QED
  BY <1>1, <1>2, <1>3, PTL DEF Spec

-----------------------------------------------------------------------------
(* The map against the engine's registry *)

\* remove_source is between the two registries on i
Removal(i) == \E e \in Callers : At(e, "remove", "record") /\ call[e].on = i

\* it stays there while another call takes a step
LEMMA RemovalStays ==
  ASSUME NEW c \in Callers, NEW i, Others(c), Removal(i),
         ~(At(c, "remove", "record") /\ call[c].on = i)
  PROVE  Removal(i)'
  BY DEF Removal, Others, At

LEMMA KnownStep ==
  ASSUME Base, KnownIsRegistered, Apart, NEW c \in Callers, Step(c)
  PROVE  KnownIsRegistered'
<1> SUFFICES ASSUME NEW j \in Ids, known'[j] # None
             PROVE  known'[j] = registered'[j] \/ j \in replaced' \/ Removal(j)'
  BY DEF KnownIsRegistered, Removal
<1> DEFINE i == call[c].on
<1>0. /\ Typed /\ i \in Ids /\ Others(c)
      /\ registered \in [Ids -> Objects \cup {Plugin, None}]
      /\ known \in [Ids -> Objects \cup {None}]
  BY StepKinds, StepCalls, TypeParts DEF Base, Typed
<1>1. known[j] # None => known[j] = registered[j] \/ j \in replaced \/ Removal(j)
  BY DEF KnownIsRegistered, Removal
<1>2. ~(At(c, "remove", "record") /\ i = j) /\ Removal(j) => Removal(j)'
  BY <1>0, RemovalStays
<1>3. CASE \E o \in Objects : Adds(c, o)
  BY <1>0, <1>1, <1>2, <1>3 DEF Adds, Only, At
<1>4. CASE Records(c)
  <2>1. CASE i = j
    <3>1. known'[j] = call[c].obj
      BY <1>0, <1>4, <2>1 DEF Records, Only
    <3>2. registered[i] = call[c].obj \/ i \in replaced
      BY <1>4 DEF Records, Base, Adding
    <3> QED
      BY <1>4, <2>1, <3>1, <3>2 DEF Records
  <2>2. CASE i # j
    BY <1>0, <1>1, <1>2, <1>4, <2>2 DEF Records, Only
  <2> QED
    BY <2>1, <2>2
<1>5. CASE Plugs(c)
  BY <1>0, <1>1, <1>2, <1>5 DEF Plugs, Only, At
<1>6. CASE Replaces(c)
  BY <1>0, <1>1, <1>2, <1>6 DEF Replaces, Only, At
<1>7. CASE Removes(c)
  <2>1. CASE i = j
    BY <1>7, <2>1 DEF Removes, MovesTo, Removal, At
  <2>2. CASE i # j
    BY <1>0, <1>1, <1>2, <1>7, <2>2 DEF Removes, Only
  <2> QED
    BY <2>1, <2>2
<1>8. CASE Forgets(c)
  BY <1>0, <1>1, <1>2, <1>8 DEF Forgets, Only
<1>9. CASE Finds(c)
  BY <1>1, <1>2, <1>9 DEF Finds, At
<1>10. CASE Refuses(c)
  BY <1>1, <1>2, <1>10 DEF Refuses, At
<1>11. CASE Ends(c) /\ ~At(c, "remove", "record")
  BY <1>1, <1>2, <1>11 DEF Ends
<1> QED
  BY <1>0, <1>3, <1>4, <1>5, <1>6, <1>7, <1>8, <1>9, <1>10, <1>11, StepKinds

LEMMA KnownNext ==
  ASSUME Base, KnownIsRegistered, Apart, "remove" \notin Cancellable, [Next]_vars
  PROVE  KnownIsRegistered'
<1>0. Typed
  BY DEF Base
<1>1. CASE UNCHANGED vars
  BY <1>1 DEF vars, KnownIsRegistered, At
<1>2. ASSUME NEW c \in Callers, Step(c) PROVE KnownIsRegistered'
  BY <1>2, KnownStep
<1>3. ASSUME NEW c \in Callers, Cancel(c) PROVE KnownIsRegistered'
  <2>1. Ends(c) /\ Others(c) /\ ~At(c, "remove", "record")
    BY <1>0, <1>3, CancelKinds DEF Ends, Returns, At
  <2>2. \A i \in Ids : Removal(i) => Removal(i)'
    BY <2>1, RemovalStays
  <2> QED
    BY <2>1, <2>2 DEF Ends, KnownIsRegistered, Removal
<1>4. ASSUME NEW c \in Callers, Begins(c) PROVE KnownIsRegistered'
  <2>1. ASSUME NEW e \in Callers, At(e, "remove", "record"), e # c
        PROVE  At(e, "remove", "record")' /\ call'[e].on = call[e].on
    BY <1>4, <2>1 DEF Begins, At
  <2>2. ~At(c, "remove", "record")
    BY <1>4 DEF Begins, At
  <2> QED
    BY <1>4, <2>1, <2>2 DEF Begins, KnownIsRegistered
<1> QED
  BY <1>0, <1>1, <1>2, <1>3, <1>4, BeginKinds DEF Next

\* If adding and removing one id are kept apart and no remove_source is
\* cancelled, the map has a source the engine does not only while it is being
\* removed, or after update_source replaced it.
THEOREM KnownRegistered ==
  ASSUME Apart, "remove" \notin Cancellable
  PROVE  Spec => []KnownIsRegistered
<1>1. Init => Base /\ KnownIsRegistered
  BY BaseInit DEF Init, KnownIsRegistered
<1>2. Base /\ KnownIsRegistered /\ [Next]_vars => (Base /\ KnownIsRegistered)'
  BY BaseStep, KnownNext
<1> QED
  BY <1>1, <1>2, PTL DEF Spec

-----------------------------------------------------------------------------
(* A source that is in place is found *)

\* add_python_source has still to record what the engine has under i
Addition(i) ==
  \E e \in Callers : /\ At(e, "add_python", "record") /\ call[e].on = i
                     /\ call[e].obj = registered[i]

RegisteredIsKnown ==
  \A i \in Ids :
    registered[i] \in Objects => known[i] = registered[i] \/ Addition(i)

\* what is due to a push is in both registries, and nobody is changing that
DueInPlace ==
  \A c \in Callers : call[c].due # None =>
    /\ registered[call[c].on] = call[c].due
    /\ known[call[c].on] = call[c].due
    /\ \A e \in Callers : ~On(e, {"update", "remove"}, call[c].on)

ServedInv == Base /\ RegisteredIsKnown /\ DueInPlace /\ PushesAreServed

LEMMA AdditionStays ==
  ASSUME NEW c \in Callers, NEW i, Others(c), Addition(i),
         ~(At(c, "add_python", "record") /\ call[c].on = i),
         registered'[i] = registered[i]
  PROVE  Addition(i)'
  BY DEF Addition, Others, At

LEMMA RegisteredStep ==
  ASSUME ServedInv, Apart, NEW c \in Callers, Step(c)
  PROVE  RegisteredIsKnown'
<1> SUFFICES ASSUME NEW j \in Ids, registered'[j] \in Objects
             PROVE  known'[j] = registered'[j] \/ Addition(j)'
  BY DEF RegisteredIsKnown
<1> DEFINE i == call[c].on
<1>0. /\ Typed /\ i \in Ids /\ Others(c)
      /\ registered \in [Ids -> Objects \cup {Plugin, None}]
      /\ known \in [Ids -> Objects \cup {None}]
      /\ Plugin \notin Objects /\ None \notin Objects
  BY StepKinds, StepCalls, TypeParts, SourcesAssumption DEF ServedInv, Base, Typed
<1>1. registered[j] \in Objects => known[j] = registered[j] \/ Addition(j)
  BY DEF ServedInv, RegisteredIsKnown
<1>2. ASSUME Addition(j), registered'[j] = registered[j],
             ~(At(c, "add_python", "record") /\ i = j)
      PROVE  Addition(j)'
  BY <1>0, <1>2, AdditionStays
<1>3. CASE \E o \in Objects : Adds(c, o)
  <2>1. CASE i = j
    BY <1>0, <1>3, <2>1 DEF Adds, MovesTo, Only, Addition, At
  <2>2. CASE i # j
    BY <1>0, <1>1, <1>2, <1>3, <2>2 DEF Adds, Only
  <2> QED
    BY <2>1, <2>2
<1>4. CASE Records(c)
  <2>1. CASE i = j
    <3>1. registered[i] \in {call[c].obj, Plugin}
      BY <1>4 DEF Records, ServedInv, Base, Adding
    <3>2. known'[j] = call[c].obj /\ registered'[j] = registered[i]
      BY <1>0, <1>4, <2>1 DEF Records, Only
    <3> QED
      BY <1>0, <3>1, <3>2
  <2>2. CASE i # j
    BY <1>0, <1>1, <1>2, <1>4, <2>2 DEF Records, Only
  <2> QED
    BY <2>1, <2>2
<1>5. CASE Plugs(c) \/ Replaces(c) \/ Removes(c)
  <2>1. i # j /\ registered'[j] = registered[j] /\ UNCHANGED known
    BY <1>0, <1>5 DEF Plugs, Replaces, Removes, Only
  <2> QED
    BY <1>1, <1>2, <2>1
<1>6. CASE Forgets(c)
  <2>1. registered[i] \notin Objects
    BY <1>6 DEF Forgets, ServedInv, Base, Removing
  <2>2. i # j /\ registered'[j] = registered[j] /\ known'[j] = known[j]
    BY <1>0, <1>6, <2>1 DEF Forgets, Only
  <2> QED
    BY <1>1, <1>2, <2>2
<1>7. CASE Finds(c)
  BY <1>1, <1>2, <1>7 DEF Finds, At
<1>8. CASE Refuses(c)
  BY <1>1, <1>2, <1>8 DEF Refuses, At
<1>9. CASE Ends(c) /\ ~At(c, "add_python", "record")
  BY <1>1, <1>2, <1>9 DEF Ends
<1> QED
  BY <1>0, <1>3, <1>4, <1>5, <1>6, <1>7, <1>8, <1>9, StepKinds

LEMMA DueStep ==
  ASSUME ServedInv, Apart, NEW c \in Callers, Step(c)
  PROVE  DueInPlace'
<1> SUFFICES ASSUME NEW d \in Callers, call'[d].due # None
             PROVE  /\ registered'[call'[d].on] = call'[d].due
                    /\ known'[call'[d].on] = call'[d].due
                    /\ \A e \in Callers :
                         ~(/\ call'[e].step # "idle"
                           /\ call'[e].op \in {"update", "remove"}
                           /\ call'[e].on = call'[d].on)
  BY DEF DueInPlace, On, InFlight
<1> DEFINE i == call[c].on
           j == call[d].on
           o == call[d].due
<1>0. /\ Typed /\ Typed' /\ i \in Ids
      /\ registered \in [Ids -> Objects \cup {Plugin, None}]
      /\ known \in [Ids -> Objects \cup {None}]
      /\ Plugin \notin Objects /\ None \notin Objects
  BY StepKinds, StepTyped, TypeParts, SourcesAssumption DEF ServedInv, Base, Typed
<1>1. /\ Others(c)
      /\ call'[c].due \in {call[c].due, None}
      /\ call'[c].step # "idle" => /\ call'[c].op = call[c].op
                                   /\ call'[c].on = call[c].on
                                   /\ call[c].step # "idle"
  BY <1>0, StepCalls
<1>2. call'[d].step # "idle"
  BY <1>0 DEF Typed, Shape, WellFormed
<1>3. call'[d].on = j /\ call'[d].due = o
  BY <1>1, <1>2 DEF Others
<1>4. /\ registered[j] = o /\ known[j] = o
      /\ \A e \in Callers : ~On(e, {"update", "remove"}, j)
  BY <1>3 DEF ServedInv, DueInPlace
<1>5. j \in Ids /\ o \in Objects
  <2>1. call[d].step # "idle" /\ call[d] \in CallType /\ WellFormed(call[d])
    BY <1>0, <1>1, <1>2, TypeParts DEF Typed, Shape, Others
  <2> QED
    BY <1>3, <2>1 DEF WellFormed, CallType
<1>6. \A e \in Callers : ~(/\ call'[e].step # "idle"
                           /\ call'[e].op \in {"update", "remove"}
                           /\ call'[e].on = j)
  BY <1>1, <1>4 DEF On, InFlight, Others
<1>7. registered'[j] = o /\ known'[j] = o
  <2>1. CASE \E x \in Objects : Adds(c, x)
    BY <1>0, <1>4, <1>5, <2>1 DEF Adds, Only
  <2>2. CASE Records(c)
    <3>1. registered[i] \in {call[c].obj, Plugin}
      BY <2>2 DEF Records, ServedInv, Base, Adding
    <3> QED
      BY <1>0, <1>4, <1>5, <2>2, <3>1 DEF Records, Only
  <2>3. CASE Plugs(c)
    BY <1>0, <1>4, <1>5, <2>3 DEF Plugs, Only
  <2>4. CASE Replaces(c) \/ Removes(c) \/ Forgets(c)
    <3>1. i # j
      BY <1>4, <2>4 DEF Replaces, Removes, Forgets, At, On, InFlight
    <3> QED
      BY <1>0, <1>4, <1>5, <2>4, <3>1 DEF Replaces, Removes, Forgets, Only
  <2>5. CASE Finds(c) \/ Refuses(c) \/ Ends(c)
    BY <1>4, <2>5 DEF Finds, Refuses, Ends
  <2> QED
    BY <1>0, <2>1, <2>2, <2>3, <2>4, <2>5, StepKinds
<1> QED
  BY <1>3, <1>6, <1>7

LEMMA ServedStep ==
  ASSUME ServedInv, NEW c \in Callers, Step(c)
  PROVE  PushesAreServed'
<1>0. Typed /\ None \notin Objects
  BY SourcesAssumption DEF ServedInv, Base
<1>1. CASE Refuses(c)
  <2>1. call[c].due = None
    BY <1>1 DEF Refuses, ServedInv, DueInPlace
  <2> QED
    BY <1>0, <1>1, <2>1 DEF Refuses, ServedInv, PushesAreServed
<1>2. CASE ~Refuses(c)
  BY <1>0, <1>2, StepKinds DEF Adds, Records, Plugs, Replaces, Removes, Forgets,
     Finds, Ends, ServedInv, PushesAreServed
<1> QED
  BY <1>1, <1>2

LEMMA ServedBegin ==
  ASSUME ServedInv, NEW c \in Callers, Begins(c)
  PROVE  RegisteredIsKnown' /\ PushesAreServed'
<1>1. UNCHANGED <<registered, known, letDown>> /\ ~At(c, "add_python", "record")
  BY DEF Begins, At
<1>2. \A e \in Callers : At(e, "add_python", "record") =>
        /\ At(e, "add_python", "record")'
        /\ call'[e].on = call[e].on /\ call'[e].obj = call[e].obj
  BY <1>1 DEF Begins, At
<1>3. \A i \in Ids : Addition(i) => Addition(i)'
  BY <1>1, <1>2 DEF Addition
<1> QED
  BY <1>1, <1>3 DEF ServedInv, RegisteredIsKnown, PushesAreServed

\* A change that begins takes back what was due to the pushes it may disturb.
LEMMA DueBeginChange ==
  ASSUME ServedInv, NEW c \in Callers, NEW op \in Ops \ {"push"}, NEW i \in Ids,
         BeginChange(c, op, i)
  PROVE  DueInPlace'
<1> SUFFICES ASSUME NEW d \in Callers, call'[d].due # None
             PROVE  /\ registered'[call'[d].on] = call'[d].due
                    /\ known'[call'[d].on] = call'[d].due
                    /\ \A e \in Callers :
                         ~(/\ call'[e].step # "idle"
                           /\ call'[e].op \in {"update", "remove"}
                           /\ call'[e].on = call'[d].on)
  BY DEF DueInPlace, On, InFlight
<1>0. Typed /\ Begins(c) /\ UNCHANGED <<registered, known>>
  BY BeginKinds DEF ServedInv, Base, BeginChange
<1>1. /\ call'[c] = Made(op, i, "apply")
      /\ \A x \in Callers : x # c =>
           /\ call'[x].op = call[x].op /\ call'[x].on = call[x].on
           /\ call'[x].step = call[x].step
           /\ call'[x].due \in {call[x].due, None}
           /\ op \in {"update", "remove"} /\ call[x].on = i => call'[x].due = None
  BY <1>0, BeginChangeFacts
<1>2. /\ call'[c].due = None /\ call'[c].op = op /\ call'[c].on = i
  BY <1>1 DEF Made
<1>3. d # c /\ call'[d].due = call[d].due /\ call'[d].on = call[d].on
  BY <1>1, <1>2
<1>4. /\ registered[call[d].on] = call[d].due /\ known[call[d].on] = call[d].due
      /\ \A e \in Callers : ~On(e, {"update", "remove"}, call[d].on)
  BY <1>3 DEF ServedInv, DueInPlace
<1>5. op \in {"update", "remove"} => i # call[d].on
  BY <1>1, <1>3
<1> QED
  BY <1>0, <1>1, <1>2, <1>3, <1>4, <1>5 DEF On, InFlight

LEMMA DueBeginPush ==
  ASSUME ServedInv, NEW c \in Callers, NEW i \in Ids, BeginPush(c, i)
  PROVE  DueInPlace'
<1> SUFFICES ASSUME NEW d \in Callers, call'[d].due # None
             PROVE  /\ registered'[call'[d].on] = call'[d].due
                    /\ known'[call'[d].on] = call'[d].due
                    /\ \A e \in Callers :
                         ~(/\ call'[e].step # "idle"
                           /\ call'[e].op \in {"update", "remove"}
                           /\ call'[e].on = call'[d].on)
  BY DEF DueInPlace, On, InFlight
<1>0. Typed /\ UNCHANGED <<registered, known>>
  BY DEF ServedInv, Base, BeginPush
<1>1. /\ Others(c) /\ call'[c].op = "push" /\ call'[c].on = i
      /\ call'[c].due = IF registered[i] \in Objects /\ ~Changing(i)
                        THEN registered[i] ELSE None
  BY <1>0, BeginPushFacts
<1>2. \A e \in Callers, j \in Ids \cup {None} :
        /\ call'[e].step # "idle" /\ call'[e].op \in {"update", "remove"}
        /\ call'[e].on = j
        => On(e, {"update", "remove"}, j)
  BY <1>1 DEF On, InFlight, Others
<1>3. CASE d = c
  <2>1. registered[i] \in Objects /\ ~Changing(i) /\ call'[c].due = registered[i]
    BY <1>1, <1>3
  <2>2. ~Addition(i)
    BY <2>1 DEF Changing, Addition, On, InFlight, At, AllOps
  <2>3. known[i] = registered[i]
    BY <2>1, <2>2 DEF ServedInv, RegisteredIsKnown
  <2>4. \A e \in Callers : ~On(e, {"update", "remove"}, i)
    BY <2>1 DEF Changing, On, AllOps
  <2> QED
    BY <1>0, <1>1, <1>2, <1>3, <2>1, <2>3, <2>4
<1>4. CASE d # c
  <2>1. call'[d] = call[d] /\ call[d].on \in Ids \cup {None}
    BY <1>0, <1>1, <1>4, TypeParts DEF Others, Typed, CallType
  <2>2. /\ registered[call[d].on] = call[d].due /\ known[call[d].on] = call[d].due
        /\ \A e \in Callers : ~On(e, {"update", "remove"}, call[d].on)
    BY <2>1 DEF ServedInv, DueInPlace
  <2> QED
    BY <1>0, <1>2, <2>1, <2>2
<1> QED
  BY <1>3, <1>4

LEMMA ServedCancel ==
  ASSUME ServedInv, NEW c \in Callers, Cancel(c), "add_python" \notin Cancellable
  PROVE  RegisteredIsKnown' /\ DueInPlace' /\ PushesAreServed'
<1>0. /\ Typed /\ Ends(c) /\ Others(c) /\ ~At(c, "add_python", "record")
      /\ UNCHANGED <<registered, known, letDown>>
      /\ call'[c].step = "idle" /\ call'[c].due = None
  BY CancelKinds DEF ServedInv, Base, Ends, Returns, At
<1>1. \A i \in Ids : Addition(i) => Addition(i)'
  BY <1>0, AdditionStays
<1>2. RegisteredIsKnown'
  BY <1>0, <1>1 DEF ServedInv, RegisteredIsKnown
<1>3. DueInPlace'
  <2> SUFFICES ASSUME NEW d \in Callers, call'[d].due # None
               PROVE  /\ registered'[call'[d].on] = call'[d].due
                      /\ known'[call'[d].on] = call'[d].due
                      /\ \A e \in Callers :
                           ~(/\ call'[e].step # "idle"
                             /\ call'[e].op \in {"update", "remove"}
                             /\ call'[e].on = call'[d].on)
    BY DEF DueInPlace, On, InFlight
  <2>1. d # c /\ call'[d] = call[d]
    BY <1>0 DEF Others
  <2> QED
    BY <1>0, <2>1 DEF ServedInv, DueInPlace, On, InFlight, Others
<1> QED
  BY <1>0, <1>2, <1>3 DEF ServedInv, PushesAreServed

LEMMA ServedNext ==
  ServedInv /\ Apart /\ "add_python" \notin Cancellable /\ [Next]_vars => ServedInv'
<1> SUFFICES ASSUME ServedInv, Apart, "add_python" \notin Cancellable, [Next]_vars
             PROVE  ServedInv'
  OBVIOUS
<1>0. Base' /\ Typed
  BY BaseStep DEF ServedInv, Base
<1>1. CASE UNCHANGED vars
  BY <1>0, <1>1 DEF vars, ServedInv, RegisteredIsKnown, DueInPlace,
     PushesAreServed, Addition, At, On, InFlight
<1>2. ASSUME NEW c \in Callers, Step(c) PROVE ServedInv'
  BY <1>0, <1>2, RegisteredStep, DueStep, ServedStep DEF ServedInv
<1>3. ASSUME NEW c \in Callers, Cancel(c) PROVE ServedInv'
  BY <1>0, <1>3, ServedCancel DEF ServedInv
<1>4. ASSUME NEW c \in Callers, NEW op \in Ops \ {"push"}, NEW i \in Ids,
             BeginChange(c, op, i)
      PROVE  ServedInv'
  <2>1. Begins(c)
    BY <1>0, <1>4, BeginKinds
  <2> QED
    BY <1>0, <1>4, <2>1, ServedBegin, DueBeginChange DEF ServedInv, Begins
<1>5. ASSUME NEW c \in Callers, NEW i \in Ids, BeginPush(c, i)
      PROVE  ServedInv'
  <2>1. Begins(c)
    BY <1>0, <1>5, BeginKinds
  <2> QED
    BY <1>0, <1>5, <2>1, ServedBegin, DueBeginPush DEF ServedInv, Begins
<1> QED
  BY <1>1, <1>2, <1>3, <1>4, <1>5 DEF Next

\* If adding and removing one id are kept apart and no add_python_source is
\* cancelled, no push is refused for a Python source that was registered when
\* it was called and that nothing replaces or removes meanwhile.
THEOREM Served ==
  ASSUME Apart, "add_python" \notin Cancellable
  PROVE  Spec => []PushesAreServed
<1>1. Init => ServedInv
  <2> SUFFICES ASSUME Init PROVE ServedInv
    OBVIOUS
  <2>1. \A c \in Callers : call[c].due = None
    BY DEF Init, Idle, Made
  <2> QED
    BY <2>1, BaseInit, SourcesAssumption
       DEF Init, ServedInv, RegisteredIsKnown, DueInPlace, PushesAreServed
<1>2. ServedInv /\ [Next]_vars => ServedInv'
  BY ServedNext
<1>3. ServedInv => PushesAreServed
  BY DEF ServedInv
<1> QED
  BY <1>1, <1>2, <1>3, PTL DEF Spec
=============================================================================
