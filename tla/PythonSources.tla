---------------------------- MODULE PythonSources ----------------------------
(***************************************************************************)
(* The two registries of sources: the engine's, which every call on a      *)
(* source goes to, and python_sources, the binding's own map from an id to *)
(* the PythonSource that push_change sends to.  add_python_source and      *)
(* remove_source change the first and then, after an await, the second;    *)
(* add_source and update_source change only the first.                     *)
(*                                                                         *)
(* Each call is a task that suspends at every await.  What a push does     *)
(* once it has its source is PushDispatch.  ensure_open, which every one   *)
(* of these calls begins with, is in EngineLifecycle: closing only means   *)
(* that no further call begins.                                            *)
(***************************************************************************)
CONSTANTS
  Callers,     \* the application's concurrent calls
  Ids,         \* source ids
  Objects,     \* the PythonSource objects there are to create, each once
  Plugin,      \* a source made by a plugin
  None,        \* no source
  Ops,         \* the calls this application makes
  Cancellable, \* those of them whose awaitable it may cancel
  Apart        \* it never overlaps add_python_source and remove_source on an id

AllOps == {"add_python", "add", "update", "remove", "push"}

ASSUME SourcesAssumption ==
  /\ Plugin # None
  /\ Plugin \notin Objects /\ None \notin Objects
  /\ None \notin Ids
  /\ Ops \subseteq AllOps
  /\ Cancellable \subseteq Ops
  /\ Apart \in BOOLEAN

VARIABLES
  registered, \* the engine's source under each id
  known,      \* Inner::python_sources
  idOf,       \* the id each object was created with, None while it is not
  call,       \* what each caller has in flight
  replaced,   \* history: the ids whose Python source update_source replaced
  gone,       \* history: the objects remove_source has removed and returned
  letDown     \* history: the objects due to pushes that were refused

vars == <<registered, known, idOf, call, replaced, gone, letDown>>
history == <<replaced, gone, letDown>>

\* Two fields of a call are history: due, the object in place throughout a
\* push, and barred, what was gone already when the push was made.
Made(op, i, step) ==
  [op |-> op, on |-> i, obj |-> None, step |-> step, due |-> None, barred |-> {}]

Idle == Made("none", None, "idle")

TypeOK ==
  /\ registered \in [Ids -> Objects \cup {Plugin, None}]
  /\ known \in [Ids -> Objects \cup {None}]
  /\ idOf \in [Objects -> Ids \cup {None}]
  /\ call \in [Callers ->
       [op : Ops \cup {"none"}, on : Ids \cup {None},
        obj : Objects \cup {Plugin, None},
        step : {"idle", "apply", "record", "lookup", "dispatch"},
        due : Objects \cup {None}, barred : SUBSET Objects]]
  /\ \A c \in Callers : call[c].step = "dispatch" => call[c].obj \in Objects
  /\ replaced \in SUBSET Ids
  /\ gone \in SUBSET Objects
  /\ letDown \in SUBSET Objects

Init ==
  /\ registered = [i \in Ids |-> None]
  /\ known = [i \in Ids |-> None]
  /\ idOf = [o \in Objects |-> None]
  /\ call = [c \in Callers |-> Idle]
  /\ replaced = {} /\ gone = {} /\ letDown = {}

-----------------------------------------------------------------------------
InFlight(c) == call[c].step # "idle"
At(c, op, step) == call[c].op = op /\ call[c].step = step
Return(c) == call' = [call EXCEPT ![c] = Idle]

\* c has a call of one of these kinds in flight on i
On(c, ops, i) == InFlight(c) /\ call[c].op \in ops /\ call[c].on = i

\* a call that registers, replaces or removes the source i is in flight
Changing(i) == \E c \in Callers : On(c, AllOps \ {"push"}, i)

MayOverlap(op, i) ==
  Apart =>
    /\ op = "remove" => \A d \in Callers : ~On(d, {"add_python"}, i)
    /\ op = "add_python" => \A d \in Callers : ~On(d, {"remove"}, i)

\* a call on the registries is made; a push that counted on the source of an
\* id being replaced or removed may now be refused
BeginChange(c, op, i) ==
  /\ ~InFlight(c)
  /\ op \in Ops \ {"push"}
  /\ MayOverlap(op, i)
  /\ call' = [d \in Callers |->
       IF d = c THEN Made(op, i, "apply")
       ELSE IF op \in {"update", "remove"} /\ call[d].on = i
            THEN [call[d] EXCEPT !.due = None]
            ELSE call[d]]
  /\ UNCHANGED <<registered, known, idOf, history>>

\* push_change is called
BeginPush(c, i) ==
  /\ ~InFlight(c)
  /\ "push" \in Ops
  /\ call' = [call EXCEPT ![c] =
       [Made("push", i, "lookup") EXCEPT
          !.due = IF registered[i] \in Objects /\ ~Changing(i)
                  THEN registered[i] ELSE None,
          !.barred = gone]]
  /\ UNCHANGED <<registered, known, idOf, history>>

\* the awaitable is cancelled and the task dropped between two awaits
Cancel(c) ==
  /\ InFlight(c)
  /\ call[c].op \in Cancellable
  /\ Return(c)
  /\ UNCHANGED <<registered, known, idOf, history>>

-----------------------------------------------------------------------------
\* Mutant of ApplyAddPython: into the map whether or not the engine takes it
RecordRegardless(c) ==
  LET i == call[c].on IN
  /\ At(c, "add_python", "apply")
  /\ \E o \in Objects :
       /\ idOf[o] = None
       /\ idOf' = [idOf EXCEPT ![o] = i]
       /\ registered' = IF registered[i] = None
                        THEN [registered EXCEPT ![i] = o] ELSE registered
       /\ call' = [call EXCEPT ![c].step = "record", ![c].obj = o]
  /\ UNCHANGED <<known, history>>

\* add_python_source creates the object and hands it to the engine, which
\* refuses an id that is taken
ApplyAddPython(c) ==
  LET i == call[c].on IN
  /\ At(c, "add_python", "apply")
  /\ \/ /\ registered[i] = None
        /\ \E o \in Objects :
             /\ idOf[o] = None
             /\ idOf' = [idOf EXCEPT ![o] = i]
             /\ registered' = [registered EXCEPT ![i] = o]
             /\ call' = [call EXCEPT ![c].step = "record", ![c].obj = o]
     \/ /\ registered[i] # None
        /\ Return(c)
        /\ UNCHANGED <<registered, idOf>>
  /\ UNCHANGED <<known, history>>

\* ... and then puts it in the map
Record(c) ==
  /\ At(c, "add_python", "record")
  /\ known' = [known EXCEPT ![call[c].on] = call[c].obj]
  /\ Return(c)
  /\ UNCHANGED <<registered, idOf, history>>

\* add_source: the engine takes a plugin's source, under an id that is free
ApplyAdd(c) ==
  LET i == call[c].on IN
  /\ At(c, "add", "apply")
  /\ registered' = IF registered[i] = None
                   THEN [registered EXCEPT ![i] = Plugin] ELSE registered
  /\ Return(c)
  /\ UNCHANGED <<known, idOf, history>>

\* update_source: a plugin's source takes the place of whatever there is; the
\* map is left as it was
ApplyUpdate(c) ==
  LET i == call[c].on IN
  /\ At(c, "update", "apply")
  /\ registered' = IF registered[i] # None
                   THEN [registered EXCEPT ![i] = Plugin] ELSE registered
  /\ replaced' = IF registered[i] \in Objects THEN replaced \cup {i}
                 ELSE replaced
  /\ Return(c)
  /\ UNCHANGED <<known, idOf, gone, letDown>>

\* Mutant of ApplyRemove: out of the map first, whatever the engine answers
UnrecordFirst(c) ==
  LET i == call[c].on IN
  /\ At(c, "remove", "apply")
  /\ known' = [known EXCEPT ![i] = None]
  /\ \/ /\ registered[i] # None
        /\ registered' = [registered EXCEPT ![i] = None]
        /\ call' = [call EXCEPT ![c].step = "record", ![c].obj = registered[i]]
     \/ /\ Return(c)
        /\ UNCHANGED registered
  /\ UNCHANGED <<idOf, history>>

\* remove_source: the engine drops the source, or refuses: there is none, or a
\* query reads from it
ApplyRemove(c) ==
  LET i == call[c].on IN
  /\ At(c, "remove", "apply")
  /\ \/ /\ registered[i] # None
        /\ registered' = [registered EXCEPT ![i] = None]
        /\ call' = [call EXCEPT ![c].step = "record", ![c].obj = registered[i]]
     \/ /\ Return(c)
        /\ UNCHANGED registered
  /\ UNCHANGED <<known, idOf, history>>

\* Mutant of Forget: the map keeps what the engine has dropped
ForgetNothing(c) ==
  /\ At(c, "remove", "record")
  /\ replaced' = replaced \ {call[c].on}
  /\ gone' = gone \cup ({call[c].obj} \cap Objects)
  /\ Return(c)
  /\ UNCHANGED <<registered, known, idOf, letDown>>

\* ... and then takes the id out of the map
Forget(c) ==
  /\ At(c, "remove", "record")
  /\ known' = [known EXCEPT ![call[c].on] = None]
  /\ replaced' = replaced \ {call[c].on}
  /\ gone' = gone \cup ({call[c].obj} \cap Objects)
  /\ Return(c)
  /\ UNCHANGED <<registered, idOf, letDown>>

\* push_change clones what the map has under the id, or is refused
Lookup(c) ==
  LET o == known[call[c].on] IN
  /\ At(c, "push", "lookup")
  /\ \/ /\ o # None
        /\ call' = [call EXCEPT ![c].step = "dispatch", ![c].obj = o]
        /\ UNCHANGED letDown
     \/ /\ o = None
        /\ letDown' = letDown \cup ({call[c].due} \cap Objects)
        /\ Return(c)
  /\ UNCHANGED <<registered, known, idOf, replaced, gone>>

\* source.push returns
Dispatched(c) ==
  /\ At(c, "push", "dispatch")
  /\ Return(c)
  /\ UNCHANGED <<registered, known, idOf, history>>

Step(c) ==
  \/ ApplyAddPython(c) \/ Record(c) \/ ApplyAdd(c) \/ ApplyUpdate(c)
  \/ ApplyRemove(c) \/ Forget(c) \/ Lookup(c) \/ Dispatched(c)

Next ==
  \E c \in Callers :
    \/ \E op \in Ops \ {"push"}, i \in Ids : BeginChange(c, op, i)
    \/ \E i \in Ids : BeginPush(c, i)
    \/ Cancel(c)
    \/ Step(c)

Spec == Init /\ [][Next]_vars

-----------------------------------------------------------------------------
(* Properties *)

\* The map never has a Python source that the engine does not, except while
\* the remove_source that drops it is between the two, or where update_source
\* put a plugin's source in its place and left the map as it was.
KnownIsRegistered ==
  \A i \in Ids :
    known[i] # None =>
      \/ known[i] = registered[i]
      \/ i \in replaced
      \/ \E c \in Callers : At(c, "remove", "record") /\ call[c].on = i

\* push_change is not refused for want of a Python source that was registered
\* before it was called and that nothing replaces or removes meanwhile.
PushesAreServed == letDown = {}

\* A push made after remove_source returned never goes to the object it
\* removed, even when the id has been registered again since.
NoStrayPush ==
  \A c \in Callers : At(c, "push", "dispatch") => call[c].obj \notin call[c].barred
=============================================================================
