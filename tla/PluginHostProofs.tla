--------------------------- MODULE PluginHostProofs ---------------------------
(***************************************************************************)
(* Proofs about PluginHost, for any builds, kinds and callers.  The        *)
(* invariant has a part for types, one for pins, which says whose file is  *)
(* whose while calls are at work on it, one for descriptors, which says    *)
(* what the loads under way owe to what is registered, and one for what    *)
(* the watcher is still to load.                                           *)
(***************************************************************************)
EXTENDS PluginHost, TLAPS

-----------------------------------------------------------------------------
(* The invariant                                                           *)

\* A download is of a build, into the file of its kind.
OnFile(c) == At(c, "download") \/ At(c, "record") \/ At(c, "check")
Shaped == \A c \in Tasks : OnFile(c) =>
  call[c].build \in Builds /\ call[c].kind = KindOf[call[c].build]

Typed == TypeOK /\ Shaped

\* Callers at work on a file have it to themselves.
Exclusive ==
  /\ \A c, d \in Callers : c # d /\ call[c].op = "reinstall" =>
       call[d].kind = None /\ call[d].op # "reinstall"
  /\ \A c, d \in Callers : c # d /\ call[c].kind # None => call[d].kind # call[c].kind
  /\ \A k \in Kinds : disk[k] = Partial =>
       \A c \in Callers : call[c].kind # k /\ call[c].op # "reinstall"

\* Only callers download, and what one is about to hash is what it downloaded.
Downloaded ==
  /\ ~OnFile(Watcher) /\ ~At(Watcher, "next") /\ call[Watcher].op # "reinstall"
  /\ \A c \in Callers : At(c, "record") \/ At(c, "check") =>
       disk[call[c].kind] = call[c].build

\* A reinstall looks for the hashes of the builds themselves.
Wanted ==
  \A c \in Callers :
    /\ call[c].op = "reinstall" => call[c].todo \subseteq {<<b, b>> : b \in Builds}
    /\ At(c, "next") => call[c].op = "reinstall"
    /\ At(c, "check") => call[c].op = "reinstall"
    /\ OnFile(c) /\ call[c].op = "reinstall" => call[c].want = call[c].build

Pinning == Exclusive /\ Downloaded /\ Wanted /\ PinsAreTrue

\* What is registered can be used, but for what the loads under way owe it.
Registered == \A k \in Kinds : registry[k] # None => Usable(registry[k])

Using == Registered /\ CreatedIsUsable

-----------------------------------------------------------------------------
(* How a step moves a call                                                 *)

\* Only the call of c moves, and it becomes x.
Moves(c, x) ==
  /\ call' \in [Tasks -> Calls]
  /\ call'[c] = x
  /\ \A d \in Tasks \ {c} : call'[d] = call[d]

LEMMA MoveTo ==
  ASSUME Typed, NEW c \in Tasks, NEW x \in Calls, call' = [call EXCEPT ![c] = x]
  PROVE  Moves(c, x)
BY DEF Typed, TypeOK, Moves

LEMMA IdleIsCall == Idle \in Calls
BY DEF Idle, Calls, Ops, Steps, Contents

LEMMA ReturnMoves ==
  ASSUME Typed, NEW c \in Tasks, Return(c)
  PROVE  Moves(c, Idle)
BY MoveTo, IdleIsCall DEF Return

LEMMA GotoMoves ==
  ASSUME Typed, NEW c \in Tasks, NEW step \in Steps, Goto(c, step)
  PROVE  Moves(c, [call[c] EXCEPT !.step = step])
<1>1. call[c] \in Calls
  BY DEF Typed, TypeOK
<1>2. [call[c] EXCEPT !.step = step] \in Calls
  BY <1>1 DEF Calls
<1>3. call' = [call EXCEPT ![c] = [call[c] EXCEPT !.step = step]]
  BY DEF Goto
<1> QED
  BY <1>2, <1>3, MoveTo

\* After one plugin of a reinstall comes the next pin.
Again(c) == [call[c] EXCEPT !.step = "next", !.build = None, !.kind = None,
                            !.want = None, !.libs = {}]

LEMMA ProceedMoves ==
  ASSUME Typed, NEW c \in Tasks, Proceed(c)
  PROVE  \/ call[c].op = "reinstall" /\ Moves(c, Again(c))
         \/ call[c].op # "reinstall" /\ Moves(c, Idle)
<1>1. call[c] \in Calls
  BY DEF Typed, TypeOK
<1>2. Again(c) \in Calls
  BY <1>1 DEF Again, Calls, Steps, Contents
<1>3. CASE call[c].op = "reinstall"
  <2>1. call' = [call EXCEPT ![c] = Again(c)]
    BY <1>3 DEF Proceed, Again
  <2> QED
    BY <1>2, <1>3, <2>1, MoveTo
<1>4. CASE call[c].op # "reinstall"
  <2>1. call' = [call EXCEPT ![c] = Idle]
    BY <1>4 DEF Proceed
  <2> QED
    BY <1>4, <2>1, MoveTo, IdleIsCall
<1> QED
  BY <1>3, <1>4

\* The file is on disk: it is loaded, or the call goes on or ends.
Loads(c) == [call[c] EXCEPT !.step = "load", !.build = None, !.want = None]

LEMMA ContinueMoves ==
  ASSUME Typed, NEW c \in Tasks, Continue(c)
  PROVE  \/ Moves(c, Loads(c))
         \/ call[c].op = "reinstall" /\ Moves(c, Again(c))
         \/ call[c].op # "reinstall" /\ Moves(c, Idle)
<1>1. CASE call[c].load
  <2>1. call[c] \in Calls
    BY DEF Typed, TypeOK
  <2>2. Loads(c) \in Calls
    BY <2>1 DEF Loads, Calls, Steps, Contents
  <2>3. call' = [call EXCEPT ![c] = Loads(c)]
    BY <1>1 DEF Continue, Loads
  <2> QED
    BY <2>2, <2>3, MoveTo
<1>2. CASE ~call[c].load
  BY <1>2, ProceedMoves DEF Continue
<1> QED
  BY <1>1, <1>2

\* The calls that begin, go on to a pin, or have opened libraries.
DownloadOf(op, b, load) == [Idle EXCEPT !.op = op, !.step = "download", !.build = b,
                                        !.kind = KindOf[b], !.load = load]
ReinstallOf(load) == [Idle EXCEPT !.op = "reinstall", !.step = "next", !.load = load,
                        !.todo = {<<b, lockfile[b]>> : b \in Pinned}]
OnPin(c, pin) == [call[c] EXCEPT !.step = "download", !.build = pin[1],
                    !.kind = KindOf[pin[1]], !.want = pin[2], !.todo = @ \ {pin}]
LoadDirOf == [Idle EXCEPT !.op = "load_dir", !.step = "load"]
Opened(c, libs) == [call[c] EXCEPT !.step = "register", !.libs = libs]
CreateOf(k) == [Idle EXCEPT !.op = "create", !.step = "create", !.build = registry[k]]
WatchOf(k) == [Idle EXCEPT !.op = "watch", !.step = "load", !.kind = k]

LEMMA BeginMoves ==
  ASSUME Typed, NEW c \in Callers
  PROVE  /\ \A op \in {"install", "pull"}, b \in Builds, load \in BOOLEAN :
              BeginDownload(c, op, b, load) => Moves(c, DownloadOf(op, b, load))
         /\ \A load \in BOOLEAN : BeginReinstall(c, load) => Moves(c, ReinstallOf(load))
         /\ BeginLoadDir(c) => Moves(c, LoadDirOf)
         /\ \A k \in Kinds : LookUp(c, k) => Moves(c, CreateOf(k))
<1> c \in Tasks
  BY DEF Tasks
<1>1. ASSUME NEW op \in {"install", "pull"}, NEW b \in Builds, NEW load \in BOOLEAN,
             BeginDownload(c, op, b, load)
      PROVE  Moves(c, DownloadOf(op, b, load))
  <2>1. DownloadOf(op, b, load) \in Calls
    BY Assumptions DEF DownloadOf, Idle, Calls, Ops, Requests, Steps, Contents
  <2>2. call' = [call EXCEPT ![c] = DownloadOf(op, b, load)]
    BY <1>1 DEF BeginDownload, DownloadOf
  <2> QED
    BY <2>1, <2>2, MoveTo
<1>2. ASSUME NEW load \in BOOLEAN, BeginReinstall(c, load)
      PROVE  Moves(c, ReinstallOf(load))
  <2>1. {<<b, lockfile[b]>> : b \in Pinned} \in SUBSET (Builds \X Contents)
    BY DEF Typed, TypeOK, Pinned
  <2>2. ReinstallOf(load) \in Calls
    BY <2>1 DEF ReinstallOf, Idle, Calls, Ops, Requests, Steps, Contents
  <2>3. call' = [call EXCEPT ![c] = ReinstallOf(load)]
    BY <1>2 DEF BeginReinstall, ReinstallOf
  <2> QED
    BY <2>2, <2>3, MoveTo
<1>3. ASSUME BeginLoadDir(c) PROVE Moves(c, LoadDirOf)
  <2>1. LoadDirOf \in Calls
    BY DEF LoadDirOf, Idle, Calls, Ops, Requests, Steps, Contents
  <2>2. call' = [call EXCEPT ![c] = LoadDirOf]
    BY <1>3 DEF BeginLoadDir, LoadDirOf
  <2> QED
    BY <2>1, <2>2, MoveTo
<1>4. ASSUME NEW k \in Kinds, LookUp(c, k) PROVE Moves(c, CreateOf(k))
  <2>1. registry[k] \in Builds \union {None}
    BY DEF Typed, TypeOK
  <2>2. CreateOf(k) \in Calls
    BY <2>1 DEF CreateOf, Idle, Calls, Ops, Requests, Steps, Contents
  <2>3. call' = [call EXCEPT ![c] = CreateOf(k)]
    BY <1>4 DEF LookUp, CreateOf
  <2> QED
    BY <2>2, <2>3, MoveTo
<1> QED
  BY <1>1, <1>2, <1>3, <1>4

LEMMA NextPinMoves ==
  ASSUME Typed, NEW c \in Tasks, NextPin(c)
  PROVE  \/ Moves(c, Idle)
         \/ \E pin \in call[c].todo : Moves(c, OnPin(c, pin))
<1>1. CASE call[c].todo = {}
  BY <1>1, ReturnMoves DEF NextPin
<1>2. CASE call[c].todo # {}
  <2>1. PICK pin \in call[c].todo : call' = [call EXCEPT ![c] = OnPin(c, pin)]
    BY <1>2 DEF NextPin, OnPin
  <2>2. call[c] \in Calls /\ pin[1] \in Builds /\ pin[2] \in Contents
    BY DEF Typed, TypeOK, Calls
  <2>3. KindOf[pin[1]] \in Kinds /\ call[c].todo \ {pin} \in SUBSET (Builds \X Contents)
    BY <2>2, Assumptions DEF Calls
  <2>4. OnPin(c, pin) \in Calls
    BY <2>2, <2>3 DEF OnPin, Calls, Steps
  <2> QED
    BY <2>1, <2>4, MoveTo
<1> QED
  BY <1>1, <1>2

LEMMA LoadMoves ==
  ASSUME Typed, NEW c \in Tasks
  PROVE  /\ LoadFile(c) => Moves(c, Idle) \/ \E libs \in SUBSET Builds : Moves(c, Opened(c, libs))
         /\ LoadDir(c) => \E libs \in SUBSET Builds : Moves(c, Opened(c, libs))
<1>1. \A libs \in SUBSET Builds : Opened(c, libs) \in Calls
  BY DEF Typed, TypeOK, Opened, Calls, Steps
<1>2. ASSUME LoadFile(c)
      PROVE  Moves(c, Idle) \/ \E libs \in SUBSET Builds : Moves(c, Opened(c, libs))
  <2>1. CASE disk[call[c].kind] \in Builds
    <3>1. {disk[call[c].kind]} \in SUBSET Builds
      BY <2>1
    <3>2. call' = [call EXCEPT ![c] = Opened(c, {disk[call[c].kind]})]
      BY <1>2, <2>1 DEF LoadFile, Opened
    <3>3. Moves(c, Opened(c, {disk[call[c].kind]}))
      BY <1>1, <3>1, <3>2, MoveTo
    <3> QED
      BY <3>1, <3>3
  <2>2. CASE disk[call[c].kind] \notin Builds
    BY <1>2, <2>2, ReturnMoves DEF LoadFile
  <2> QED
    BY <2>1, <2>2
<1>3. ASSUME LoadDir(c) PROVE \E libs \in SUBSET Builds : Moves(c, Opened(c, libs))
  <2>1. PICK expected \in SUBSET Builds :
          call' = [call EXCEPT ![c] = Opened(c, VerifiedCandidates(expected))]
    BY <1>3 DEF LoadDir, Opened
  <2>2. VerifiedCandidates(expected) \in SUBSET Builds
    BY DEF VerifiedCandidates
  <2> QED
    BY <1>1, <2>1, <2>2, MoveTo
<1> QED
  BY <1>2, <1>3

LEMMA WatchMoves ==
  ASSUME Typed, NEW k \in Kinds, WatchEvent(k)
  PROVE  Moves(Watcher, WatchOf(k))
<1>1. WatchOf(k) \in Calls
  BY DEF WatchOf, Idle, Calls, Ops, Steps, Contents
<1>2. call' = [call EXCEPT ![Watcher] = WatchOf(k)] /\ Watcher \in Tasks
  BY DEF WatchEvent, WatchOf, Tasks
<1> QED
  BY <1>1, <1>2, MoveTo

-----------------------------------------------------------------------------
(* Types                                                                   *)

LEMMA InitTyped == Init => Typed
<1> SUFFICES ASSUME Init PROVE Typed
  OBVIOUS
<1>1. call \in [Tasks -> Calls] /\ \A c \in Tasks : call[c].step = "idle"
  BY IdleIsCall DEF Init, Idle
<1>2. TypeOK
  BY <1>1 DEF Init, TypeOK, Contents
<1>3. Shaped
  BY <1>1 DEF Shaped, OnFile, At
<1> QED
  BY <1>2, <1>3 DEF Typed

\* A call that moves as it should, with what it is about, is shaped.
LEMMA ShapedAfter ==
  ASSUME Typed, NEW c \in Tasks, NEW x, Moves(c, x),
         x.step \in {"download", "record", "check"} =>
           x.build \in Builds /\ x.kind = KindOf[x.build]
  PROVE  Shaped'
BY DEF Typed, Shaped, OnFile, At, Moves

\* A write keeps the types of the files.
LEMMA WriteTyped ==
  ASSUME Typed, NEW k \in Kinds, NEW contents \in Contents, Write(k, contents)
  PROVE  disk' \in [Kinds -> Contents] /\ events' \subseteq Kinds /\ noticed' \subseteq Kinds
BY DEF Typed, TypeOK, Write

\* A move alone keeps them all.
LEMMA MoveTyped ==
  ASSUME Typed, NEW c \in Tasks, NEW x, Moves(c, x),
         x.step \notin {"download", "record", "check"},
         UNCHANGED <<disk, events, noticed, lockfile, watching>>,
         registry' \in [Kinds -> Builds \union {None}],
         injected' \subseteq Builds, retained' \subseteq Builds, abandoned' \subseteq Builds,
         installed' \in [Builds -> Contents], refused' \in BOOLEAN
  PROVE  Typed'
<1>1. Shaped'
  BY ShapedAfter
<1> QED
  BY <1>1 DEF Typed, TypeOK, Moves

LEMMA NextTyped == Typed /\ [Next]_vars => Typed'
<1> SUFFICES ASSUME Typed, [Next]_vars PROVE Typed'
  OBVIOUS
<1> USE DEF Typed
<1>1. ASSUME NEW c \in Callers, Begin(c) PROVE Typed'
  <2> c \in Tasks
    BY DEF Tasks
  <2>1. ASSUME NEW op \in {"install", "pull"}, NEW b \in Builds, NEW load \in BOOLEAN,
               BeginDownload(c, op, b, load)
        PROVE  Typed'
    <3>1. Moves(c, DownloadOf(op, b, load))
      BY <2>1, BeginMoves
    <3>2. DownloadOf(op, b, load).build = b /\ DownloadOf(op, b, load).kind = KindOf[b]
      BY DEF DownloadOf, Idle
    <3>3. Shaped'
      BY <3>1, <3>2, ShapedAfter
    <3> QED
      BY <2>1, <3>1, <3>3 DEF BeginDownload, TypeOK, Moves, files, host, pins
  <2>2. ASSUME NEW load \in BOOLEAN, BeginReinstall(c, load) PROVE Typed'
    <3>1. Moves(c, ReinstallOf(load)) /\ ReinstallOf(load).step = "next"
      BY <2>2, BeginMoves DEF ReinstallOf, Idle
    <3> QED
      BY <2>2, <3>1, MoveTyped DEF BeginReinstall, TypeOK, files, host, pins
  <2>3. ASSUME BeginLoadDir(c) PROVE Typed'
    <3>1. Moves(c, LoadDirOf) /\ LoadDirOf.step = "load"
      BY <2>3, BeginMoves DEF LoadDirOf, Idle
    <3> QED
      BY <2>3, <3>1, MoveTyped DEF BeginLoadDir, TypeOK, files, host, pins
  <2>4. ASSUME NEW k \in Kinds, LookUp(c, k) PROVE Typed'
    <3>1. Moves(c, CreateOf(k)) /\ CreateOf(k).step = "create"
      BY <2>4, BeginMoves DEF CreateOf, Idle
    <3> QED
      BY <2>4, <3>1, MoveTyped DEF LookUp, TypeOK, files, host, pins
  <2> QED
    BY <1>1, <2>1, <2>2, <2>3, <2>4 DEF Begin
<1>2. ASSUME NEW c \in Tasks, NextPin(c) PROVE Typed'
  <2>1. CASE Moves(c, Idle)
    BY <1>2, <2>1, MoveTyped DEF NextPin, Idle, TypeOK, files, host, pins
  <2>2. ASSUME NEW pin \in call[c].todo, Moves(c, OnPin(c, pin)) PROVE Typed'
    <3>1. call[c] \in Calls /\ pin[1] \in Builds
      BY DEF TypeOK, Calls
    <3>2. OnPin(c, pin).build = pin[1] /\ OnPin(c, pin).kind = KindOf[pin[1]]
      BY <3>1 DEF OnPin, Calls
    <3>3. Shaped'
      BY <2>2, <3>1, <3>2, ShapedAfter
    <3> QED
      BY <1>2, <2>2, <3>3 DEF NextPin, TypeOK, Moves, files, host, pins
  <2> QED
    BY <1>2, <2>1, <2>2, NextPinMoves
<1>3. ASSUME NEW c \in Tasks, Download(c) PROVE Typed'
  <2>1. call[c].build \in Builds /\ call[c].kind = KindOf[call[c].build] /\ call[c].kind \in Kinds
    BY <1>3, Assumptions DEF Download, Shaped, OnFile
  <2>2. disk' \in [Kinds -> Contents] /\ events' \subseteq Kinds /\ noticed' \subseteq Kinds
    BY <1>3, <2>1, WriteTyped DEF Download, files, TypeOK, Contents
  <2>3. \/ Moves(c, Idle)
        \/ \E step \in {"record", "check"} : Moves(c, [call[c] EXCEPT !.step = step])
    BY <1>3, ReturnMoves, GotoMoves DEF Download, Steps
  <2>4. call[c] \in Calls
    BY DEF TypeOK
  <2>5. Shaped'
    BY <2>1, <2>3, <2>4, ShapedAfter DEF Idle, Calls
  <2> QED
    BY <1>3, <2>2, <2>3, <2>5 DEF Download, TypeOK, Moves, host, pins
<1>4. ASSUME NEW c \in Tasks, NEW x, Moves(c, x), RecordInstall(c) \/ CheckHash(c),
             x \in {Idle, Loads(c), Again(c)}
      PROVE  Typed'
  <2>1. call[c].build \in Builds /\ call[c].kind \in Kinds
    BY <1>4, Assumptions DEF RecordInstall, CheckHash, Shaped, OnFile
  <2>2. installed' \in [Builds -> Contents] /\ refused' \in BOOLEAN
    BY <1>4, <2>1 DEF RecordInstall, CheckHash, TypeOK
  <2>3. call[c] \in Calls
    BY DEF TypeOK
  <2>4. x.step \in {"idle", "load", "next"}
    <3>1. Idle.step = "idle" /\ Loads(c).step = "load" /\ Again(c).step = "next"
      BY <2>3 DEF Idle, Loads, Again, Calls
    <3> QED
      BY <1>4, <3>1
  <2> QED
    BY <1>4, <2>2, <2>4, MoveTyped DEF RecordInstall, CheckHash, TypeOK, files, host
<1>5. ASSUME NEW c \in Tasks, RecordInstall(c) \/ CheckHash(c) PROVE Typed'
  <2>1. \E x \in {Idle, Loads(c), Again(c)} : Moves(c, x)
    BY <1>5, ContinueMoves, ReturnMoves DEF RecordInstall, CheckHash
  <2> QED
    BY <1>4, <1>5, <2>1
<1>6. ASSUME NEW c \in Tasks, LoadFile(c) \/ LoadDir(c) PROVE Typed'
  <2>1. call[c] \in Calls
    BY DEF TypeOK
  <2>2. \A libs : Opened(c, libs).step = "register"
    BY <2>1 DEF Opened, Calls
  <2>3. CASE Moves(c, Idle)
    BY <1>6, <2>3, MoveTyped DEF LoadFile, LoadDir, Idle, TypeOK, files, host, pins
  <2>4. CASE \E libs \in SUBSET Builds : Moves(c, Opened(c, libs))
    BY <1>6, <2>2, <2>4, MoveTyped DEF LoadFile, LoadDir, TypeOK, files, host, pins
  <2> QED
    BY <1>6, <2>3, <2>4, LoadMoves
<1>7. ASSUME NEW c \in Tasks, Register(c) PROVE Typed'
  <2>1. call[c] \in Calls /\ call[c].libs \subseteq Builds
    BY DEF TypeOK, Calls
  <2>2. registry' \in [Kinds -> Builds \union {None}]
    BY <1>7, <2>1 DEF Register, TypeOK
  <2>3. Moves(c, [call[c] EXCEPT !.step = "inject"])
    BY <1>7, GotoMoves DEF Register, Steps
  <2>4. [call[c] EXCEPT !.step = "inject"].step = "inject"
    BY <2>1 DEF Calls
  <2> QED
    BY <1>7, <2>2, <2>3, <2>4, MoveTyped DEF Register, TypeOK, files, pins
<1>8. ASSUME NEW c \in Tasks, InjectResolver(c) PROVE Typed'
  <2>1. call[c] \in Calls /\ call[c].libs \subseteq Builds
    BY DEF TypeOK, Calls
  <2>2. Moves(c, [call[c] EXCEPT !.step = "retain"])
    BY <1>8, GotoMoves DEF InjectResolver, Steps
  <2>3. [call[c] EXCEPT !.step = "retain"].step = "retain"
    BY <2>1 DEF Calls
  <2> QED
    BY <1>8, <2>1, <2>2, <2>3, MoveTyped DEF InjectResolver, TypeOK, files, pins
<1>9. ASSUME NEW c \in Tasks, Retain(c) PROVE Typed'
  <2>1. call[c] \in Calls /\ call[c].libs \subseteq Builds
    BY DEF TypeOK, Calls
  <2>2. Moves(c, Again(c)) \/ Moves(c, Idle)
    BY <1>9, ProceedMoves DEF Retain
  <2>3. Again(c).step = "next" /\ Idle.step = "idle"
    BY <2>1 DEF Again, Idle, Calls
  <2> QED
    BY <1>9, <2>1, <2>2, <2>3, MoveTyped DEF Retain, TypeOK, files, pins
<1>10. ASSUME NEW c \in Tasks, Cancel(c) \/ Create(c) PROVE Typed'
  <2>1. Moves(c, Idle) /\ Idle.step = "idle"
    BY <1>10, ReturnMoves DEF Cancel, Create, Idle
  <2>2. call[c].libs \subseteq Builds
    BY DEF TypeOK, Calls
  <2>3. /\ UNCHANGED <<files, registry, injected, retained, pins, watching>>
        /\ abandoned' \subseteq Builds
    BY <1>10, <2>2 DEF Cancel, Create, host, TypeOK
  <2> QED
    BY <2>1, <2>3, MoveTyped DEF TypeOK, files, pins
<1>11. ASSUME NEW k \in Kinds, WatchEvent(k) PROVE Typed'
  <2>1. Moves(Watcher, WatchOf(k)) /\ WatchOf(k).step = "load" /\ Watcher \in Tasks
    BY <1>11, WatchMoves DEF WatchOf, Idle, Tasks
  <2>2. Shaped'
    BY <2>1, ShapedAfter
  <2> QED
    BY <1>11, <2>1, <2>2 DEF WatchEvent, TypeOK, Moves, host, pins
<1>12. CASE WriteLockfile \/ WatchPlugins
  BY <1>12 DEF WriteLockfile, WatchPlugins, TypeOK, Shaped, OnFile, At, files, host, pins
<1>13. ASSUME NEW k \in Kinds, CopyBegins(k) \/ Remove(k) \/ Lagged(k) PROVE Typed'
  <2>1. disk' \in [Kinds -> Contents] /\ events' \subseteq Kinds /\ noticed' \subseteq Kinds
    BY <1>13, WriteTyped DEF CopyBegins, Remove, Lagged, TypeOK, Contents
  <2> QED
    BY <1>13, <2>1 DEF CopyBegins, Remove, Lagged, TypeOK, Shaped, OnFile, At, host, pins
<1>14. ASSUME NEW b \in Builds, CopyEnds(b) PROVE Typed'
  <2>1. disk' \in [Kinds -> Contents] /\ events' \subseteq Kinds /\ noticed' \subseteq Kinds
    BY <1>14, WriteTyped, Assumptions DEF CopyEnds, Contents
  <2> QED
    BY <1>14, <2>1 DEF CopyEnds, TypeOK, Shaped, OnFile, At, host, pins
<1>15. CASE Restart
  <2>1. call' \in [Tasks -> Calls] /\ \A c \in Tasks : call'[c] = Idle
    BY <1>15, IdleIsCall DEF Restart
  <2>2. Shaped'
    BY <2>1 DEF Shaped, OnFile, At, Idle
  <2> QED
    BY <1>15, <2>1, <2>2 DEF Restart, TypeOK, Contents
<1>16. CASE UNCHANGED vars
  BY <1>16 DEF vars, files, host, pins, TypeOK, Shaped, OnFile, At
<1>17. ASSUME NEW c \in Callers PROVE c \in Tasks
  BY DEF Tasks
<1> QED
  BY <1>1, <1>2, <1>3, <1>5, <1>6, <1>7, <1>8, <1>9, <1>10, <1>11, <1>12, <1>13, <1>14,
     <1>15, <1>16, <1>17 DEF Next, Step, Loading, Files

-----------------------------------------------------------------------------
(* Pins                                                                    *)

\* A caller is not the watcher.
LEMMA CallersApart == Callers \subseteq Tasks /\ Watcher \in Tasks /\ Watcher \notin Callers
BY Assumptions DEF Tasks

\* What the calls that a step leaves behind are about.
LEMMA Fields ==
  ASSUME Typed, NEW c \in Tasks
  PROVE  /\ Idle.step = "idle" /\ Idle.op = "none" /\ Idle.kind = None
         /\ \A step : LET x == [call[c] EXCEPT !.step = step] IN
              /\ x.step = step /\ x.op = call[c].op /\ x.kind = call[c].kind
              /\ x.build = call[c].build /\ x.want = call[c].want /\ x.todo = call[c].todo
              /\ x.libs = call[c].libs
         /\ Loads(c).step = "load" /\ Loads(c).op = call[c].op
         /\ Loads(c).kind = call[c].kind /\ Loads(c).todo = call[c].todo
         /\ Again(c).step = "next" /\ Again(c).op = call[c].op
         /\ Again(c).kind = None /\ Again(c).todo = call[c].todo
         /\ \A libs : LET x == Opened(c, libs) IN
              /\ x.step = "register" /\ x.op = call[c].op /\ x.kind = call[c].kind
              /\ x.todo = call[c].todo /\ x.libs = libs
<1>1. call[c] \in Calls
  BY DEF Typed, TypeOK
<1>2. Idle.step = "idle" /\ Idle.op = "none" /\ Idle.kind = None
  BY DEF Idle
<1>3. \A step : LET x == [call[c] EXCEPT !.step = step] IN
        /\ x.step = step /\ x.op = call[c].op /\ x.kind = call[c].kind
        /\ x.build = call[c].build /\ x.want = call[c].want /\ x.todo = call[c].todo
        /\ x.libs = call[c].libs
  BY <1>1 DEF Calls
<1>4. /\ Loads(c).step = "load" /\ Loads(c).op = call[c].op
      /\ Loads(c).kind = call[c].kind /\ Loads(c).todo = call[c].todo
  BY <1>1 DEF Calls, Loads
<1>5. /\ Again(c).step = "next" /\ Again(c).op = call[c].op
      /\ Again(c).kind = None /\ Again(c).todo = call[c].todo
  BY <1>1 DEF Calls, Again
<1>6. \A libs : LET x == Opened(c, libs) IN
        /\ x.step = "register" /\ x.op = call[c].op /\ x.kind = call[c].kind
        /\ x.todo = call[c].todo /\ x.libs = libs
  BY <1>1 DEF Calls, Opened
<1> QED
  BY <1>2, <1>3, <1>4, <1>5, <1>6

\* A call that takes no file keeps the calls apart.
LEMMA ExclusiveMove ==
  ASSUME Typed, Pinning, NEW c \in Callers, NEW x, Moves(c, x), disk' = disk,
         x.kind \in {None, call[c].kind} \/ call[c].op = "reinstall",
         x.op = "reinstall" => call[c].op = "reinstall"
  PROVE  Exclusive'
<1>1. /\ c \in Tasks /\ call'[c] = x
      /\ \A d \in Callers : d # c => call'[d] = call[d]
  BY CallersApart DEF Moves
<1>2. ASSUME NEW e \in Callers, NEW d \in Callers, e # d, call'[e].op = "reinstall"
      PROVE  call'[d].kind = None /\ call'[d].op # "reinstall"
  <2>1. call[e].op = "reinstall"
    BY <1>1, <1>2
  <2>2. call[d].kind = None /\ call[d].op # "reinstall"
    BY <1>2, <2>1 DEF Pinning, Exclusive
  <2> QED
    BY <1>1, <2>2
<1>3. ASSUME NEW e \in Callers, NEW d \in Callers, e # d, call'[e].kind # None
      PROVE  call'[d].kind # call'[e].kind
  <2>1. CASE call[c].op = "reinstall"
    <3>1. \A f \in Callers : f # c => call[f].kind = None
      BY <2>1 DEF Pinning, Exclusive
    <3> QED
      BY <1>1, <1>3, <3>1
  <2>2. CASE x.kind \in {None, call[c].kind}
    BY <1>1, <1>3, <2>2 DEF Pinning, Exclusive
  <2> QED
    BY <2>1, <2>2
<1>4. ASSUME NEW k \in Kinds, disk'[k] = Partial, NEW d \in Callers
      PROVE  call'[d].kind # k /\ call'[d].op # "reinstall"
  <2>1. \A e \in Callers : call[e].kind # k /\ call[e].op # "reinstall"
    BY <1>4 DEF Pinning, Exclusive
  <2>2. k # None
    BY Assumptions
  <2> QED
    BY <1>1, <2>1, <2>2
<1> QED
  BY <1>2, <1>3, <1>4 DEF Exclusive

\* A call that is not about to hash keeps what is said of those that are.
LEMMA HashMove ==
  ASSUME Typed, Pinning, NEW c \in Callers, NEW x, Moves(c, x), disk' = disk,
         x.step \notin {"record", "check"},
         x.op = "reinstall" => x.todo \subseteq {<<b, b>> : b \in Builds},
         x.step = "next" => x.op = "reinstall",
         x.step = "download" /\ x.op = "reinstall" => x.want = x.build
  PROVE  Downloaded' /\ Wanted'
BY CallersApart DEF Pinning, Downloaded, Wanted, Moves, OnFile, At

\* A call that goes on without a file, or ends.
LEMMA CallerMove ==
  ASSUME Typed, Pinning, NEW c \in Callers, NEW x, Moves(c, x), disk' = disk,
         x.step \notin {"record", "check", "download"},
         x.kind \in {None, call[c].kind},
         x.op = "reinstall" => call[c].op = "reinstall" /\ x.todo = call[c].todo,
         x.step = "next" => x.op = "reinstall"
  PROVE  Exclusive' /\ Downloaded' /\ Wanted'
<1>1. Exclusive'
  BY ExclusiveMove
<1>2. x.op = "reinstall" => x.todo \subseteq {<<b, b>> : b \in Builds}
  BY DEF Pinning, Wanted
<1>3. Downloaded' /\ Wanted'
  BY <1>2, HashMove
<1> QED
  BY <1>1, <1>3

\* The watcher never downloads.
LEMMA WatcherMove ==
  ASSUME Typed, Pinning, NEW x, Moves(Watcher, x), disk' = disk,
         x.step \notin {"record", "check", "download", "next"}, x.op # "reinstall"
  PROVE  Exclusive' /\ Downloaded' /\ Wanted'
BY CallersApart DEF Pinning, Exclusive, Downloaded, Wanted, Moves, OnFile, At

\* A file that no caller is at work on may change, as long as it is not being copied
\* when a caller takes it.
LEMMA FileMove ==
  ASSUME Typed, Pinning, NEW k \in Kinds, call' = call,
         \A c \in Callers : call[c].kind # k /\ call[c].op # "reinstall",
         \A l \in Kinds : l # k => disk'[l] = disk[l]
  PROVE  Exclusive' /\ Downloaded' /\ Wanted'
<1>1. Exclusive'
  BY DEF Pinning, Exclusive
<1>2. \A c \in Callers : OnFile(c) => call[c].kind \in Kinds
  BY CallersApart, Assumptions DEF Typed, Shaped
<1>3. Downloaded'
  BY <1>2 DEF Pinning, Downloaded, OnFile, At
<1>4. Wanted'
  BY DEF Pinning, Wanted, OnFile, At
<1> QED
  BY <1>1, <1>3, <1>4

LEMMA InitPinning == Init => Pinning
<1> SUFFICES ASSUME Init PROVE Pinning
  OBVIOUS
<1>1. \A c \in Tasks : call[c].step = "idle" /\ call[c].op = "none" /\ call[c].kind = None
  BY DEF Init, Idle
<1>2. Exclusive
  BY <1>1, CallersApart, Assumptions DEF Init, Exclusive
<1>3. Downloaded /\ Wanted
  BY <1>1, CallersApart DEF Downloaded, Wanted, OnFile, At
<1>4. PinsAreTrue
  BY DEF Init, PinsAreTrue
<1> QED
  BY <1>2, <1>3, <1>4 DEF Pinning

\* Calls begin where they find no one at work.
LEMMA BeginPinning ==
  ASSUME ApartFiles, Typed, Pinning, NEW c \in Callers, Begin(c)
  PROVE  Pinning'
<1> USE CallersApart
<1>0. PinsAreTrue' /\ disk' = disk
  <2>1. UNCHANGED <<disk, installed, lockfile, refused>>
    BY DEF Begin, BeginDownload, BeginReinstall, BeginLoadDir, LookUp, files, pins
  <2> QED
    BY <2>1 DEF Pinning, PinsAreTrue
<1>1. ASSUME NEW op \in {"install", "pull"}, NEW b \in Builds, NEW load \in BOOLEAN,
             BeginDownload(c, op, b, load)
      PROVE  Pinning'
  <2> DEFINE x == DownloadOf(op, b, load)
  <2>1. Moves(c, x)
    BY <1>1, BeginMoves
  <2>2. x.step = "download" /\ x.op = op /\ x.kind = KindOf[b]
    BY DEF DownloadOf, Idle
  <2> HIDE DEF x
  <2>3. /\ disk[KindOf[b]] # Partial
        /\ \A d \in Callers : call[d].kind # KindOf[b] /\ call[d].op # "reinstall"
    BY <1>1 DEF BeginDownload, Free
  <2>4. Exclusive'
    BY <1>0, <2>1, <2>2, <2>3 DEF Pinning, Exclusive, Moves
  <2>5. Downloaded' /\ Wanted'
    BY <1>0, <2>1, <2>2, HashMove
  <2> QED
    BY <1>0, <2>4, <2>5 DEF Pinning
<1>2. ASSUME NEW load \in BOOLEAN, BeginReinstall(c, load) PROVE Pinning'
  <2> DEFINE x == ReinstallOf(load)
  <2>1. Moves(c, x)
    BY <1>2, BeginMoves
  <2>2. /\ x.step = "next" /\ x.op = "reinstall" /\ x.kind = None
        /\ x.todo = {<<b, lockfile[b]>> : b \in Pinned}
    BY DEF ReinstallOf, Idle
  <2> HIDE DEF x
  <2>3. /\ \A k \in Kinds : disk[k] # Partial
        /\ \A k \in Kinds : \A d \in Callers : call[d].kind # k /\ call[d].op # "reinstall"
        /\ Kinds # {}
    BY <1>2, Assumptions DEF BeginReinstall, Free, Pinned
  <2>4. \A d \in Callers : call[d].kind = None /\ call[d].op # "reinstall"
    BY <2>3 DEF Typed, TypeOK, Calls
  <2>5. Exclusive'
    BY <1>0, <2>1, <2>2, <2>3, <2>4 DEF Exclusive, Moves
  <2>6. x.todo \subseteq {<<b, b>> : b \in Builds}
    BY <2>2 DEF Pinned, Pinning, PinsAreTrue
  <2>7. Downloaded' /\ Wanted'
    BY <1>0, <2>1, <2>2, <2>6, HashMove
  <2> QED
    BY <1>0, <2>5, <2>7 DEF Pinning
<1>3. ASSUME BeginLoadDir(c) PROVE Pinning'
  <2>1. Moves(c, LoadDirOf)
    BY <1>3, BeginMoves
  <2>2. LoadDirOf.step = "load" /\ LoadDirOf.op = "load_dir" /\ LoadDirOf.kind = None
    BY DEF LoadDirOf, Idle
  <2> QED
    BY <1>0, <2>1, <2>2, CallerMove DEF Pinning
<1>4. ASSUME NEW k \in Kinds, LookUp(c, k) PROVE Pinning'
  <2>1. Moves(c, CreateOf(k))
    BY <1>4, BeginMoves
  <2>2. CreateOf(k).step = "create" /\ CreateOf(k).op = "create" /\ CreateOf(k).kind = None
    BY DEF CreateOf, Idle
  <2> QED
    BY <1>0, <2>1, <2>2, CallerMove DEF Pinning
<1> QED
  BY <1>1, <1>2, <1>3, <1>4 DEF Begin

LEMMA NextPinPinning ==
  ASSUME Typed, Pinning, NEW c \in Tasks, NextPin(c)
  PROVE  Pinning'
<1> USE CallersApart
<1>0. PinsAreTrue' /\ disk' = disk
  BY DEF NextPin, files, pins, Pinning, PinsAreTrue
<1>1. c \in Callers /\ call[c].op = "reinstall"
  BY DEF NextPin, Pinning, Downloaded, Wanted, Tasks
<1>2. CASE Moves(c, Idle)
  BY <1>0, <1>1, <1>2, Fields, CallerMove DEF Pinning
<1>3. ASSUME NEW pin \in call[c].todo, Moves(c, OnPin(c, pin)) PROVE Pinning'
  <2>1. call[c] \in Calls /\ pin[1] = pin[2]
    BY <1>1 DEF Typed, TypeOK, Pinning, Wanted
  <2>2. /\ OnPin(c, pin).step = "download" /\ OnPin(c, pin).op = "reinstall"
        /\ OnPin(c, pin).want = OnPin(c, pin).build
        /\ OnPin(c, pin).todo = call[c].todo \ {pin}
    BY <1>1, <2>1 DEF OnPin, Calls
  <2>3. OnPin(c, pin).todo \subseteq {<<b, b>> : b \in Builds}
    BY <1>1, <2>2 DEF Pinning, Wanted
  <2>4. Exclusive'
    BY <1>0, <1>1, <1>3, <2>2, ExclusiveMove
  <2>5. Downloaded' /\ Wanted'
    BY <1>0, <1>1, <1>3, <2>2, <2>3, HashMove
  <2> QED
    BY <1>0, <2>4, <2>5 DEF Pinning
<1> QED
  BY <1>2, <1>3, NextPinMoves

\* The file is the caller's own, so what it downloads is what it will hash.
LEMMA DownloadPinning ==
  ASSUME Typed, Pinning, NEW c \in Tasks, Download(c)
  PROVE  Pinning'
<1> USE CallersApart
<1>0. PinsAreTrue'
  BY DEF Download, pins, Pinning, PinsAreTrue
<1>1. c \in Callers /\ call[c].build \in Builds /\ call[c].kind = KindOf[call[c].build]
  BY DEF Download, Pinning, Downloaded, OnFile, Tasks, Typed, Shaped
<1>2. call[c].kind \in Kinds /\ call[c].kind # None /\ call[c].build # Partial
  BY <1>1, Assumptions
<1>3. ASSUME disk' = disk, Moves(c, Idle) PROVE Pinning'
  BY <1>0, <1>1, <1>3, Fields, CallerMove DEF Pinning
<1>4. ASSUME Write(call[c].kind, call[c].build), NEW x, Moves(c, x),
             x.op \in {"none", call[c].op},
             x.op = "reinstall" => x.todo = call[c].todo /\ x.want = call[c].want,
             x.kind \in {None, call[c].kind},
             x.step \in {"idle", "record", "check"},
             x.step = "check" => x.op = "reinstall",
             x.step # "idle" => x.kind = call[c].kind /\ x.build = call[c].build
      PROVE  Pinning'
  <2>1. /\ disk'[call[c].kind] = call[c].build
        /\ \A k \in Kinds : k # call[c].kind => disk'[k] = disk[k]
    BY <1>2, <1>4 DEF Write, Typed, TypeOK
  <2>2. \A d \in Callers : d # c => /\ call[d].kind # call[c].kind
                                   /\ call'[d] = call[d]
    BY <1>1, <1>2, <1>4 DEF Pinning, Exclusive, Moves
  <2>3. call'[c] = x /\ call'[Watcher] = call[Watcher]
    BY <1>1, <1>4 DEF Moves
  <2>4. Exclusive'
    <3>1. ASSUME NEW e \in Callers, NEW d \in Callers, e # d, call'[e].op = "reinstall"
          PROVE  call'[d].kind = None /\ call'[d].op # "reinstall"
      BY <1>4, <2>2, <2>3, <3>1 DEF Pinning, Exclusive
    <3>2. ASSUME NEW e \in Callers, NEW d \in Callers, e # d, call'[e].kind # None
          PROVE  call'[d].kind # call'[e].kind
      BY <1>4, <2>2, <2>3, <3>2 DEF Pinning, Exclusive
    <3>3. ASSUME NEW k \in Kinds, disk'[k] = Partial, NEW d \in Callers
          PROVE  call'[d].kind # k /\ call'[d].op # "reinstall"
      <4>1. k # call[c].kind /\ disk[k] = Partial /\ k # None
        BY <1>2, <2>1, <3>3, Assumptions
      <4> QED
        BY <1>1, <1>4, <2>2, <2>3, <4>1 DEF Pinning, Exclusive
    <3> QED
      BY <3>1, <3>2, <3>3 DEF Exclusive
  <2>5. Downloaded'
    <3>1. ~OnFile(Watcher)' /\ ~At(Watcher, "next")' /\ call'[Watcher].op # "reinstall"
      BY <2>3 DEF Pinning, Downloaded, OnFile, At
    <3>2. ASSUME NEW d \in Callers, At(d, "record")' \/ At(d, "check")'
          PROVE  disk'[call'[d].kind] = call'[d].build
      <4>1. CASE d = c
        BY <1>4, <2>1, <2>3, <3>2, <4>1 DEF At
      <4>2. CASE d # c
        <5>1. call[d].kind \in Kinds /\ disk[call[d].kind] = call[d].build
          BY <2>2, <3>2, <4>2, Assumptions DEF At, OnFile, Pinning, Downloaded, Typed, Shaped
        <5> QED
          BY <2>1, <2>2, <4>2, <5>1
      <4> QED
        BY <4>1, <4>2
    <3> QED
      BY <3>1, <3>2 DEF Downloaded
  <2>6. Wanted'
    <3>1. call[c].op = "reinstall" => call[c].want = call[c].build
      BY <1>1 DEF Pinning, Wanted, OnFile, Download
    <3> QED
      BY <1>4, <2>2, <2>3, <3>1 DEF Pinning, Wanted, OnFile, At
  <2> QED
    BY <1>0, <2>4, <2>5, <2>6 DEF Pinning
<1>5. CASE Return(c) /\ UNCHANGED files
  BY <1>3, <1>5, ReturnMoves DEF files
<1>6. CASE Write(call[c].kind, call[c].build) /\ call[c].op = "install" /\ Goto(c, "record")
  <2> DEFINE x == [call[c] EXCEPT !.step = "record"]
  <2>1. Moves(c, x)
    BY <1>6, GotoMoves DEF Steps
  <2>2. /\ x.step = "record" /\ x.op = call[c].op /\ x.kind = call[c].kind
        /\ x.build = call[c].build /\ x.want = call[c].want /\ x.todo = call[c].todo
    BY Fields
  <2> HIDE DEF x
  <2> QED
    BY <1>4, <1>6, <2>1, <2>2
<1>7. CASE Write(call[c].kind, call[c].build) /\ call[c].op = "reinstall" /\ Goto(c, "check")
  <2> DEFINE x == [call[c] EXCEPT !.step = "check"]
  <2>1. Moves(c, x)
    BY <1>7, GotoMoves DEF Steps
  <2>2. /\ x.step = "check" /\ x.op = call[c].op /\ x.kind = call[c].kind
        /\ x.build = call[c].build /\ x.want = call[c].want /\ x.todo = call[c].todo
    BY Fields
  <2> HIDE DEF x
  <2> QED
    BY <1>4, <1>7, <2>1, <2>2
<1>8. CASE Write(call[c].kind, call[c].build) /\ Return(c)
  BY <1>4, <1>8, ReturnMoves, Fields
<1> QED
  BY <1>5, <1>6, <1>7, <1>8 DEF Download

\* A hash is taken of the very build that was downloaded.
LEMMA HashPinning ==
  ASSUME Typed, Pinning, NEW c \in Tasks, RecordInstall(c) \/ CheckHash(c)
  PROVE  Pinning'
<1> USE CallersApart
<1>1. /\ c \in Callers /\ call[c].build \in Builds
      /\ disk[call[c].kind] = call[c].build /\ disk' = disk
      /\ At(c, "check") => call[c].want = call[c].build
  BY DEF RecordInstall, CheckHash, Pinning, Downloaded, Wanted, OnFile, Tasks, Typed, Shaped, files
<1>2. PinsAreTrue'
  <2>1. CASE RecordInstall(c)
    BY <1>1, <2>1 DEF RecordInstall, Pinning, PinsAreTrue, Typed, TypeOK
  <2>2. CASE CheckHash(c)
    BY <1>1, <2>2 DEF CheckHash, Pinning, PinsAreTrue
  <2> QED
    BY <2>1, <2>2
<1>3. \/ Moves(c, Idle) \/ Moves(c, Loads(c))
      \/ call[c].op = "reinstall" /\ Moves(c, Again(c))
  BY ContinueMoves, ReturnMoves DEF RecordInstall, CheckHash
<1>4. Exclusive' /\ Downloaded' /\ Wanted'
  <2>1. CASE Moves(c, Idle)
    BY <1>1, <2>1, Fields, CallerMove
  <2>2. CASE Moves(c, Loads(c))
    BY <1>1, <2>2, Fields, CallerMove
  <2>3. CASE call[c].op = "reinstall" /\ Moves(c, Again(c))
    BY <1>1, <2>3, Fields, CallerMove
  <2> QED
    BY <1>3, <2>1, <2>2, <2>3
<1> QED
  BY <1>2, <1>4 DEF Pinning

\* Loading and using leave pins and files alone.
LEMMA OtherPinning ==
  ASSUME Typed, Pinning, NEW c \in Tasks,
         Loading(c) \/ Create(c) \/ (c \in Callers /\ Cancel(c))
  PROVE  Pinning'
<1> USE CallersApart
<1>1. PinsAreTrue' /\ disk' = disk
  <2>1. UNCHANGED <<disk, installed, lockfile, refused>>
    BY DEF Loading, LoadFile, LoadDir, Register, InjectResolver, Retain, Create, Cancel, files, pins
  <2> QED
    BY <2>1 DEF Pinning, PinsAreTrue
<1>2. ASSUME NEW x, Moves(c, x),
             x.step \notin {"record", "check", "download"},
             x.kind \in {None, call[c].kind},
             x.op = "reinstall" => call[c].op = "reinstall" /\ x.todo = call[c].todo,
             x.step = "next" => x.op = "reinstall"
      PROVE  Pinning'
  <2>1. CASE c \in Callers
    BY <1>1, <1>2, <2>1, CallerMove DEF Pinning
  <2>2. CASE c = Watcher
    <3>1. x.op # "reinstall" /\ x.step # "next"
      BY <1>2, <2>2 DEF Pinning, Downloaded
    <3> QED
      BY <1>1, <1>2, <2>2, <3>1, WatcherMove DEF Pinning
  <2> QED
    BY <2>1, <2>2 DEF Tasks
<1>3. CASE Moves(c, Idle)
  BY <1>2, <1>3, Fields
<1>4. ASSUME NEW libs \in SUBSET Builds, Moves(c, Opened(c, libs)) PROVE Pinning'
  <2> DEFINE x == Opened(c, libs)
  <2>1. /\ x.step = "register" /\ x.op = call[c].op /\ x.kind = call[c].kind
        /\ x.todo = call[c].todo
    BY Fields
  <2> HIDE DEF x
  <2>2. Moves(c, x)
    BY <1>4 DEF x
  <2> QED
    BY <1>2, <2>1, <2>2
<1>5. ASSUME NEW step \in {"inject", "retain"}, Moves(c, [call[c] EXCEPT !.step = step])
      PROVE  Pinning'
  <2> DEFINE x == [call[c] EXCEPT !.step = step]
  <2>1. /\ x.step = step /\ x.op = call[c].op /\ x.kind = call[c].kind
        /\ x.todo = call[c].todo
    BY Fields
  <2> HIDE DEF x
  <2>2. Moves(c, x)
    BY <1>5 DEF x
  <2> QED
    BY <1>2, <2>1, <2>2
<1>6. CASE call[c].op = "reinstall" /\ Moves(c, Again(c))
  BY <1>2, <1>6, Fields
<1>7. CASE LoadFile(c) \/ LoadDir(c)
  BY <1>3, <1>4, <1>7, LoadMoves
<1>8. CASE Register(c)
  BY <1>5, <1>8, GotoMoves DEF Register, Steps
<1>9. CASE InjectResolver(c)
  BY <1>5, <1>9, GotoMoves DEF InjectResolver, Steps
<1>10. CASE Retain(c)
  BY <1>3, <1>6, <1>10, ProceedMoves DEF Retain
<1>11. CASE Create(c) \/ Cancel(c)
  BY <1>3, <1>11, ReturnMoves DEF Create, Cancel
<1> QED
  BY <1>7, <1>8, <1>9, <1>10, <1>11 DEF Loading

LEMMA NextPinning == ApartFiles /\ Typed /\ Pinning /\ [Next]_vars => Pinning'
<1> SUFFICES ASSUME ApartFiles, Typed, Pinning, [Next]_vars PROVE Pinning'
  OBVIOUS
<1> USE CallersApart
<1>1. ASSUME NEW c \in Callers, Begin(c) \/ Cancel(c) PROVE Pinning'
  BY <1>1, BeginPinning, OtherPinning
<1>2. ASSUME NEW c \in Tasks, Step(c) PROVE Pinning'
  BY <1>2, NextPinPinning, DownloadPinning, HashPinning, OtherPinning DEF Step
<1>3. CASE WriteLockfile \/ WatchPlugins
  BY <1>3 DEF WriteLockfile, WatchPlugins, Pinning, Exclusive, Downloaded, Wanted, PinsAreTrue,
     OnFile, At, files, pins
<1>4. ASSUME NEW k \in Kinds, WatchEvent(k) PROVE Pinning'
  <2>1. Moves(Watcher, WatchOf(k)) /\ WatchOf(k).step = "load" /\ WatchOf(k).op = "watch"
    BY <1>4, WatchMoves DEF WatchOf, Idle
  <2>2. Exclusive' /\ Downloaded' /\ Wanted'
    BY <1>4, <2>1, WatcherMove DEF WatchEvent
  <2> QED
    BY <1>4, <2>2 DEF WatchEvent, pins, Pinning, PinsAreTrue
<1>5. ASSUME NEW k \in Kinds, CopyBegins(k) \/ Remove(k) PROVE Pinning'
  <2>1. \A c \in Callers : call[c].kind # k /\ call[c].op # "reinstall"
    BY <1>5 DEF CopyBegins, Remove, Free
  <2>2. call' = call /\ \A l \in Kinds : l # k => disk'[l] = disk[l]
    BY <1>5 DEF CopyBegins, Remove, Write, Typed, TypeOK
  <2> QED
    BY <1>5, <2>1, <2>2, FileMove DEF CopyBegins, Remove, pins, Pinning, PinsAreTrue
<1>6. ASSUME NEW b \in Builds, CopyEnds(b) PROVE Pinning'
  <2>1. KindOf[b] \in Kinds
    BY Assumptions
  <2>2. \A c \in Callers : call[c].kind # KindOf[b] /\ call[c].op # "reinstall"
    BY <1>6, <2>1 DEF CopyEnds, Pinning, Exclusive
  <2>3. call' = call /\ \A l \in Kinds : l # KindOf[b] => disk'[l] = disk[l]
    BY <1>6 DEF CopyEnds, Write, Typed, TypeOK
  <2> QED
    BY <1>6, <2>1, <2>2, <2>3, FileMove DEF CopyEnds, pins, Pinning, PinsAreTrue
<1>7. ASSUME NEW k \in Kinds, Lagged(k) PROVE Pinning'
  BY <1>7 DEF Lagged, Pinning, Exclusive, Downloaded, Wanted, PinsAreTrue, OnFile, At, pins
<1>8. CASE Restart
  <2>1. \A c \in Tasks : /\ call'[c].step = "idle" /\ call'[c].op = "none"
                        /\ call'[c].kind = None
    BY <1>8 DEF Restart, Idle
  <2>2. \A k \in Kinds : k # None
    BY Assumptions
  <2>3. Exclusive'
    BY <2>1, <2>2 DEF Exclusive
  <2>4. Downloaded' /\ Wanted'
    BY <2>1 DEF Downloaded, Wanted, OnFile, At
  <2> QED
    BY <1>8, <2>3, <2>4 DEF Restart, Pinning, PinsAreTrue
<1>9. CASE UNCHANGED vars
  BY <1>9 DEF vars, files, pins, Pinning, Exclusive, Downloaded, Wanted, PinsAreTrue, OnFile, At
<1> QED
  BY <1>1, <1>2, <1>3, <1>4, <1>5, <1>6, <1>7, <1>8, <1>9 DEF Next, Files

-----------------------------------------------------------------------------
(* Descriptors                                                             *)

\* A step of c that injects and retains what it stops loading, or abandons it.
HandsOn(c, x) ==
  /\ injected \subseteq injected' /\ retained \subseteq retained'
  /\ abandoned \subseteq retained' \union abandoned'
  /\ \/ call[c].step # "inject"
     \/ x.step = "inject" /\ x.libs = call[c].libs
     \/ call[c].libs \subseteq injected'
  /\ \/ call[c].step \notin {"inject", "retain"}
     \/ x.step \in {"inject", "retain"} /\ x.libs = call[c].libs
     \/ call[c].libs \subseteq retained' \union abandoned'

\* What can be used can be used after it.
LEMMA StaysUsable ==
  ASSUME Typed, NEW c \in Tasks, NEW x, Moves(c, x), HandsOn(c, x), NEW b, Usable(b)
  PROVE  Usable(b)'
<1>1. b \in injected' \/ Injecting(b)'
  <2>1. CASE b \in injected
    BY <2>1 DEF HandsOn
  <2>2. ASSUME NEW d \in Tasks, call[d].step = "inject", b \in call[d].libs
        PROVE  b \in injected' \/ Injecting(b)'
    <3>1. CASE d = c
      BY <2>2, <3>1 DEF HandsOn, Moves, Injecting, At
    <3>2. CASE d # c
      BY <2>2, <3>2 DEF Moves, Injecting, At
    <3> QED
      BY <3>1, <3>2
  <2> QED
    BY <2>1, <2>2 DEF Usable, Injecting, At
<1>2. b \in retained' \/ BeingLoaded(b)' \/ b \in abandoned'
  <2>1. CASE b \in retained \union abandoned
    BY <2>1 DEF HandsOn
  <2>2. ASSUME NEW d \in Tasks, b \in call[d].libs, call[d].step \in {"inject", "retain"}
        PROVE  b \in retained' \/ BeingLoaded(b)' \/ b \in abandoned'
    <3>1. CASE d = c
      BY <2>2, <3>1 DEF HandsOn, Moves, BeingLoaded
    <3>2. CASE d # c
      BY <2>2, <3>2 DEF Moves, BeingLoaded
    <3> QED
      BY <3>1, <3>2
  <2> QED
    BY <2>1, <2>2 DEF Usable, BeingLoaded
<1> QED
  BY <1>1, <1>2 DEF Usable

\* Such a step, if it leaves the registry alone and creates from what can be used.
LEMMA UsingMove ==
  ASSUME Typed, Using, NEW c \in Tasks, NEW x, Moves(c, x), HandsOn(c, x),
         registry' = registry,
         x.step = "create" /\ c \in Callers => Usable(x.build)
  PROVE  Using'
<1>1. CreatedIsUsable'
  <2> SUFFICES ASSUME NEW d \in Callers, call'[d].step = "create"
               PROVE  Usable(call[d].build)'
    BY DEF CreatedIsUsable, At
  <2>1. Usable(call'[d].build)
    BY CallersApart DEF Using, CreatedIsUsable, Moves, At
  <2>2. \A b : Usable(b) => Usable(b)'
    BY StaysUsable
  <2>3. Usable(call[d].build)' <=> (\A b : b = call'[d].build => Usable(b)')
    BY DEF Usable, Injecting, BeingLoaded, At
  <2> QED
    BY <2>1, <2>2, <2>3
<1>2. Registered'
  <2> SUFFICES ASSUME NEW k \in Kinds, registry[k] # None
               PROVE  Usable(registry[k])'
    BY DEF Registered
  <2>1. \A b : Usable(b) => Usable(b)'
    BY StaysUsable
  <2>2. Usable(registry[k])' <=> (\A b : b = registry[k] => Usable(b)')
    BY DEF Usable, Injecting, BeingLoaded, At
  <2> QED
    BY <2>1, <2>2 DEF Using, Registered
<1> QED
  BY <1>1, <1>2 DEF Using

\* A call that is neither loading nor about to create.
LEMMA UsingPlain ==
  ASSUME Typed, Using, NEW c \in Tasks, NEW x, Moves(c, x), UNCHANGED host,
         x.step # "create",
         call[c].step \notin {"inject", "retain"}
  PROVE  Using'
<1>1. registry' = registry /\ HandsOn(c, x)
  BY DEF host, HandsOn
<1> QED
  BY <1>1, UsingMove

LEMMA BeginUsing ==
  ASSUME Typed, Using, NEW c \in Callers, Begin(c)
  PROVE  Using'
<1> USE CallersApart
<1>0. UNCHANGED host /\ call[c].step = "idle"
  BY DEF Begin, BeginDownload, BeginReinstall, BeginLoadDir, LookUp, At
<1>1. ASSUME NEW op \in {"install", "pull"}, NEW b \in Builds, NEW load \in BOOLEAN,
             BeginDownload(c, op, b, load)
      PROVE  Using'
  <2> DEFINE x == DownloadOf(op, b, load)
  <2>1. Moves(c, x)
    BY <1>1, BeginMoves
  <2>2. x.step = "download"
    BY DEF DownloadOf, Idle
  <2> HIDE DEF x
  <2> QED
    BY <1>0, <2>1, <2>2, UsingPlain
<1>2. ASSUME NEW load \in BOOLEAN, BeginReinstall(c, load) PROVE Using'
  <2> DEFINE x == ReinstallOf(load)
  <2>1. Moves(c, x)
    BY <1>2, BeginMoves
  <2>2. x.step = "next"
    BY DEF ReinstallOf, Idle
  <2> HIDE DEF x
  <2> QED
    BY <1>0, <2>1, <2>2, UsingPlain
<1>3. ASSUME BeginLoadDir(c) PROVE Using'
  <2>1. Moves(c, LoadDirOf)
    BY <1>3, BeginMoves
  <2>2. LoadDirOf.step = "load"
    BY DEF LoadDirOf, Idle
  <2> QED
    BY <1>0, <2>1, <2>2, UsingPlain
<1>4. ASSUME NEW k \in Kinds, LookUp(c, k) PROVE Using'
  <2> DEFINE x == CreateOf(k)
  <2>1. Moves(c, x)
    BY <1>4, BeginMoves
  <2>2. x.step = "create" /\ x.build = registry[k]
    BY DEF CreateOf, Idle
  <2>3. Usable(registry[k])
    BY <1>4 DEF LookUp, Using, Registered
  <2> HIDE DEF x
  <2>4. registry' = registry /\ HandsOn(c, x)
    BY <1>0 DEF host, HandsOn
  <2> QED
    BY <1>0, <2>1, <2>2, <2>3, <2>4, UsingMove
<1> QED
  BY <1>1, <1>2, <1>3, <1>4 DEF Begin

\* Downloads, pins, files and the ends of calls that do not load.
LEMMA PlainUsing ==
  ASSUME Typed, Using, NEW c \in Tasks,
         \/ NextPin(c) \/ Download(c) \/ RecordInstall(c) \/ CheckHash(c)
         \/ LoadFile(c) \/ LoadDir(c) \/ Create(c)
         \/ Cancel(c) /\ ~At(c, "retain")
  PROVE  Using'
<1>1. UNCHANGED host /\ call[c].step \notin {"inject", "retain"}
  BY DEF NextPin, Download, RecordInstall, CheckHash, LoadFile, LoadDir, Create, Cancel, At, host
<1>2. ASSUME NEW x, Moves(c, x), x.step # "create" PROVE Using'
  BY <1>1, <1>2, UsingPlain
<1>3. CASE Moves(c, Idle) \/ Moves(c, Loads(c)) \/ Moves(c, Again(c))
  BY <1>2, <1>3, Fields
<1>4. ASSUME NEW libs \in SUBSET Builds, Moves(c, Opened(c, libs)) PROVE Using'
  <2> DEFINE x == Opened(c, libs)
  <2>1. x.step = "register"
    BY Fields
  <2> HIDE DEF x
  <2>2. Moves(c, x)
    BY <1>4 DEF x
  <2> QED
    BY <1>2, <2>1, <2>2
<1>5. ASSUME NEW step \in {"record", "check"}, Moves(c, [call[c] EXCEPT !.step = step])
      PROVE  Using'
  <2> DEFINE x == [call[c] EXCEPT !.step = step]
  <2>1. x.step = step
    BY Fields
  <2> HIDE DEF x
  <2>2. Moves(c, x)
    BY <1>5 DEF x
  <2> QED
    BY <1>2, <2>1, <2>2
<1>6. ASSUME NEW pin \in call[c].todo, Moves(c, OnPin(c, pin)) PROVE Using'
  <2>1. OnPin(c, pin).step = "download"
    BY DEF OnPin, Typed, TypeOK, Calls
  <2> QED
    BY <1>2, <1>6, <2>1
<1>7. CASE NextPin(c)
  BY <1>3, <1>6, <1>7, NextPinMoves
<1>8. CASE Download(c)
  BY <1>3, <1>5, <1>8, ReturnMoves, GotoMoves DEF Download, Steps
<1>9. CASE RecordInstall(c) \/ CheckHash(c)
  BY <1>3, <1>9, ContinueMoves, ReturnMoves DEF RecordInstall, CheckHash
<1>10. CASE LoadFile(c) \/ LoadDir(c)
  BY <1>3, <1>4, <1>10, LoadMoves
<1>11. CASE Create(c) \/ Cancel(c)
  BY <1>3, <1>11, ReturnMoves DEF Create, Cancel
<1> QED
  BY <1>7, <1>8, <1>9, <1>10, <1>11

\* register puts in the registry what it goes on to inject and retain.
LEMMA RegisterUsing ==
  ASSUME Typed, Using, NEW c \in Tasks, Register(c)
  PROVE  Using'
<1> DEFINE x == [call[c] EXCEPT !.step = "inject"]
<1>1. Moves(c, x)
  BY GotoMoves DEF Register, Steps
<1>2. x.step = "inject" /\ x.libs = call[c].libs
  BY Fields
<1> HIDE DEF x
<1>3. HandsOn(c, x) /\ call[c].step = "register"
  BY DEF Register, At, HandsOn
<1>4. \A b : Usable(b) => Usable(b)'
  BY <1>1, <1>3, StaysUsable
<1>5. \A b \in call[c].libs : Usable(b)'
  BY <1>1, <1>2 DEF Usable, Injecting, BeingLoaded, Moves, At
<1>6. CreatedIsUsable'
  <2> SUFFICES ASSUME NEW d \in Callers, call'[d].step = "create"
               PROVE  Usable(call[d].build)'
    BY DEF CreatedIsUsable, At
  <2>1. Usable(call'[d].build)
    BY <1>1, <1>2, CallersApart DEF Using, CreatedIsUsable, Moves, At
  <2>2. Usable(call[d].build)' <=> (\A b : b = call'[d].build => Usable(b)')
    BY DEF Usable, Injecting, BeingLoaded, At
  <2> QED
    BY <1>4, <2>1, <2>2
<1>7. Registered'
  <2> SUFFICES ASSUME NEW k \in Kinds, registry'[k] # None
               PROVE  Usable(registry[k])'
    BY DEF Registered
  <2>1. registry'[k] = registry[k] \/ registry'[k] \in call[c].libs
    BY DEF Register
  <2>2. Usable(registry[k])' <=> (\A b : b = registry'[k] => Usable(b)')
    BY DEF Usable, Injecting, BeingLoaded, At
  <2> QED
    BY <1>4, <1>5, <2>1, <2>2 DEF Using, Registered
<1> QED
  BY <1>6, <1>7 DEF Using

\* It injects, and retains unless it is cancelled.
LEMMA LoadingUsing ==
  ASSUME Typed, Using, NEW c \in Tasks,
         InjectResolver(c) \/ Retain(c) \/ (Cancel(c) /\ At(c, "retain"))
  PROVE  Using'
<1>1. CASE InjectResolver(c)
  <2> DEFINE x == [call[c] EXCEPT !.step = "retain"]
  <2>1. Moves(c, x)
    BY <1>1, GotoMoves DEF InjectResolver, Steps
  <2>2. x.step = "retain" /\ x.libs = call[c].libs
    BY Fields
  <2> HIDE DEF x
  <2>3. registry' = registry /\ HandsOn(c, x)
    BY <1>1, <2>2 DEF InjectResolver, HandsOn
  <2> QED
    BY <2>1, <2>2, <2>3, UsingMove
<1>2. CASE Retain(c)
  <2>1. \A x : registry' = registry /\ HandsOn(c, x)
    BY <1>2 DEF Retain, At, HandsOn
  <2>2. Moves(c, Again(c)) \/ Moves(c, Idle)
    BY <1>2, ProceedMoves DEF Retain
  <2>3. Again(c).step = "next" /\ Idle.step = "idle"
    BY Fields
  <2>4. CASE Moves(c, Again(c))
    BY <2>1, <2>3, <2>4, UsingMove
  <2>5. CASE Moves(c, Idle)
    BY <2>1, <2>3, <2>5, UsingMove
  <2> QED
    BY <2>2, <2>4, <2>5
<1>3. CASE Cancel(c) /\ At(c, "retain")
  <2>1. registry' = registry /\ HandsOn(c, Idle)
    BY <1>3 DEF Cancel, At, HandsOn
  <2>2. Moves(c, Idle) /\ Idle.step = "idle"
    BY <1>3, ReturnMoves, Fields DEF Cancel
  <2> QED
    BY <2>1, <2>2, UsingMove
<1> QED
  BY <1>1, <1>2, <1>3

LEMMA InitUsing == Init => Using
BY DEF Init, Idle, Using, Registered, CreatedIsUsable, At, Tasks

LEMMA NextUsing == Typed /\ Using /\ [Next]_vars => Using'
<1> SUFFICES ASSUME Typed, Using, [Next]_vars PROVE Using'
  OBVIOUS
<1> USE CallersApart
<1>1. ASSUME NEW c \in Callers, Begin(c) \/ Cancel(c) PROVE Using'
  BY <1>1, BeginUsing, PlainUsing, LoadingUsing
<1>2. ASSUME NEW c \in Tasks, Step(c) PROVE Using'
  BY <1>2, PlainUsing, RegisterUsing, LoadingUsing DEF Step, Loading
<1>3. CASE UNCHANGED host /\ UNCHANGED call
  BY <1>3
  DEF Using, Registered, CreatedIsUsable, Usable, Injecting, BeingLoaded, At, host
<1>4. CASE WriteLockfile \/ WatchPlugins
  BY <1>3, <1>4 DEF WriteLockfile, WatchPlugins
<1>5. ASSUME NEW k \in Kinds, WatchEvent(k) PROVE Using'
  <2>1. Moves(Watcher, WatchOf(k)) /\ WatchOf(k).step = "load"
    BY <1>5, WatchMoves DEF WatchOf, Idle
  <2> QED
    BY <1>5, <2>1, UsingPlain DEF WatchEvent, At
<1>6. CASE Files
  BY <1>3, <1>6 DEF Files, CopyBegins, Remove, Lagged, CopyEnds
<1>7. CASE Restart
  <2>1. \A c \in Tasks : call'[c].step = "idle"
    BY <1>7 DEF Restart, Idle
  <2> QED
    BY <1>7, <2>1 DEF Restart, Using, Registered, CreatedIsUsable, At
<1>8. CASE UNCHANGED vars
  BY <1>3, <1>8 DEF vars
<1> QED
  BY <1>1, <1>2, <1>4, <1>5, <1>6, <1>7, <1>8 DEF Next

-----------------------------------------------------------------------------
(* The watcher                                                             *)

\* The watcher's call is idle or a load, and has opened nothing before it registers.
Watching ==
  /\ call[Watcher].op \in {"none", "watch"}
  /\ call[Watcher].step \in {"idle", "load", "register", "inject", "retain"}
  /\ call[Watcher].step \in {"idle", "load"} => call[Watcher].libs = {}

Noticing == Watching /\ NoticedIsLoaded

\* While the watcher's own call stands still, a file may be written, deleted or its
\* event missed, and libraries may be retained.
LEMMA StillNoticing ==
  ASSUME Typed, Noticing, call'[Watcher] = call[Watcher], retained \subseteq retained',
         \/ UNCHANGED files
         \/ \E k \in Kinds, contents \in Contents : Write(k, contents)
         \/ \E k \in Kinds : Remove(k) \/ Lagged(k)
  PROVE  Noticing'
<1>1. Watching'
  BY DEF Noticing, Watching
<1>2. ASSUME NEW b \in Builds, disk'[KindOf[b]] = b, KindOf[b] \in noticed'
      PROVE  \/ KindOf[b] \in events'
             \/ disk[KindOf[b]] = b /\ KindOf[b] \in noticed
                  /\ (KindOf[b] \in events => KindOf[b] \in events')
  <2>1. KindOf[b] \in Kinds /\ b # None
    BY Assumptions
  <2> QED
    BY <1>2, <2>1 DEF files, Write, Remove, Lagged, Typed, TypeOK
<1>3. NoticedIsLoaded'
  BY <1>2 DEF Noticing, NoticedIsLoaded, At
<1> QED
  BY <1>1, <1>3 DEF Noticing

\* The calls of the application.
LEMMA CallersNoticing ==
  ASSUME Typed, Noticing, NEW c \in Callers, Begin(c) \/ Cancel(c) \/ Step(c)
  PROVE  Noticing'
<1>1. c # Watcher /\ c \in Tasks /\ Watcher \in Tasks /\ call \in [Tasks -> Calls]
  BY CallersApart DEF Typed, TypeOK
<1>2. CASE Begin(c) \/ Cancel(c)
  <2>1. UNCHANGED files /\ UNCHANGED retained /\ call'[Watcher] = call[Watcher]
    BY <1>1, <1>2 DEF Begin, BeginDownload, BeginReinstall, BeginLoadDir, LookUp, Cancel,
       Return, host
  <2> QED
    BY <2>1, StillNoticing
<1>3. CASE NextPin(c) \/ RecordInstall(c) \/ CheckHash(c) \/ Loading(c) \/ Create(c)
  <2>1. UNCHANGED files /\ retained \subseteq retained'
    BY <1>3 DEF NextPin, RecordInstall, CheckHash, Loading, LoadFile, LoadDir, Register,
       InjectResolver, Retain, Create, host
  <2>2. call'[Watcher] = call[Watcher]
    BY <1>1, <1>3 DEF NextPin, RecordInstall, CheckHash, Loading, LoadFile, LoadDir, Register,
       InjectResolver, Retain, Create, Return, Goto, Proceed, Continue
  <2> QED
    BY <2>1, <2>2, StillNoticing
<1>4. CASE Download(c)
  <2>1. UNCHANGED retained /\ call'[Watcher] = call[Watcher]
    BY <1>1, <1>4 DEF Download, Return, Goto, host
  <2>2. call[c].build \in Builds /\ call[c].kind \in Kinds
    BY <1>1, <1>4, Assumptions DEF Download, Typed, Shaped, OnFile
  <2>3. \/ UNCHANGED files
        \/ \E k \in Kinds, contents \in Contents : Write(k, contents)
    BY <1>4, <2>2 DEF Download, Contents
  <2> QED
    BY <2>1, <2>3, StillNoticing
<1> QED
  BY <1>2, <1>3, <1>4 DEF Step

\* The watcher's load: what it opens is what is in the file, and it ends when that is
\* retained, or when there is no plugin in the file.
LEMMA LoadNoticing ==
  ASSUME Typed, Noticing, Step(Watcher)
  PROVE  Noticing'
<1>1. Watcher \in Tasks /\ call[Watcher] \in Calls
  BY CallersApart DEF Typed, TypeOK
<1>2. Loading(Watcher) /\ ~LoadDir(Watcher)
  BY DEF Step, NextPin, Download, RecordInstall, CheckHash, Create, LoadDir, At, Noticing, Watching
<1>3. UNCHANGED files
  BY <1>2 DEF Loading, LoadFile, Register, InjectResolver, Retain
<1>4. CASE LoadFile(Watcher)
  <2>1. CASE disk[call[Watcher].kind] \in Builds
    <3> DEFINE x == Opened(Watcher, {disk[call[Watcher].kind]})
    <3>1. call' = [call EXCEPT ![Watcher] = x]
      BY <1>4, <2>1 DEF LoadFile, Opened
    <3>2. x.step = "register" /\ x.op = call[Watcher].op /\ x.libs = {disk[call[Watcher].kind]}
      BY <1>1, Fields
    <3> HIDE DEF x
    <3>3. call'[Watcher] = x
      BY <1>1, <3>1 DEF Typed, TypeOK
    <3>4. UNCHANGED retained
      BY <1>4 DEF LoadFile, host
    <3> QED
      BY <1>3, <1>4, <3>2, <3>3, <3>4 DEF LoadFile, Noticing, Watching, NoticedIsLoaded, At, files
  <2>2. CASE disk[call[Watcher].kind] \notin Builds
    <3>1. call'[Watcher] = Idle /\ UNCHANGED retained
      BY <1>1, <1>4, <2>2 DEF LoadFile, Return, host, Typed, TypeOK
    <3> QED
      BY <1>3, <1>4, <2>2, <3>1
         DEF LoadFile, Idle, Noticing, Watching, NoticedIsLoaded, At, files
  <2> QED
    BY <2>1, <2>2
<1>5. CASE Register(Watcher) \/ InjectResolver(Watcher)
  <2>1. PICK step \in {"inject", "retain"} : Goto(Watcher, step)
    BY <1>5 DEF Register, InjectResolver
  <2> DEFINE x == [call[Watcher] EXCEPT !.step = step]
  <2>2. x.step = step /\ x.op = call[Watcher].op /\ x.libs = call[Watcher].libs
    BY <1>1, Fields
  <2>3. call'[Watcher] = x
    BY <1>1, <2>1 DEF Goto, Typed, TypeOK
  <2> HIDE DEF x
  <2>4. UNCHANGED retained /\ ~At(Watcher, "load")
    BY <1>5 DEF Register, InjectResolver, At
  <2> QED
    BY <1>3, <2>2, <2>3, <2>4 DEF Noticing, Watching, NoticedIsLoaded, At, files
<1>6. CASE Retain(Watcher)
  <2>1. call'[Watcher] = Idle
    BY <1>1, <1>6 DEF Retain, Proceed, Noticing, Watching, Typed, TypeOK
  <2>2. retained' = retained \union call[Watcher].libs /\ ~At(Watcher, "load")
    BY <1>6 DEF Retain, At
  <2> QED
    BY <1>3, <2>1, <2>2 DEF Idle, Noticing, Watching, NoticedIsLoaded, At, files
<1> QED
  BY <1>2, <1>4, <1>5, <1>6 DEF Loading

LEMMA NextNoticing == Typed /\ Noticing /\ [Next]_vars => Noticing'
<1> SUFFICES ASSUME Typed, Noticing, [Next]_vars PROVE Noticing'
  OBVIOUS
<1>1. ASSUME NEW c \in Callers, Begin(c) \/ Cancel(c) PROVE Noticing'
  BY <1>1, CallersNoticing
<1>2. ASSUME NEW c \in Tasks, Step(c) PROVE Noticing'
  BY <1>2, CallersNoticing, LoadNoticing DEF Tasks
<1>3. CASE WriteLockfile \/ WatchPlugins \/ UNCHANGED vars
  <2>1. UNCHANGED <<disk, events, noticed, call, retained>>
    BY <1>3 DEF WriteLockfile, WatchPlugins, vars, files, host
  <2> QED
    BY <2>1, StillNoticing DEF files
<1>4. ASSUME NEW k \in Kinds, WatchEvent(k) PROVE Noticing'
  <2>1. call'[Watcher] = WatchOf(k)
    BY <1>4, WatchMoves DEF Moves
  <2>2. WatchOf(k).op = "watch" /\ WatchOf(k).step = "load" /\ WatchOf(k).kind = k /\ WatchOf(k).libs = {}
    BY DEF WatchOf, Idle
  <2>3. /\ events' = events \ {k} /\ UNCHANGED <<disk, noticed, retained>>
        /\ At(Watcher, "idle")
    BY <1>4 DEF WatchEvent, host
  <2> QED
    BY <2>1, <2>2, <2>3 DEF Noticing, Watching, NoticedIsLoaded, At
<1>5. CASE Files
  <2>1. UNCHANGED retained /\ call'[Watcher] = call[Watcher]
    BY <1>5 DEF Files, CopyBegins, CopyEnds, Remove, Lagged, host
  <2>2. \/ \E k \in Kinds, contents \in Contents : Write(k, contents)
        \/ \E k \in Kinds : Remove(k) \/ Lagged(k)
    BY <1>5, Assumptions DEF Files, CopyBegins, CopyEnds, Contents
  <2> QED
    BY <2>1, <2>2, StillNoticing
<1>6. CASE Restart
  <2>1. call'[Watcher] = Idle /\ noticed' = {}
    BY <1>6, CallersApart DEF Restart
  <2> QED
    BY <2>1 DEF Idle, Noticing, Watching, NoticedIsLoaded
<1> QED
  BY <1>1, <1>2, <1>3, <1>4, <1>5, <1>6 DEF Next

-----------------------------------------------------------------------------
(* The theorems                                                            *)

\* The types hold of every state, with the shape of the calls that download.
THEOREM TypedInvariance == Spec => []Typed
BY InitTyped, NextTyped, PTL DEF Spec

\* Every variable keeps its type: whatever is downloaded, recorded or loaded is
\* about a build and the file of its kind.
THEOREM TypeCorrect == Spec => []TypeOK
<1>1. Typed => TypeOK
  BY DEF Typed
<1> QED
  BY <1>1, TypedInvariance, PTL

\* An application that works on each file from one side at a time has true pins:
\* record_install hashes the build it is called for (engine.rs:1476-1479), and
\* install_from_lockfile finds the hashes it looks for (engine.rs:1605-1615).
THEOREM PinsTrue == ASSUME ApartFiles PROVE Spec => []PinsAreTrue
<1>1. Init => Pinning
  BY InitPinning
<1>2. Typed /\ Pinning /\ [Next]_vars => Pinning'
  BY NextPinning
<1>3. Pinning => PinsAreTrue
  BY DEF Pinning
<1> QED
  BY <1>1, <1>2, <1>3, TypedInvariance, PTL DEF Spec

\* Whatever is loaded, watched or cancelled beside it, what a component is made from
\* can resolve its references, unless a load is between the registry and the resolver,
\* and its library is open, unless a load of it was cancelled at register's second lock
\* (plugins.rs:381-392).
THEOREM CreatedUsable == Spec => []CreatedIsUsable
<1>1. Typed /\ Using /\ [Next]_vars => Using'
  BY NextUsing
<1>2. Using => CreatedIsUsable
  BY DEF Using
<1> QED
  BY <1>1, <1>2, InitUsing, TypedInvariance, PTL DEF Spec

\* A plugin whose file changed under the watcher is loaded, on its way to it, or still
\* has an event, whatever else is downloaded, copied, loaded or cancelled meanwhile, for
\* any number of plugins and calls (PluginHost::watch, plugins.rs:547-586).
THEOREM NoticedLoaded == Spec => []NoticedIsLoaded
<1>1. Init => Noticing
  BY CallersApart DEF Init, Idle, Noticing, Watching, NoticedIsLoaded
<1>2. Noticing => NoticedIsLoaded
  BY DEF Noticing
<1> QED
  BY <1>1, <1>2, NextNoticing, TypedInvariance, PTL DEF Spec

=============================================================================
