----------------------------- MODULE PluginHost -----------------------------
(***************************************************************************)
(* plugins.rs: the host of one engine's plugins, and the calls of          *)
(* engine.rs that download, pin, load, watch and use them.                 *)
(*                                                                         *)
(* A build is one published artifact; its name on disk follows from its    *)
(* kind alone, so builds of one kind share a file, and the hash of a file  *)
(* says which build it is.  The OCI registry, the loader, the watcher and  *)
(* the lockfile format are drasi-host-sdk's.  All files are in one         *)
(* directory.                                                              *)
(***************************************************************************)
EXTENDS Integers

CONSTANTS
  Builds,      \* the artifacts of the registry
  Kinds,       \* the kinds they provide
  KindOf,      \* KindOf[b]: the kind of build b
  Callers,     \* tasks of the application that call the engine
  Does,        \* Does[c]: the calls that c makes
  Watcher,     \* the task of watch_plugins
  None,        \* no build, no kind
  Partial,     \* a file that is half copied
  ApartFiles,  \* the application never works on one file from two sides
  Cancellable  \* the steps at which it cancels a call

Requests == {"install", "reinstall", "pull", "load_dir", "create"}

ASSUME Assumptions ==
  /\ KindOf \in [Builds -> Kinds]
  /\ Watcher \notin Callers
  /\ Does \in [Callers -> SUBSET Requests]
  /\ None \notin Builds \union Kinds /\ Partial \notin Builds /\ None # Partial
  /\ ApartFiles \in BOOLEAN

VARIABLES
  disk,      \* the file of each kind
  registry,  \* the build whose descriptor is registered for each kind
  injected,  \* libraries that have the host's resolver
  retained,  \* libraries that PluginHost::loaded keeps open
  installed, \* installed[b]: the hash recorded for b, or None
  lockfile,  \* what plugins.lock says, in the same form
  watching,  \* the watcher runs
  events,    \* files the watcher has an event for
  call,      \* the call of each caller, and the watcher's load
  noticed,   \* history: files whose last change made an event that was not missed
  refused,   \* history: install_from_lockfile found another hash
  abandoned  \* history: libraries of cancelled calls that no call has retained

host == <<registry, injected, retained, abandoned>>
files == <<disk, events, noticed>>
pins == <<installed, lockfile, refused>>
vars == <<files, host, pins, watching, call>>

Tasks == Callers \union {Watcher}
Contents == Builds \union {None, Partial}
Ops == Requests \union {"none", "watch"}
Steps == {"idle", "next", "download", "record", "check", "load", "register",
          "inject", "retain", "create"}

\* `build` is what the call is about, `want` the hash it expects, `todo` the
\* pins still to do, `libs` the libraries it has opened.
Calls == [op : Ops, step : Steps, build : Builds \union {None},
          kind : Kinds \union {None}, want : Contents, load : BOOLEAN,
          todo : SUBSET (Builds \X Contents), libs : SUBSET Builds]
Idle == [op |-> "none", step |-> "idle", build |-> None, kind |-> None, want |-> None,
         load |-> FALSE, todo |-> {}, libs |-> {}]

At(c, step) == call[c].step = step
Goto(c, step) == call' = [call EXCEPT ![c].step = step]
Return(c) == call' = [call EXCEPT ![c] = Idle]

\* What follows one plugin: the next pin, or the end of the call.
Proceed(c) ==
  call' = [call EXCEPT ![c] =
             IF @.op = "reinstall"
             THEN [@ EXCEPT !.step = "next", !.build = None, !.kind = None,
                            !.want = None, !.libs = {}]
             ELSE Idle]

\* The file is on disk: load it if the caller said so.
Continue(c) ==
  IF call[c].load
  THEN call' = [call EXCEPT ![c].step = "load", ![c].build = None, ![c].want = None]
  ELSE Proceed(c)

\* A file changes; a running watcher gets an event for it.
Write(k, contents) ==
  /\ disk' = [disk EXCEPT ![k] = contents]
  /\ events' = IF watching THEN events \union {k} ELSE events
  /\ noticed' = IF watching THEN noticed \union {k} ELSE noticed \ {k}

\* No other call, and no copy from outside, is at work on the file.
Free(k) == ApartFiles =>
  /\ disk[k] # Partial
  /\ \A c \in Callers : call[c].kind # k /\ call[c].op # "reinstall"

-----------------------------------------------------------------------------
(* Downloading                                                             *)

\* install_plugin and pull_plugin: the reference resolves to build b.
BeginDownload(c, op, b, load) ==
  /\ At(c, "idle") /\ Free(KindOf[b])
  /\ call' = [call EXCEPT ![c] = [Idle EXCEPT !.op = op, !.step = "download",
                                    !.build = b, !.kind = KindOf[b], !.load = load]]
  /\ UNCHANGED <<files, host, pins, watching>>

Pinned == {b \in Builds : lockfile[b] # None}

\* install_from_lockfile reads the lockfile when it is called.
BeginReinstall(c, load) ==
  /\ At(c, "idle") /\ \A k \in Kinds : Free(k)
  /\ Pinned # {}
  /\ call' = [call EXCEPT ![c] = [Idle EXCEPT !.op = "reinstall", !.step = "next",
                !.load = load, !.todo = {<<b, lockfile[b]>> : b \in Pinned}]]
  /\ UNCHANGED <<files, host, pins, watching>>

NextPin(c) ==
  /\ At(c, "next")
  /\ IF call[c].todo = {} THEN Return(c)
     ELSE \E pin \in call[c].todo :
            call' = [call EXCEPT ![c].step = "download", ![c].build = pin[1],
                       ![c].kind = KindOf[pin[1]], ![c].want = pin[2],
                       ![c].todo = @ \ {pin}]
  /\ UNCHANGED <<files, host, pins, watching>>

\* pull_plugin ends with the file on disk, and so does an install that wants a
\* signature the file lacks.  A download may fail.
Download(c) ==
  /\ At(c, "download")
  /\ \/ /\ Write(call[c].kind, call[c].build)
        /\ \/ call[c].op = "install" /\ Goto(c, "record")
           \/ call[c].op = "reinstall" /\ Goto(c, "check")
           \/ call[c].op # "reinstall" /\ Return(c)
     \/ Return(c) /\ UNCHANGED files
  /\ UNCHANGED <<host, pins, watching>>

\* Mutant of RecordInstall: entries keyed by file name
RecordByFileName(c) ==
  /\ At(c, "record")
  /\ installed' = [b \in Builds |-> IF b = call[c].build \/
                                       (installed[b] # None /\ KindOf[b] = call[c].kind)
                                    THEN disk[call[c].kind] ELSE installed[b]]
  /\ Continue(c)
  /\ UNCHANGED <<files, host, lockfile, refused, watching>>

\* record_install hashes the file it finds; a pin without a hash counts as none.
RecordInstall(c) ==
  /\ At(c, "record")
  /\ installed' = [installed EXCEPT ![call[c].build] = disk[call[c].kind]]
  /\ Continue(c)
  /\ UNCHANGED <<files, host, lockfile, refused, watching>>

\* install_from_lockfile hashes it too, and records nothing.
CheckHash(c) ==
  /\ At(c, "check")
  /\ IF disk[call[c].kind] = call[c].want
     THEN Continue(c) /\ UNCHANGED refused
     ELSE /\ Return(c)
          /\ refused' = TRUE
  /\ UNCHANGED <<files, host, installed, lockfile, watching>>

WriteLockfile ==
  /\ \E b \in Builds : installed[b] # None
  /\ lockfile' = installed
  /\ UNCHANGED <<files, host, installed, refused, watching, call>>

-----------------------------------------------------------------------------
(* Loading                                                                 *)

BeginLoadDir(c) ==
  /\ At(c, "idle")
  /\ call' = [call EXCEPT ![c] = [Idle EXCEPT !.op = "load_dir", !.step = "load"]]
  /\ UNCHANGED <<files, host, pins, watching>>

\* load_file fails on a file that is not a plugin.
LoadFile(c) ==
  /\ At(c, "load") /\ call[c].op # "load_dir"
  /\ IF disk[call[c].kind] \in Builds
     THEN call' = [call EXCEPT ![c].step = "register", ![c].libs = {disk[call[c].kind]}]
     ELSE Return(c)
  /\ UNCHANGED <<files, host, pins, watching>>

\* load_dir passes over those, and over the ones the caller's hashes exclude.
VerifiedCandidates(expected) == {b \in Builds \intersect expected : disk[KindOf[b]] = b}

LoadDir(c) ==
  /\ At(c, "load") /\ call[c].op = "load_dir"
  /\ \E expected \in SUBSET Builds :
       call' = [call EXCEPT ![c].step = "register",
                            ![c].libs = VerifiedCandidates(expected)]
  /\ UNCHANGED <<files, host, pins, watching>>

\* Mutant of InjectResolver: forgotten for what the watcher loads
InjectUnlessWatched(c) ==
  /\ At(c, "inject")
  /\ injected' = IF call[c].op = "watch" THEN injected ELSE injected \union call[c].libs
  /\ Goto(c, "retain")
  /\ UNCHANGED <<files, registry, retained, abandoned, pins, watching>>

\* register, in three: under the registry's lock, after it, and under the lock
\* of the loaded libraries.
Register(c) ==
  /\ At(c, "register")
  /\ registry' = [k \in Kinds |-> IF \E b \in call[c].libs : KindOf[b] = k
                                  THEN CHOOSE b \in call[c].libs : KindOf[b] = k
                                  ELSE registry[k]]
  /\ Goto(c, "inject")
  /\ UNCHANGED <<files, injected, retained, abandoned, pins, watching>>

InjectResolver(c) ==
  /\ At(c, "inject")
  /\ injected' = injected \union call[c].libs
  /\ Goto(c, "retain")
  /\ UNCHANGED <<files, registry, retained, abandoned, pins, watching>>

Retain(c) ==
  /\ At(c, "retain")
  /\ retained' = retained \union call[c].libs
  /\ abandoned' = abandoned \ call[c].libs
  /\ Proceed(c)
  /\ UNCHANGED <<files, registry, injected, pins, watching>>

\* The call's awaitable is cancelled; what it opened and nobody retains closes.
Cancel(c) ==
  /\ call[c].step \in Cancellable \ {"idle", "record", "check", "inject"}
  /\ abandoned' = IF At(c, "retain") THEN abandoned \union (call[c].libs \ retained)
                  ELSE abandoned
  /\ Return(c)
  /\ UNCHANGED <<files, registry, injected, retained, pins, watching>>

-----------------------------------------------------------------------------
(* Using a kind                                                            *)

\* add_source and add_reaction: look the kind's descriptor up, then have it
\* create the component.  An unknown kind is refused.
LookUp(c, k) ==
  /\ At(c, "idle")
  /\ registry[k] # None
  /\ call' = [call EXCEPT ![c] = [Idle EXCEPT !.op = "create", !.step = "create",
                !.build = registry[k]]]
  /\ UNCHANGED <<files, host, pins, watching>>

Create(c) ==
  /\ At(c, "create")
  /\ Return(c)
  /\ UNCHANGED <<files, host, pins, watching>>

-----------------------------------------------------------------------------
(* The watcher, and what happens to the files besides                      *)

WatchPlugins ==
  /\ ~watching
  /\ watching' = TRUE
  /\ UNCHANGED <<files, host, pins, call>>

\* Mutant of WatchEvent: a file seen before is not loaded again
WatchAdded(k) ==
  /\ k \in events /\ At(Watcher, "idle")
  /\ events' = events \ {k}
  /\ IF disk[k] # Partial /\ registry[k] # None THEN UNCHANGED call
     ELSE call' = [call EXCEPT ![Watcher] = [Idle EXCEPT !.op = "watch", !.step = "load",
                                               !.kind = k]]
  /\ UNCHANGED <<disk, noticed, host, pins, watching>>

\* Added and Changed load the file; a lag loses events.
WatchEvent(k) ==
  /\ k \in events /\ At(Watcher, "idle")
  /\ events' = events \ {k}
  /\ call' = [call EXCEPT ![Watcher] = [Idle EXCEPT !.op = "watch", !.step = "load",
                                          !.kind = k]]
  /\ UNCHANGED <<disk, noticed, host, pins, watching>>

Lagged(k) ==
  /\ k \in events
  /\ events' = events \ {k}
  /\ noticed' = noticed \ {k}
  /\ UNCHANGED <<disk, host, pins, watching, call>>

\* A file is copied in, in two steps, or deleted, which the watcher only logs.
CopyBegins(k) ==
  /\ Free(k)
  /\ Write(k, Partial)
  /\ UNCHANGED <<host, pins, watching, call>>
CopyEnds(b) ==
  /\ disk[KindOf[b]] = Partial
  /\ Write(KindOf[b], b)
  /\ UNCHANGED <<host, pins, watching, call>>
Remove(k) ==
  /\ Free(k) /\ disk[k] # None
  /\ disk' = [disk EXCEPT ![k] = None]
  /\ noticed' = noticed \ {k}
  /\ UNCHANGED <<events, host, pins, watching, call>>

\* The process ends and another begins in its place.
Restart ==
  /\ registry' = [k \in Kinds |-> None]
  /\ injected' = {} /\ retained' = {} /\ abandoned' = {}
  /\ installed' = [b \in Builds |-> None]
  /\ watching' = FALSE /\ events' = {} /\ noticed' = {}
  /\ call' = [c \in Tasks |-> Idle]
  /\ UNCHANGED <<disk, lockfile, refused>>

-----------------------------------------------------------------------------
Init ==
  /\ disk = [k \in Kinds |-> None]
  /\ registry = [k \in Kinds |-> None]
  /\ injected = {} /\ retained = {} /\ abandoned = {}
  /\ installed = [b \in Builds |-> None]
  /\ lockfile = [b \in Builds |-> None]
  /\ watching = FALSE
  /\ events = {}
  /\ call = [c \in Tasks |-> Idle]
  /\ noticed = {}
  /\ refused = FALSE

Loading(c) == LoadFile(c) \/ LoadDir(c) \/ Register(c) \/ InjectResolver(c) \/ Retain(c)
Step(c) ==
  \/ NextPin(c) \/ Download(c) \/ RecordInstall(c) \/ CheckHash(c)
  \/ Loading(c)
  \/ Create(c)

Begin(c) ==
  \/ \E op \in {"install", "pull"} \intersect Does[c], b \in Builds, load \in BOOLEAN :
       BeginDownload(c, op, b, load)
  \/ "reinstall" \in Does[c] /\ \E load \in BOOLEAN : BeginReinstall(c, load)
  \/ "load_dir" \in Does[c] /\ BeginLoadDir(c)
  \/ "create" \in Does[c] /\ \E k \in Kinds : LookUp(c, k)

Files ==
  \/ \E k \in Kinds : CopyBegins(k) \/ Remove(k) \/ Lagged(k)
  \/ \E b \in Builds : CopyEnds(b)

Next ==
  \/ \E c \in Callers : Begin(c) \/ Cancel(c)
  \/ \E c \in Tasks : Step(c)
  \/ WriteLockfile
  \/ WatchPlugins
  \/ \E k \in Kinds : WatchEvent(k)
  \/ Files
  \/ Restart

Spec == Init /\ [][Next]_vars
FairSpec == Spec /\ \A k \in Kinds : WF_vars(WatchEvent(k)) /\ WF_vars(Loading(Watcher))

-----------------------------------------------------------------------------
TypeOK ==
  /\ disk \in [Kinds -> Contents]
  /\ registry \in [Kinds -> Builds \union {None}]
  /\ injected \subseteq Builds /\ retained \subseteq Builds /\ abandoned \subseteq Builds
  /\ installed \in [Builds -> Contents] /\ lockfile \in [Builds -> Contents]
  /\ watching \in BOOLEAN /\ refused \in BOOLEAN
  /\ events \subseteq Kinds /\ noticed \subseteq Kinds
  /\ call \in [Tasks -> Calls]

Injecting(b) == \E d \in Tasks : At(d, "inject") /\ b \in call[d].libs
BeingLoaded(b) == \E d \in Tasks : b \in call[d].libs /\ call[d].step \in {"inject", "retain"}

Usable(b) ==
  /\ b \in injected \/ Injecting(b)
  /\ b \in retained \/ BeingLoaded(b) \/ b \in abandoned

\* Whenever a component is made from a descriptor, whatever load of it is under way
\* beside: it can resolve its references, unless a load is between the registry and
\* the resolver, and its library is open, retained or held by a load, unless a load
\* of it was cancelled at register's second lock (plugins.rs:381-392).
CreatedIsUsable == \A c \in Callers : At(c, "create") => Usable(call[c].build)

\* The comment in register (plugins.rs:384-386): the very first component created from
\* a descriptor can already resolve references.
FirstCreatedResolves == \A c \in Callers : At(c, "create") => call[c].build \in injected

\* The comment on PluginHost (plugins.rs:140-142): the library of a registered
\* descriptor is kept for the lifetime of the host.
RegisteredStaysOpen ==
  \A k \in Kinds : registry[k] # None =>
    registry[k] \in retained \/ BeingLoaded(registry[k])

\* Where the application works on each file from one side at a time, each pin has
\* the hash of its own build, so that install_from_lockfile accepts what
\* install_plugin pinned, in this process or a later one.
PinsAreTrue ==
  /\ \A b \in Builds : installed[b] \in {None, b} /\ lockfile[b] \in {None, b}
  /\ ~refused

\* What the watcher is to load is never forgotten between its event and the last lock
\* of register: a plugin whose file was noticed has an event, is on its way through the
\* watcher's load, or is loaded (plugins.rs:566-582).
NoticedIsLoaded ==
  \A b \in Builds : disk[KindOf[b]] = b /\ KindOf[b] \in noticed =>
    \/ KindOf[b] \in events
    \/ At(Watcher, "load") /\ call[Watcher].kind = KindOf[b]
    \/ b \in call[Watcher].libs \union retained

\* A plugin that stays in the watched directory is loaded, half-copied as it may
\* have been when it was first noticed, unless the watcher lagged.
WatchedFilesLoad ==
  \A b \in Builds :
    <>[](disk[KindOf[b]] = b /\ KindOf[b] \in noticed) => <>(b \in retained)

=============================================================================
