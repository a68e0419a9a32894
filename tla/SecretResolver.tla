--------------------------- MODULE SecretResolver ---------------------------
(***************************************************************************)
(* secrets.rs: resolving a plugin's secret references, with                *)
(* use_secret_store of engine.rs, which installs the store that answers    *)
(* what the mapping given to create(secrets=...) does not.                 *)
(*                                                                         *)
(* A value is known by where it came from: the mapping, or the store that  *)
(* gave it.  Each call of use_secret_store creates a store of its own.  A  *)
(* store answers, refuses or panics; it resolves references of its own     *)
(* only while it is created.                                               *)
(***************************************************************************)
EXTENDS Naturals, Sequences

CONSTANTS
  Resolvers,  \* threads on which plugins resolve references
  Names,      \* names of secrets
  Stores,     \* the stores that calls of use_secret_store create
  Mapping,    \* the origin of a value given to create
  None        \* no value, no store

ASSUME Assumptions ==
  /\ Mapping \notin Stores
  /\ None \notin Stores \union {Mapping}

VARIABLES
  secrets,   \* ConfigResolverContext::secrets: the origin of each name's value
  store,     \* ConfigResolverContext::store
  worker,    \* the thread of each store
  requests,  \* the channel to it: whose request is next
  install,   \* the call of use_secret_store that creates each store
  call,      \* what each thread is doing in resolve_config_value
  mapped,    \* history: the names in the mapping
  resolved   \* history: the names that were resolved once

vars == <<secrets, store, worker, requests, install, call, mapped, resolved>>

Origins == Stores \union {Mapping}
Steps == {"idle", "missed", "waiting", "received", "returning"}

\* `answer` is what the thread has so far, `sent` whether the worker replied.
\* `knew`, `fresh` and `seen` are history: the name had been resolved before the
\* call, it was not in the map when the call began, and the stores that were
\* installed while the call lasted.
Calls == [step : Steps, name : Names \union {None}, answer : Origins \union {None},
          sent : BOOLEAN, knew : BOOLEAN, fresh : BOOLEAN, seen : SUBSET Stores]
Idle == [step |-> "idle", name |-> None, answer |-> None, sent |-> FALSE,
         knew |-> FALSE, fresh |-> FALSE, seen |-> {}]

At(r, step) == call[r].step = step
Answer(r, origin) == [call EXCEPT ![r].step = "returning", ![r].answer = origin]
Current == {store} \ {None}

\* The read guard of `store` is a temporary of the statement that waits for the
\* reply; a writer that waits for the lock keeps new readers out.
Reading == \E r \in Resolvers : At(r, "waiting")
WriterWaits == \E s \in Stores : install[s] = "waiting"

-----------------------------------------------------------------------------
(* resolve_config_value                                                    *)

\* Mutant of Resolve: an installed store goes before the map
ResolveStoreFirst(r, n) ==
  /\ At(r, "idle")
  /\ call' = [call EXCEPT ![r] =
       [step |-> IF secrets[n] # None /\ store = None THEN "returning" ELSE "missed",
        name |-> n, answer |-> secrets[n], sent |-> FALSE,
        knew |-> n \in resolved,
        fresh |-> secrets[n] = None,
        seen |-> Current]]
  /\ UNCHANGED <<secrets, store, worker, requests, install, mapped, resolved>>

\* secret() first looks for the name in the map.
Resolve(r, n) ==
  /\ At(r, "idle")
  /\ call' = [call EXCEPT ![r] =
       [step |-> IF secrets[n] # None THEN "returning" ELSE "missed",
        name |-> n, answer |-> secrets[n], sent |-> FALSE,
        knew |-> n \in resolved,
        fresh |-> secrets[n] = None,
        seen |-> Current]]
  /\ UNCHANGED <<secrets, store, worker, requests, install, mapped, resolved>>

\* Mutant of Get: a request that cannot be sent is waited for all the same
GetUnchecked(r) ==
  /\ At(r, "missed") /\ ~WriterWaits
  /\ IF store = None
     THEN call' = Answer(r, None) /\ UNCHANGED requests
     ELSE /\ call' = [call EXCEPT ![r].step = "waiting"]
          /\ requests' = [requests EXCEPT ![store] = Append(@, r)]
  /\ UNCHANGED <<secrets, store, worker, install, mapped, resolved>>

\* Then it asks the store, if there is one and its thread still runs.
Get(r) ==
  /\ At(r, "missed") /\ ~WriterWaits
  /\ IF store = None \/ (store # None /\ worker[store] = "ended")
     THEN call' = Answer(r, None) /\ UNCHANGED requests
     ELSE /\ call' = [call EXCEPT ![r].step = "waiting"]
          /\ requests' = [requests EXCEPT ![store] = Append(@, r)]
  /\ UNCHANGED <<secrets, store, worker, install, mapped, resolved>>

\* The reply, or the end of the thread that owed it; the guard is dropped.
Receive(r) ==
  /\ At(r, "waiting") /\ call[r].sent
  /\ call' = IF call[r].answer = None THEN Answer(r, None)
             ELSE [call EXCEPT ![r].step = "received"]
  /\ UNCHANGED <<secrets, store, worker, requests, install, mapped, resolved>>

\* Mutant of Cache: the answer is not kept
CacheNothing(r) ==
  /\ At(r, "received")
  /\ call' = [call EXCEPT ![r].step = "returning"]
  /\ UNCHANGED <<secrets, store, worker, requests, install, mapped, resolved>>

\* The value is kept under its name, over what is there by now.
Cache(r) ==
  /\ At(r, "received")
  /\ secrets' = [secrets EXCEPT ![call[r].name] = call[r].answer]
  /\ call' = [call EXCEPT ![r].step = "returning"]
  /\ UNCHANGED <<store, worker, requests, install, mapped, resolved>>

Return(r) ==
  /\ At(r, "returning")
  /\ call' = [call EXCEPT ![r] = Idle]
  /\ resolved' = IF call[r].answer = None THEN resolved
                 ELSE resolved \union {call[r].name}
  /\ UNCHANGED <<secrets, store, worker, requests, install, mapped>>

-----------------------------------------------------------------------------
(* The worker of a store                                                   *)

Reply(r, origin) == [call EXCEPT ![r].answer = origin, ![r].sent = TRUE]

\* get_secret of the store gives a value or an error.
Serve(s) ==
  /\ worker[s] = "serving" /\ requests[s] # <<>>
  /\ requests' = [requests EXCEPT ![s] = Tail(@)]
  /\ \E origin \in {s, None} : call' = Reply(Head(requests[s]), origin)
  /\ UNCHANGED <<secrets, store, worker, install, mapped, resolved>>

\* A worker that could not build its runtime answers every request with the error.
Refuse(s) ==
  /\ worker[s] = "no_runtime" /\ requests[s] # <<>>
  /\ requests' = [requests EXCEPT ![s] = Tail(@)]
  /\ call' = Reply(Head(requests[s]), None)
  /\ UNCHANGED <<secrets, store, worker, install, mapped, resolved>>

\* Mutant of Panic: the requests that wait are not dropped with the thread
PanicKeepsRequests(s) ==
  /\ worker[s] = "serving" /\ requests[s] # <<>>
  /\ worker' = [worker EXCEPT ![s] = "ended"]
  /\ requests' = [requests EXCEPT ![s] = Tail(@)]
  /\ call' = Reply(Head(requests[s]), None)
  /\ UNCHANGED <<secrets, store, install, mapped, resolved>>

\* A panic in get_secret ends the thread, and every request it holds with it.
Panic(s) ==
  /\ worker[s] = "serving" /\ requests[s] # <<>>
  /\ worker' = [worker EXCEPT ![s] = "ended"]
  /\ requests' = [requests EXCEPT ![s] = <<>>]
  /\ call' = [r \in Resolvers |->
                IF \E i \in DOMAIN requests[s] : requests[s][i] = r
                THEN [call[r] EXCEPT !.sent = TRUE] ELSE call[r]]
  /\ UNCHANGED <<secrets, store, install, mapped, resolved>>

\* The sender of a replaced store is gone: the loop ends after the last request.
End(s) ==
  /\ install[s] = "installed" /\ store # s
  /\ worker[s] \in {"serving", "no_runtime"} /\ requests[s] = <<>>
  /\ worker' = [worker EXCEPT ![s] = "ended"]
  /\ UNCHANGED <<secrets, store, requests, install, call, mapped, resolved>>

-----------------------------------------------------------------------------
(* use_secret_store                                                        *)

\* The descriptor creates the store, and set_secret_store its thread; either
\* may fail, and the call with it.
Spawn(s) ==
  /\ install[s] = "none"
  /\ \/ /\ \E state \in {"serving", "no_runtime"} : worker' = [worker EXCEPT ![s] = state]
        /\ install' = [install EXCEPT ![s] = "waiting"]
     \/ install' = [install EXCEPT ![s] = "failed"] /\ UNCHANGED worker
  /\ UNCHANGED <<secrets, store, requests, call, mapped, resolved>>

\* The write lock waits for the readers; the store before this one is dropped.
SetStore(s) ==
  /\ install[s] = "waiting" /\ ~Reading
  /\ store' = s
  /\ install' = [install EXCEPT ![s] = "installed"]
  /\ call' = [r \in Resolvers |-> IF At(r, "idle") THEN call[r]
                                  ELSE [call[r] EXCEPT !.seen = @ \union {s}]]
  /\ UNCHANGED <<secrets, worker, requests, mapped, resolved>>

-----------------------------------------------------------------------------
Init ==
  /\ mapped \in SUBSET Names
  /\ secrets = [n \in Names |-> IF n \in mapped THEN Mapping ELSE None]
  /\ store = None
  /\ worker = [s \in Stores |-> "none"]
  /\ requests = [s \in Stores |-> <<>>]
  /\ install = [s \in Stores |-> "none"]
  /\ call = [r \in Resolvers |-> Idle]
  /\ resolved = {}

Next ==
  \/ \E r \in Resolvers :
       (\E n \in Names : Resolve(r, n)) \/ Get(r) \/ Receive(r) \/ Cache(r) \/ Return(r)
  \/ \E s \in Stores : Serve(s) \/ Refuse(s) \/ Panic(s) \/ End(s) \/ Spawn(s) \/ SetStore(s)

Spec == Init /\ [][Next]_vars

\* Threads run on, get_secret ends, and the lock is not withheld.
Fairness ==
  /\ \A r \in Resolvers : WF_vars(Get(r)) /\ WF_vars(Receive(r))
                          /\ WF_vars(Cache(r)) /\ WF_vars(Return(r))
  /\ \A s \in Stores : WF_vars(Serve(s)) /\ WF_vars(Refuse(s)) /\ WF_vars(SetStore(s))
FairSpec == Spec /\ Fairness

-----------------------------------------------------------------------------
TypeOK ==
  /\ secrets \in [Names -> Origins \union {None}]
  /\ store \in Stores \union {None}
  /\ store # None => worker[store] # "none"
  /\ worker \in [Stores -> {"none", "serving", "no_runtime", "ended"}]
  /\ requests \in [Stores -> Seq(Resolvers)]
  /\ install \in [Stores -> {"none", "waiting", "failed", "installed"}]
  /\ call \in [Resolvers -> Calls]
  /\ mapped \subseteq Names /\ resolved \subseteq Names

\* Whatever happens to the store, a name that was resolved once never fails
\* again: a plugin that reads its reference at every reconnect keeps working
\* (secrets.rs:140-142).
OnceResolvedAlways ==
  \A r \in Resolvers : At(r, "returning") /\ call[r].knew => call[r].answer # None

\* The mapping decides for the names it holds, and no store for any of them.  A
\* call that did not find the name in the map gets the value of a store that was
\* installed while the call lasted, never one that was replaced before it: late as
\* the answer of a replaced store may come, only calls that find it in the map can
\* be given it then (secrets.rs:116-124, 143-146).
AnswersExplained ==
  \A r \in Resolvers : At(r, "returning") /\ call[r].answer # None =>
    /\ call[r].name \in mapped <=> call[r].answer = Mapping
    /\ call[r].fresh => call[r].answer \in call[r].seen

\* Nobody blocks on an answer that is owed by nobody: a resolution that waits has its
\* reply, or its request is with the store that is installed, which cannot be replaced
\* under it, and whose thread runs.  So the readers a use_secret_store waits for end
\* (secrets.rs:143).
WaitersAreOwed ==
  \A r \in Resolvers : At(r, "waiting") /\ ~call[r].sent =>
    /\ store # None /\ worker[store] \in {"serving", "no_runtime"}
    /\ \E i \in DOMAIN requests[store] : requests[store][i] = r

\* Every resolution returns, with a worker that has no runtime (secrets.rs:68-69)
\* or that dies, and so does every use_secret_store that resolutions hold up.
CallsReturn ==
  /\ \A r \in Resolvers : call[r].step # "idle" ~> call[r].step = "idle"
  /\ \A s \in Stores : install[s] = "waiting" ~> install[s] = "installed"

=============================================================================
