------------------------- MODULE SecretResolverProofs -------------------------
(***************************************************************************)
(* Proofs about SecretResolver, for any threads, names and stores.  The    *)
(* invariant follows a request: it is in one place of one channel, its     *)
(* caller waits and has had no reply, and the store it was sent to was     *)
(* installed while the call lasted.                                        *)
(***************************************************************************)
EXTENDS SecretResolver, SequenceTheorems, TLAPS

-----------------------------------------------------------------------------
(* The invariant                                                           *)

Typed ==
  /\ secrets \in [Names -> Origins \union {None}]
  /\ store \in Stores \union {None}
  /\ worker \in [Stores -> {"none", "serving", "no_runtime", "ended"}]
  /\ requests \in [Stores -> Seq(Resolvers)]
  /\ install \in [Stores -> {"none", "waiting", "failed", "installed"}]
  /\ call \in [Resolvers -> Calls]
  /\ mapped \subseteq Names /\ resolved \subseteq Names

\* A store that is on its way or in place has a thread.
Spawned ==
  /\ \A s \in Stores : install[s] = "waiting" => worker[s] # "none"
  /\ store # None => worker[store] # "none"

\* Whoever has a request in a channel waits, without a reply.
Pending ==
  \A s \in Stores : \A i \in 1..Len(requests[s]) :
    At(requests[s][i], "waiting") /\ ~call[requests[s][i]].sent

\* A request is in one place.
Once ==
  \A s, t \in Stores : \A i \in 1..Len(requests[s]), j \in 1..Len(requests[t]) :
    requests[s][i] = requests[t][j] => s = t /\ i = j

\* The store that has a request was installed while its call lasted.
Sent ==
  \A s \in Stores : \A i \in 1..Len(requests[s]) : s \in call[requests[s][i]].seen

\* The mapping's values stay in the map, and what is in it was resolved once.
MapExplained ==
  /\ \A n \in Names : secrets[n] # None => (n \in mapped <=> secrets[n] = Mapping)
  /\ \A n \in mapped : secrets[n] # None
  /\ \A n \in resolved : secrets[n] # None

\* What a call in flight knows.
InFlight(r) ==
  /\ call[r].name \in Names
  /\ Current \subseteq call[r].seen
  /\ call[r].step # "returning" => ~call[r].knew /\ call[r].name \notin mapped
  /\ call[r].step = "received" => call[r].answer # None
  /\ call[r].step = "missed" => call[r].answer = None /\ ~call[r].sent
  /\ call[r].answer # None =>
       /\ call[r].name \in mapped <=> call[r].answer = Mapping
       /\ call[r].fresh => call[r].answer \in call[r].seen
       /\ call[r].step = "returning" => secrets[call[r].name] # None
  /\ call[r].step = "returning" /\ call[r].knew => call[r].answer # None
CallsExplained == \A r \in Resolvers : call[r].step # "idle" => InFlight(r)

IInv ==
  /\ Typed /\ Spawned /\ Pending /\ Once /\ Sent
  /\ MapExplained /\ CallsExplained

-----------------------------------------------------------------------------
(* The parts that follow one another                                       *)

\* The initial states satisfy the invariant.
LEMMA InitInv == Init => IInv
<1> SUFFICES ASSUME Init PROVE IInv
  OBVIOUS
<1>1. Typed
  BY Assumptions DEF Init, Typed, Origins, Calls, Steps, Idle
<1>2. Spawned
  BY DEF Init, Spawned
<1>3. Pending /\ Once /\ Sent
  BY DEF Init, Pending, Once, Sent
<1>4. MapExplained
  BY Assumptions DEF Init, MapExplained
<1>5. CallsExplained
  BY DEF Init, CallsExplained, Idle
<1> QED
  BY <1>1, <1>2, <1>3, <1>4, <1>5 DEF IInv

\* None is the origin of no value.
LEMMA NoneIsApart == None \notin Origins
BY Assumptions DEF Origins

\* A step that moves one call that has no request anywhere, and leaves the
\* channels alone, keeps what is said of the channels.
LEMMA CallMoves ==
  ASSUME IInv, NEW r \in Resolvers, NEW c \in Calls,
         ~At(r, "waiting") \/ call[r].sent,
         call' = [call EXCEPT ![r] = c], requests' = requests
  PROVE  Pending' /\ Once' /\ Sent'
<1>1. \A s \in Stores : \A i \in 1..Len(requests[s]) :
        requests[s][i] \in Resolvers /\ requests[s][i] # r
  BY DEF IInv, Typed, Pending, At
<1>2. \A s \in Stores : \A i \in 1..Len(requests[s]) :
        call'[requests[s][i]] = call[requests[s][i]]
  BY <1>1 DEF IInv, Typed
<1>3. Pending' /\ Sent'
  BY <1>2 DEF IInv, Pending, Sent, At
<1>4. Once'
  BY DEF IInv, Once
<1> QED
  BY <1>3, <1>4

-----------------------------------------------------------------------------
(* Steps of a call                                                         *)

LEMMA ResolveInv ==
  ASSUME IInv, NEW r \in Resolvers, NEW n \in Names, Resolve(r, n)
  PROVE  IInv'
<1> DEFINE c == [step |-> IF secrets[n] # None THEN "returning" ELSE "missed",
                 name |-> n, answer |-> secrets[n], sent |-> FALSE,
                 knew |-> n \in resolved, fresh |-> secrets[n] = None,
                 seen |-> Current]
<1>1. c \in Calls
  BY DEF IInv, Typed, Calls, Steps, Current
<1>2. call' = [call EXCEPT ![r] = c] /\ UNCHANGED <<secrets, store, worker, requests,
                                                   install, mapped, resolved>>
  BY DEF Resolve
<1> HIDE DEF c
<1>3. Typed'
  BY <1>1, <1>2 DEF IInv, Typed
<1>4. Spawned' /\ MapExplained'
  BY <1>2 DEF IInv, Spawned, MapExplained
<1>5. Pending' /\ Once' /\ Sent'
  BY <1>1, <1>2, CallMoves DEF Resolve, At
<1>6. CallsExplained'
  <2> SUFFICES ASSUME NEW q \in Resolvers, call'[q].step # "idle"
               PROVE  InFlight(q)'
    BY DEF CallsExplained
  <2>1. CASE q # r
    <3>1. call'[q] = call[q]
      BY <1>2, <2>1 DEF IInv, Typed
    <3> QED
      BY <3>1, <1>2 DEF IInv, CallsExplained, InFlight, Current
  <2>2. CASE q = r
    <3>1. call'[q] = c
      BY <1>2, <2>2 DEF IInv, Typed
    <3>2. secrets[n] # None => (n \in mapped <=> secrets[n] = Mapping)
      BY DEF IInv, MapExplained
    <3>3. secrets[n] = None => n \notin mapped /\ n \notin resolved
      BY DEF IInv, MapExplained
    <3>4. /\ c.name = n /\ c.answer = secrets[n] /\ c.seen = Current
          /\ c.step = IF secrets[n] # None THEN "returning" ELSE "missed"
      BY DEF c
    <3>5. ~c.sent /\ (c.knew => n \in resolved) /\ (c.fresh => secrets[n] = None)
      BY DEF c
    <3> QED
      BY <3>1, <3>2, <3>3, <3>4, <3>5, <1>2 DEF InFlight, Current
  <2> QED
    BY <2>1, <2>2
<1> QED
  BY <1>3, <1>4, <1>5, <1>6 DEF IInv

LEMMA GetInv ==
  ASSUME IInv, NEW r \in Resolvers, Get(r)
  PROVE  IInv'
<1>1. CASE store = None \/ worker[store] = "ended"
  <2> DEFINE c == [call[r] EXCEPT !.step = "returning", !.answer = None]
  <2>1. c \in Calls
    BY DEF IInv, Typed, Calls, Steps
  <2>2. call' = [call EXCEPT ![r] = c] /\ UNCHANGED <<secrets, store, worker, requests,
                                                     install, mapped, resolved>>
    BY <1>1 DEF Get, Answer, IInv, Typed
  <2>3. Typed' /\ Spawned' /\ MapExplained'
    BY <2>1, <2>2 DEF IInv, Typed, Spawned, MapExplained
  <2>4. Pending' /\ Once' /\ Sent'
    BY <2>1, <2>2, CallMoves DEF Get, At
  <2>5. CallsExplained'
    <3> SUFFICES ASSUME NEW q \in Resolvers, call'[q].step # "idle"
                 PROVE  InFlight(q)'
      BY DEF CallsExplained
    <3>1. call[q].step # "idle" /\ InFlight(q)
      BY <2>2 DEF IInv, Typed, CallsExplained, Get, At
    <3>2. CASE q # r
      BY <3>1, <3>2, <2>2 DEF IInv, Typed, InFlight, Current
    <3>3. CASE q = r
      BY <3>1, <3>3, <2>2 DEF IInv, Typed, InFlight, Current, Get, At, Calls
    <3> QED
      BY <3>2, <3>3
  <2> QED
    BY <2>3, <2>4, <2>5 DEF IInv
<1>2. CASE ~(store = None \/ worker[store] = "ended")
  <2>1. /\ store \in Stores
        /\ call' = [call EXCEPT ![r].step = "waiting"]
        /\ requests' = [requests EXCEPT ![store] = Append(@, r)]
        /\ UNCHANGED <<secrets, store, worker, install, mapped, resolved>>
        /\ At(r, "missed") /\ InFlight(r)
    BY <1>2 DEF Get, IInv, Typed, CallsExplained, At
  <2>2. Typed' /\ Spawned' /\ MapExplained'
    <3>1. [call[r] EXCEPT !.step = "waiting"] \in Calls
      BY DEF IInv, Typed, Calls, Steps
    <3>2. call' \in [Resolvers -> Calls]
      BY <2>1, <3>1 DEF IInv, Typed
    <3>3. requests' \in [Stores -> Seq(Resolvers)]
      BY <2>1 DEF IInv, Typed
    <3> QED
      BY <2>1, <3>2, <3>3 DEF IInv, Typed, Spawned, MapExplained
  <2>3. \A s \in Stores : \A i \in 1..Len(requests[s]) :
          requests[s][i] \in Resolvers /\ requests[s][i] # r
    BY <2>1 DEF IInv, Typed, Pending, At
  <2>4. ASSUME NEW s \in Stores, NEW i \in 1..Len(requests'[s])
        PROVE  \/ i \in 1..Len(requests[s]) /\ requests'[s][i] = requests[s][i]
               \/ s = store /\ i = Len(requests[s]) + 1 /\ requests'[s][i] = r
    BY <2>1 DEF IInv, Typed
  <2>5. \A q \in Resolvers : q # r => call'[q] = call[q]
    BY <2>1 DEF IInv, Typed
  <2>6. call'[r].step = "waiting" /\ ~call'[r].sent /\ store \in call'[r].seen
    <3>1. store # None
      BY <2>1, Assumptions
    <3>2. ~call[r].sent /\ store \in call[r].seen
      BY <2>1, <3>1 DEF InFlight, Current, At
    <3> QED
      BY <2>1, <3>2 DEF IInv, Typed, Calls
  <2>7. Pending' /\ Sent'
    BY <2>3, <2>4, <2>5, <2>6 DEF IInv, Pending, Sent, At
  <2>8. Once'
    BY <2>3, <2>4 DEF IInv, Once
  <2>9. CallsExplained'
    <3> SUFFICES ASSUME NEW q \in Resolvers, call'[q].step # "idle"
                 PROVE  InFlight(q)'
      BY DEF CallsExplained
    <3>1. CASE q # r
      BY <3>1, <2>1, <2>5 DEF IInv, CallsExplained, InFlight, Current
    <3>2. CASE q = r
      BY <3>2, <2>1 DEF IInv, Typed, InFlight, Current, At, Calls
    <3> QED
      BY <3>1, <3>2
  <2> QED
    BY <2>2, <2>7, <2>8, <2>9 DEF IInv
<1> QED
  BY <1>1, <1>2

LEMMA ReceiveInv ==
  ASSUME IInv, NEW r \in Resolvers, Receive(r)
  PROVE  IInv'
<1> DEFINE c == IF call[r].answer = None
                THEN [call[r] EXCEPT !.step = "returning", !.answer = None]
                ELSE [call[r] EXCEPT !.step = "received"]
<1>1. c \in Calls
  BY DEF IInv, Typed, Calls, Steps
<1>2. call' = [call EXCEPT ![r] = c] /\ UNCHANGED <<secrets, store, worker, requests,
                                                   install, mapped, resolved>>
  BY DEF Receive, Answer, IInv, Typed
<1>3. Typed' /\ Spawned' /\ MapExplained'
  BY <1>1, <1>2 DEF IInv, Typed, Spawned, MapExplained
<1>4. Pending' /\ Once' /\ Sent'
  BY <1>1, <1>2, CallMoves DEF Receive
<1>5. CallsExplained'
  <2> SUFFICES ASSUME NEW q \in Resolvers, call'[q].step # "idle"
               PROVE  InFlight(q)'
    BY DEF CallsExplained
  <2>1. call[q].step # "idle" /\ InFlight(q)
    BY <1>2 DEF IInv, Typed, CallsExplained, Receive, At
  <2>2. CASE q # r
    BY <2>1, <2>2, <1>2 DEF IInv, Typed, InFlight, Current
  <2>3. CASE q = r
    <3>1. call'[q] = c /\ At(q, "waiting")
      BY <2>3, <1>2 DEF IInv, Typed, Receive
    <3>2. /\ c.name = call[q].name /\ c.answer = call[q].answer /\ c.seen = call[q].seen
          /\ c.knew = call[q].knew /\ c.fresh = call[q].fresh
          /\ c.step = IF call[q].answer = None THEN "returning" ELSE "received"
      BY <2>3 DEF IInv, Typed, Calls
    <3> HIDE DEF c
    <3> QED
      BY <2>1, <3>1, <3>2, <1>2 DEF InFlight, Current, At
  <2> QED
    BY <2>2, <2>3
<1> QED
  BY <1>3, <1>4, <1>5 DEF IInv

LEMMA CacheInv ==
  ASSUME IInv, NEW r \in Resolvers, Cache(r)
  PROVE  IInv'
<1> DEFINE c == [call[r] EXCEPT !.step = "returning"]
<1>1. c \in Calls
  BY DEF IInv, Typed, Calls, Steps
<1>2. /\ call' = [call EXCEPT ![r] = c]
      /\ secrets' = [secrets EXCEPT ![call[r].name] = call[r].answer]
      /\ UNCHANGED <<store, worker, requests, install, mapped, resolved>>
      /\ At(r, "received") /\ InFlight(r)
  BY DEF Cache, IInv, Typed, CallsExplained, At
<1>3. Typed' /\ Spawned'
  BY <1>1, <1>2 DEF IInv, Typed, Spawned, InFlight, Calls
<1>4. call[r].answer # None /\ call[r].name \in Names /\ call[r].name \notin mapped
      /\ call[r].answer # Mapping
  BY <1>2 DEF InFlight, At
<1>5. \A n \in Names : /\ secrets[n] # None => secrets'[n] # None
                       /\ n # call[r].name => secrets'[n] = secrets[n]
                       /\ n = call[r].name => secrets'[n] = call[r].answer
  BY <1>2, <1>4 DEF IInv, Typed
<1>6. MapExplained'
  BY <1>2, <1>4, <1>5 DEF IInv, Typed, MapExplained
<1>7. Pending' /\ Once' /\ Sent'
  BY <1>1, <1>2, CallMoves DEF At
<1>8. CallsExplained'
  <2> SUFFICES ASSUME NEW q \in Resolvers, call'[q].step # "idle"
               PROVE  InFlight(q)'
    BY DEF CallsExplained
  <2>1. call[q].step # "idle" /\ InFlight(q)
    BY <1>2 DEF IInv, Typed, CallsExplained, At
  <2>2. CASE q # r
    BY <2>1, <2>2, <1>2, <1>5 DEF IInv, Typed, InFlight, Current
  <2>3. CASE q = r
    BY <2>1, <2>3, <1>2, <1>4, <1>5 DEF IInv, Typed, InFlight, Current, At, Calls
  <2> QED
    BY <2>2, <2>3
<1> QED
  BY <1>3, <1>6, <1>7, <1>8 DEF IInv

LEMMA ReturnInv ==
  ASSUME IInv, NEW r \in Resolvers, Return(r)
  PROVE  IInv'
<1>1. Idle \in Calls
  BY DEF Idle, Calls, Steps
<1>2. /\ call' = [call EXCEPT ![r] = Idle]
      /\ UNCHANGED <<secrets, store, worker, requests, install, mapped>>
      /\ resolved' = IF call[r].answer = None THEN resolved
                     ELSE resolved \union {call[r].name}
      /\ At(r, "returning") /\ InFlight(r)
  BY DEF Return, IInv, CallsExplained, At
<1>3. Typed' /\ Spawned'
  BY <1>1, <1>2 DEF IInv, Typed, Spawned, InFlight
<1>4. MapExplained'
  BY <1>2 DEF IInv, Typed, MapExplained, InFlight, At
<1>5. Pending' /\ Once' /\ Sent'
  BY <1>1, <1>2, CallMoves DEF At
<1>6. CallsExplained'
  <2> SUFFICES ASSUME NEW q \in Resolvers, call'[q].step # "idle"
               PROVE  InFlight(q)'
    BY DEF CallsExplained
  <2>1. q # r /\ call'[q] = call[q]
    BY <1>2 DEF IInv, Typed, Idle
  <2> QED
    BY <2>1, <1>2 DEF IInv, CallsExplained, InFlight, Current
<1> QED
  BY <1>3, <1>4, <1>5, <1>6 DEF IInv

-----------------------------------------------------------------------------
(* Steps of a store                                                        *)

\* A step that takes requests out of the channel of one store and answers their
\* callers, with a value of that store or with none.
LEMMA ReplyInv ==
  ASSUME IInv, NEW s \in Stores, NEW origin \in {s, None},
         requests[s] # <<>>,
         requests' = [requests EXCEPT ![s] = Tail(@)],
         call' = Reply(Head(requests[s]), origin),
         UNCHANGED <<secrets, store, worker, install, mapped, resolved>>
  PROVE  IInv'
<1> DEFINE r == Head(requests[s])
<1>1. requests[s] \in Seq(Resolvers) /\ r \in Resolvers /\ Len(requests[s]) \in Nat \ {0}
      /\ r = requests[s][1]
  BY DEF IInv, Typed
<1>2. At(r, "waiting") /\ ~call[r].sent /\ s \in call[r].seen /\ InFlight(r)
  BY <1>1 DEF IInv, Typed, Pending, Sent, CallsExplained, At
<1>3. call' = [call EXCEPT ![r].answer = origin, ![r].sent = TRUE]
  BY DEF Reply
<1> HIDE DEF r
<1>4. Typed' /\ Spawned' /\ MapExplained'
  <2>1. [call[r] EXCEPT !.answer = origin, !.sent = TRUE] \in Calls
    <3>1. call[r] \in Calls /\ origin \in Origins \union {None}
      BY <1>1 DEF IInv, Typed, Origins
    <3> QED
      BY <3>1 DEF Calls
  <2>2. call' \in [Resolvers -> Calls]
    BY <1>1, <1>3, <2>1 DEF IInv, Typed
  <2>3. requests' \in [Stores -> Seq(Resolvers)]
    BY <1>1 DEF IInv, Typed
  <2> QED
    BY <2>2, <2>3 DEF IInv, Typed, Spawned, MapExplained
<1>5. ASSUME NEW t \in Stores, NEW i \in 1..Len(requests'[t])
      PROVE  LET j == IF t = s THEN i + 1 ELSE i
             IN j \in 1..Len(requests[t]) /\ requests'[t][i] = requests[t][j]
                /\ requests[t][j] \in Resolvers /\ requests[t][j] # r
  <2>1. CASE t = s
    <3>1. requests'[t] = Tail(requests[s]) /\ i + 1 \in 1..Len(requests[s])
          /\ requests'[t][i] = requests[s][i + 1]
      BY <1>1, <2>1 DEF IInv, Typed
    <3>2. requests[s][i + 1] # r
      BY <1>1, <3>1 DEF IInv, Once
    <3> QED
      BY <1>1, <2>1, <3>1, <3>2
  <2>2. CASE t # s
    <3>1. requests'[t] = requests[t]
      BY <2>2 DEF IInv, Typed
    <3>2. requests[t][i] # r
      BY <1>1, <2>2, <3>1 DEF IInv, Once
    <3> QED
      BY <2>2, <3>1, <3>2 DEF IInv, Typed
  <2> QED
    BY <2>1, <2>2
<1>6. \A q \in Resolvers : q # r => call'[q] = call[q]
  BY <1>1, <1>3 DEF IInv, Typed
<1>7. Pending' /\ Sent'
  <2>1. ASSUME NEW t \in Stores, NEW i \in 1..Len(requests'[t])
        PROVE  /\ call'[requests'[t][i]].step = "waiting" /\ ~call'[requests'[t][i]].sent
               /\ t \in call'[requests'[t][i]].seen
    <3> DEFINE j == IF t = s THEN i + 1 ELSE i
    <3>1. /\ j \in 1..Len(requests[t]) /\ requests'[t][i] = requests[t][j]
          /\ requests[t][j] \in Resolvers /\ requests[t][j] # r
      BY <1>5
    <3> HIDE DEF j
    <3>2. call'[requests'[t][i]] = call[requests[t][j]]
      BY <1>6, <3>1
    <3>3. /\ call[requests[t][j]].step = "waiting" /\ ~call[requests[t][j]].sent
          /\ t \in call[requests[t][j]].seen
      BY <3>1 DEF IInv, Pending, Sent, At
    <3> QED
      BY <3>2, <3>3
  <2> QED
    BY <2>1 DEF Pending, Sent, At
<1>8. Once'
  <2> SUFFICES ASSUME NEW t \in Stores, NEW u \in Stores,
                      NEW i \in 1..Len(requests'[t]), NEW j \in 1..Len(requests'[u]),
                      requests'[t][i] = requests'[u][j]
               PROVE  t = u /\ i = j
    BY DEF Once
  <2>1. Len(requests'[t]) \in Nat /\ Len(requests'[u]) \in Nat
    BY <1>4 DEF Typed
  <2> QED
    BY <1>5, <2>1 DEF IInv, Once
<1>9. CallsExplained'
  <2> SUFFICES ASSUME NEW q \in Resolvers, call'[q].step # "idle"
               PROVE  InFlight(q)'
    BY DEF CallsExplained
  <2>1. CASE q # r
    BY <1>6, <2>1 DEF IInv, CallsExplained, InFlight, Current
  <2>2. CASE q = r
    <3>1. /\ call'[q].step = "waiting" /\ call'[q].answer = origin
          /\ call'[q].name = call[q].name /\ call'[q].knew = call[q].knew
          /\ call'[q].seen = call[q].seen
      BY <1>1, <1>2, <1>3, <2>2 DEF IInv, Typed, Calls, At
    <3>2. origin # None => origin = s /\ origin # Mapping
      BY Assumptions
    <3> QED
      BY <1>2, <2>2, <3>1, <3>2 DEF InFlight, Current, At
  <2> QED
    BY <2>1, <2>2
<1> QED
  BY <1>4, <1>7, <1>8, <1>9 DEF IInv

LEMMA PanicInv ==
  ASSUME IInv, NEW s \in Stores, Panic(s)
  PROVE  IInv'
<1>1. /\ worker' = [worker EXCEPT ![s] = "ended"]
      /\ requests' = [requests EXCEPT ![s] = <<>>]
      /\ call' = [r \in Resolvers |->
                    IF \E i \in DOMAIN requests[s] : requests[s][i] = r
                    THEN [call[r] EXCEPT !.sent = TRUE] ELSE call[r]]
      /\ UNCHANGED <<secrets, store, install, mapped, resolved>>
  BY DEF Panic
<1>2. Typed'
  <2>1. \A r \in Resolvers : [call[r] EXCEPT !.sent = TRUE] \in Calls
    BY DEF IInv, Typed, Calls
  <2>2. call' \in [Resolvers -> Calls]
    BY <1>1, <2>1 DEF IInv, Typed
  <2> QED
    BY <1>1, <2>2 DEF IInv, Typed
<1>3. Spawned' /\ MapExplained'
  BY <1>1 DEF IInv, Typed, Spawned, MapExplained
<1>4. \A t \in Stores : \A i \in 1..Len(requests'[t]) : t # s /\ requests'[t] = requests[t]
  BY <1>1 DEF IInv, Typed
<1>5. \A t \in Stores : \A i \in 1..Len(requests'[t]) :
        requests[t][i] \in Resolvers /\ call'[requests[t][i]] = call[requests[t][i]]
  <2> SUFFICES ASSUME NEW t \in Stores, NEW i \in 1..Len(requests'[t])
               PROVE  requests[t][i] \in Resolvers
                      /\ call'[requests[t][i]] = call[requests[t][i]]
    OBVIOUS
  <2>1. requests[t][i] \in Resolvers /\ i \in 1..Len(requests[t]) /\ t # s
    BY <1>4 DEF IInv, Typed
  <2>2. \A j \in DOMAIN requests[s] : j \in 1..Len(requests[s])
    BY DEF IInv, Typed
  <2>3. \A j \in DOMAIN requests[s] : requests[s][j] # requests[t][i]
    BY <2>1, <2>2 DEF IInv, Once
  <2> QED
    BY <1>1, <2>1, <2>3
<1>6. Pending' /\ Sent'
  BY <1>4, <1>5 DEF IInv, Pending, Sent, At
<1>7. Once'
  BY <1>4 DEF IInv, Once
<1>8. CallsExplained'
  <2> SUFFICES ASSUME NEW q \in Resolvers, call'[q].step # "idle"
               PROVE  InFlight(q)'
    BY DEF CallsExplained
  <2>1. CASE ~\E i \in DOMAIN requests[s] : requests[s][i] = q
    BY <1>1, <2>1 DEF IInv, CallsExplained, InFlight, Current
  <2>2. CASE \E i \in DOMAIN requests[s] : requests[s][i] = q
    <3>1. call'[q] = [call[q] EXCEPT !.sent = TRUE] /\ At(q, "waiting")
      <4>1. PICK i \in DOMAIN requests[s] : requests[s][i] = q
        BY <2>2
      <4>2. i \in 1..Len(requests[s])
        BY DEF IInv, Typed
      <4> QED
        BY <1>1, <2>2, <4>1, <4>2 DEF IInv, Pending
    <3>2. /\ call'[q].step = "waiting" /\ call'[q].answer = call[q].answer
          /\ call'[q].name = call[q].name /\ call'[q].knew = call[q].knew
          /\ call'[q].seen = call[q].seen /\ call'[q].fresh = call[q].fresh
      BY <3>1 DEF IInv, Typed, Calls, At
    <3>3. InFlight(q)
      BY <3>1 DEF IInv, CallsExplained, At
    <3> QED
      BY <1>1, <3>1, <3>2, <3>3 DEF InFlight, Current, At
  <2> QED
    BY <2>1, <2>2
<1> QED
  BY <1>2, <1>3, <1>6, <1>7, <1>8 DEF IInv

\* A step that touches neither calls, requests, the map nor the store.
LEMMA WorkerInv ==
  ASSUME IInv, NEW s \in Stores, End(s) \/ Spawn(s)
  PROVE  IInv'
<1>1. UNCHANGED <<secrets, store, requests, call, mapped, resolved>>
  BY DEF End, Spawn
<1>2. Typed'
  BY <1>1 DEF IInv, Typed, End, Spawn
<1>3. Spawned'
  BY <1>1, Assumptions DEF IInv, Typed, Spawned, End, Spawn
<1>4. Pending' /\ Once' /\ Sent' /\ MapExplained'
  BY <1>1 DEF IInv, Pending, Once, Sent, MapExplained, At
<1>5. CallsExplained'
  BY <1>1 DEF IInv, CallsExplained, InFlight, Current
<1> QED
  BY <1>2, <1>3, <1>4, <1>5 DEF IInv

LEMMA SetStoreInv ==
  ASSUME IInv, NEW s \in Stores, SetStore(s)
  PROVE  IInv'
<1>1. /\ install[s] = "waiting" /\ store' = s
      /\ install' = [install EXCEPT ![s] = "installed"]
      /\ call' = [r \in Resolvers |-> IF At(r, "idle") THEN call[r]
                                      ELSE [call[r] EXCEPT !.seen = @ \union {s}]]
      /\ UNCHANGED <<secrets, worker, requests, mapped, resolved>>
  BY DEF SetStore
<1>2. Typed'
  <2>1. \A r \in Resolvers : [call[r] EXCEPT !.seen = @ \union {s}] \in Calls
    BY DEF IInv, Typed, Calls
  <2>2. call' \in [Resolvers -> Calls]
    BY <1>1, <2>1 DEF IInv, Typed
  <2> QED
    BY <1>1, <2>2 DEF IInv, Typed
<1>3. Spawned' /\ MapExplained'
  BY <1>1 DEF IInv, Typed, Spawned, MapExplained
<1>4. \A q \in Resolvers : /\ call'[q].step = call[q].step /\ call'[q].sent = call[q].sent
                           /\ call'[q].name = call[q].name /\ call'[q].knew = call[q].knew
                           /\ call'[q].answer = call[q].answer
                           /\ call'[q].fresh = call[q].fresh
                           /\ call[q].seen \subseteq call'[q].seen
                           /\ call[q].step # "idle" => s \in call'[q].seen
  BY <1>1 DEF IInv, Typed, Calls, At
<1>5. \A t \in Stores : \A i \in 1..Len(requests[t]) : requests[t][i] \in Resolvers
  BY DEF IInv, Typed
<1>6. Pending' /\ Once' /\ Sent'
  BY <1>1, <1>4, <1>5 DEF IInv, Pending, Once, Sent, At
<1>7. CallsExplained'
  BY <1>1, <1>4 DEF IInv, CallsExplained, InFlight, Current
<1> QED
  BY <1>2, <1>3, <1>6, <1>7 DEF IInv

-----------------------------------------------------------------------------
(* Whoever waits is owed an answer                                         *)

\* r's request is in the channel of the installed store, whose thread runs.
Owed(r) ==
  /\ store # None /\ worker[store] \in {"serving", "no_runtime"}
  /\ \E i \in DOMAIN requests[store] : requests[store][i] = r

\* A step that takes the first request out of a channel and replies to its caller.
LEMMA ReplyOwed ==
  ASSUME IInv, WaitersAreOwed, NEW s \in Stores, NEW origin \in {s, None},
         requests[s] # <<>>,
         requests' = [requests EXCEPT ![s] = Tail(@)],
         call' = Reply(Head(requests[s]), origin),
         UNCHANGED <<store, worker>>
  PROVE  WaitersAreOwed'
<1> SUFFICES ASSUME NEW q \in Resolvers, call'[q].step = "waiting", ~call'[q].sent
             PROVE  Owed(q)'
  BY DEF WaitersAreOwed, Owed, At
<1>1. /\ requests[s] \in Seq(Resolvers) /\ Head(requests[s]) \in Resolvers
      /\ Head(requests[s]) = requests[s][1]
  BY DEF IInv, Typed
<1>2. q # Head(requests[s]) /\ call'[q] = call[q]
  BY <1>1 DEF IInv, Typed, Reply, Calls
<1>3. Owed(q)
  BY <1>2 DEF WaitersAreOwed, Owed, At
<1>4. PICK i \in DOMAIN requests[store] : requests[store][i] = q
  BY <1>3 DEF Owed
<1>5. store \in Stores /\ requests[store] \in Seq(Resolvers)
  BY <1>3 DEF IInv, Typed, Owed
<1>6. CASE store = s
  <2>1. i # 1 /\ i \in 1..Len(requests[s])
    BY <1>1, <1>2, <1>4, <1>5, <1>6
  <2>2. i - 1 \in DOMAIN Tail(requests[s]) /\ Tail(requests[s])[i - 1] = q
    BY <1>1, <1>4, <1>6, <2>1
  <2>3. requests'[s] = Tail(requests[s])
    BY DEF IInv, Typed
  <2> QED
    BY <1>3, <1>6, <2>2, <2>3 DEF Owed
<1>7. CASE store # s
  BY <1>3, <1>5, <1>7 DEF IInv, Typed, Owed
<1> QED
  BY <1>6, <1>7

LEMMA StepOwed == IInv /\ WaitersAreOwed /\ [Next]_vars => WaitersAreOwed'
<1> SUFFICES ASSUME IInv, WaitersAreOwed, [Next]_vars PROVE WaitersAreOwed'
  OBVIOUS
<1>1. ASSUME NEW r \in Resolvers, UNCHANGED <<store, worker, requests>>,
             \A q \in Resolvers : q # r => call'[q] = call[q],
             call'[r].step # "waiting"
      PROVE  WaitersAreOwed'
  BY <1>1 DEF WaitersAreOwed, At
<1>2. ASSUME NEW r \in Resolvers, NEW n \in Names, Resolve(r, n) PROVE WaitersAreOwed'
  BY <1>1, <1>2 DEF IInv, Typed, Resolve
<1>3. ASSUME NEW r \in Resolvers, Get(r) PROVE WaitersAreOwed'
  <2>1. CASE store = None \/ worker[store] = "ended"
    BY <1>1, <1>3, <2>1 DEF IInv, Typed, Get, Answer, Calls
  <2>2. CASE ~(store = None \/ worker[store] = "ended")
    <3>1. /\ store \in Stores /\ worker[store] \in {"serving", "no_runtime"}
          /\ UNCHANGED <<store, worker>>
          /\ requests' = [requests EXCEPT ![store] = Append(@, r)]
          /\ \A q \in Resolvers : q # r => call'[q] = call[q]
      BY <1>3, <2>2 DEF IInv, Typed, Spawned, Get
    <3>2. /\ requests[store] \in Seq(Resolvers)
          /\ requests'[store] = Append(requests[store], r)
      BY <3>1 DEF IInv, Typed
    <3>3. /\ \A i \in DOMAIN requests[store] :
               i \in DOMAIN requests'[store] /\ requests'[store][i] = requests[store][i]
          /\ Len(requests[store]) + 1 \in DOMAIN requests'[store]
          /\ requests'[store][Len(requests[store]) + 1] = r
      BY <3>2
    <3> QED
      BY <2>2, <3>1, <3>3 DEF WaitersAreOwed, At
  <2> QED
    BY <2>1, <2>2
<1>4. ASSUME NEW r \in Resolvers, Receive(r) \/ Cache(r) \/ Return(r) PROVE WaitersAreOwed'
  BY <1>1, <1>4 DEF IInv, Typed, Receive, Cache, Return, Answer, Idle, Calls
<1>5. ASSUME NEW s \in Stores, Serve(s) PROVE WaitersAreOwed'
  <2>1. PICK origin \in {s, None} : call' = Reply(Head(requests[s]), origin)
    BY <1>5 DEF Serve
  <2> QED
    BY <1>5, <2>1, ReplyOwed DEF Serve
<1>6. ASSUME NEW s \in Stores, Refuse(s) PROVE WaitersAreOwed'
  <2>1. None \in {s, None}
    OBVIOUS
  <2> QED
    BY <1>6, <2>1, ReplyOwed DEF Refuse
<1>7. ASSUME NEW s \in Stores, Panic(s) PROVE WaitersAreOwed'
  <2> SUFFICES ASSUME NEW q \in Resolvers, call'[q].step = "waiting", ~call'[q].sent
               PROVE  Owed(q)'
    BY DEF WaitersAreOwed, Owed, At
  <2>1. ~\E i \in DOMAIN requests[s] : requests[s][i] = q
    BY <1>7 DEF IInv, Typed, Panic, Calls
  <2>2. Owed(q)
    BY <1>7, <2>1 DEF Panic, WaitersAreOwed, Owed, At
  <2>3. store # s
    BY <2>1, <2>2 DEF Owed
  <2> QED
    BY <1>7, <2>2, <2>3 DEF IInv, Typed, Panic, Owed
<1>8. ASSUME NEW s \in Stores, End(s) PROVE WaitersAreOwed'
  BY <1>8 DEF IInv, Typed, End, WaitersAreOwed, At
<1>9. ASSUME NEW s \in Stores, Spawn(s) PROVE WaitersAreOwed'
  <2>1. store # None => worker'[store] = worker[store] \/ worker'[store] \in {"serving", "no_runtime"}
    BY <1>9 DEF IInv, Typed, Spawn
  <2> QED
    BY <1>9, <2>1 DEF Spawn, WaitersAreOwed, At
<1>10. ASSUME NEW s \in Stores, SetStore(s) PROVE WaitersAreOwed'
  BY <1>10 DEF IInv, Typed, Calls, SetStore, Reading, WaitersAreOwed, At
<1>11. CASE UNCHANGED vars
  BY <1>11 DEF vars, WaitersAreOwed, At
<1> QED
  BY <1>2, <1>3, <1>4, <1>5, <1>6, <1>7, <1>8, <1>9, <1>10, <1>11 DEF Next

-----------------------------------------------------------------------------
(* The theorems                                                            *)

\* Every step keeps the invariant.
LEMMA NextInv == IInv /\ [Next]_vars => IInv'
<1> SUFFICES ASSUME IInv, [Next]_vars PROVE IInv'
  OBVIOUS
<1>1. ASSUME NEW r \in Resolvers, NEW n \in Names, Resolve(r, n) PROVE IInv'
  BY <1>1, ResolveInv
<1>2. ASSUME NEW r \in Resolvers, Get(r) \/ Receive(r) \/ Cache(r) \/ Return(r) PROVE IInv'
  BY <1>2, GetInv, ReceiveInv, CacheInv, ReturnInv
<1>3. ASSUME NEW s \in Stores, Serve(s) PROVE IInv'
  <2>1. PICK origin \in {s, None} : call' = Reply(Head(requests[s]), origin)
    BY <1>3 DEF Serve
  <2> QED
    BY <1>3, <2>1, ReplyInv DEF Serve
<1>4. ASSUME NEW s \in Stores, Refuse(s) PROVE IInv'
  <2>1. None \in {s, None}
    OBVIOUS
  <2> QED
    BY <1>4, <2>1, ReplyInv DEF Refuse
<1>5. ASSUME NEW s \in Stores, Panic(s) \/ End(s) \/ Spawn(s) \/ SetStore(s) PROVE IInv'
  BY <1>5, PanicInv, WorkerInv, SetStoreInv
<1>6. CASE UNCHANGED vars
  BY <1>6 DEF vars, IInv, Typed, Spawned, Pending, Once, Sent, MapExplained,
     CallsExplained, InFlight, Current, At
<1> QED
  BY <1>1, <1>2, <1>3, <1>4, <1>5, <1>6 DEF Next

\* The inductive invariant holds of every state.
THEOREM Invariance == Spec => []IInv
BY InitInv, NextInv, PTL DEF Spec

\* Every variable keeps its type, and the installed store has a thread: the write
\* of the store comes after the thread was spawned (secrets.rs:118-122).
THEOREM TypeCorrect == Spec => []TypeOK
<1>1. IInv => TypeOK
  BY DEF IInv, Typed, Spawned, TypeOK
<1> QED
  BY <1>1, Invariance, PTL

\* A name that was resolved once never fails again, whatever becomes of the store
\* it came from (ConfigResolverContext::secret, secrets.rs:135-148).
THEOREM OnceResolvedStaysResolved == Spec => []OnceResolvedAlways
<1>1. IInv => OnceResolvedAlways
  BY DEF IInv, CallsExplained, InFlight, OnceResolvedAlways, At
<1> QED
  BY <1>1, Invariance, PTL

\* Answers come from the mapping for its names, and for a name that was not in the
\* map from a store that was installed during the call (secrets.rs:116-148).
THEOREM AnswersAreExplained == Spec => []AnswersExplained
<1>1. IInv => AnswersExplained
  BY DEF IInv, CallsExplained, InFlight, AnswersExplained, At
<1> QED
  BY <1>1, Invariance, PTL

\* Nobody blocks on an answer that is owed by nobody: a resolution that waits has its
\* reply, or its request is with the installed store, whose thread runs, however many
\* threads resolve and however stores are replaced or die (secrets.rs:143).
THEOREM EveryWaiterIsOwed == Spec => []WaitersAreOwed
<1>1. Init => WaitersAreOwed
  BY DEF Init, WaitersAreOwed, At, Idle
<1> QED
  BY <1>1, Invariance, StepOwed, PTL DEF Spec

=============================================================================
