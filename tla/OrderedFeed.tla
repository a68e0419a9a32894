----------------------------- MODULE OrderedFeed -----------------------------
(***************************************************************************)
(* What a Python-defined source promises its queries, said without locks,  *)
(* channels or sequence filters.  A change that is accepted gets a place   *)
(* in one order, the same for every query.  A query takes changes in that  *)
(* order, each at most once, and passes one over only if the call that     *)
(* pushed it was cancelled.  PushDispatch shows how the code keeps this.   *)
(***************************************************************************)
EXTENDS Naturals, Sequences

CONSTANTS
  Changes,  \* the changes the application pushes
  Queries   \* the queries subscribed to the source

VARIABLES
  place,     \* the place of each change in the order, 0 while it has none
  accepted,  \* the number of changes placed so far
  abandoned, \* the changes whose push was cancelled after they were placed
  consumed   \* the changes each query has taken, in the order it took them

vars == <<place, accepted, abandoned, consumed>>

Init ==
  /\ place = [c \in Changes |-> 0]
  /\ accepted = 0
  /\ abandoned = {}
  /\ consumed = [q \in Queries |-> <<>>]

\* q has taken c
Took(q, c) == \E i \in DOMAIN consumed[q] : consumed[q][i] = c

\* the change gets the next place of the order
Accept(c) ==
  /\ place[c] = 0
  /\ accepted' = accepted + 1
  /\ place' = [place EXCEPT ![c] = accepted + 1]
  /\ UNCHANGED <<abandoned, consumed>>

\* the caller gives up on a change that has its place
Abandon(c) ==
  /\ place[c] # 0
  /\ c \notin abandoned
  /\ abandoned' = abandoned \cup {c}
  /\ UNCHANGED <<place, accepted, consumed>>

\* q takes c: nothing placed later was taken before it, and everything
\* placed earlier was taken or abandoned
Consume(q, c) ==
  /\ place[c] # 0
  /\ \A d \in Changes : Took(q, d) => place[d] < place[c]
  /\ \A d \in Changes :
       place[d] # 0 /\ place[d] < place[c] => Took(q, d) \/ d \in abandoned
  /\ consumed' = [consumed EXCEPT ![q] = Append(@, c)]
  /\ UNCHANGED <<place, accepted, abandoned>>

Next ==
  \/ \E c \in Changes : Accept(c) \/ Abandon(c)
  \/ \E q \in Queries, c \in Changes : Consume(q, c)

Spec == Init /\ [][Next]_vars
=============================================================================
