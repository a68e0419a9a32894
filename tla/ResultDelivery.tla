--------------------------- MODULE ResultDelivery ---------------------------
(***************************************************************************)
(* What a reaction promises the application about a query's results, said  *)
(* without a loop, an outbox or a recovery.  From an origin on they are    *)
(* handled at least once: the checkpoint passes over a result only when it *)
(* was handled or, under a lenient policy, given up, and goes forward; a   *)
(* result behind it is called for again only if the checkpoint was         *)
(* forgotten.  A durable reaction forgets none with the process, an        *)
(* ordinary one does, and begins again from another origin.                *)
(***************************************************************************)
EXTENDS Integers

VARIABLES
  durable,    \* whether checkpoints outlive the process
  lenient,    \* whether results may be given up
  produced,   \* the number of results so far
  origin,     \* the result before the first one the promise is about
  checkpoint, \* the last result settled, -1 while there is no checkpoint
  forgotten,  \* the last result of a checkpoint that was forgotten, -1 if none was
  called,     \* the results whose callback may still end
  handled,    \* those for which one did
  gaveUp      \* those that were given up

vars == <<durable, lenient, produced, origin, checkpoint, forgotten, called,
          handled, gaveUp>>
delivery == <<called, handled>>
progress == <<origin, checkpoint, forgotten, gaveUp>>

Later(m, n) == IF m > n THEN m ELSE n

Init ==
  /\ durable \in BOOLEAN /\ lenient \in BOOLEAN
  /\ produced = 0 /\ origin = 0 /\ checkpoint = -1
  /\ forgotten = -1
  /\ called = {} /\ handled = {} /\ gaveUp = {}

Produce ==
  /\ produced' = produced + 1
  /\ UNCHANGED <<durable, lenient, delivery, progress>>

Unsettled(n) == checkpoint < n \/ n <= forgotten

Call(n) ==
  /\ Unsettled(n)
  /\ called' = called \union {n}
  /\ UNCHANGED <<durable, lenient, produced, handled, progress>>

\* A callback that was called ends well; another call for n may still be on its way.
Handle(n) ==
  /\ called' \in {called, called \ {n}}
  /\ handled' = handled \union {n}
  /\ UNCHANGED <<durable, lenient, produced, progress>>

\* Calls fail or are cut short, the application registers with another policy.
Interrupt ==
  /\ called' \subseteq called
  /\ lenient' \in BOOLEAN
  /\ UNCHANGED <<durable, produced, handled, progress>>

\* A call failed, and the reaction goes on without the result.
GiveUp(n) ==
  /\ lenient
  /\ called' \in {called, called \ {n}}
  /\ gaveUp' = gaveUp \union {n}
  /\ UNCHANGED <<durable, lenient, produced, handled, origin, checkpoint, forgotten>>

Settled(n) == origin + 1 .. n \subseteq handled \union gaveUp

Commit(n) ==
  /\ Unsettled(n)
  /\ Settled(n)
  /\ checkpoint' = n
  /\ UNCHANGED <<durable, lenient, produced, delivery, origin, forgotten, gaveUp>>

\* Without a checkpoint the promise begins with what is to come, or with some
\* result before it.
Begin ==
  /\ checkpoint = -1
  /\ origin' \in 0..produced
  /\ checkpoint' \in {-1, origin'}
  /\ UNCHANGED gaveUp

\* What is no longer to be had is given up.
PassOver(n) ==
  /\ lenient
  /\ checkpoint # -1
  /\ gaveUp' = gaveUp \union (checkpoint + 1 .. n \ handled)
  /\ checkpoint' \in {checkpoint, n}
  /\ UNCHANGED origin

Restart ==
  /\ \/ Begin
     \/ \E n \in checkpoint + 1 .. produced : PassOver(n)
     \/ UNCHANGED <<origin, checkpoint, gaveUp>>
  /\ forgotten' \in {forgotten, Later(forgotten, checkpoint')}
  /\ UNCHANGED <<durable, lenient, produced, delivery>>

\* The process dies, and with it the checkpoint of a reaction that is not durable.
Die ==
  /\ ~durable
  /\ checkpoint' = -1
  /\ forgotten' = Later(forgotten, checkpoint)
  /\ called' \subseteq called
  /\ lenient' \in BOOLEAN
  /\ UNCHANGED <<durable, produced, handled, origin, gaveUp>>

Next ==
  \/ Produce \/ Interrupt \/ Restart \/ Die
  \/ \E n \in 1..produced : Call(n) \/ Commit(n)
  \/ \E n \in called : Handle(n) \/ GiveUp(n)

Spec == Init /\ [][Next]_vars
=============================================================================
