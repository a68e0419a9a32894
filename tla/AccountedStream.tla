--------------------------- MODULE AccountedStream ---------------------------
(***************************************************************************)
(* What an event or log stream promises its consumer, said without tasks   *)
(* or buffers.  The consumer is told of the items in order: either the     *)
(* next one itself, or how many were missed before the next one.  Nothing  *)
(* is told twice and no item goes unaccounted for, except what the answer  *)
(* to a read the consumer cancelled would have told.  The stream ends when *)
(* there will be no further item and every one is accounted for.           *)
(***************************************************************************)
EXTENDS Naturals, Sequences

CONSTANTS
  Value(_), \* the report of one item
  Gap(_)    \* the report of so many missed items

VARIABLES
  produced,  \* the number of items produced so far
  closed,    \* there will be no more
  position,  \* the number of items the consumer has been told about
  told,      \* the reports, in the order they were given
  cancelled, \* how many reads the consumer has cancelled
  ended      \* the consumer has been told that this is the end

vars == <<produced, closed, position, told, cancelled, ended>>

Init ==
  /\ produced = 0 /\ closed = FALSE
  /\ position = 0
  /\ told = <<>>
  /\ cancelled = 0 /\ ended = FALSE

Produce ==
  /\ ~closed
  /\ produced' = produced + 1
  /\ UNCHANGED <<closed, position, told, cancelled, ended>>

Close ==
  /\ closed' = TRUE
  /\ UNCHANGED <<produced, position, told, cancelled, ended>>

TellNext ==
  /\ position < produced
  /\ told' = Append(told, Value(position + 1))
  /\ position' = position + 1
  /\ UNCHANGED <<produced, closed, cancelled, ended>>

TellMissed(n) ==
  /\ told' = Append(told, Gap(n))
  /\ position' = position + n
  /\ UNCHANGED <<produced, closed, cancelled, ended>>

\* a read is cancelled, and with it whatever it was about to tell
CancelRead(n) ==
  /\ cancelled' = cancelled + 1
  /\ position' = position + n
  /\ UNCHANGED <<produced, closed, told, ended>>

End ==
  /\ closed /\ position = produced
  /\ ended' = TRUE
  /\ UNCHANGED <<produced, closed, position, told, cancelled>>

Next ==
  \/ Produce \/ Close
  \/ TellNext \/ End
  \/ \E n \in 1..(produced - position) : TellMissed(n)
  \/ \E n \in 0..(produced - position) : CancelRead(n)

Spec == Init /\ [][Next]_vars
=============================================================================
