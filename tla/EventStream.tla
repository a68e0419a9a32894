----------------------------- MODULE EventStream -----------------------------
(***************************************************************************)
(* streams.rs: one event or log stream, from the engine's broadcast to the *)
(* Python iterator or callback.  A pump task replays the history, then     *)
(* moves items from the broadcast into a bounded channel and waits while   *)
(* it is full.                                                             *)
(* The broadcast keeps the last few items only; a pump that fell behind    *)
(* learns how many it missed and passes that on in their place.            *)
(*                                                                         *)
(* The engine hands over the history and the broadcast together, so the    *)
(* first live item is the one after the last of the history.  The rest of  *)
(* the broadcast is as tokio documents it.                                 *)
(***************************************************************************)
EXTENDS Integers, Sequences

CONSTANTS
  History,   \* bound: no more items than this precede the subscription
  Ring,      \* how many items the broadcast keeps
  Buffer,    \* the bound of the stream's channel
  MaxItems,  \* bound: the engine produces no more items than this
  MaxCancels \* bound: the consumer cancels no more reads than this

ASSUME Assumptions ==
  /\ History \in Nat /\ MaxItems \in Nat /\ History <= MaxItems
  /\ Ring \in Nat \ {0} /\ Buffer \in Nat \ {0}
  /\ MaxCancels \in Nat

VARIABLES
  produced,  \* items the engine has produced
  consumer,  \* "none" yet, or a "stream" or "callback"
  history,   \* how many items were recorded before the subscription
  closed,    \* the engine has closed the broadcast
  replayed,  \* how much of the history the pump has taken
  next,      \* the item the pump's broadcast receiver is at
  pump,      \* "none" yet, "running" or "done"
  sending,   \* what the pump is about to send, if anything
  channel,   \* the stream's channel
  open,      \* the consumer still has the stream
  reader,    \* __anext__ or the callback's task: "idle", "waiting", or
             \* "taken" something
  taken,     \* what it took
  ended,     \* the iteration is over
  told,      \* history: what the consumer got
  accounted, \* history: how many items that, or a cancelled read, was about
  cancelled  \* history: how many reads were cancelled

vars == <<produced, closed, consumer, history, replayed, next, pump, sending, channel, open,
          reader, taken, ended, told, accounted, cancelled>>
engine == <<produced, closed>>
subscription == <<consumer, history>>
pumping == <<subscription, replayed, next, pump, sending>>
reading == <<open, reader, taken, ended, told, accounted, cancelled>>

\* StreamItem::Value and StreamItem::Lagged
Value(n) == [kind |-> "value", n |-> n]
Lagged(n) == [kind |-> "lagged", n |-> n]
Nothing == [kind |-> "nothing", n |-> 0]
Item == [kind : {"value", "lagged"}, n : 1..MaxItems]

\* how many items a report is about
Span(item) == IF item.kind = "value" THEN 1 ELSE item.n

TypeOK ==
  /\ produced \in 0..MaxItems /\ closed \in BOOLEAN
  /\ consumer \in {"none", "stream", "callback"} /\ history \in 0..History
  /\ replayed \in 0..history /\ next \in (history + 1)..(MaxItems + 1)
  /\ pump \in {"none", "running", "done"}
  /\ sending \in Item \cup {Nothing}
  /\ channel \in Seq(Item) /\ Len(channel) <= Buffer
  /\ open \in BOOLEAN /\ reader \in {"idle", "waiting", "taken"}
  /\ taken \in Item \cup {Nothing}
  /\ ended \in BOOLEAN
  /\ told \in Seq(Item)
  /\ accounted \in 0..MaxItems /\ cancelled \in 0..MaxCancels

Init ==
  /\ produced = 0 /\ closed = FALSE
  /\ consumer = "none" /\ history = 0
  /\ replayed = 0 /\ next = 1
  /\ pump = "none" /\ sending = Nothing
  /\ channel = <<>>
  /\ open = TRUE /\ reader = "idle" /\ taken = Nothing /\ ended = FALSE
  /\ told = <<>> /\ accounted = 0 /\ cancelled = 0

-----------------------------------------------------------------------------
(* The engine's broadcast *)

Produce ==
  /\ ~closed
  /\ produced < MaxItems
  /\ produced' = produced + 1
  /\ UNCHANGED <<closed, pumping, channel, reading>>

CloseBroadcast ==
  /\ ~closed
  /\ closed' = TRUE
  /\ UNCHANGED <<produced, pumping, channel, reading>>

\* the oldest item the broadcast still has
Oldest == IF produced > Ring THEN produced - Ring + 1 ELSE 1

-----------------------------------------------------------------------------
(* Subscribing *)

\* the engine gives the history and the receiver; broadcast_stream makes the
\* channel and spawns the pump
Subscribe ==
  /\ consumer = "none" /\ ~closed
  /\ produced <= History
  /\ history' = produced
  /\ next' = produced + 1
  /\ pump' = "running"
  /\ UNCHANGED <<engine, replayed, sending, channel, reading>>

\* query_events, source_events and reaction_events, and the same for logs
OpenStream == Subscribe /\ consumer' = "stream"

\* on_query_events and its like: the receiver goes to pump_callback instead
OpenCallback == Subscribe /\ consumer' = "callback"

-----------------------------------------------------------------------------
(* The pump *)

Replay ==
  /\ pump = "running" /\ sending = Nothing
  /\ replayed < history
  /\ sending' = Value(replayed + 1)
  /\ replayed' = replayed + 1
  /\ UNCHANGED <<engine, subscription, next, pump, channel, reading>>

\* Mutant of Receive: a lag is skipped over
ReceiveSkippingLag ==
  /\ pump = "running" /\ sending = Nothing
  /\ replayed = history /\ next <= produced
  /\ \/ /\ next < Oldest
        /\ sending' = Nothing
        /\ next' = Oldest
     \/ /\ next >= Oldest
        /\ sending' = Value(next)
        /\ next' = next + 1
  /\ UNCHANGED <<engine, subscription, replayed, pump, channel, reading>>

\* Mutant of Receive: the newest item waits for one more
ReceiveAllButNewest ==
  /\ pump = "running" /\ sending = Nothing
  /\ replayed = history /\ next < produced
  /\ \/ /\ next < Oldest
        /\ sending' = Lagged(Oldest - next)
        /\ next' = Oldest
     \/ /\ next >= Oldest
        /\ sending' = Value(next)
        /\ next' = next + 1
  /\ UNCHANGED <<engine, subscription, replayed, pump, channel, reading>>

\* recv() gives the next item, or how many were overwritten before it
Receive ==
  /\ pump = "running" /\ sending = Nothing
  /\ replayed = history /\ next <= produced
  /\ \/ /\ next < Oldest
        /\ sending' = Lagged(Oldest - next)
        /\ next' = Oldest
     \/ /\ next >= Oldest
        /\ sending' = Value(next)
        /\ next' = next + 1
  /\ UNCHANGED <<engine, subscription, replayed, pump, channel, reading>>

\* Mutant of Send: an unbounded channel
SendUnbounded ==
  /\ pump = "running" /\ sending # Nothing
  /\ open
  /\ channel' = Append(channel, sending)
  /\ sending' = Nothing
  /\ UNCHANGED <<engine, subscription, replayed, next, pump, reading>>

\* send().await waits for room
Send ==
  /\ pump = "running" /\ sending # Nothing
  /\ open /\ Len(channel) < Buffer
  /\ channel' = Append(channel, sending)
  /\ sending' = Nothing
  /\ UNCHANGED <<engine, subscription, replayed, next, pump, reading>>

\* Mutant of SendFails: the pump carries on without its consumer
SendShrugsOff ==
  /\ pump = "running" /\ sending # Nothing
  /\ ~open
  /\ sending' = Nothing
  /\ UNCHANGED <<engine, subscription, replayed, next, pump, channel, reading>>

\* the receiver is gone, so the task returns
SendFails ==
  /\ pump = "running" /\ sending # Nothing
  /\ ~open
  /\ pump' = "done"
  /\ sending' = Nothing
  /\ UNCHANGED <<engine, subscription, replayed, next, channel, reading>>

\* the broadcast is closed and drained, so the task returns
PumpEnds ==
  /\ pump = "running" /\ sending = Nothing
  /\ closed /\ replayed = history /\ next > produced
  /\ pump' = "done"
  /\ UNCHANGED <<engine, subscription, replayed, next, sending, channel, reading>>

-----------------------------------------------------------------------------
(* The consumer *)

\* __anext__ spawns a task that awaits the receiver; a callback's task does so
\* by itself
Read ==
  /\ consumer # "none"
  /\ open /\ ~ended
  /\ reader = "idle"
  /\ reader' = "waiting"
  /\ UNCHANGED <<engine, pumping, channel, open, taken, ended, told, accounted,
                 cancelled>>

\* recv() has something; the answer travels to the event loop
Take ==
  /\ reader = "waiting"
  /\ channel # <<>>
  /\ taken' = Head(channel)
  /\ channel' = Tail(channel)
  /\ reader' = "taken"
  /\ UNCHANGED <<engine, pumping, open, ended, told, accounted, cancelled>>

\* the awaitable returns the value, or raises StreamLaggedError; the callback is
\* called, and whether it raises makes no difference, or the lag is logged
Deliver ==
  /\ reader = "taken"
  /\ told' = Append(told, taken)
  /\ accounted' = accounted + Span(taken)
  /\ reader' = "idle" /\ taken' = Nothing
  /\ UNCHANGED <<engine, pumping, channel, open, ended, cancelled>>

\* Mutant of End: a closed channel is taken for an empty one
EndIgnored ==
  /\ reader = "waiting"
  /\ channel = <<>> /\ pump = "done"
  /\ reader' = "idle"
  /\ UNCHANGED <<engine, pumping, channel, open, taken, ended, told, accounted,
                 cancelled>>

\* the last sender is gone and the channel empty: StopAsyncIteration
End ==
  /\ reader = "waiting"
  /\ channel = <<>> /\ pump = "done"
  /\ ended' = TRUE
  /\ reader' = "idle"
  /\ UNCHANGED <<engine, pumping, channel, open, taken, told, accounted,
                 cancelled>>

\* the awaitable is cancelled, before recv() had anything or after
CancelRead ==
  /\ consumer = "stream" /\ reader # "idle"
  /\ cancelled < MaxCancels
  /\ cancelled' = cancelled + 1
  /\ accounted' = IF reader = "taken" THEN accounted + Span(taken) ELSE accounted
  /\ reader' = "idle" /\ taken' = Nothing
  /\ UNCHANGED <<engine, pumping, channel, open, ended, told>>

\* the Stream object is dropped, and with it the receiver
DropStream ==
  /\ consumer = "stream" /\ open /\ reader = "idle"
  /\ open' = FALSE
  /\ channel' = <<>>
  /\ UNCHANGED <<engine, pumping, reader, taken, ended, told, accounted,
                 cancelled>>

-----------------------------------------------------------------------------
Pump == Replay \/ Receive \/ Send \/ SendFails \/ PumpEnds
Consumer == Read \/ Take \/ Deliver \/ End

Next ==
  \/ Produce \/ CloseBroadcast
  \/ OpenStream \/ OpenCallback
  \/ Pump \/ Consumer
  \/ CancelRead \/ DropStream

Spec == Init /\ [][Next]_vars

\* the runtime polls the pump, the reads and a callback's task, and an
\* `async for` keeps asking
FairSpec == Spec /\ WF_vars(Pump) /\ WF_vars(Consumer)

-----------------------------------------------------------------------------
(* Properties *)

\* What the consumer is told, a callback's log included, accounts for every item,
\* in order and once: history before live items, a lag where items were
\* overwritten, and nothing silently lost but the answer to a read the consumer
\* cancelled.  And the iteration does not end before that, nor before the engine has
\* closed the broadcast.
Accounted == INSTANCE AccountedStream WITH
  Gap <- Lagged, position <- accounted

RefinesAccountedStream == Accounted!Spec

\* A consumer that keeps reading learns of every item, as itself or in a lag,
\* however slow it is: the pump never stops at a full channel for good.
EveryItemAccounted ==
  \A n \in 1..MaxItems :
    (consumer # "none" /\ produced >= n) ~> (accounted >= n \/ ~open)

\* Closing the broadcast ends the iteration rather than leaving it hanging.
StreamEnds == (consumer # "none" /\ closed) ~> (ended \/ ~open)

\* A pump whose consumer is gone stops at the next item it has for it.
PumpStopsAfterDrop == (~open /\ next <= produced) ~> pump = "done"
=============================================================================
