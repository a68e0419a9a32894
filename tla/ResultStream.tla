----------------------------- MODULE ResultStream -----------------------------
(***************************************************************************)
(* query_results: a result stream and the StreamingReaction behind it.     *)
(* The reaction holds the channel's only sender until it first starts,     *)
(* hands it to its processing task then, and has none ever after, so the   *)
(* stream lives as long as that one task.                                  *)
(*                                                                         *)
(* The query and the rest of the engine are reduced to what they do to the *)
(* reaction: results arrive in its queue while it runs, starting and       *)
(* stopping the engine start and stop it, and a closed engine keeps it     *)
(* registered.                                                             *)
(***************************************************************************)
EXTENDS Integers, Sequences

CONSTANTS
  Buffer,      \* the bound of the stream's channel
  OpensOn,     \* the states of the engine the application opens streams in
  MaxItems,    \* bound: the query produces no more results than this
  MaxRestarts  \* bound: the engine or the reaction starts no more often

ASSUME ResultAssumptions ==
  /\ Buffer \in Nat \ {0}
  /\ OpensOn \subseteq {"stopped", "running", "closed"}
  /\ MaxItems \in Nat /\ MaxRestarts \in Nat

VARIABLES
  engine,   \* "stopped", "running" or "closed"
  reaction, \* "unregistered", "stopped" or "running"
  sender,   \* who has the sender: nobody yet, the "reaction", its "task", or
            \* nobody any more ("gone")
  emitted,  \* how many results reached the reaction
  queue,    \* those its task has yet to take
  sending,  \* the one its task is sending, 0 if none
  channel,  \* the stream's channel
  open,     \* the consumer has the stream
  ended,    \* the iteration is over
  told,     \* history: the results the consumer got
  starts    \* bound: how often the reaction started

resultVars == <<engine, reaction, sender, emitted, queue, sending, channel,
               open, ended, told, starts>>

None == 0
Items == 1..MaxItems

ResultTypeOK ==
  /\ engine \in {"stopped", "running", "closed"}
  /\ reaction \in {"unregistered", "stopped", "running"}
  /\ sender \in {"none", "reaction", "task", "gone"}
  /\ emitted \in 0..MaxItems
  /\ queue \in Seq(Items)
  /\ sending \in Items \cup {None}
  /\ channel \in Seq(Items) /\ Len(channel) <= Buffer
  /\ open \in BOOLEAN /\ ended \in BOOLEAN
  /\ told \in Seq(Items)
  /\ starts \in 0..(MaxRestarts + 1)

ResultInit ==
  /\ engine \in {"stopped", "running"}
  /\ reaction = "unregistered" /\ sender = "none"
  /\ emitted = 0 /\ queue = <<>> /\ sending = None
  /\ channel = <<>>
  /\ open = FALSE /\ ended = FALSE /\ told = <<>>
  /\ starts = 0

-----------------------------------------------------------------------------
(* The reaction *)

\* Mutant of StartReaction: every start spawns a task with a sender
StartWithNewSender ==
  /\ starts <= MaxRestarts
  /\ starts' = starts + 1
  /\ reaction' = "running"
  /\ sender' = IF sender = "none" THEN sender ELSE "task"

\* start(): the first one spawns the task with the sender, a later one only
\* sets the status
StartReaction ==
  /\ starts <= MaxRestarts
  /\ starts' = starts + 1
  /\ reaction' = "running"
  /\ sender' = IF sender = "reaction" THEN "task" ELSE sender

\* Mutant of EndTask: the task's sender outlives it
EndTaskKeepingSender ==
  /\ sender' = IF sender = "task" THEN "reaction" ELSE sender
  /\ sending' = None

\* stop() ends the task; its sender, and what it was about to send, are dropped
EndTask ==
  /\ sender' = IF sender = "task" THEN "gone" ELSE sender
  /\ sending' = None

\* query_results: a running engine starts the reaction at once, any other,
\* a closed one included, registers it and leaves it
OpenStream ==
  /\ reaction = "unregistered" /\ sender = "none"
  /\ engine \in OpensOn
  /\ open' = TRUE
  /\ IF engine = "running"
     THEN reaction' = "running" /\ sender' = "task" /\ starts' = 1
     ELSE reaction' = "stopped" /\ sender' = "reaction" /\ UNCHANGED starts
  /\ UNCHANGED <<engine, emitted, queue, sending, channel, ended, told>>

StartEngine ==
  /\ engine = "stopped"
  /\ engine' = "running"
  /\ \/ reaction = "stopped" /\ StartReaction
     \/ reaction = "unregistered" /\ UNCHANGED <<reaction, sender, starts>>
  /\ UNCHANGED <<emitted, queue, sending, channel, open, ended, told>>

\* stop() and close()
HaltEngine ==
  /\ \/ engine = "running" /\ engine' = "stopped"
     \/ engine # "closed" /\ engine' = "closed"
  /\ \/ reaction = "running" /\ reaction' = "stopped" /\ EndTask
     \/ reaction # "running" /\ UNCHANGED <<reaction, sender, sending>>
  /\ UNCHANGED <<emitted, queue, channel, open, ended, told, starts>>

\* start_reaction and stop_reaction by its id
StartByName ==
  /\ engine = "running" /\ reaction = "stopped"
  /\ StartReaction
  /\ UNCHANGED <<engine, emitted, queue, sending, channel, open, ended, told>>

StopByName ==
  /\ engine # "closed" /\ reaction = "running"
  /\ reaction' = "stopped"
  /\ EndTask
  /\ UNCHANGED <<engine, emitted, queue, channel, open, ended, told, starts>>

\* remove_reaction drops the reaction with the sender it may still have
RemoveByName ==
  /\ engine # "closed" /\ reaction # "unregistered"
  /\ reaction' = "unregistered"
  /\ sender' = "gone" /\ sending' = None
  /\ UNCHANGED <<engine, emitted, queue, channel, open, ended, told, starts>>

\* enqueue_query_result
Enqueue ==
  /\ reaction = "running"
  /\ emitted < MaxItems
  /\ emitted' = emitted + 1
  /\ queue' = Append(queue, emitted + 1)
  /\ UNCHANGED <<engine, reaction, sender, sending, channel, open, ended, told,
                 starts>>

\* Mutant of TakeResult: the newest first
TakeNewest ==
  /\ sender = "task" /\ sending = None
  /\ queue # <<>>
  /\ sending' = queue[Len(queue)]
  /\ queue' = SubSeq(queue, 1, Len(queue) - 1)
  /\ UNCHANGED <<engine, reaction, sender, emitted, channel, open, ended, told,
                 starts>>

\* the task's loop hands the handler the next result
TakeResult ==
  /\ sender = "task" /\ sending = None
  /\ queue # <<>>
  /\ sending' = Head(queue)
  /\ queue' = Tail(queue)
  /\ UNCHANGED <<engine, reaction, sender, emitted, channel, open, ended, told,
                 starts>>

\* Mutant of SendResult: does not wait for room
SendOrDrop ==
  /\ sender = "task" /\ sending # None
  /\ channel' = IF open /\ Len(channel) < Buffer
                THEN Append(channel, sending) ELSE channel
  /\ sending' = None
  /\ UNCHANGED <<engine, reaction, sender, emitted, queue, open, ended, told,
                 starts>>

\* the handler waits for room, or ignores that the stream is gone
SendResult ==
  /\ sender = "task" /\ sending # None
  /\ \/ open /\ Len(channel) < Buffer /\ channel' = Append(channel, sending)
     \/ ~open /\ UNCHANGED channel
  /\ sending' = None
  /\ UNCHANGED <<engine, reaction, sender, emitted, queue, open, ended, told,
                 starts>>

-----------------------------------------------------------------------------
(* The consumer *)

ReadResult ==
  /\ open /\ channel # <<>>
  /\ told' = Append(told, Head(channel))
  /\ channel' = Tail(channel)
  /\ UNCHANGED <<engine, reaction, sender, emitted, queue, sending, open, ended,
                 starts>>

ReadEnd ==
  /\ open /\ ~ended
  /\ channel = <<>> /\ sender = "gone"
  /\ ended' = TRUE
  /\ UNCHANGED <<engine, reaction, sender, emitted, queue, sending, channel,
                 open, told, starts>>

\* break out of the loop, and the Stream goes out of scope
DropStream ==
  /\ open
  /\ open' = FALSE
  /\ channel' = <<>>
  /\ UNCHANGED <<engine, reaction, sender, emitted, queue, sending, ended, told,
                 starts>>

-----------------------------------------------------------------------------
Task == TakeResult \/ SendResult
Consumer == ReadResult \/ ReadEnd

ResultNext ==
  \/ OpenStream \/ StartEngine \/ HaltEngine
  \/ StartByName \/ StopByName \/ RemoveByName
  \/ Enqueue \/ Task \/ Consumer \/ DropStream

ResultSpec == ResultInit /\ [][ResultNext]_resultVars

\* the runtime polls the task, and the consumer keeps reading
FairResultSpec == ResultSpec /\ WF_resultVars(Task) /\ WF_resultVars(Consumer)

\* the runtime polls the task, and the consumer may stop reading
SlowReaderSpec == ResultSpec /\ WF_resultVars(Task)

-----------------------------------------------------------------------------
(* Properties *)

InTask == IF sending = None THEN <<>> ELSE <<sending>>

\* A stream tells a prefix of the results, however the reaction was stopped and
\* started again: a second run of it feeds nothing into the stream.  And while
\* the task runs nothing is lost, repeated or reordered on the way: what was read,
\* what waits in the channel, in the task and in the queue are together exactly
\* the results, whether the reaction was held back or not.
NothingSkipped ==
  /\ told = [i \in 1..Len(told) |-> i]
  /\ open /\ sender = "task" =>
       told \o channel \o InTask \o queue = [i \in 1..emitted |-> i]

\* The end of a stream is the end: no later start of the reaction or the
\* engine revives a stream whose consumer was told that it is over
\* (components.rs:377).
EndIsFinal == [][ended => UNCHANGED <<ended, told>>]_resultVars

Told(n) == \E i \in DOMAIN told : told[i] = n

\* A consumer that keeps reading gets every result, unless the reaction is
\* stopped or the consumer leaves: the handler waits for one that is slower than
\* the query (components.rs:391-394).  It drops nothing, although streaming.md:65-67
\* says that it does: SlowReaderHoldsNothingUp is what that would give.
ReaderGetsAll ==
  \A n \in Items :
    (open /\ sender = "task" /\ emitted >= n) ~>
      (Told(n) \/ sender = "gone" \/ ~open)

\* Closing the engine ends every open stream whose reaction ever ran, rather than
\* leaving it hanging.
StartedStreamEnds ==
  (open /\ engine = "closed" /\ starts > 0) ~> (ended \/ ~open)

\* The guide on falling behind (streaming.md:65-67): a consumer slower than the
\* query holds nothing up, since the stream drops its oldest items.
SlowReaderHoldsNothingUp ==
  \A n \in Items :
    (open /\ sender = "task" /\ sending = n) ~> (sending # n \/ ~open)

\* The comment on Stream (streams.rs:55-56) and streaming.md:84-85: closing the
\* engine ends any open stream, rather than leaving it hanging.
EveryStreamEnds == (open /\ engine = "closed") ~> (ended \/ ~open)
=============================================================================
