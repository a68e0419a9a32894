---------------------------- MODULE ResultProofs ----------------------------
(***************************************************************************)
(* Proofs about the two that a query's results are for: the result stream  *)
(* (ResultStream) and the reaction (DurableReaction).  They share no state *)
(* and no lemma.                                                           *)
(***************************************************************************)
EXTENDS ResultStream, DurableReaction, SequenceTheorems, TLAPS

(***************************************************************************)
(* The result stream, for any bounds.  The invariant numbers the results   *)
(* on their way through the channel, the task and the queue one after      *)
(* another, from those the consumer was told to those the reaction was     *)
(* given.                                                                  *)
(***************************************************************************)

-----------------------------------------------------------------------------
(* The invariant                                                           *)

\* s holds the results after the first p, in order.
From(s, p) == \A i \in 1..Len(s) : s[i] = p + i

\* How many results the task has let out of its hands.
Sent == Len(told) + Len(channel)
InHand == IF sending = None THEN 0 ELSE 1

\* Nothing comes before the sender is with the task, or after the task is gone.
Sender ==
  /\ sender = "none" => reaction = "unregistered" /\ ~open
  /\ sender = "reaction" => reaction = "stopped"
  /\ sender \in {"none", "reaction"} => /\ emitted = 0 /\ queue = <<>> /\ told = <<>>
                                        /\ channel = <<>>
  /\ sender # "task" => sending = None
  /\ ~open => channel = <<>>

InOrder ==
  /\ From(told, 0)
  /\ From(channel, Len(told))
  /\ open /\ sender = "task" =>
       /\ sending # None => sending = Sent + 1
       /\ From(queue, Sent + InHand)
       /\ Sent + InHand + Len(queue) = emitted

ResultInv == ResultTypeOK /\ Sender /\ InOrder

-----------------------------------------------------------------------------
(* Counting                                                                *)

\* Two runs of numbers, one after the other, are one.
LEMMA RunsJoin ==
  ASSUME NEW s \in Seq(Nat), NEW t \in Seq(Nat),
         s = [i \in 1..Len(s) |-> i], From(t, Len(s))
  PROVE  s \o t = [i \in 1..(Len(s) + Len(t)) |-> i]
<1>1. /\ s \o t \in Seq(Nat) /\ Len(s \o t) = Len(s) + Len(t)
      /\ \A i \in 1..Len(s) + Len(t) :
           (s \o t)[i] = IF i <= Len(s) THEN s[i] ELSE t[i - Len(s)]
  BY ConcatProperties
<1>2. s \o t = [i \in 1..Len(s) + Len(t) |-> (s \o t)[i]]
  BY <1>1, LenProperties
<1>3. ASSUME NEW i \in 1..Len(s) + Len(t) PROVE (s \o t)[i] = i
  <2>1. CASE i <= Len(s)
    <3>1. i \in 1..Len(s)
      BY <2>1
    <3> QED
      BY <1>1, <2>1, <3>1
  <2>2. CASE ~(i <= Len(s))
    <3>1. i - Len(s) \in 1..Len(t)
      BY <2>2
    <3> QED
      BY <1>1, <2>2, <3>1 DEF From
  <2> QED
    BY <2>1, <2>2
<1> QED
  BY <1>2, <1>3

\* The invariant says what NothingSkipped says.
LEMMA InvSkipsNothing == ResultInv => NothingSkipped
<1> SUFFICES ASSUME ResultInv PROVE NothingSkipped
  OBVIOUS
<1>1. /\ told \in Seq(Items) /\ channel \in Seq(Items) /\ queue \in Seq(Items)
      /\ sending \in Items \union {None} /\ emitted \in Nat /\ Items \subseteq Nat
  BY ResultAssumptions DEF ResultInv, ResultTypeOK, Items
<1>2. told \in Seq(Nat) /\ channel \in Seq(Nat) /\ queue \in Seq(Nat) /\ InTask \in Seq(Nat)
  <2>1. told \in Seq(Nat) /\ channel \in Seq(Nat) /\ queue \in Seq(Nat)
    BY <1>1, SeqMonotonic
  <2>2. CASE sending = None
    BY <2>1, <2>2 DEF InTask
  <2>3. CASE sending # None
    <3>1. sending \in Nat
      BY <1>1, <2>3
    <3>2. <<sending>> \in Seq(Nat)
      BY <3>1
    <3> QED
      BY <2>1, <2>3, <3>2 DEF InTask
  <2> QED
    BY <2>1, <2>2, <2>3
<1>3. told = [i \in 1..Len(told) |-> i]
  <2>1. told = [i \in 1..Len(told) |-> told[i]]
    BY <1>1
  <2>2. \A i \in 1..Len(told) : told[i] = i
    BY <1>1 DEF ResultInv, InOrder, From
  <2> QED
    BY <2>1, <2>2
<1>4. ASSUME open, sender = "task"
      PROVE  told \o channel \o InTask \o queue = [i \in 1..emitted |-> i]
  <2>1. /\ From(channel, Len(told)) /\ From(queue, Sent + InHand)
        /\ sending # None => sending = Sent + 1
        /\ Sent + InHand + Len(queue) = emitted
    BY <1>4 DEF ResultInv, InOrder
  <2> DEFINE s == told \o channel
  <2>2. /\ s = [i \in 1..Sent |-> i] /\ s \in Seq(Nat) /\ Len(s) = Sent
    <3>1. s = [i \in 1..Len(told) + Len(channel) |-> i]
      BY <1>2, <1>3, <2>1, RunsJoin
    <3>2. s \in Seq(Nat) /\ Len(s) = Len(told) + Len(channel)
      BY <1>2, ConcatProperties
    <3> QED
      BY <3>1, <3>2 DEF Sent
  <2> HIDE DEF s
  <2>3. Len(InTask) = InHand /\ From(InTask, Len(s))
    <3>1. CASE sending = None
      BY <3>1 DEF InTask, InHand, From
    <3>2. CASE sending # None
      <4>1. Len(<<sending>>) = 1 /\ <<sending>>[1] = sending /\ sending = Sent + 1
        BY <2>1, <3>2
      <4>2. InTask = <<sending>> /\ InHand = 1
        BY <3>2 DEF InTask, InHand
      <4>3. \A i \in 1..1 : <<sending>>[i] = Len(s) + i
        <5>1. \A i \in 1..1 : i = 1
          OBVIOUS
        <5>2. <<sending>>[1] = Len(s) + 1
          BY <2>2, <4>1
        <5> QED
          BY <5>1, <5>2
      <4> QED
        BY <4>1, <4>2, <4>3 DEF From
    <3> QED
      BY <3>1, <3>2
  <2> DEFINE t == s \o InTask
  <2>4. /\ t = [i \in 1..Sent + InHand |-> i] /\ t \in Seq(Nat) /\ Len(t) = Sent + InHand
    <3>1. s = [i \in 1..Len(s) |-> i]
      BY <2>2
    <3>2. t = [i \in 1..Len(s) + Len(InTask) |-> i]
      BY <1>2, <2>2, <2>3, <3>1, RunsJoin
    <3>3. t \in Seq(Nat) /\ Len(t) = Len(s) + Len(InTask)
      BY <1>2, <2>2, ConcatProperties
    <3> QED
      BY <2>2, <2>3, <3>2, <3>3
  <2> HIDE DEF t
  <2>5. t \o queue = [i \in 1..emitted |-> i]
    <3>1. t = [i \in 1..Len(t) |-> i] /\ From(queue, Len(t))
      BY <2>1, <2>4
    <3> QED
      BY <1>2, <2>1, <2>4, <3>1, RunsJoin
  <2> QED
    BY <2>5 DEF s, t
<1> QED
  BY <1>3, <1>4 DEF NothingSkipped

-----------------------------------------------------------------------------
(* The invariant is inductive                                              *)

LEMMA ResultInitInv == ResultInit => ResultInv
<1> SUFFICES ASSUME ResultInit PROVE ResultInv
  OBVIOUS
<1>1. <<>> \in Seq(Items) /\ Len(<<>>) = 0 /\ 0 \in 0..MaxItems /\ 0 \in 0..MaxRestarts + 1
      /\ 0 <= Buffer
  BY ResultAssumptions
<1>2. ResultTypeOK
  BY <1>1 DEF ResultInit, ResultTypeOK, None
<1>3. Sender /\ InOrder
  BY DEF ResultInit, Sender, InOrder, From
<1> QED
  BY <1>2, <1>3 DEF ResultInv

\* Opening the stream, and the engine and the calls that start the reaction.
LEMMA StartInv ==
  ASSUME ResultInv, OpenStream \/ StartEngine \/ StartByName
  PROVE  ResultInv'
<1>1. UNCHANGED <<emitted, queue, sending, channel, told, ended>>
  BY DEF OpenStream, StartEngine, StartByName
<1>2. ResultTypeOK'
  <2>1. starts' \in 0..MaxRestarts + 1
    BY ResultAssumptions DEF OpenStream, StartEngine, StartByName, StartReaction, ResultInv, ResultTypeOK
  <2>2. /\ engine' \in {"stopped", "running", "closed"}
        /\ reaction' \in {"unregistered", "stopped", "running"}
        /\ sender' \in {"none", "reaction", "task", "gone"}
        /\ open' \in BOOLEAN
    BY DEF OpenStream, StartEngine, StartByName, StartReaction, ResultInv, ResultTypeOK
  <2> QED
    BY <1>1, <2>1, <2>2 DEF ResultInv, ResultTypeOK
<1>3. Sender'
  <2>1. CASE OpenStream
    BY <2>1 DEF OpenStream, ResultInv, Sender
  <2>2. CASE StartEngine
    BY <2>2 DEF StartEngine, StartReaction, ResultInv, Sender
  <2>3. CASE StartByName
    BY <2>3 DEF StartByName, StartReaction, ResultInv, Sender
  <2> QED
    BY <2>1, <2>2, <2>3
<1>4. sender' = "task" => \/ sender = "task" /\ open' = open
                          \/ sender \in {"none", "reaction"}
  BY DEF OpenStream, StartEngine, StartByName, StartReaction, ResultInv, Sender
<1>5. InOrder'
  <2>1. CASE sender \in {"none", "reaction"}
    <3>1. emitted = 0 /\ queue = <<>> /\ told = <<>> /\ channel = <<>> /\ sending = None
      BY <2>1 DEF ResultInv, Sender
    <3> QED
      BY <1>1, <3>1 DEF InOrder, From, Sent, InHand
  <2>2. CASE sender \notin {"none", "reaction"}
    BY <1>1, <1>4, <2>2 DEF ResultInv, InOrder, From, Sent, InHand
  <2> QED
    BY <2>1, <2>2
<1> QED
  BY <1>2, <1>3, <1>5 DEF ResultInv

LEMMA HaltInv ==
  ASSUME ResultInv, HaltEngine \/ StopByName \/ RemoveByName
  PROVE  ResultInv'
<1>1. /\ UNCHANGED <<emitted, queue, channel, open, ended, told, starts>>
      /\ sending' \in {sending, None}
      /\ engine' \in {"stopped", "closed", engine}
      /\ reaction' \in {"stopped", "unregistered", reaction}
      /\ \/ sender' = "gone" /\ sending' = None
         \/ UNCHANGED <<reaction, sender, sending>>
         \/ sender # "task" /\ reaction = "running" /\ sender' = sender /\ sending' = None
  BY DEF HaltEngine, StopByName, RemoveByName, EndTask
<1>2. ResultTypeOK'
  BY <1>1 DEF ResultInv, ResultTypeOK
<1>3. Sender'
  BY <1>1 DEF ResultInv, Sender
<1>4. InOrder'
  BY <1>1 DEF ResultInv, InOrder, From, Sent, InHand
<1> QED
  BY <1>2, <1>3, <1>4 DEF ResultInv

LEMMA EnqueueInv == ASSUME ResultInv, Enqueue PROVE ResultInv'
<1>1. /\ reaction = "running" /\ emitted < MaxItems /\ emitted' = emitted + 1
      /\ queue' = Append(queue, emitted + 1)
      /\ UNCHANGED <<engine, reaction, sender, sending, channel, open, ended, told, starts>>
  BY DEF Enqueue
<1>2. /\ emitted \in Nat /\ emitted + 1 \in Items /\ emitted' \in 0..MaxItems
      /\ queue \in Seq(Items) /\ queue' \in Seq(Items) /\ Len(queue') = Len(queue) + 1
      /\ \A i \in 1..Len(queue) : queue'[i] = queue[i]
      /\ queue'[Len(queue) + 1] = emitted + 1
      /\ Len(told) \in Nat /\ Len(channel) \in Nat /\ Len(queue) \in Nat
  BY <1>1, ResultAssumptions DEF ResultInv, ResultTypeOK, Items
<1>3. ResultTypeOK'
  BY <1>1, <1>2 DEF ResultInv, ResultTypeOK
<1>4. Sender'
  BY <1>1 DEF ResultInv, Sender
<1>5. ASSUME open, sender = "task"
      PROVE  From(queue', Sent + InHand) /\ Sent + InHand + Len(queue') = emitted'
  <2>1. /\ Sent + InHand \in Nat /\ Sent + InHand + Len(queue) = emitted
        /\ From(queue, Sent + InHand)
    BY <1>2, <1>5 DEF ResultInv, InOrder, Sent, InHand
  <2> QED
    BY <1>1, <1>2, <2>1 DEF From
<1>6. InOrder'
  BY <1>1, <1>5 DEF ResultInv, InOrder, From, Sent, InHand
<1> QED
  BY <1>3, <1>4, <1>6 DEF ResultInv

LEMMA TakeResultInv == ASSUME ResultInv, TakeResult PROVE ResultInv'
<1>1. /\ sender = "task" /\ sending = None /\ queue # <<>>
      /\ sending' = Head(queue) /\ queue' = Tail(queue)
      /\ UNCHANGED <<engine, reaction, sender, emitted, channel, open, ended, told, starts>>
  BY DEF TakeResult
<1>2. /\ queue \in Seq(Items) /\ Len(queue) \in Nat \ {0}
      /\ queue' \in Seq(Items) /\ Len(queue') = Len(queue) - 1
      /\ \A i \in 1..Len(queue') : queue'[i] = queue[i + 1]
      /\ sending' = queue[1] /\ sending' \in Items /\ sending' # None
      /\ Len(told) \in Nat /\ Len(channel) \in Nat
  BY <1>1, ResultAssumptions DEF ResultInv, ResultTypeOK, Items, None
<1>3. ResultTypeOK'
  BY <1>1, <1>2 DEF ResultInv, ResultTypeOK
<1>4. Sender'
  BY <1>1 DEF ResultInv, Sender
<1>5. InOrder'
  BY <1>1, <1>2 DEF ResultInv, InOrder, From, Sent, InHand
<1> QED
  BY <1>3, <1>4, <1>5 DEF ResultInv

LEMMA SendResultInv == ASSUME ResultInv, SendResult PROVE ResultInv'
<1>1. /\ sender = "task" /\ sending # None /\ sending' = None
      /\ UNCHANGED <<engine, reaction, sender, emitted, queue, open, ended, told, starts>>
      /\ \/ open /\ Len(channel) < Buffer /\ channel' = Append(channel, sending)
         \/ ~open /\ UNCHANGED channel
  BY DEF SendResult
<1>2. /\ channel \in Seq(Items) /\ sending \in Items
      /\ Len(told) \in Nat /\ Len(channel) \in Nat /\ Len(queue) \in Nat
  BY <1>1 DEF ResultInv, ResultTypeOK
<1>3. CASE ~open /\ UNCHANGED channel
  BY <1>1, <1>3 DEF ResultInv, ResultTypeOK, Sender, InOrder, From
<1>4. CASE open /\ Len(channel) < Buffer /\ channel' = Append(channel, sending)
  <2>1. /\ channel' \in Seq(Items) /\ Len(channel') = Len(channel) + 1
        /\ \A i \in 1..Len(channel) : channel'[i] = channel[i]
        /\ channel'[Len(channel) + 1] = sending
    BY <1>2, <1>4
  <2>2. ResultTypeOK' /\ Sender'
    BY <1>1, <1>2, <1>4, <2>1, ResultAssumptions DEF ResultInv, ResultTypeOK, Sender
  <2>3. /\ Sent + 1 \in Nat /\ Sent' = Sent + 1 /\ InHand = 1 /\ InHand' = 0
        /\ sending = Sent + 1 /\ From(queue, Sent + 1) /\ Sent + 1 + Len(queue) = emitted
    BY <1>1, <1>2, <1>4, <2>1 DEF ResultInv, InOrder, Sent, InHand
  <2>4. From(channel', Len(told))
    <3>1. /\ \A i \in 1..Len(channel) : channel'[i] = Len(told) + i
          /\ channel'[Len(channel) + 1] = Len(told) + (Len(channel) + 1)
      BY <1>2, <2>1, <2>3 DEF ResultInv, InOrder, From, Sent
    <3> QED
      BY <1>2, <2>1, <3>1 DEF From
  <2>5. InOrder'
    BY <1>1, <1>2, <1>4, <2>3, <2>4 DEF ResultInv, InOrder, From
  <2> QED
    BY <2>2, <2>5 DEF ResultInv
<1> QED
  BY <1>1, <1>3, <1>4

LEMMA ReadResultInv == ASSUME ResultInv, ReadResult PROVE ResultInv'
<1>1. /\ open /\ channel # <<>> /\ told' = Append(told, Head(channel)) /\ channel' = Tail(channel)
      /\ UNCHANGED <<engine, reaction, sender, emitted, queue, sending, open, ended, starts>>
  BY DEF ReadResult
<1>2. /\ channel \in Seq(Items) /\ Len(channel) \in Nat \ {0}
      /\ channel' \in Seq(Items) /\ Len(channel') = Len(channel) - 1
      /\ \A i \in 1..Len(channel') : channel'[i] = channel[i + 1]
      /\ told \in Seq(Items) /\ told' \in Seq(Items) /\ Len(told') = Len(told) + 1
      /\ \A i \in 1..Len(told) : told'[i] = told[i]
      /\ told'[Len(told) + 1] = channel[1]
      /\ Len(told) \in Nat /\ Len(queue) \in Nat
  BY <1>1 DEF ResultInv, ResultTypeOK
<1>3. ResultTypeOK' /\ Sender'
  BY <1>1, <1>2, ResultAssumptions DEF ResultInv, ResultTypeOK, Sender
<1>4. Sent' = Sent
  BY <1>2 DEF Sent
<1>5. InOrder'
  BY <1>1, <1>2, <1>4 DEF ResultInv, InOrder, From, InHand
<1> QED
  BY <1>3, <1>5 DEF ResultInv

LEMMA ConsumerInv == ASSUME ResultInv, ReadEnd \/ DropStream PROVE ResultInv'
<1>1. <<>> \in Seq(Items) /\ Len(<<>>) <= Buffer
  BY ResultAssumptions
<1>2. CASE ReadEnd
  BY <1>2 DEF ReadEnd, ResultInv, ResultTypeOK, Sender, InOrder, From, Sent, InHand
<1>3. CASE DropStream
  <2>1. /\ open' = FALSE /\ channel' = <<>>
        /\ UNCHANGED <<engine, reaction, sender, emitted, queue, sending, ended, told, starts>>
    BY <1>3 DEF DropStream
  <2>2. ResultTypeOK' /\ Sender'
    BY <1>1, <2>1 DEF ResultInv, ResultTypeOK, Sender
  <2>3. InOrder'
    BY <1>1, <2>1 DEF ResultInv, InOrder, From
  <2> QED
    BY <2>2, <2>3 DEF ResultInv
<1> QED
  BY <1>2, <1>3

LEMMA ResultNextInv == ResultInv /\ [ResultNext]_resultVars => ResultInv'
<1> SUFFICES ASSUME ResultInv, [ResultNext]_resultVars PROVE ResultInv'
  OBVIOUS
<1>1. CASE UNCHANGED resultVars
  BY <1>1 DEF resultVars, ResultInv, ResultTypeOK, Sender, InOrder, From, Sent, InHand
<1> QED
  BY <1>1, StartInv, HaltInv, EnqueueInv, TakeResultInv, SendResultInv, ReadResultInv,
     ConsumerInv DEF ResultNext, Task, Consumer

-----------------------------------------------------------------------------
(* The theorems                                                            *)

\* The inductive invariant holds of every state.
THEOREM ResultInvariance == ResultSpec => []ResultInv
BY ResultInitInv, ResultNextInv, PTL DEF ResultSpec

\* Every variable keeps its type, the channel its bound.
THEOREM ResultTypeCorrect == ResultSpec => []ResultTypeOK
<1>1. ResultInv => ResultTypeOK
  BY DEF ResultInv
<1> QED
  BY <1>1, ResultInvariance, PTL

\* A stream tells a prefix of the results, and while its task runs what was read and
\* what is on the way are all of them, for any bound of the channel and however often
\* the reaction is started again (StreamingReaction, components.rs:318-420).
THEOREM SkipsNothing == ResultSpec => []NothingSkipped
BY InvSkipsNothing, ResultInvariance, PTL
\* After the end there is nothing on its way and nobody to send it.
Over == ended => sender = "gone" /\ channel = <<>>

LEMMA StaysOver == ResultInv /\ Over /\ [ResultNext]_resultVars => Over'
<1> SUFFICES ASSUME ResultInv, Over, [ResultNext]_resultVars PROVE Over'
  OBVIOUS
<1>1. CASE UNCHANGED resultVars
  BY <1>1 DEF resultVars, Over
<1>2. CASE OpenStream \/ StartEngine \/ HaltEngine \/ StartByName \/ StopByName \/ RemoveByName
  BY <1>2 DEF OpenStream, StartEngine, HaltEngine, StartByName, StopByName, RemoveByName,
     StartReaction, EndTask, Over
<1>3. CASE Enqueue \/ Task
  BY <1>3 DEF Enqueue, Task, TakeResult, SendResult, Over
<1>4. CASE Consumer \/ DropStream
  BY <1>4 DEF Consumer, ReadResult, ReadEnd, DropStream, Over
<1> QED
  BY <1>1, <1>2, <1>3, <1>4 DEF ResultNext

\* A stream whose consumer was told that it is over gives nothing any more, whatever
\* is started, stopped or removed after it (StreamingReaction::start, Stream::__anext__).
THEOREM EndStays == ResultSpec => EndIsFinal
<1>1. ResultInit => Over
  BY DEF ResultInit, Over
<1>2. Over /\ [ResultNext]_resultVars => [ended => UNCHANGED <<ended, told>>]_resultVars
  <2> SUFFICES ASSUME Over, [ResultNext]_resultVars, ended PROVE UNCHANGED <<ended, told>>
    OBVIOUS
  <2> QED
    BY DEF resultVars, ResultNext, OpenStream, StartEngine, HaltEngine, StartByName, StopByName,
       RemoveByName, StartReaction, EndTask, Enqueue, Task, TakeResult, SendResult, Consumer,
       ReadResult, ReadEnd, DropStream, Over
<1> QED
  BY <1>1, <1>2, StaysOver, ResultInvariance, PTL DEF ResultSpec, EndIsFinal

(***************************************************************************)
(* The reaction: that its checkpoint never gets ahead of what was handled, *)
(* and that what is handled twice is explained, for either kind, any       *)
(* number of results, any outbox, and every policy and callback.           *)
(***************************************************************************)

Done == handled \union gaveUp

\* where the loop is: behind it everything is done, and it goes by no more
\* than the checkpoint in the store
LoopInv ==
  task # "off" =>
    /\ known <= stored
    /\ \A n \in Results : origin < n /\ n < next => n \in Done
    /\ task = "called" => next \in Done

\* a result that is being handled has been produced and is ahead of the loop's
\* checkpoint
CurrentInv == task \in {"calling", "called"} => next <= produced /\ known < next

ReactionInv == TypeOK /\ LoopInv /\ CurrentInv /\ NothingLost

\* A loop goes by the checkpoint, unless that was forgotten; what was handled is
\* checkpointed, in doubt, behind a forgotten checkpoint or about to be checkpointed.
RepeatInv ==
  /\ task # "off" => known = stored \/ stored <= forgotten
  /\ \A n \in handled :
       \/ n <= stored
       \/ n \in doubtful
       \/ n <= forgotten
       \/ task = "called" /\ n = next

-----------------------------------------------------------------------------
(* Types *)

LEMMA InitTyped == Init => ReactionInv
<1> SUFFICES ASSUME Init PROVE ReactionInv
  OBVIOUS
<1>1. TypeOK
  <2>1. produced \in 0..MaxResults /\ origin \in 0..MaxResults /\ oldest \in 0..produced
    BY Assumptions DEF Init
  <2>2. stored \in -1..MaxResults /\ known \in -1..MaxResults
        /\ forgotten \in -1..MaxResults
    BY Assumptions DEF Init, NoCheckpoint
  <2>3. next \in 1..MaxResults + 1
    BY Assumptions DEF Init
  <2> QED
    BY <2>1, <2>2, <2>3 DEF Init, TypeOK
<1>2. LoopInv /\ CurrentInv
  BY DEF Init, LoopInv, CurrentInv
<1>3. NothingLost
  BY Assumptions DEF Init, NothingLost, NoCheckpoint, Results
<1> QED
  BY <1>1, <1>2, <1>3 DEF ReactionInv

LEMMA OldestType ==
  ASSUME TypeOK
  PROVE  oldest \in 0..MaxResults /\ oldest <= produced
  BY Assumptions DEF TypeOK

LEMMA GiveUpType ==
  ASSUME TypeOK, NEW from \in Nat \ {0}, NEW to \in 0..MaxResults, GiveUp(from, to)
  PROVE  gaveUp' \subseteq Results
<1>1. from..to \subseteq Results
  BY Assumptions DEF Results
<1> QED
  BY <1>1 DEF TypeOK, GiveUp

LEMMA RecoverType ==
  ASSUME TypeOK, Recover
  PROVE  /\ stored' \in -1..MaxResults
         /\ next' \in 1..MaxResults + 1
         /\ gaveUp' \subseteq Results
         /\ origin' \in 0..MaxResults
<1>1. oldest \in 0..MaxResults /\ oldest <= produced
  BY OldestType
<1>2. CASE stored = NoCheckpoint /\ UNCHANGED gaveUp
  BY <1>1, <1>2, Assumptions DEF TypeOK, Recover, Reset, NoCheckpoint, Gap
<1>3. CASE Gap /\ UNCHANGED origin
  <2>1. stored + 1 \in Nat \ {0}
    BY <1>3 DEF TypeOK, Gap, NoCheckpoint
  <2>2. CASE Reset /\ GiveUp(stored + 1, produced)
    BY <1>3, <2>1, <2>2, GiveUpType, Assumptions DEF TypeOK, Reset
  <2>3. CASE next' = oldest + 1 /\ GiveUp(stored + 1, oldest) /\ UNCHANGED stored
    BY <1>1, <1>3, <2>1, <2>3, GiveUpType, Assumptions DEF TypeOK
  <2> QED
    BY <1>3, <2>2, <2>3 DEF Recover, Gap
<1>4. CASE stored # NoCheckpoint /\ ~Gap /\ UNCHANGED <<stored, gaveUp, origin>>
  BY <1>1, <1>4, Assumptions DEF TypeOK, Recover, NoCheckpoint
<1> QED
  BY <1>2, <1>3, <1>4 DEF Recover

LEMMA StepTyped == ReactionInv /\ [Next]_vars => TypeOK'
<1> SUFFICES ASSUME ReactionInv, [Next]_vars PROVE TypeOK'
  OBVIOUS
<1> USE DEF ReactionInv
<1> USE DEF outbox, histories
<1>1. CASE UNCHANGED vars
  BY <1>1 DEF vars, TypeOK
<1>2. ASSUME NEW p \in Policies, Add(p) PROVE TypeOK'
  BY <1>2 DEF Add, TypeOK
<1>3. CASE Produce
  BY <1>3, Assumptions DEF Produce, Later, TypeOK
<1>4. ASSUME NEW readable \in BOOLEAN, Start(readable) PROVE TypeOK'
  <2>1. /\ stored' \in -1..MaxResults /\ next' \in 1..MaxResults + 1
        /\ gaveUp' \subseteq Results /\ origin' \in 0..MaxResults
    BY <1>4, RecoverType DEF Start
  <2>2. known' \in -1..MaxResults /\ forgotten' \in -1..MaxResults
    BY <1>4, <2>1, Assumptions DEF Start, Later, TypeOK, NoCheckpoint
  <2> QED
    BY <1>4, <2>1, <2>2 DEF Start, TypeOK
<1>5. CASE Deliver
  BY <1>5, Assumptions DEF Deliver, TypeOK, histories
<1>6. CASE Return
  <2>1. next \in 1..MaxResults
    BY <1>6, Assumptions DEF Return, TypeOK, CurrentInv
  <2>2. handled' \subseteq Results /\ handled \subseteq handled' /\ gaveUp' \subseteq Results
    <3>1. GiveUp(next, next) => gaveUp' \subseteq Results
      BY <2>1, GiveUpType, Assumptions
    <3> QED
      BY <1>6, <2>1, <3>1 DEF Return, TypeOK, Results
  <2> QED
    BY <1>6, <2>2 DEF Return, TypeOK
<1>7. CASE Raise
  <2>1. next \in 1..MaxResults
    BY <1>7, Assumptions DEF Raise, TypeOK, CurrentInv
  <2>2. gaveUp' \subseteq Results
    BY <1>7, <2>1, GiveUpType DEF Raise, TypeOK
  <2> QED
    BY <1>7, <2>2 DEF Raise, TypeOK
<1>8. CASE WriteCheckpoint
  BY <1>8, Assumptions DEF WriteCheckpoint, TypeOK, CurrentInv, histories
<1>9. CASE Stop
  BY <1>9, Assumptions DEF Stop, LeaveInDoubt, TypeOK, CurrentInv, Results
<1>10. ASSUME NEW n \in Results, RunningEnds(n) PROVE TypeOK'
  BY <1>10 DEF RunningEnds, TypeOK
<1>11. CASE Crash
  <2>1. stored' \in -1..MaxResults /\ forgotten' \in -1..MaxResults
        /\ oldest' \in 0..produced
    BY <1>11, Assumptions DEF Crash, Later, NoCheckpoint, TypeOK
  <2> QED
    BY <1>11, <2>1 DEF Crash, LeaveInDoubt, TypeOK, CurrentInv
<1> QED
  BY <1>1, <1>2, <1>3, <1>4, <1>5, <1>6, <1>7, <1>8, <1>9, <1>10, <1>11
     DEF Next, Loop

-----------------------------------------------------------------------------
(* Nothing is lost *)

\* Recovery leaves everything behind the loop done, from the origin on.
LEMMA RecoverDone ==
  ASSUME ReactionInv, Recover, handled' = handled
  PROVE  /\ NothingLost'
         /\ \A n \in Results : origin' < n /\ n < next' => n \in Done'
<1> USE DEF ReactionInv, Done
<1>1. oldest \in 0..MaxResults /\ oldest <= produced
  BY OldestType
<1>2. CASE stored = NoCheckpoint /\ UNCHANGED gaveUp
  BY <1>1, <1>2, Assumptions
     DEF TypeOK, Recover, Reset, NoCheckpoint, Gap, NothingLost, Results
<1>3. CASE Gap /\ UNCHANGED origin
  <2>1. CASE Reset /\ GiveUp(stored + 1, produced)
    BY <1>3, <2>1, Assumptions
       DEF TypeOK, Reset, GiveUp, NoCheckpoint, NothingLost, Results
  <2>2. CASE next' = oldest + 1 /\ GiveUp(stored + 1, oldest) /\ UNCHANGED stored
    BY <1>1, <1>3, <2>2, Assumptions
       DEF TypeOK, GiveUp, NoCheckpoint, NothingLost, Results
  <2> QED
    BY <1>3, <2>1, <2>2 DEF Recover, Gap
<1>4. CASE stored # NoCheckpoint /\ ~Gap /\ UNCHANGED <<stored, gaveUp, origin>>
  BY <1>1, <1>4, Assumptions
     DEF TypeOK, Recover, NoCheckpoint, NothingLost, Results
<1> QED
  BY <1>2, <1>3, <1>4 DEF Recover

LEMMA StepKeeps == ReactionInv /\ [Next]_vars => ReactionInv'
<1> SUFFICES ASSUME ReactionInv, [Next]_vars PROVE ReactionInv'
  OBVIOUS
<1>0. TypeOK' /\ TypeOK
  BY StepTyped DEF ReactionInv
<1> SUFFICES LoopInv' /\ CurrentInv' /\ NothingLost'
  BY <1>0 DEF ReactionInv
<1> USE DEF ReactionInv, outbox, histories
<1>1. CASE UNCHANGED vars
  BY <1>1 DEF vars, LoopInv, Done, CurrentInv, NothingLost
<1>2. ASSUME NEW p \in Policies, Add(p)
      PROVE  LoopInv' /\ CurrentInv' /\ NothingLost'
  BY <1>2 DEF Add, histories, LoopInv, Done, CurrentInv, NothingLost
<1>3. CASE Produce
  BY <1>0, <1>3 DEF Produce, TypeOK, histories, LoopInv, Done, CurrentInv,
     NothingLost
<1>4. ASSUME NEW readable \in BOOLEAN, Start(readable)
      PROVE  LoopInv' /\ CurrentInv' /\ NothingLost'
  BY <1>0, <1>4, RecoverDone, Assumptions
     DEF Start, TypeOK, LoopInv, CurrentInv, NoCheckpoint
<1>5. CASE Deliver
  BY <1>0, <1>5, Assumptions DEF Deliver, TypeOK, histories, LoopInv, Done,
     CurrentInv, NothingLost, Results
<1>6. CASE Return
  <2>1. handled \subseteq handled' /\ gaveUp \subseteq gaveUp' /\ next \in Done'
    BY <1>0, <1>6 DEF Return, GiveUp, TypeOK, Done
  <2> QED
    BY <1>0, <1>6, <2>1 DEF Return, LoopInv, Done, CurrentInv, NothingLost
<1>7. CASE Raise
  BY <1>0, <1>7, Assumptions DEF Raise, GiveUp, TypeOK, LoopInv, Done, CurrentInv,
     NothingLost
<1>8. CASE WriteCheckpoint
  BY <1>0, <1>8, Assumptions DEF WriteCheckpoint, TypeOK, histories, LoopInv, Done,
     CurrentInv, NothingLost, Results
<1>9. CASE Stop
  BY <1>9 DEF Stop, LoopInv, CurrentInv, NothingLost
<1>10. ASSUME NEW n \in Results, RunningEnds(n)
       PROVE  LoopInv' /\ CurrentInv' /\ NothingLost'
  BY <1>10 DEF RunningEnds, LoopInv, Done, CurrentInv, NothingLost
<1>11. CASE Crash
  BY <1>0, <1>11, Assumptions
     DEF Crash, LoopInv, CurrentInv, NothingLost, NoCheckpoint, TypeOK, Results
<1> QED
  BY <1>1, <1>2, <1>3, <1>4, <1>5, <1>6, <1>7, <1>8, <1>9, <1>10, <1>11
     DEF Next, Loop

\* The variables keep their types.
THEOREM ReactionTypeCorrect == Spec => []TypeOK
<1>1. ReactionInv => TypeOK
  BY DEF ReactionInv
<1> QED
  BY <1>1, InitTyped, StepKeeps, PTL DEF Spec

\* From its origin on the checkpoint of a reaction of either kind never covers a
\* result that no callback has handled, no policy gave up and no dropped coroutine
\* was for, for any number of results, any outbox, and stops, crashes and unreadable
\* checkpoints at any point.
THEOREM NothingIsLost == Spec => []NothingLost
<1>1. ReactionInv => NothingLost
  BY DEF ReactionInv
<1> QED
  BY <1>1, InitTyped, StepKeeps, PTL DEF Spec

-----------------------------------------------------------------------------
(* Nothing is repeated without a reason *)

\* Recovery never takes a checkpoint back, and the loop starts as it does.
LEMMA RecoverForward ==
  ASSUME TypeOK, Recover
  PROVE  stored <= stored'
<1>1. CASE Gap
  <2>1. stored \in Int /\ produced \in Int /\ oldest \in Int /\ oldest <= produced
    BY OldestType, Assumptions DEF TypeOK
  <2> QED
    BY <1>1, <2>1 DEF Recover, Reset, Gap
<1>2. CASE ~Gap
  BY <1>2, Assumptions DEF TypeOK, Recover, Reset, Gap, NoCheckpoint
<1> QED
  BY <1>1, <1>2

LEMMA RepeatStep == ReactionInv /\ RepeatInv /\ [Next]_vars => RepeatInv'
<1> SUFFICES ASSUME ReactionInv, RepeatInv, [Next]_vars PROVE RepeatInv'
  OBVIOUS
<1>0. TypeOK /\ TypeOK'
  BY StepTyped DEF ReactionInv
<1>00. /\ stored \in Int /\ forgotten \in Int /\ known \in Int /\ next \in Int
       /\ stored' \in Int /\ forgotten' \in Int
       /\ \A n \in handled : n \in Int
  BY <1>0, Assumptions DEF TypeOK, Results
<1> USE DEF ReactionInv, outbox, histories
<1>1. CASE UNCHANGED vars
  BY <1>1 DEF vars, RepeatInv
<1>2. CASE \E p \in Policies : Add(p)
  BY <1>2 DEF Add, RepeatInv
<1>3. CASE Produce
  BY <1>3 DEF Produce, RepeatInv
<1>4. ASSUME NEW readable \in BOOLEAN, Start(readable) PROVE RepeatInv'
  <2>1. stored <= stored' /\ task = "off"
    BY <1>0, <1>4, RecoverForward DEF Start
  <2>2. handled' = handled /\ doubtful' = doubtful /\ forgotten <= forgotten'
    BY <1>00, <1>4 DEF Start, Later
  <2>3. known' = stored' \/ stored' <= forgotten'
    BY <1>00, <1>4 DEF Start, Later
  <2> QED
    BY <1>00, <2>1, <2>2, <2>3 DEF RepeatInv
<1>5. CASE Deliver
  BY <1>5 DEF Deliver, RepeatInv
<1>6. CASE Return
  BY <1>6 DEF Return, RepeatInv
<1>7. CASE Raise
  BY <1>7 DEF Raise, RepeatInv
<1>8. CASE WriteCheckpoint
  BY <1>00, <1>8 DEF WriteCheckpoint, CurrentInv, RepeatInv
<1>9. CASE Stop
  BY <1>9 DEF Stop, LeaveInDoubt, RepeatInv
<1>10. CASE \E n \in Results : RunningEnds(n)
  BY <1>10 DEF RunningEnds, RepeatInv
<1>11. CASE Crash
  <2>1. handled' = handled /\ task' = "off" /\ doubtful \subseteq doubtful'
    BY <1>11 DEF Crash, LeaveInDoubt
  <2>2. task = "called" /\ next \in handled => next \in doubtful'
    BY <1>11 DEF Crash, LeaveInDoubt
  <2>3. forgotten <= forgotten' /\ (stored <= stored' \/ stored <= forgotten')
    BY <1>00, <1>11 DEF Crash, Later
  <2> QED
    BY <1>00, <2>1, <2>2, <2>3 DEF RepeatInv
<1> QED
  BY <1>1, <1>2, <1>3, <1>4, <1>5, <1>6, <1>7, <1>8, <1>9, <1>10, <1>11
     DEF Next, Loop

\* A call to the callback is a step of Deliver.
LEMMA CallsAreDeliveries ==
  ASSUME ReactionInv, [Next]_vars, task = "idle", task' = "calling"
  PROVE  Deliver
  BY DEF ReactionInv, Next, vars, Add, Produce, Start, Loop, Return, Raise, WriteCheckpoint,
     Stop, RunningEnds, Crash

\* Either kind of reaction calls its callback again for a handled result only when
\* the run that handled it ended before the checkpoint was written, or when the
\* result is behind a checkpoint that was forgotten: unread at a start or, of an
\* ordinary reaction, lost with the process.
THEOREM RedeliveryIsExplained == Spec => RedeliveryExplained
<1>1. Init => RepeatInv
  BY DEF Init, RepeatInv
<1>2. ReactionInv /\ RepeatInv /\ [Next]_vars
      => [task = "idle" /\ task' = "calling" /\ next \in handled =>
            next \in doubtful \/ next <= forgotten]_vars
  <2> SUFFICES ASSUME ReactionInv, RepeatInv, [Next]_vars,
                      task = "idle", task' = "calling", next \in handled
               PROVE  next \in doubtful \/ next <= forgotten
    OBVIOUS
  <2>1. Deliver /\ ~(next <= known)
    BY CallsAreDeliveries DEF Deliver
  <2>2. next \in Int /\ known \in Int /\ stored \in Int /\ forgotten \in Int
    BY Assumptions DEF ReactionInv, TypeOK
  <2> QED
    BY <2>1, <2>2 DEF RepeatInv
<1> QED
  BY <1>1, <1>2, InitTyped, StepKeeps, RepeatStep, PTL
     DEF Spec, RedeliveryExplained

-----------------------------------------------------------------------------
(* The promise                                                             *)

Lenient == ~Runs \/ policy \in {"auto_reset", "skip_gap"}
Called == running \union (IF task = "calling" THEN {next} ELSE {})

\* Recovery is the beginning of the promise, gives up what is gone, or changes
\* nothing that was promised.
LEMMA RecoverMaps ==
  ASSUME TypeOK, Recover, handled' = handled
  PROVE  \/ Promise!Begin
         \/ \E n \in stored + 1 .. produced : Promise!PassOver(n)
         \/ UNCHANGED <<origin, stored, gaveUp>>
<1>1. oldest \in 0..MaxResults /\ oldest <= produced
  BY OldestType
<1>2. produced \in 0..MaxResults /\ stored \in -1..MaxResults /\ MaxResults \in Nat
  BY Assumptions DEF TypeOK
<1>3. CASE stored = NoCheckpoint /\ UNCHANGED gaveUp
  BY <1>1, <1>2, <1>3 DEF Recover, Reset, NoCheckpoint, Gap, Promise!Begin
<1>4. CASE Gap /\ UNCHANGED origin
  <2>1. ASSUME NEW n \in 0..MaxResults, stored < n, n <= produced,
               GiveUp(stored + 1, n), stored' \in {stored, n}, Lenient
        PROVE  \E k \in stored + 1 .. produced : Promise!PassOver(k)
    <3>1. gaveUp' = gaveUp \union (stored + 1 .. n \ handled)
      BY <2>1 DEF GiveUp
    <3>2. Promise!PassOver(n)
      BY <1>4, <2>1, <3>1 DEF Promise!PassOver, Lenient, Gap, NoCheckpoint
    <3>3. n \in stored + 1 .. produced
      BY <1>2, <2>1
    <3> QED
      BY <3>2, <3>3
  <2>2. CASE policy = "auto_reset" /\ Reset /\ GiveUp(stored + 1, produced)
    BY <1>1, <1>2, <1>4, <2>1, <2>2 DEF Reset, Gap, Lenient
  <2>3. CASE policy = "skip_gap" /\ GiveUp(stored + 1, oldest) /\ UNCHANGED stored
    BY <1>1, <1>2, <1>4, <2>1, <2>3 DEF Gap, Lenient
  <2> QED
    BY <1>4, <2>2, <2>3 DEF Recover, Gap
<1>5. CASE UNCHANGED <<origin, stored, gaveUp>>
  BY <1>5
<1> QED
  BY <1>3, <1>4, <1>5 DEF Recover

\* Each step is one of the promise's, or changes nothing that was promised.
LEMMA StepDelivers == ReactionInv /\ RepeatInv /\ [Next]_vars => [Promise!Next]_(Promise!vars)
<1> SUFFICES ASSUME ReactionInv, RepeatInv, [Next]_vars
             PROVE  Promise!Next \/ UNCHANGED Promise!vars
  OBVIOUS
<1>0. TypeOK /\ produced \in Nat /\ next \in Nat \ {0} /\ stored \in Int /\ known \in Int
      /\ forgotten \in Int
  BY Assumptions DEF ReactionInv, TypeOK
<1> USE DEF Promise!vars, Promise!delivery, Promise!progress, outbox, histories
<1>1. CASE UNCHANGED vars
  BY <1>1 DEF vars, Runs
<1>2. ASSUME NEW p \in Policies, Add(p) PROVE Promise!Next
  BY <1>2 DEF Add, Runs, Promise!Next, Promise!Interrupt
<1>3. CASE Produce
  BY <1>3 DEF Produce, Runs, Promise!Next, Promise!Produce
<1>4. ASSUME NEW readable \in BOOLEAN, Start(readable)
      PROVE  Promise!Next \/ UNCHANGED Promise!vars
  <2>1. UNCHANGED <<setup, policy, produced, handled>> /\ Called' = Called
        /\ Lenient' = Lenient
    BY <1>4 DEF Start, Called, Lenient, Runs
  <2>2. forgotten' \in {forgotten, Promise!Later(forgotten, stored')}
    BY <1>4 DEF Start, Later, Promise!Later
  <2> QED
    BY <1>0, <1>4, <2>1, <2>2, RecoverMaps
       DEF Start, Called, Lenient, Promise!Next, Promise!Restart
<1>5. CASE Deliver
  <2>1. CASE next <= known
    BY <1>5, <2>1 DEF Deliver, Runs
  <2>2. CASE ~(next <= known)
    <3>1. next \in 1..produced
      BY <1>0, <1>5 DEF Deliver
    <3>2. Promise!Unsettled(next)
      BY <1>0, <1>5, <2>2 DEF Deliver, RepeatInv, Promise!Unsettled
    <3>3. Promise!Call(next)
      BY <1>5, <2>2, <3>1, <3>2 DEF Deliver, Runs, Promise!Call
    <3> QED
      BY <3>1, <3>3 DEF Promise!Next
  <2> QED
    BY <2>1, <2>2
<1>6. CASE Return
  <2>1. next \in Called
    BY <1>6 DEF Return, Called
  <2>2. CASE Runs
    <3>1. Promise!Handle(next)
      BY <1>6, <2>2 DEF Return, Runs, Promise!Handle
    <3> QED
      BY <2>1, <3>1 DEF Called, Promise!Next
  <2>3. CASE ~Runs /\ next \notin handled
    <3>1. gaveUp' = gaveUp \union {next}
      BY <1>0, <1>6, <2>3 DEF Return, GiveUp
    <3>2. Promise!GiveUp(next)
      BY <1>6, <2>3, <3>1 DEF Return, Runs, Promise!GiveUp
    <3> QED
      BY <2>1, <3>2 DEF Called, Promise!Next
  <2>4. CASE ~Runs /\ next \in handled
    <3>1. gaveUp' = gaveUp
      BY <1>0, <1>6, <2>4 DEF Return, GiveUp
    <3>2. Promise!Interrupt
      BY <1>6, <2>4, <3>1 DEF Return, Runs, Promise!Interrupt
    <3> QED
      BY <3>2 DEF Promise!Next
  <2> QED
    BY <2>2, <2>3, <2>4
<1>7. CASE Raise
  <2>1. next \in Called
    BY <1>7 DEF Raise, Called
  <2>2. CASE policy = "skip_gap" /\ next \notin handled
    <3>1. gaveUp' = gaveUp \union {next}
      BY <1>0, <1>7, <2>2 DEF Raise, GiveUp
    <3>2. Promise!GiveUp(next)
      BY <1>7, <2>2, <3>1 DEF Raise, Runs, Promise!GiveUp
    <3> QED
      BY <2>1, <3>2 DEF Called, Promise!Next
  <2>3. CASE ~(policy = "skip_gap" /\ next \notin handled)
    <3>1. gaveUp' = gaveUp
      BY <1>0, <1>7, <2>3 DEF Raise, GiveUp
    <3>2. Promise!Interrupt
      BY <1>7, <3>1 DEF Raise, Runs, Promise!Interrupt
    <3> QED
      BY <3>2 DEF Promise!Next
  <2> QED
    BY <2>2, <2>3
<1>8. CASE WriteCheckpoint
  <2>1. next \in 1..produced
    BY <1>0, <1>8 DEF WriteCheckpoint, ReactionInv, CurrentInv
  <2>2. Promise!Unsettled(next)
    BY <1>0, <1>8
       DEF WriteCheckpoint, ReactionInv, CurrentInv, RepeatInv, Promise!Unsettled
  <2>3. Promise!Settled(next)
    BY <1>0, <1>8, <2>1, Assumptions
       DEF WriteCheckpoint, ReactionInv, LoopInv, Done, TypeOK, Results, Promise!Settled
  <2>4. Promise!Commit(next)
    BY <1>8, <2>1, <2>2, <2>3 DEF WriteCheckpoint, Runs, Promise!Commit
  <2> QED
    BY <2>1, <2>4 DEF Promise!Next
<1>9. CASE Stop
  BY <1>9 DEF Stop, Runs, Promise!Next, Promise!Interrupt
<1>10. ASSUME NEW n \in Results, RunningEnds(n) PROVE Promise!Next
  <2>1. CASE handled' = handled \union {n}
    <3>1. Promise!Handle(n)
      BY <1>10, <2>1 DEF RunningEnds, Runs, Promise!Handle
    <3> QED
      BY <1>10, <3>1 DEF RunningEnds, Promise!Next
  <2>2. CASE handled' = handled
    BY <1>10, <2>2 DEF RunningEnds, Runs, Promise!Next, Promise!Interrupt
  <2> QED
    BY <1>10, <2>1, <2>2 DEF RunningEnds
<1>11. CASE Crash
  <2>1. CASE setup.durable
    BY <1>11, <2>1 DEF Crash, Runs, Promise!Next, Promise!Interrupt
  <2>2. CASE ~setup.durable
    BY <1>11, <2>2
       DEF Crash, Runs, Later, NoCheckpoint, Promise!Next, Promise!Die, Promise!Later
  <2> QED
    BY <2>1, <2>2
<1> QED
  BY <1>1, <1>2, <1>3, <1>4, <1>5, <1>6, <1>7, <1>8, <1>9, <1>10, <1>11
     DEF Next, Loop

\* From the origin on, a reaction of either kind hands every result over at least
\* once, and again only while its checkpoint is unwritten or after it was forgotten,
\* whatever stops, dies or cannot be read; under a strict policy a callback that runs
\* has none of them given up.  For any number of results, any outbox and every
\* callable (PythonReaction, components.rs:423-597).
THEOREM DeliversAsPromised == Spec => RefinesResultDelivery
<1>1. Init => RepeatInv
  BY DEF Init, RepeatInv
<1>2. Init => Promise!Init
  BY DEF Init, Setup, Unregistered, NoCheckpoint, Promise!Init
<1> QED
  BY <1>1, <1>2, InitTyped, StepKeeps, RepeatStep, StepDelivers, PTL
     DEF Spec, RefinesResultDelivery, Promise!Spec

=============================================================================
