--------------------------- MODULE EventStreamProofs ---------------------------
(***************************************************************************)
(* Proofs about EventStream, for any bounds.  The invariant lays the items *)
(* that are on their way end to end: each report in the consumer's hand,   *)
(* in the channel and in the pump's begins where the one before it ends,   *)
(* from what the consumer has been told to where the pump has got.         *)
(***************************************************************************)
EXTENDS EventStream, TLAPS

-----------------------------------------------------------------------------
(* The invariant                                                           *)

\* How far the pump has got.
Position == IF replayed < history THEN replayed ELSE next - 1

\* A report about what comes after the first p items.
Follows(item, p) == item.kind = "value" => item.n = p + 1

\* f[i] is how many items come before the i-th report of the channel, or before
\* what the pump is about to send.
EndToEnd(f) ==
  /\ f \in [1..Len(channel) + 1 -> 0..Position]
  /\ f[1] = accounted + Span(taken)
  /\ \A i \in 1..Len(channel) :
       f[i + 1] = f[i] + Span(channel[i]) /\ Follows(channel[i], f[i])
  /\ f[Len(channel) + 1] + Span(sending) = Position
  /\ Follows(sending, f[Len(channel) + 1])

OnTheWay ==
  /\ Follows(taken, accounted)
  /\ \E f : EndToEnd(f)

\* Where the tasks are.
Tasks ==
  /\ consumer = "none" <=> pump = "none"
  /\ consumer = "none" => /\ replayed = 0 /\ history = 0 /\ next = 1
                          /\ reader = "idle" /\ channel = <<>>
  /\ reader = "taken" <=> taken # Nothing
  /\ ~open => reader = "idle" /\ channel = <<>>
  /\ history <= produced /\ next <= produced + 1
  /\ replayed < history => next = history + 1
  /\ pump # "running" => sending = Nothing
  /\ open /\ pump = "done" => closed /\ replayed = history /\ next = produced + 1

IInv == TypeOK /\ Tasks /\ (open => OnTheWay)

-----------------------------------------------------------------------------
(* Reports and their places                                                *)

LEMMA Reports ==
  /\ \A item \in Item : /\ item # Nothing /\ item.kind \in {"value", "lagged"}
                        /\ item.n \in 1..MaxItems /\ Span(item) \in 1..MaxItems
  /\ Nothing.kind = "nothing" /\ Nothing.n = 0 /\ Span(Nothing) = 0
  /\ \A n \in 1..MaxItems : /\ Value(n) \in Item /\ Value(n).kind = "value" /\ Value(n).n = n
                            /\ Span(Value(n)) = 1
                            /\ Lagged(n) \in Item /\ Lagged(n).kind = "lagged"
                            /\ Span(Lagged(n)) = n
BY Assumptions DEF Item, Nothing, Value, Lagged, Span

LEMMA Types ==
  ASSUME IInv
  PROVE  /\ produced \in 0..MaxItems /\ MaxItems \in Nat
         /\ history \in Nat /\ replayed \in 0..history /\ next \in Nat /\ next >= 1
         /\ Position \in 0..produced
         /\ Oldest \in Int /\ Oldest <= produced + 1 /\ (produced > 0 => Oldest <= produced)
         /\ accounted \in 0..MaxItems
BY Assumptions DEF IInv, TypeOK, Tasks, Position, Oldest

\* What the consumer has in hand is about items that were produced.
LEMMA InHand ==
  ASSUME IInv, open
  PROVE  accounted + Span(taken) \in 0..produced
<1>1. PICK f : EndToEnd(f)
  BY DEF IInv, OnTheWay
<1>2. Len(channel) \in Nat
  BY DEF IInv, TypeOK
<1>3. 1 \in 1..Len(channel) + 1
  BY <1>2
<1>4. f[1] \in 0..Position
  BY <1>1, <1>3 DEF EndToEnd
<1> QED
  BY <1>1, <1>4, Types DEF EndToEnd

LEMMA InitInv == Init => IInv
<1> SUFFICES ASSUME Init PROVE IInv
  OBVIOUS
<1>1. TypeOK
  <2>1. <<>> \in Seq(Item) /\ Len(<<>>) = 0 /\ 0 \in 0..MaxItems /\ 0 \in 0..MaxCancels
        /\ 0 \in 0..History /\ 0 \in 0..0 /\ 1 \in 0 + 1..MaxItems + 1 /\ 0 <= Buffer
    BY Assumptions
  <2> QED
    BY <2>1 DEF Init, TypeOK
<1>2. Tasks
  BY DEF Init, Tasks
<1>3. EndToEnd([i \in 1..1 |-> 0]) /\ Follows(taken, accounted)
  BY Reports DEF Init, EndToEnd, Follows, Position
<1> QED
  BY <1>1, <1>2, <1>3 DEF IInv, OnTheWay

-----------------------------------------------------------------------------
(* The engine and the pump                                                 *)

LEMMA EngineInv ==
  ASSUME IInv, Produce \/ CloseBroadcast
  PROVE  IInv'
<1>1. TypeOK'
  <2>1. produced' \in 0..MaxItems /\ closed' \in BOOLEAN
    <3>1. CASE Produce
      BY <3>1, Types DEF Produce, IInv, TypeOK
    <3>2. CASE CloseBroadcast
      BY <3>2 DEF CloseBroadcast, IInv, TypeOK
    <3> QED
      BY <3>1, <3>2
  <2>2. UNCHANGED <<consumer, history, replayed, next, pump, sending, channel, open, reader,
                    taken, ended, told, accounted, cancelled>>
    BY DEF Produce, CloseBroadcast, pumping, reading, subscription
  <2> QED
    BY <2>1, <2>2 DEF IInv, TypeOK
<1>2. Tasks'
  BY Types DEF Produce, CloseBroadcast, IInv, Tasks, pumping, reading, subscription
<1>3. (open => OnTheWay)'
  BY DEF Produce, CloseBroadcast, IInv, OnTheWay, EndToEnd, Position, Follows, pumping,
         reading, subscription
<1> QED
  BY <1>1, <1>2, <1>3 DEF IInv

LEMMA SubscribeInv ==
  ASSUME IInv, OpenStream \/ OpenCallback
  PROVE  IInv'
<1>1. /\ Subscribe /\ consumer' \in {"stream", "callback"}
      /\ replayed = 0 /\ next = 1 /\ history = 0
  BY DEF OpenStream, OpenCallback, Subscribe, IInv, Tasks
<1>2. TypeOK'
  BY <1>1, Types DEF Subscribe, IInv, TypeOK, engine, reading
<1>3. Tasks'
  BY <1>1, Types DEF Subscribe, IInv, Tasks, engine, reading
<1>4. Position = 0 /\ Position' = 0
  BY <1>1, Types DEF Subscribe, Position
<1>5. (open => OnTheWay)'
  BY <1>1, <1>4 DEF Subscribe, IInv, OnTheWay, EndToEnd, Follows, reading
<1> QED
  BY <1>2, <1>3, <1>5 DEF IInv

\* The pump takes the next report, which begins where it was and ends where it is.
LEMMA TakesReport ==
  ASSUME IInv, sending = Nothing, sending' \in Item, Follows(sending', Position),
         Position' = Position + Span(sending'), UNCHANGED <<channel, reading>>
  PROVE  (open => OnTheWay)'
<1> SUFFICES ASSUME open PROVE OnTheWay'
  BY DEF reading
<1>1. PICK f : EndToEnd(f)
  BY DEF IInv, OnTheWay
<1>2. Len(channel) \in Nat /\ Position \in Nat /\ Position' \in Nat /\ Position <= Position'
  BY Reports, Types DEF IInv, TypeOK
<1>3. f[Len(channel) + 1] = Position
  BY <1>1, <1>2, Reports DEF EndToEnd
<1>4. EndToEnd(f)'
  BY <1>1, <1>2, <1>3 DEF EndToEnd, Follows, reading
<1> QED
  BY <1>4 DEF OnTheWay, IInv, Follows, reading

LEMMA ReplayInv == ASSUME IInv, Replay PROVE IInv'
<1>1. /\ sending' = Value(replayed + 1) /\ replayed + 1 \in 1..MaxItems
      /\ replayed < history /\ next = history + 1 /\ replayed' = replayed + 1
      /\ UNCHANGED <<engine, subscription, next, pump, channel, reading>>
  BY Types DEF Replay, IInv, Tasks
<1>2. TypeOK'
  BY <1>1, Types, Reports DEF IInv, TypeOK, engine, subscription, reading
<1>3. Tasks'
  BY <1>1, Types DEF Replay, IInv, Tasks, engine, subscription, reading
<1>4. Position = replayed /\ Position' = replayed + 1
  BY <1>1, Types DEF Position, subscription
<1>5. sending' \in Item /\ Span(sending') = 1 /\ Follows(sending', Position)
  BY <1>1, <1>4, Reports DEF Follows
<1>6. (open => OnTheWay)'
  BY <1>1, <1>4, <1>5, TakesReport DEF Replay
<1> QED
  BY <1>2, <1>3, <1>6 DEF IInv

LEMMA ReceiveInv == ASSUME IInv, Receive PROVE IInv'
<1>1. /\ replayed = history /\ next <= produced /\ sending = Nothing /\ pump = "running"
      /\ UNCHANGED <<engine, subscription, replayed, pump, channel, reading>>
  BY DEF Receive
<1>2. \/ next < Oldest /\ sending' = Lagged(Oldest - next) /\ next' = Oldest
      \/ sending' = Value(next) /\ next' = next + 1
  BY DEF Receive
<1>3. Oldest <= produced /\ next \in 1..MaxItems
  BY <1>1, Types
<1>4. next' > next /\ next' <= produced + 1 /\ next' \in Nat
  BY <1>1, <1>2, <1>3, Types
<1>5. sending' \in Item /\ Span(sending') = next' - next /\ Follows(sending', next - 1)
  <2>1. CASE next < Oldest /\ sending' = Lagged(Oldest - next) /\ next' = Oldest
    <3>1. Oldest - next \in 1..MaxItems
      BY <2>1, <1>3, Types
    <3> QED
      BY <2>1, <3>1, Reports DEF Follows
  <2>2. CASE sending' = Value(next) /\ next' = next + 1
    BY <2>2, <1>3, Types, Reports DEF Follows
  <2> QED
    BY <1>2, <2>1, <2>2
<1>6. TypeOK'
  BY <1>1, <1>4, <1>5, Types DEF IInv, TypeOK, engine, subscription, reading
<1>7. Tasks'
  BY <1>1, <1>4, <1>5, Types, Reports DEF IInv, Tasks, engine, subscription, reading
<1>8. Position = next - 1 /\ Position' = next' - 1
  BY <1>1, Types DEF Position, subscription
<1>9. (open => OnTheWay)'
  BY <1>1, <1>4, <1>5, <1>8, Types, TakesReport
<1> QED
  BY <1>6, <1>7, <1>9 DEF IInv

LEMMA SendInv == ASSUME IInv, Send PROVE IInv'
<1>1. /\ pump = "running" /\ sending # Nothing /\ sending \in Item
      /\ open /\ Len(channel) < Buffer
      /\ channel' = Append(channel, sending) /\ sending' = Nothing
      /\ UNCHANGED <<engine, subscription, replayed, next, pump, reading>>
  BY DEF Send, IInv, TypeOK
<1>2. /\ channel \in Seq(Item) /\ Len(channel) \in Nat
      /\ channel' \in Seq(Item) /\ Len(channel') = Len(channel) + 1
      /\ \A i \in 1..Len(channel) : channel'[i] = channel[i]
      /\ channel'[Len(channel) + 1] = sending
  BY <1>1 DEF IInv, TypeOK
<1>3. TypeOK'
  BY <1>1, <1>2, Assumptions DEF IInv, TypeOK, engine, subscription, reading
<1>4. consumer # "none"
  BY <1>1 DEF IInv, Tasks
<1>5. Tasks'
  BY <1>1, <1>4 DEF IInv, Tasks, engine, subscription, reading
<1>6. Position' = Position /\ Position \in Nat
  BY <1>1, Types DEF Position, subscription
<1>7. PICK f : EndToEnd(f)
  BY <1>1 DEF IInv, OnTheWay
<1>7a. PICK g : g = [i \in 1..Len(channel) + 2 |->
                       IF i <= Len(channel) + 1 THEN f[i] ELSE Position]
  OBVIOUS
<1>8. g \in [1..Len(channel') + 1 -> 0..Position]
  BY <1>2, <1>6, <1>7, <1>7a DEF EndToEnd
<1>9. g[1] = accounted' + Span(taken)
  BY <1>1, <1>2, <1>7, <1>7a DEF EndToEnd, reading
<1>10. ASSUME NEW i \in 1..Len(channel')
       PROVE  g[i + 1] = g[i] + Span(channel'[i]) /\ Follows(channel'[i], g[i])
  <2>1. CASE i <= Len(channel)
    <3>1. i \in 1..Len(channel) /\ g[i] = f[i] /\ g[i + 1] = f[i + 1] /\ channel'[i] = channel[i]
      BY <1>2, <1>7a, <2>1
    <3> QED
      BY <1>7, <3>1 DEF EndToEnd
  <2>2. CASE i = Len(channel) + 1
    <3>1. g[i] = f[Len(channel) + 1] /\ g[i + 1] = Position /\ channel'[i] = sending
      BY <1>2, <1>7a, <2>2
    <3> QED
      BY <1>7, <3>1 DEF EndToEnd
  <2> QED
    BY <1>2, <2>1, <2>2
<1>11. g[Len(channel') + 1] = Position
  BY <1>2, <1>7a
<1>12. EndToEnd(g)'
  <2>1. Span(sending') = 0 /\ Follows(sending', Position) /\ Span(taken)' = Span(taken)
    BY <1>1, Reports DEF Follows, Span, reading
  <2>2. \A i \in 1..Len(channel') : /\ Span(channel[i])' = Span(channel'[i])
                                    /\ Follows(channel[i], g[i])' <=> Follows(channel'[i], g[i])
    BY DEF Span, Follows
  <2>3. Span(sending)' = Span(sending')
    BY DEF Span
  <2> QED
    BY <1>6, <1>8, <1>9, <1>10, <1>11, <2>1, <2>2, <2>3 DEF EndToEnd, Follows
<1>13. OnTheWay'
  BY <1>1, <1>12 DEF OnTheWay, IInv, Follows, reading
<1> QED
  BY <1>3, <1>5, <1>13 DEF IInv

LEMMA PumpStopsInv == ASSUME IInv, SendFails \/ PumpEnds PROVE IInv'
<1>1. /\ pump = "running" /\ pump' = "done" /\ sending' = Nothing
      /\ ~open \/ UNCHANGED sending
      /\ UNCHANGED <<engine, subscription, replayed, next, channel, reading>>
      /\ open => closed /\ replayed = history /\ next = produced + 1
  BY Types DEF SendFails, PumpEnds, IInv, Tasks
<1>2. TypeOK' /\ Tasks'
  BY <1>1 DEF IInv, TypeOK, Tasks, engine, subscription, reading
<1>3. (open => OnTheWay)'
  BY <1>1 DEF IInv, OnTheWay, EndToEnd, Follows, Position, subscription, reading
<1> QED
  BY <1>2, <1>3 DEF IInv

-----------------------------------------------------------------------------
(* The consumer                                                            *)

LEMMA TakeInv == ASSUME IInv, Take PROVE IInv'
<1>1. /\ reader = "waiting" /\ channel # <<>> /\ open /\ taken = Nothing
      /\ taken' = Head(channel) /\ channel' = Tail(channel) /\ reader' = "taken"
      /\ UNCHANGED <<engine, pumping, open, ended, told, accounted, cancelled>>
  BY DEF Take, IInv, Tasks
<1>2. /\ channel \in Seq(Item) /\ Len(channel) \in Nat \ {0}
      /\ channel' \in Seq(Item) /\ Len(channel') = Len(channel) - 1
      /\ \A i \in 1..Len(channel') : channel'[i] = channel[i + 1]
      /\ taken' = channel[1] /\ taken' \in Item
  BY <1>1 DEF IInv, TypeOK
<1>3. TypeOK'
  <2>1. Len(channel') <= Buffer
    BY <1>2, Assumptions DEF IInv, TypeOK
  <2> QED
    BY <1>1, <1>2, <2>1 DEF IInv, TypeOK, engine, pumping, subscription
<1>4. Tasks'
  BY <1>1, <1>2, Reports DEF IInv, Tasks, engine, pumping, subscription
<1>5. Position' = Position
  BY <1>1 DEF Position, pumping, subscription
<1>6. PICK f : EndToEnd(f)
  BY <1>1 DEF IInv, OnTheWay
<1>6a. PICK g : g = [i \in 1..Len(channel) |-> f[i + 1]]
  OBVIOUS
<1>7. /\ f[1] = accounted /\ f[2] = f[1] + Span(channel[1]) /\ Follows(channel[1], f[1])
  BY <1>1, <1>2, <1>6, Reports, Types DEF EndToEnd
<1>8. g \in [1..Len(channel') + 1 -> 0..Position]
  BY <1>2, <1>6, <1>6a DEF EndToEnd
<1>9. g[1] = accounted + Span(taken')
  BY <1>2, <1>7, <1>6a
<1>10. ASSUME NEW i \in 1..Len(channel')
       PROVE  g[i + 1] = g[i] + Span(channel'[i]) /\ Follows(channel'[i], g[i])
  <2>1. i + 1 \in 1..Len(channel) /\ channel'[i] = channel[i + 1]
    BY <1>2
  <2>2. g[i] = f[i + 1] /\ g[i + 1] = f[i + 1 + 1]
    BY <1>2, <1>6a, <2>1
  <2> QED
    BY <1>6, <2>1, <2>2 DEF EndToEnd
<1>11. g[Len(channel') + 1] = f[Len(channel) + 1]
  BY <1>2, <1>6a
<1>12. EndToEnd(g)'
  <2>1. \A i \in 1..Len(channel') : /\ Span(channel[i])' = Span(channel'[i])
                                    /\ Follows(channel[i], g[i])' <=> Follows(channel'[i], g[i])
    BY DEF Span, Follows
  <2>2. Span(taken)' = Span(taken') /\ Span(sending)' = Span(sending) /\ accounted' = accounted
    BY <1>1 DEF Span, pumping
  <2>3. sending' = sending
    BY <1>1 DEF pumping
  <2>4. /\ f[Len(channel) + 1] + Span(sending) = Position
        /\ Follows(sending, f[Len(channel) + 1])
    BY <1>6 DEF EndToEnd
  <2>5. /\ g[Len(channel') + 1] + Span(sending)' = Position'
        /\ Follows(sending, g[Len(channel) + 1])'
    BY <1>5, <1>11, <2>2, <2>3, <2>4 DEF Follows
  <2>6. g[1] = accounted' + Span(taken)'
    BY <1>9, <2>2
  <2>7. g \in [1..Len(channel') + 1 -> 0..Position']
    BY <1>5, <1>8
  <2> QED
    BY <1>10, <2>1, <2>5, <2>6, <2>7 DEF EndToEnd
<1>13. OnTheWay'
  BY <1>1, <1>2, <1>7, <1>12 DEF OnTheWay, Follows
<1> QED
  BY <1>3, <1>4, <1>13 DEF IInv

\* A report is delivered or dropped with the read: either way it is accounted for.
LEMMA AnswerInv == ASSUME IInv, Deliver \/ CancelRead PROVE IInv'
<1>1. /\ open /\ reader # "idle" /\ reader' = "idle" /\ taken' = Nothing
      /\ UNCHANGED <<engine, pumping, channel, open, ended>>
  BY DEF Deliver, CancelRead, IInv, Tasks
<1>2. accounted' = accounted + Span(taken)
  BY Reports, Types DEF Deliver, CancelRead, IInv, Tasks
<1>3. told' \in Seq(Item) /\ cancelled' \in 0..MaxCancels
  <2>1. CASE Deliver
    <3>1. taken \in Item
      BY <2>1, Reports DEF Deliver, IInv, TypeOK, Tasks
    <3> QED
      BY <2>1, <3>1 DEF Deliver, IInv, TypeOK
  <2>2. CASE CancelRead
    BY <2>2, Assumptions DEF CancelRead, IInv, TypeOK
  <2> QED
    BY <2>1, <2>2
<1>4. accounted' \in 0..MaxItems
  BY <1>1, <1>2, InHand, Types
<1>5. TypeOK'
  BY <1>1, <1>3, <1>4 DEF IInv, TypeOK, engine, pumping, subscription
<1>6. Tasks'
  BY <1>1 DEF IInv, Tasks, engine, pumping, subscription
<1>7. Position' = Position
  BY <1>1 DEF Position, pumping, subscription
<1>8. PICK f : EndToEnd(f)
  BY <1>1 DEF IInv, OnTheWay
<1>9. EndToEnd(f)'
  <2>1. channel' = channel /\ sending' = sending /\ taken' = Nothing
    BY <1>1 DEF pumping
  <2>2. f[1] = accounted' + Span(taken')
    BY <1>2, <1>4, <1>8, <2>1, Reports DEF EndToEnd
  <2> QED
    BY <1>7, <1>8, <2>1, <2>2 DEF EndToEnd, Follows, Span
<1>10. OnTheWay'
  BY <1>1, <1>9, Reports DEF OnTheWay, Follows
<1> QED
  BY <1>5, <1>6, <1>10 DEF IInv

LEMMA ReaderInv == ASSUME IInv, Read \/ End \/ DropStream PROVE IInv'
<1>1. TypeOK' /\ Tasks'
  <2>1. CASE Read \/ End
    BY <2>1 DEF Read, End, IInv, TypeOK, Tasks, engine, pumping, subscription
  <2>2. CASE DropStream
    <3>1. <<>> \in Seq(Item) /\ Len(<<>>) <= Buffer
      BY Assumptions
    <3> QED
      BY <2>2, <3>1 DEF DropStream, IInv, TypeOK, Tasks, engine, pumping, subscription
  <2> QED
    BY <2>1, <2>2
<1>2. (open => OnTheWay)'
  BY DEF Read, End, DropStream, IInv, OnTheWay, EndToEnd, Follows, Position, pumping, subscription
<1> QED
  BY <1>1, <1>2 DEF IInv

LEMMA NextInv == IInv /\ [Next]_vars => IInv'
<1> SUFFICES ASSUME IInv, [Next]_vars PROVE IInv'
  OBVIOUS
<1>1. CASE UNCHANGED vars
  BY <1>1 DEF vars, IInv, TypeOK, Tasks, OnTheWay, EndToEnd, Follows, Position
<1> QED
  BY <1>1, EngineInv, SubscribeInv, ReplayInv, ReceiveInv, SendInv, PumpStopsInv, TakeInv,
     AnswerInv, ReaderInv DEF Next, Pump, Consumer

-----------------------------------------------------------------------------
(* The theorems                                                            *)

\* The inductive invariant holds of every state.
THEOREM Invariance == Spec => []IInv
BY InitInv, NextInv, PTL DEF Spec

\* Every variable keeps its type: the channel never holds more than its bound, and
\* no more is accounted for than was produced.
THEOREM TypeCorrect == Spec => []TypeOK
<1>1. IInv => TypeOK
  BY DEF IInv
<1> QED
  BY <1>1, Invariance, PTL

\* Every step is one of AccountedStream, or none.
LEMMA StepRefines == IInv /\ [Next]_vars => [Accounted!Next]_Accounted!vars
<1> SUFFICES ASSUME IInv, [Next]_vars PROVE [Accounted!Next]_Accounted!vars
  OBVIOUS
<1>1. CASE Produce
  BY <1>1 DEF Produce, reading, Accounted!Next, Accounted!Produce
<1>2. CASE Deliver
  <2>1. open /\ taken \in Item /\ Follows(taken, accounted) /\ reader = "taken"
    BY <1>2, Reports DEF Deliver, IInv, TypeOK, Tasks, OnTheWay
  <2>2. accounted + Span(taken) <= produced
    BY <2>1, InHand
  <2>3. CASE taken.kind = "value"
    <3>1. taken = Value(accounted + 1) /\ Span(taken) = 1
      BY <2>1, <2>3 DEF Item, Value, Follows, Span
    <3>2. Accounted!TellNext
      BY <1>2, <2>2, <3>1, Types DEF Deliver, engine, Accounted!TellNext
    <3> QED
      BY <3>2 DEF Accounted!Next
  <2>4. CASE taken.kind = "lagged"
    <3>1. taken = Lagged(taken.n) /\ Span(taken) = taken.n /\ taken.n \in 1..(produced - accounted)
      BY <2>1, <2>2, <2>4, Reports, Types DEF Item, Lagged, Span
    <3>2. Accounted!TellMissed(taken.n)
      BY <1>2, <3>1 DEF Deliver, engine, Accounted!TellMissed
    <3> QED
      BY <3>1, <3>2 DEF Accounted!Next
  <2> QED
    BY <2>1, <2>3, <2>4, Reports
<1>3. CASE CancelRead
  <2>1. open /\ accounted' = accounted + Span(taken)
    BY <1>3, Reports, Types DEF CancelRead, IInv, Tasks
  <2>2. Span(taken) \in 0..(produced - accounted)
    BY <2>1, InHand, Types, Reports DEF IInv, TypeOK
  <2>3. Accounted!CancelRead(Span(taken))
    BY <1>3, <2>1 DEF CancelRead, engine, Accounted!CancelRead
  <2> QED
    BY <2>2, <2>3 DEF Accounted!Next
<1>4. CASE CloseBroadcast \/ OpenStream \/ OpenCallback
  <2>1. CASE CloseBroadcast
    BY <2>1 DEF CloseBroadcast, reading, Accounted!Next, Accounted!Close
  <2>2. CASE OpenStream \/ OpenCallback
    BY <2>2 DEF OpenStream, OpenCallback, Subscribe, engine, reading, Accounted!vars
  <2> QED
    BY <1>4, <2>1, <2>2
<1>5. CASE Pump
  BY <1>5 DEF Pump, Replay, Receive, Send, SendFails, PumpEnds, engine, reading, Accounted!vars
<1>6. CASE Read \/ Take \/ DropStream
  BY <1>6 DEF Read, Take, DropStream, engine, Accounted!vars
<1>7. CASE End
  <2>1. /\ open /\ channel = <<>> /\ taken = Nothing /\ sending = Nothing
        /\ closed /\ Position = produced
    BY <1>7, Types DEF End, IInv, Tasks, Position
  <2>2. PICK f : EndToEnd(f)
    BY <2>1 DEF IInv, OnTheWay
  <2>3. accounted = produced
    BY <2>1, <2>2, Reports, Types DEF EndToEnd
  <2> QED
    BY <1>7, <2>1, <2>3 DEF End, engine, Accounted!Next, Accounted!End
<1>8. CASE UNCHANGED vars
  BY <1>8 DEF vars, Accounted!vars
<1> QED
  BY <1>1, <1>2, <1>3, <1>4, <1>5, <1>6, <1>7, <1>8 DEF Next, Consumer

\* The stream keeps its promise (streams.rs:126-169): what its consumer is told
\* accounts for every item once and in order, whatever the lags, for any bounds of
\* the broadcast and the channel, only a cancelled read takes anything with it, and
\* the iteration ends after all of it.
THEOREM Refinement == Spec => RefinesAccountedStream
<1>1. Init => Accounted!Init
  BY DEF Init, Accounted!Init
<1> QED
  BY <1>1, StepRefines, Invariance, PTL DEF Spec, RefinesAccountedStream, Accounted!Spec

=============================================================================
