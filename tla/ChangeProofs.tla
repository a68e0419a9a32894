---------------------------- MODULE ChangeProofs ----------------------------
(***************************************************************************)
(* Proofs about what becomes of a change that the application pushes: how  *)
(* it is dispatched (PushDispatch), and how it is made from the values the *)
(* application gave and how its values come back (Conversions).            *)
(***************************************************************************)
EXTENDS PushDispatch, Conversions, SequenceTheorems, TLAPS

(***************************************************************************)
(* Dispatch, for every number of calls, queries and every channel bound:   *)
(* the variables keep their types, no change is discarded, and dispatch    *)
(* implements OrderedFeed.                                                 *)
(***************************************************************************)

(***************************************************************************)
(* The inductive invariant.  The argument: only one call is between        *)
(* fetch_add and its last delivery (Serialised), and it holds the latest   *)
(* number (Numbering); so what it appends to a channel is above everything *)
(* already there, which is above everything processed (Ascending).         *)
(***************************************************************************)
Numbering ==
  \A p \in Pushes :
    /\ seqOf[p] <= nextSeq
    /\ pc[p] \in {"idle", "queued", "holding"} => seqOf[p] = 0
    /\ pc[p] = "dispatching" => seqOf[p] = nextSeq /\ seqOf[p] > 0
    /\ pc[p] = "done" => seqOf[p] > 0 /\ reached[p] = Queries
    /\ seqOf[p] = 0 => reached[p] = {}

Distinct ==
  \A p, r \in Pushes : seqOf[p] = seqOf[r] /\ seqOf[p] # 0 => p = r

Serialised == \A p, r \in Pushes : HoldsLock(p) /\ HoldsLock(r) => p = r

InInbox(q, p) == \E i \in 1..Len(inbox[q]) : inbox[q][i] = p

Ascending ==
  \A q \in Queries :
    /\ \A i \in 1..Len(inbox[q]) : seqOf[inbox[q][i]] > highest[q]
    /\ \A i, j \in 1..Len(inbox[q]) :
         i < j => seqOf[inbox[q][i]] < seqOf[inbox[q][j]]
    /\ \A p \in Pushes : Processed(q, p) => seqOf[p] <= highest[q]
    /\ highest[q] <= nextSeq

\* what a dispatch has reached is in the channel or already processed
Tracked ==
  \A q \in Queries, p \in Pushes :
    q \in reached[p] <=> InInbox(q, p) \/ Processed(q, p)

\* a query a dispatch has yet to reach has seen only smaller numbers
Behind ==
  \A q \in Queries, p \in Pushes :
    pc[p] = "dispatching" /\ q \notin reached[p] => highest[q] < nextSeq

IInv ==
  /\ TypeOK
  /\ Numbering
  /\ Distinct
  /\ Serialised
  /\ Ascending
  /\ Tracked
  /\ Behind
  /\ NothingDiscarded

-----------------------------------------------------------------------------
\* Appending to and taking the head off a sequence, as index facts.
LEMMA AppendFacts ==
  ASSUME NEW S, NEW s \in Seq(S), NEW e \in S
  PROVE  /\ Append(s, e) \in Seq(S)
         /\ Len(Append(s, e)) = Len(s) + 1
         /\ \A i \in 1..Len(s) : Append(s, e)[i] = s[i]
         /\ Append(s, e)[Len(s) + 1] = e
         /\ DOMAIN Append(s, e) = 1..(Len(s) + 1)
         /\ DOMAIN s = 1..Len(s)
  OBVIOUS

LEMMA TailFacts ==
  ASSUME NEW S, NEW s \in Seq(S), s # <<>>
  PROVE  /\ Head(s) \in S
         /\ Head(s) = s[1]
         /\ Len(s) \in Nat /\ Len(s) >= 1
         /\ Tail(s) \in Seq(S)
         /\ Len(Tail(s)) = Len(s) - 1
         /\ \A i \in 1..(Len(s) - 1) : Tail(s)[i] = s[i + 1]
  OBVIOUS

\* Taking one element out of a sequence, as index facts.
LEMMA TakenOut ==
  ASSUME NEW S, NEW s \in Seq(S), NEW i \in 1..Len(s)
  PROVE  LET t == SubSeq(s, 1, i - 1) \o SubSeq(s, i + 1, Len(s)) IN
         /\ Len(t) = Len(s) - 1
         /\ \A j \in 1..(Len(s) - 1) : t[j] = IF j < i THEN s[j] ELSE s[j + 1]
<1> DEFINE a == SubSeq(s, 1, i - 1)
           b == SubSeq(s, i + 1, Len(s))
<1>1. Len(s) \in Nat /\ i \in Nat /\ 1 <= i /\ i <= Len(s)
  OBVIOUS
<1>2. a \in Seq(S) /\ Len(a) = i - 1 /\ \A j \in 1..(i - 1) : a[j] = s[j]
  BY <1>1, SubSeqProperties
<1>3. b \in Seq(S) /\ Len(b) = Len(s) - i /\ \A j \in 1..(Len(s) - i) : b[j] = s[j + i]
  <2>1. CASE i = Len(s)
    BY <1>1, <2>1, SubSeqProperties
  <2>2. CASE i < Len(s)
    BY <1>1, <2>2, SubSeqProperties
  <2> QED
    BY <1>1, <2>1, <2>2
<1> HIDE DEF a, b
<1>4. /\ Len(a \o b) = Len(s) - 1
      /\ \A j \in 1..(Len(s) - 1) :
           (a \o b)[j] = IF j <= i - 1 THEN a[j] ELSE b[j - (i - 1)]
  <2>1. /\ Len(a \o b) = Len(a) + Len(b)
        /\ \A j \in 1..(Len(a) + Len(b)) :
             (a \o b)[j] = IF j <= Len(a) THEN a[j] ELSE b[j - Len(a)]
    BY <1>2, <1>3, ConcatProperties
  <2>2. Len(a) + Len(b) = Len(s) - 1
    BY <1>1, <1>2, <1>3
  <2> QED
    BY <1>2, <2>1, <2>2
<1>5. ASSUME NEW j \in 1..(Len(s) - 1), ~(j < i) PROVE b[j - (i - 1)] = s[j + 1]
  <2>1. j - (i - 1) \in 1..(Len(s) - i) /\ (j - (i - 1)) + i = j + 1
    BY <1>1, <1>5
  <2> QED
    BY <1>3, <2>1
<1>6. \A j \in 1..(Len(s) - 1) :
        IF j < i THEN j \in 1..(i - 1) /\ j <= i - 1 ELSE ~(j <= i - 1)
  BY <1>1
<1>7. \A j \in 1..(Len(s) - 1) : (a \o b)[j] = IF j < i THEN s[j] ELSE s[j + 1]
  BY <1>2, <1>4, <1>5, <1>6
<1> QED
  BY <1>4, <1>7 DEF a, b

\* Every variable keeps its type: in particular the mutex queue and the
\* channels stay sequences of calls through cancellation.
LEMMA TypeStep == TypeOK /\ [Next]_vars => TypeOK'
<1> SUFFICES ASSUME TypeOK, [Next]_vars
             PROVE  TypeOK'
  OBVIOUS
<1> USE DEF TypeOK, PushState, Goto
<1>1. ASSUME NEW p \in Pushes, Request(p)
      PROVE  TypeOK'
  BY <1>1 DEF Request
<1>2. ASSUME NEW p \in Pushes, Acquire(p)
      PROVE  TypeOK'
  BY <1>2, TailFacts DEF Acquire
<1>3. ASSUME NEW p \in Pushes, TakeSequence(p)
      PROVE  TypeOK'
  BY <1>3 DEF TakeSequence
<1>4. ASSUME NEW p \in Pushes, NEW q \in Queries, Deliver(p, q)
      PROVE  TypeOK'
  BY <1>4 DEF Deliver
<1>5. ASSUME NEW p \in Pushes, Finish(p)
      PROVE  TypeOK'
  BY <1>5 DEF Finish
<1>6. ASSUME NEW p \in Pushes, Cancel(p)
      PROVE  TypeOK'
  <2>1. waiters' \in Seq(Pushes)
    <3>1. CASE pc[p] = "queued"
      <4>1. PICK i \in DOMAIN waiters :
               waiters' = SubSeq(waiters, 1, i - 1)
                            \o SubSeq(waiters, i + 1, Len(waiters))
        BY <1>6, <3>1 DEF Cancel
      <4>2. waiters \in Seq(Pushes)
        OBVIOUS
      <4>3. i \in 1..Len(waiters) /\ Len(waiters) \in Nat
        BY <4>2
      <4>4. SubSeq(waiters, 1, i - 1) \in Seq(Pushes)
        BY <4>2, <4>3, SubSeqProperties
      <4>5. SubSeq(waiters, i + 1, Len(waiters)) \in Seq(Pushes)
        BY <4>2, <4>3, SubSeqProperties
      <4> QED
        BY <4>1, <4>4, <4>5, ConcatProperties
    <3> QED
      BY <3>1, <1>6 DEF Cancel
  <2> QED
    BY <1>6, <2>1 DEF Cancel
<1>7. ASSUME NEW q \in Queries, Process(q)
      PROVE  TypeOK'
  <2>1. /\ inbox[q] \in Seq(Pushes)
        /\ inbox[q] # <<>>
    BY <1>7 DEF Process
  <2>2. /\ Head(inbox[q]) \in Pushes
        /\ Tail(inbox[q]) \in Seq(Pushes)
    BY <2>1, TailFacts
  <2>3. inbox' \in [Queries -> Seq(Pushes)]
    BY <1>7, <2>2 DEF Process
  <2>4. PICK h \in Pushes : h = Head(inbox[q])
    BY <2>2
  <2>5. CASE seqOf[h] <= highest[q]
    <3>1. /\ discarded' = [discarded EXCEPT ![q] = @ \cup {h}]
          /\ UNCHANGED <<highest, processed>>
      BY <1>7, <2>4, <2>5 DEF Process
    <3> QED
      BY <1>7, <2>3, <3>1 DEF Process
  <2>6. CASE ~(seqOf[h] <= highest[q])
    <3>1. /\ highest' = [highest EXCEPT ![q] = seqOf[h]]
          /\ processed' = [processed EXCEPT ![q] = Append(@, h)]
          /\ UNCHANGED discarded
      BY <1>7, <2>4, <2>6 DEF Process
    <3> QED
      BY <1>7, <2>3, <3>1 DEF Process
  <2> QED
    BY <2>5, <2>6
<1>8. CASE UNCHANGED vars
  BY <1>8 DEF vars
<1> QED
  BY <1>1, <1>2, <1>3, <1>4, <1>5, <1>6, <1>7, <1>8 DEF Next, Push

\* The steps that move a call without touching numbers or channels.
LEMMA MoveStep ==
  ASSUME IInv, TypeOK', NEW p \in Pushes,
         Request(p) \/ Acquire(p) \/ Finish(p) \/ Cancel(p)
  PROVE  IInv'
<1>1. UNCHANGED <<nextSeq, seqOf, reached, inbox, highest, processed, discarded>>
  BY DEF Request, Acquire, Finish, Cancel
<1>2. \E to \in PushState : pc' = [pc EXCEPT ![p] = to]
  BY DEF Request, Acquire, Finish, Cancel, Goto, PushState
<1>3. PICK to \in PushState : pc' = [pc EXCEPT ![p] = to]
  BY <1>2
<1>4. \A r \in Pushes : r # p => pc'[r] = pc[r]
  BY <1>3 DEF IInv, TypeOK
<1>5. pc'[p] = to
  BY <1>3 DEF IInv, TypeOK
<1>6. pc'[p] # "dispatching"
  BY <1>3 DEF Request, Acquire, Finish, Cancel, Goto, IInv, TypeOK
<1>7. Numbering'
  <2>1. pc'[p] \in {"idle", "queued", "holding"} => seqOf[p] = 0
    BY DEF Request, Acquire, Finish, Cancel, Goto, IInv, TypeOK, Numbering
  <2>2. pc'[p] = "done" => seqOf[p] > 0 /\ reached[p] = Queries
    BY DEF Request, Acquire, Finish, Cancel, Goto, IInv, TypeOK, Numbering
  <2> QED
    BY <1>1, <1>4, <1>6, <2>1, <2>2 DEF IInv, Numbering
<1>8. Distinct'
  BY <1>1 DEF IInv, Distinct
<1>9. Serialised'
  <2>1. HoldsLock(p)' => \A r \in Pushes : ~HoldsLock(r)
    BY <1>5, <1>6 DEF Request, Acquire, Finish, Cancel, Goto, HoldsLock, IInv,
                     TypeOK
  <2> QED
    BY <1>4, <2>1 DEF IInv, Serialised, HoldsLock
<1>10. Ascending'
  BY <1>1 DEF IInv, Ascending, Processed
<1>11. Tracked'
  BY <1>1 DEF IInv, Tracked, InInbox, Processed
<1>12. Behind'
  BY <1>1, <1>4, <1>6 DEF IInv, Behind
<1>13. NothingDiscarded'
  BY <1>1 DEF IInv, NothingDiscarded
<1> QED
  BY <1>7, <1>8, <1>9, <1>10, <1>11, <1>12, <1>13 DEF IInv

\* Numbering a change: nobody else is dispatching, so the new number is above
\* everything any query has seen or is about to see.
LEMMA SequenceStep ==
  ASSUME IInv, TypeOK', NEW p \in Pushes, TakeSequence(p)
  PROVE  IInv'
<1>1. /\ pc[p] = "holding" /\ pc'[p] = "dispatching"
      /\ nextSeq' = nextSeq + 1 /\ seqOf'[p] = nextSeq + 1
      /\ seqOf[p] = 0 /\ reached[p] = {}
      /\ UNCHANGED <<reached, inbox, highest, processed, discarded>>
  BY DEF TakeSequence, Goto, IInv, TypeOK, Numbering
<1>2. \A r \in Pushes : r # p => pc'[r] = pc[r] /\ seqOf'[r] = seqOf[r]
  BY DEF TakeSequence, Goto, IInv, TypeOK
<1>3. \A r \in Pushes : r # p => ~HoldsLock(r)
  BY <1>1 DEF IInv, Serialised, HoldsLock
<1>4. \A q \in Queries : ~InInbox(q, p) /\ ~Processed(q, p)
  BY <1>1 DEF IInv, Tracked
<1>5. /\ nextSeq \in Nat
      /\ \A r \in Pushes : seqOf[r] \in Nat /\ seqOf[r] <= nextSeq
      /\ \A q \in Queries : highest[q] \in Nat /\ highest[q] <= nextSeq
  BY DEF IInv, TypeOK, Numbering, Ascending
<1>6. Numbering'
  BY <1>1, <1>2, <1>3, <1>5 DEF IInv, Numbering, HoldsLock
<1>7. Distinct'
  BY <1>1, <1>2, <1>5 DEF IInv, Distinct
<1>8. Serialised'
  BY <1>1, <1>2, <1>3 DEF Serialised, HoldsLock
<1>9. Ascending'
  <2>1. \A q \in Queries : \A i \in 1..Len(inbox[q]) :
          seqOf'[inbox[q][i]] = seqOf[inbox[q][i]]
    BY <1>2, <1>4 DEF InInbox, IInv, TypeOK
  <2> QED
    BY <1>1, <1>2, <1>4, <1>5, <2>1 DEF IInv, Ascending, Processed
<1>10. Tracked'
  BY <1>1 DEF IInv, Tracked, InInbox, Processed
<1>11. Behind'
  BY <1>1, <1>2, <1>3, <1>5 DEF Behind, HoldsLock
<1>12. NothingDiscarded'
  BY <1>1 DEF IInv, NothingDiscarded
<1> QED
  BY <1>6, <1>7, <1>8, <1>9, <1>10, <1>11, <1>12 DEF IInv

\* Delivering: the change goes behind what the channel holds, and its number
\* is above all of it.
LEMMA DeliverStep ==
  ASSUME IInv, TypeOK', NEW p \in Pushes, NEW q \in Queries, Deliver(p, q)
  PROVE  IInv'
<1>1. /\ pc[p] = "dispatching" /\ q \notin reached[p]
      /\ inbox'[q] = Append(inbox[q], p)
      /\ \A k \in Queries : k # q => inbox'[k] = inbox[k]
      /\ reached'[p] = reached[p] \cup {q}
      /\ \A r \in Pushes : r # p => reached'[r] = reached[r]
      /\ UNCHANGED <<pc, nextSeq, seqOf, highest, processed, discarded>>
  BY DEF Deliver, IInv, TypeOK
<1>2. inbox[q] \in Seq(Pushes)
  BY DEF IInv, TypeOK
<1>3. /\ Len(inbox'[q]) = Len(inbox[q]) + 1
      /\ \A i \in 1..Len(inbox[q]) : inbox'[q][i] = inbox[q][i]
      /\ inbox'[q][Len(inbox[q]) + 1] = p
      /\ Len(inbox[q]) \in Nat
  BY <1>1, <1>2, AppendFacts
<1>4. ~InInbox(q, p) /\ ~Processed(q, p)
  BY <1>1 DEF IInv, Tracked
<1>5. /\ seqOf[p] = nextSeq /\ nextSeq \in Nat /\ highest[q] < nextSeq
      /\ \A r \in Pushes : seqOf[r] \in Nat /\ seqOf[r] <= nextSeq
      /\ \A k \in Queries : highest[k] \in Nat
  BY <1>1 DEF IInv, TypeOK, Numbering, Behind
<1>6. \A i \in 1..Len(inbox[q]) :
        inbox[q][i] \in Pushes /\ seqOf[inbox[q][i]] < nextSeq
  <2> SUFFICES ASSUME NEW i \in 1..Len(inbox[q])
               PROVE  inbox[q][i] \in Pushes /\ seqOf[inbox[q][i]] < nextSeq
    OBVIOUS
  <2>1. inbox[q][i] \in Pushes /\ inbox[q][i] # p
    BY <1>2, <1>4 DEF InInbox
  <2>2. seqOf[inbox[q][i]] > highest[q]
    BY DEF IInv, Ascending
  <2>3. seqOf[inbox[q][i]] # seqOf[p]
    BY <1>5, <2>1, <2>2 DEF IInv, Distinct
  <2> QED
    BY <1>5, <2>1, <2>3
<1>7. Numbering'
  BY <1>1, <1>5 DEF IInv, Numbering
<1>8. Distinct' /\ Serialised' /\ NothingDiscarded'
  BY <1>1 DEF IInv, Distinct, Serialised, HoldsLock, NothingDiscarded
<1>9. Ascending'
  <2> SUFFICES ASSUME NEW k \in Queries
               PROVE  /\ \A i \in 1..Len(inbox'[k]) :
                           seqOf[inbox'[k][i]] > highest[k]
                      /\ \A i, j \in 1..Len(inbox'[k]) :
                           i < j => seqOf[inbox'[k][i]] < seqOf[inbox'[k][j]]
    BY <1>1 DEF IInv, Ascending, Processed
  <2>1. CASE k # q
    BY <1>1, <2>1 DEF IInv, Ascending
  <2>2. CASE k = q
    <3>1. \A i \in 1..Len(inbox'[q]) : i \in 1..Len(inbox[q])
                                       \/ i = Len(inbox[q]) + 1
      BY <1>3
    <3>2. \A i \in 1..Len(inbox'[q]) : seqOf[inbox'[q][i]] > highest[q]
      BY <1>3, <1>5, <3>1 DEF IInv, Ascending
    <3>3. \A i, j \in 1..Len(inbox'[q]) :
            i < j => seqOf[inbox'[q][i]] < seqOf[inbox'[q][j]]
      <4> SUFFICES ASSUME NEW i \in 1..Len(inbox'[q]),
                          NEW j \in 1..Len(inbox'[q]), i < j
                   PROVE  seqOf[inbox'[q][i]] < seqOf[inbox'[q][j]]
        OBVIOUS
      <4>1. i \in 1..Len(inbox[q])
        BY <1>3
      <4>2. CASE j = Len(inbox[q]) + 1
        BY <1>3, <1>5, <1>6, <4>1, <4>2
      <4>3. CASE j \in 1..Len(inbox[q])
        BY <1>3, <4>1, <4>3 DEF IInv, Ascending
      <4> QED
        BY <3>1, <4>2, <4>3
    <3> QED
      BY <2>2, <3>2, <3>3
  <2> QED
    BY <2>1, <2>2
<1>10. Tracked'
  <2> SUFFICES ASSUME NEW k \in Queries, NEW r \in Pushes
               PROVE  k \in reached'[r] <=> InInbox(k, r)' \/ Processed(k, r)
    BY <1>1 DEF Tracked, Processed
  <2>1. CASE k # q
    BY <1>1, <2>1 DEF IInv, Tracked, InInbox
  <2>2. CASE k = q /\ r = p
    <3>1. Len(inbox[q]) + 1 \in 1..Len(inbox'[q])
      BY <1>3
    <3>2. InInbox(q, p)'
      BY <1>1, <1>3, <3>1 DEF InInbox
    <3> QED
      BY <1>1, <2>2, <3>2
  <2>3. CASE k = q /\ r # p
    <3>1. InInbox(q, r)' <=> InInbox(q, r)
      BY <1>1, <1>3, <2>3 DEF InInbox
    <3> QED
      BY <1>1, <2>3, <3>1 DEF IInv, Tracked
  <2> QED
    BY <2>1, <2>2, <2>3
<1>11. Behind'
  BY <1>1 DEF IInv, Behind
<1> QED
  BY <1>7, <1>8, <1>9, <1>10, <1>11 DEF IInv

\* What taking the head of a channel does: the filter lets it through.
LEMMA ProcessFacts ==
  ASSUME IInv, NEW q \in Queries, Process(q)
  PROVE  \E h \in Pushes :
           /\ InInbox(q, h)
           /\ seqOf[h] > highest[q]
           /\ highest' = [highest EXCEPT ![q] = seqOf[h]]
           /\ processed' = [processed EXCEPT ![q] = Append(@, h)]
           /\ Len(inbox[q]) \in Nat /\ Len(inbox[q]) >= 1
           /\ h = inbox[q][1]
           /\ Len(inbox'[q]) = Len(inbox[q]) - 1
           /\ \A i \in 1..(Len(inbox[q]) - 1) : inbox'[q][i] = inbox[q][i + 1]
           /\ \A k \in Queries : k # q => inbox'[k] = inbox[k]
           /\ UNCHANGED <<pc, nextSeq, seqOf, reached, discarded>>
<1>1. inbox[q] \in Seq(Pushes) /\ inbox[q] # <<>>
  BY DEF Process, IInv, TypeOK
<1>2. PICK h \in Pushes : h = Head(inbox[q]) /\ h = inbox[q][1]
  BY <1>1, TailFacts
<1>3. Len(inbox[q]) \in Nat /\ Len(inbox[q]) >= 1
  BY <1>1, TailFacts
<1>4. 1 \in 1..Len(inbox[q])
  BY <1>3
<1>5. seqOf[h] > highest[q]
  BY <1>2, <1>4 DEF IInv, Ascending
<1>6. ~(seqOf[h] <= highest[q])
  BY <1>5 DEF IInv, TypeOK
<1>7. /\ highest' = [highest EXCEPT ![q] = seqOf[h]]
      /\ processed' = [processed EXCEPT ![q] = Append(@, h)]
      /\ UNCHANGED <<pc, nextSeq, seqOf, reached, discarded>>
  BY <1>2, <1>6 DEF Process
<1>8. /\ inbox'[q] = Tail(inbox[q])
      /\ \A k \in Queries : k # q => inbox'[k] = inbox[k]
  BY DEF Process, IInv, TypeOK
<1>9. /\ Len(inbox'[q]) = Len(inbox[q]) - 1
      /\ \A i \in 1..(Len(inbox[q]) - 1) : inbox'[q][i] = inbox[q][i + 1]
  BY <1>1, <1>8, TailFacts
<1>10. InInbox(q, h)
  BY <1>2, <1>4 DEF InInbox
<1> QED
  BY <1>2, <1>3, <1>5, <1>7, <1>8, <1>9, <1>10

\* What a query has processed after one more change.
LEMMA ProcessedAppend ==
  ASSUME TypeOK, NEW q \in Queries, NEW h \in Pushes,
         processed' = [processed EXCEPT ![q] = Append(@, h)]
  PROVE  \A k \in Queries, r \in Pushes :
           Processed(k, r)' <=> Processed(k, r) \/ (k = q /\ r = h)
<1> SUFFICES ASSUME NEW k \in Queries, NEW r \in Pushes
             PROVE  Processed(k, r)' <=> Processed(k, r) \/ (k = q /\ r = h)
  OBVIOUS
<1>1. CASE k # q
  BY <1>1 DEF TypeOK, Processed
<1>2. CASE k = q
  <2>1. processed[q] \in Seq(Pushes) /\ processed'[q] = Append(processed[q], h)
    BY DEF TypeOK
  <2>2. /\ DOMAIN processed[q] = 1..Len(processed[q])
        /\ DOMAIN processed'[q] = 1..(Len(processed[q]) + 1)
        /\ \A i \in 1..Len(processed[q]) : processed'[q][i] = processed[q][i]
        /\ processed'[q][Len(processed[q]) + 1] = h
        /\ Len(processed[q]) \in Nat
    BY <2>1, AppendFacts
  <2>3. \A i \in DOMAIN processed'[q] :
          i \in DOMAIN processed[q] \/ i = Len(processed[q]) + 1
    BY <2>2
  <2>4. /\ Len(processed[q]) + 1 \in DOMAIN processed'[q]
        /\ \A i \in DOMAIN processed[q] : i \in DOMAIN processed'[q]
    BY <2>2
  <2> QED
    BY <1>2, <2>2, <2>3, <2>4 DEF Processed
<1> QED
  BY <1>1, <1>2

\* Processing: the head of the channel is the smallest number left in it, so
\* what remains stays above the new highest.
LEMMA ProcessStep ==
  ASSUME IInv, TypeOK', NEW q \in Queries, Process(q)
  PROVE  IInv'
<1>1. PICK h \in Pushes :
           /\ InInbox(q, h)
           /\ seqOf[h] > highest[q]
           /\ highest' = [highest EXCEPT ![q] = seqOf[h]]
           /\ processed' = [processed EXCEPT ![q] = Append(@, h)]
           /\ Len(inbox[q]) \in Nat /\ Len(inbox[q]) >= 1
           /\ h = inbox[q][1]
           /\ Len(inbox'[q]) = Len(inbox[q]) - 1
           /\ \A i \in 1..(Len(inbox[q]) - 1) : inbox'[q][i] = inbox[q][i + 1]
           /\ \A k \in Queries : k # q => inbox'[k] = inbox[k]
           /\ UNCHANGED <<pc, nextSeq, seqOf, reached, discarded>>
  BY ProcessFacts
<1>2. \A k \in Queries, r \in Pushes :
        Processed(k, r)' <=> Processed(k, r) \/ (k = q /\ r = h)
  BY <1>1, ProcessedAppend DEF IInv
<1>3. /\ highest'[q] = seqOf[h]
      /\ \A k \in Queries : k # q => highest'[k] = highest[k]
  BY <1>1 DEF IInv, TypeOK
<1>4. /\ nextSeq \in Nat
      /\ \A r \in Pushes : seqOf[r] \in Nat /\ seqOf[r] <= nextSeq
      /\ \A k \in Queries : highest[k] \in Nat
  BY DEF IInv, TypeOK, Numbering
<1>5. Numbering'
  BY <1>1 DEF IInv, Numbering
<1>6. Distinct' /\ Serialised' /\ NothingDiscarded'
  BY <1>1 DEF IInv, Distinct, Serialised, HoldsLock, NothingDiscarded
<1>7. Ascending'
  <2> SUFFICES ASSUME NEW k \in Queries
               PROVE  /\ \A i \in 1..Len(inbox'[k]) :
                           seqOf[inbox'[k][i]] > highest'[k]
                      /\ \A i, j \in 1..Len(inbox'[k]) :
                           i < j => seqOf[inbox'[k][i]] < seqOf[inbox'[k][j]]
                      /\ \A p \in Pushes : Processed(k, p)' => seqOf[p] <= highest'[k]
                      /\ highest'[k] <= nextSeq
    BY <1>1 DEF Ascending
  <2>1. CASE k # q
    BY <1>1, <1>2, <1>3, <2>1 DEF IInv, Ascending
  <2>2. CASE k = q
    <3>1. \A i \in 1..Len(inbox'[q]) :
            /\ i + 1 \in 1..Len(inbox[q]) /\ 1 \in 1..Len(inbox[q]) /\ 1 < i + 1
            /\ inbox'[q][i] = inbox[q][i + 1]
      BY <1>1
    <3>2. \A i \in 1..Len(inbox'[q]) : seqOf[inbox'[q][i]] > highest'[q]
      <4> SUFFICES ASSUME NEW i \in 1..Len(inbox'[q])
                   PROVE  seqOf[inbox'[q][i]] > highest'[q]
        OBVIOUS
      <4>1. seqOf[inbox[q][1]] < seqOf[inbox[q][i + 1]]
        BY <3>1 DEF IInv, Ascending
      <4>2. inbox[q][i + 1] \in Pushes
        BY <3>1 DEF IInv, TypeOK
      <4> QED
        BY <1>1, <1>3, <1>4, <3>1, <4>1, <4>2
    <3>3. \A i, j \in 1..Len(inbox'[q]) :
            i < j => seqOf[inbox'[q][i]] < seqOf[inbox'[q][j]]
      <4> SUFFICES ASSUME NEW i \in 1..Len(inbox'[q]), NEW j \in 1..Len(inbox'[q]),
                          i < j
                   PROVE  seqOf[inbox'[q][i]] < seqOf[inbox'[q][j]]
        OBVIOUS
      <4>1. /\ inbox'[q][i] = inbox[q][i + 1]
            /\ inbox'[q][j] = inbox[q][j + 1]
        BY <3>1
      <4>2. /\ i + 1 \in 1..Len(inbox[q]) /\ j + 1 \in 1..Len(inbox[q])
            /\ i + 1 < j + 1
        BY <3>1
      <4>3. \A a, b \in 1..Len(inbox[q]) :
              a < b => seqOf[inbox[q][a]] < seqOf[inbox[q][b]]
        BY DEF IInv, Ascending
      <4>4. seqOf[inbox[q][i + 1]] < seqOf[inbox[q][j + 1]]
        BY <4>2, <4>3
      <4> QED
        BY <4>1, <4>4
    <3>4. \A p \in Pushes : Processed(q, p)' => seqOf[p] <= highest'[q]
      BY <1>1, <1>2, <1>3, <1>4 DEF IInv, Ascending
    <3> QED
      BY <1>3, <1>4, <2>2, <3>2, <3>3, <3>4
  <2> QED
    BY <2>1, <2>2
<1>8. Tracked'
  <2> SUFFICES ASSUME NEW k \in Queries, NEW r \in Pushes
               PROVE  k \in reached[r] <=> InInbox(k, r)' \/ Processed(k, r)'
    BY <1>1 DEF Tracked
  <2>1. CASE k # q
    BY <1>1, <1>2, <2>1 DEF IInv, Tracked, InInbox
  <2>2. CASE k = q
    <3>1. InInbox(q, r) <=> InInbox(q, r)' \/ r = h
      <4>1. \A i \in 1..Len(inbox'[q]) : i + 1 \in 1..Len(inbox[q])
        BY <1>1
      <4>2. \A i \in 1..Len(inbox[q]) :
              i = 1 \/ (i - 1 \in 1..Len(inbox'[q]) /\ i = (i - 1) + 1)
        BY <1>1
      <4>3. ASSUME InInbox(q, r), r # h
            PROVE  InInbox(q, r)'
        <5>1. PICK i \in 1..Len(inbox[q]) : inbox[q][i] = r
          BY <4>3 DEF InInbox
        <5>2. i - 1 \in 1..Len(inbox'[q]) /\ inbox'[q][i - 1] = r
          BY <1>1, <4>2, <4>3, <5>1
        <5> QED
          BY <5>2 DEF InInbox
      <4>4. ASSUME InInbox(q, r)'
            PROVE  InInbox(q, r)
        BY <1>1, <4>1, <4>4 DEF InInbox
      <4> QED
        BY <1>1, <4>3, <4>4
    <3> QED
      BY <1>2, <2>2, <3>1 DEF IInv, Tracked
  <2> QED
    BY <2>1, <2>2
<1>9. Behind'
  <2> SUFFICES ASSUME NEW k \in Queries, NEW p \in Pushes,
                      pc[p] = "dispatching", k \notin reached[p]
               PROVE  highest'[k] < nextSeq
    BY <1>1 DEF Behind
  <2>1. CASE k # q
    BY <1>3, <2>1 DEF IInv, Behind
  <2>2. CASE k = q
    <3>1. h # p
      BY <1>1, <2>2 DEF IInv, Tracked
    <3>2. seqOf[h] # nextSeq
      BY <1>1, <1>4, <3>1 DEF IInv, Numbering, Distinct
    <3> QED
      BY <1>3, <1>4, <2>2, <3>2
  <2> QED
    BY <2>1, <2>2
<1> QED
  BY <1>5, <1>6, <1>7, <1>8, <1>9 DEF IInv

-----------------------------------------------------------------------------
LEMMA InitInv == Init => IInv
<1> SUFFICES ASSUME Init PROVE IInv
  OBVIOUS
<1>1. TypeOK
  BY DEF Init, TypeOK, PushState
<1> QED
  BY <1>1 DEF Init, IInv, Numbering, Distinct, Serialised, HoldsLock, Ascending,
              Tracked, Behind, InInbox, Processed, NothingDiscarded

LEMMA InvStep == IInv /\ [Next]_vars => IInv'
<1> SUFFICES ASSUME IInv, [Next]_vars
             PROVE  IInv'
  OBVIOUS
<1>1. TypeOK'
  BY TypeStep DEF IInv
<1>2. ASSUME NEW p \in Pushes, Request(p) \/ Acquire(p) \/ Finish(p) \/ Cancel(p)
      PROVE  IInv'
  BY <1>1, <1>2, MoveStep
<1>3. ASSUME NEW p \in Pushes, TakeSequence(p)
      PROVE  IInv'
  BY <1>1, <1>3, SequenceStep
<1>4. ASSUME NEW p \in Pushes, NEW q \in Queries, Deliver(p, q)
      PROVE  IInv'
  BY <1>1, <1>4, DeliverStep
<1>5. ASSUME NEW q \in Queries, Process(q)
      PROVE  IInv'
  BY <1>1, <1>5, ProcessStep
<1>6. CASE UNCHANGED vars
  BY <1>6 DEF vars, IInv, TypeOK, Numbering, Distinct, Serialised, HoldsLock,
              Ascending, Tracked, Behind, InInbox, Processed, NothingDiscarded
<1> QED
  BY <1>2, <1>3, <1>4, <1>5, <1>6 DEF Next, Push

\* The inductive invariant holds in every reachable state.
THEOREM Invariance == Spec => []IInv
  BY InitInv, InvStep, PTL DEF Spec

\* Every variable of the dispatch keeps its type.
THEOREM TypeCorrect == Spec => []TypeOK
<1>1. IInv => TypeOK
  BY DEF IInv
<1> QED
  BY <1>1, Invariance, PTL

\* PythonSource::push never lets a query's sequence filter discard a change,
\* however many calls overlap or are cancelled, for any number of queries and
\* any channel bound.
THEOREM NeverDiscards == Spec => []NothingDiscarded
<1>1. IInv => NothingDiscarded
  BY DEF IInv
<1> QED
  BY <1>1, Invariance, PTL

\* A push that returned has left its change with every query, for any number of
\* queries and any bound of their channels, whatever is cancelled around it
\* (components.rs:71-75).
THEOREM ReturnedIsDelivered == Spec => []ReturnedIsWithQueries
<1>1. IInv => ReturnedIsWithQueries
  <2> SUFFICES ASSUME IInv, NEW p \in Pushes, NEW q \in Queries, pc[p] = "done"
               PROVE  Processed(q, p) \/ \E i \in DOMAIN inbox[q] : inbox[q][i] = p
    BY DEF ReturnedIsWithQueries
  <2>1. InInbox(q, p) \/ Processed(q, p)
    BY DEF IInv, Numbering, Tracked
  <2>2. DOMAIN inbox[q] = 1..Len(inbox[q])
    BY DEF IInv, TypeOK
  <2> QED
    BY <2>1, <2>2 DEF InInbox
<1> QED
  BY <1>1, Invariance, PTL

-----------------------------------------------------------------------------
(* The mutex                                                               *)

\* The mutex's queue: the calls that wait for it, each once.
Queue ==
  /\ \A i \in 1..Len(waiters) : pc[waiters[i]] = "queued"
  /\ \A i, j \in 1..Len(waiters) : waiters[i] = waiters[j] => i = j
  /\ \A p \in Pushes : pc[p] = "queued" => \E i \in 1..Len(waiters) : waiters[i] = p

\* Calls join its end, and leave from its head or, cancelled, from within.
LEMMA QueueStep == TypeOK /\ Queue /\ [Next]_vars => Queue'
<1> SUFFICES ASSUME TypeOK, Queue, [Next]_vars PROVE Queue'
  OBVIOUS
<1>1. waiters \in Seq(Pushes) /\ Len(waiters) \in Nat
  BY DEF TypeOK
<1>2. ASSUME NEW p \in Pushes, Request(p) PROVE Queue'
  <2>1. /\ pc[p] = "idle" /\ pc'[p] = "queued" /\ \A r \in Pushes \ {p} : pc'[r] = pc[r]
        /\ waiters' = Append(waiters, p)
    BY <1>2 DEF Request, Goto, TypeOK
  <2>2. /\ Len(waiters') = Len(waiters) + 1 /\ waiters'[Len(waiters) + 1] = p
        /\ \A i \in 1..Len(waiters) : waiters'[i] = waiters[i]
    BY <1>1, <2>1, AppendFacts
  <2>3. \A i \in 1..Len(waiters) : waiters[i] \in Pushes \ {p}
    BY <1>1, <2>1 DEF Queue
  <2>4. \A i \in 1..Len(waiters') : i \in 1..Len(waiters) \/ i = Len(waiters) + 1
    BY <1>1, <2>2
  <2>5. /\ Len(waiters) + 1 \in 1..Len(waiters')
        /\ \A i \in 1..Len(waiters) : i \in 1..Len(waiters')
    BY <1>1, <2>2
  <2> QED
    BY <2>1, <2>2, <2>3, <2>4, <2>5 DEF Queue
<1>3. ASSUME NEW p \in Pushes, NEW i \in 1..Len(waiters), waiters[i] = p,
             pc[p] = "queued", pc'[p] # "queued", \A r \in Pushes \ {p} : pc'[r] = pc[r],
             Len(waiters') = Len(waiters) - 1,
             \A j \in 1..(Len(waiters) - 1) :
               waiters'[j] = IF j < i THEN waiters[j] ELSE waiters[j + 1]
      PROVE  Queue'
  <2> DEFINE Was(j) == IF j < i THEN j ELSE j + 1
  <2>1. \A j \in 1..Len(waiters') :
          /\ Was(j) \in 1..Len(waiters) /\ Was(j) # i /\ waiters'[j] = waiters[Was(j)]
    BY <1>1, <1>3
  <2>2. \A j, k \in 1..Len(waiters') : Was(j) = Was(k) => j = k
    BY <1>1, <1>3
  <2>3. \A k \in 1..Len(waiters) \ {i} : \E j \in 1..Len(waiters') : Was(j) = k
    <3> SUFFICES ASSUME NEW k \in 1..Len(waiters) \ {i}
                 PROVE  \E j \in 1..Len(waiters') : Was(j) = k
      OBVIOUS
    <3>1. CASE k < i
      BY <1>1, <1>3, <3>1
    <3>2. CASE ~(k < i)
      <4>1. k - 1 \in 1..Len(waiters') /\ Was(k - 1) = k
        BY <1>1, <1>3, <3>2
      <4> QED
        BY <4>1
    <3> QED
      BY <3>1, <3>2
  <2> HIDE DEF Was
  <2>4. \A k \in 1..Len(waiters) \ {i} : waiters[k] \in Pushes \ {p}
    BY <1>1, <1>3 DEF Queue
  <2>5. \A j \in 1..Len(waiters') : pc'[waiters'[j]] = "queued"
    BY <1>3, <2>1, <2>4 DEF Queue
  <2>6. \A j, k \in 1..Len(waiters') : waiters'[j] = waiters'[k] => j = k
    BY <2>1, <2>2 DEF Queue
  <2>7. ASSUME NEW r \in Pushes, pc'[r] = "queued"
        PROVE  \E j \in 1..Len(waiters') : waiters'[j] = r
    <3>1. PICK k \in 1..Len(waiters) : waiters[k] = r
      BY <1>3, <2>7 DEF Queue
    <3>2. k # i
      BY <1>3, <2>7, <3>1
    <3> QED
      BY <2>1, <2>3, <3>1, <3>2
  <2> QED
    BY <2>5, <2>6, <2>7 DEF Queue
<1>4. ASSUME NEW p \in Pushes, Acquire(p) PROVE Queue'
  <2>1. /\ pc[p] = "queued" /\ pc'[p] = "holding" /\ \A r \in Pushes \ {p} : pc'[r] = pc[r]
        /\ waiters # <<>> /\ waiters' = Tail(waiters) /\ p = Head(waiters)
    BY <1>4 DEF Acquire, Goto, TypeOK
  <2>2. /\ 1 \in 1..Len(waiters) /\ waiters[1] = p /\ Len(waiters') = Len(waiters) - 1
        /\ \A j \in 1..(Len(waiters) - 1) : waiters'[j] = waiters[j + 1]
    BY <1>1, <2>1, TailFacts
  <2>3. \A j \in 1..(Len(waiters) - 1) :
          waiters'[j] = IF j < 1 THEN waiters[j] ELSE waiters[j + 1]
    BY <1>1, <2>2
  <2> QED
    BY <1>3, <2>1, <2>2, <2>3
<1>5. ASSUME NEW p \in Pushes, Cancel(p), pc[p] = "queued" PROVE Queue'
  <2>1. pc'[p] = "cancelled" /\ \A r \in Pushes \ {p} : pc'[r] = pc[r]
    BY <1>5 DEF Cancel, Goto, TypeOK
  <2>2. PICK i \in 1..Len(waiters) :
          /\ waiters[i] = p
          /\ waiters' = SubSeq(waiters, 1, i - 1) \o SubSeq(waiters, i + 1, Len(waiters))
    <3>1. DOMAIN waiters = 1..Len(waiters)
      BY <1>1
    <3> QED
      BY <1>5, <3>1 DEF Cancel
  <2>3. /\ Len(waiters') = Len(waiters) - 1
        /\ \A j \in 1..(Len(waiters) - 1) :
             waiters'[j] = IF j < i THEN waiters[j] ELSE waiters[j + 1]
    BY <1>1, <2>2, TakenOut
  <2> QED
    BY <1>3, <1>5, <2>1, <2>2, <2>3
<1>6. ASSUME UNCHANGED waiters,
             \A p \in Pushes : (pc'[p] = "queued" <=> pc[p] = "queued")
      PROVE  Queue'
  BY <1>1, <1>6 DEF Queue
<1>7. ASSUME NEW p \in Pushes,
             \/ TakeSequence(p) \/ Finish(p) \/ \E q \in Queries : Deliver(p, q)
             \/ Cancel(p) /\ pc[p] # "queued"
      PROVE  Queue'
  BY <1>6, <1>7 DEF TakeSequence, Finish, Deliver, Cancel, Goto, TypeOK
<1>8. CASE (\E q \in Queries : Process(q)) \/ UNCHANGED vars
  BY <1>6, <1>8 DEF Process, vars
<1> QED
  BY <1>2, <1>4, <1>5, <1>7, <1>8 DEF Next, Push

\* The dispatch mutex is never stuck with a call that is gone: while any call waits,
\* another has it or the first in its queue can take it, for any number of calls and
\* wherever they are cancelled (components.rs:72).
THEOREM HandedOn == Spec => []MutexIsHandedOn
<1>1. Init => Queue
  BY DEF Init, Queue
<1>2. TypeOK /\ Queue => MutexIsHandedOn
  <2> SUFFICES ASSUME TypeOK, Queue, NEW p \in Pushes, pc[p] = "queued"
               PROVE  waiters # <<>> /\ pc[Head(waiters)] = "queued"
    BY DEF MutexIsHandedOn
  <2>1. PICK i \in 1..Len(waiters) : waiters[i] = p
    BY DEF Queue
  <2>2. waiters \in Seq(Pushes) /\ Len(waiters) \in Nat /\ waiters # <<>>
    BY <2>1 DEF TypeOK
  <2>3. Head(waiters) = waiters[1] /\ 1 \in 1..Len(waiters)
    BY <2>1, <2>2
  <2> QED
    BY <2>2, <2>3 DEF Queue
<1> QED
  BY <1>1, <1>2, QueueStep, TypeCorrect, PTL DEF Spec

-----------------------------------------------------------------------------
\* The abandoned changes of the refinement mapping.
Abandoned == {p \in Pushes : pc[p] = "cancelled" /\ seqOf[p] # 0}

\* A cancellation gives up the change if it was numbered, and is invisible
\* otherwise.
LEMMA CancelMaps ==
  ASSUME IInv, NEW p \in Pushes, Cancel(p)
  PROVE  Feed!Abandon(p) \/ UNCHANGED Feed!vars
<1>1. /\ UNCHANGED <<nextSeq, seqOf, processed>>
      /\ pc[p] # "cancelled"
      /\ pc' = [pc EXCEPT ![p] = "cancelled"]
  BY DEF Cancel, Suspended, Goto
<1>2. pc'[p] = "cancelled" /\ \A r \in Pushes : r # p => pc'[r] = pc[r]
  BY <1>1 DEF IInv, TypeOK
<1>3. CASE seqOf[p] = 0
  <2>1. Abandoned' = Abandoned
    BY <1>1, <1>2, <1>3 DEF Abandoned
  <2> QED
    BY <1>1, <2>1 DEF Feed!vars, Abandoned
<1>4. CASE seqOf[p] # 0
  <2>1. Abandoned' = Abandoned \cup {p} /\ p \notin Abandoned
    BY <1>1, <1>2, <1>4 DEF Abandoned
  <2> QED
    BY <1>1, <1>4, <2>1 DEF Feed!Abandon, Abandoned
<1> QED
  BY <1>3, <1>4

\* A query takes exactly the next change of the order that is still coming to
\* it: one numbered lower is processed, or its push was cancelled.
LEMMA ProcessMaps ==
  ASSUME IInv, NEW q \in Queries, Process(q)
  PROVE  \E h \in Pushes : Feed!Consume(q, h)
<1>1. PICK h \in Pushes :
           /\ InInbox(q, h)
           /\ seqOf[h] > highest[q]
           /\ processed' = [processed EXCEPT ![q] = Append(@, h)]
           /\ h = inbox[q][1]
           /\ Len(inbox[q]) \in Nat /\ Len(inbox[q]) >= 1
           /\ UNCHANGED <<pc, nextSeq, seqOf>>
  BY ProcessFacts
<1>2. /\ nextSeq \in Nat
      /\ \A r \in Pushes : seqOf[r] \in Nat /\ seqOf[r] <= nextSeq
      /\ highest[q] \in Nat
  BY DEF IInv, TypeOK, Numbering
<1>3. ASSUME NEW d \in Pushes, Feed!Took(q, d)
      PROVE  seqOf[d] < seqOf[h]
  <2>1. Processed(q, d)
    BY <1>3 DEF Feed!Took, Processed
  <2>2. seqOf[d] <= highest[q]
    BY <2>1 DEF IInv, Ascending
  <2> QED
    BY <1>1, <1>2, <2>2
<1>4. ASSUME NEW d \in Pushes, seqOf[d] # 0, seqOf[d] < seqOf[h]
      PROVE  Feed!Took(q, d) \/ d \in Abandoned
  <2>1. ~InInbox(q, d)
    <3> SUFFICES ASSUME InInbox(q, d)
                 PROVE  FALSE
      OBVIOUS
    <3>1. PICK i \in 1..Len(inbox[q]) : inbox[q][i] = d
      BY DEF InInbox
    <3>2. i = 1 \/ 1 < i
      BY <1>1
    <3>3. 1 \in 1..Len(inbox[q])
      BY <1>1
    <3>4. CASE i = 1
      BY <1>1, <1>2, <1>4, <3>1, <3>4
    <3>5. CASE 1 < i
      <4>1. seqOf[h] < seqOf[d]
        BY <1>1, <3>1, <3>3, <3>5 DEF IInv, Ascending
      <4> QED
        BY <1>2, <1>4, <4>1
    <3> QED
      BY <3>2, <3>4, <3>5
  <2>2. CASE q \in reached[d]
    BY <2>1, <2>2 DEF IInv, Tracked, Processed, Feed!Took
  <2>3. CASE q \notin reached[d]
    <3>1. pc[d] # "dispatching"
      BY <1>2, <1>4 DEF IInv, Numbering
    <3>2. pc[d] # "done"
      BY <2>3 DEF IInv, Numbering
    <3>3. pc[d] \in PushState
      BY DEF IInv, TypeOK
    <3>4. pc[d] = "cancelled"
      BY <1>4, <3>1, <3>2, <3>3 DEF IInv, Numbering, PushState
    <3> QED
      BY <1>4, <3>4 DEF Abandoned
  <2> QED
    BY <2>2, <2>3
<1>5. Abandoned' = Abandoned
  BY <1>1 DEF Abandoned
<1>6. seqOf[h] # 0
  BY <1>1, <1>2
<1> QED
  BY <1>1, <1>3, <1>4, <1>5, <1>6 DEF Feed!Consume, Abandoned

\* Every step of the dispatch is a step of the abstract feed or invisible
\* to it.
LEMMA StepMaps == IInv /\ [Next]_vars => [Feed!Next]_(Feed!vars)
<1> SUFFICES ASSUME IInv, [Next]_vars
             PROVE  Feed!Next \/ UNCHANGED Feed!vars
  OBVIOUS
<1>1. ASSUME NEW p \in Pushes, Request(p) \/ Acquire(p) \/ Finish(p)
      PROVE  UNCHANGED Feed!vars
  <2>1. /\ UNCHANGED <<nextSeq, seqOf, processed>>
        /\ \E to \in PushState \ {"cancelled"} : pc' = [pc EXCEPT ![p] = to]
        /\ pc[p] # "cancelled"
    BY <1>1 DEF Request, Acquire, Finish, Goto, PushState
  <2>2. Abandoned' = Abandoned
    BY <2>1 DEF Abandoned, IInv, TypeOK
  <2> QED
    BY <2>1, <2>2 DEF Feed!vars, Abandoned
<1>2. ASSUME NEW p \in Pushes, TakeSequence(p)
      PROVE  Feed!Accept(p)
  <2>1. /\ seqOf[p] = 0 /\ pc[p] = "holding"
        /\ nextSeq' = nextSeq + 1
        /\ seqOf' = [seqOf EXCEPT ![p] = nextSeq + 1]
        /\ pc' = [pc EXCEPT ![p] = "dispatching"]
        /\ UNCHANGED processed
    BY <1>2 DEF TakeSequence, Goto, IInv, Numbering
  <2>2. Abandoned' = Abandoned
    BY <2>1 DEF Abandoned, IInv, TypeOK
  <2> QED
    BY <2>1, <2>2 DEF Feed!Accept, Abandoned
<1>3. ASSUME NEW p \in Pushes, NEW q \in Queries, Deliver(p, q)
      PROVE  UNCHANGED Feed!vars
  BY <1>3 DEF Deliver, Feed!vars
<1>4. ASSUME NEW p \in Pushes, Cancel(p)
      PROVE  Feed!Abandon(p) \/ UNCHANGED Feed!vars
  BY <1>4, CancelMaps
<1>5. ASSUME NEW q \in Queries, Process(q)
      PROVE  \E h \in Pushes : Feed!Consume(q, h)
  BY <1>5, ProcessMaps
<1>6. CASE UNCHANGED vars
  BY <1>6 DEF vars, Feed!vars
<1> QED
  BY <1>1, <1>2, <1>3, <1>4, <1>5, <1>6 DEF Next, Push, Feed!Next

\* Dispatch implements the abstract feed: every query takes the changes in one
\* common order and misses only changes whose push was cancelled.
THEOREM Refinement == Spec => RefinesOrderedFeed
<1>1. Init => Feed!Init
  BY DEF Init, Feed!Init
<1> QED
  BY <1>1, StepMaps, Invariance, PTL DEF Spec, Feed!Spec, RefinesOrderedFeed

(***************************************************************************)
(* Conversions, for every set of values, trees and mappings.  Each one is  *)
(* defined by recursion on how deep a value nests; module Recursion gives  *)
(* it a value everywhere, and the induction.                               *)
(***************************************************************************)

ToJsonRec == INSTANCE Recursion WITH S <- PyValues, Def <- PyToJson
FormRec == INSTANCE Recursion WITH S <- PyValues, Def <- HasForm
ReturnedRec == INSTANCE Recursion WITH S <- PyValues, Def <- Returned

-----------------------------------------------------------------------------
(* The functions satisfy their recursions                                  *)

\* The parts of a Python value are Python values, and nest less deep.
LEMMA PyParts ==
  ASSUME NEW v \in PyValues
  PROVE  /\ Depth(v) \in Nat
         /\ \A w \in Parts(v) : w \in PyValues /\ Depth(w) < Depth(v)
BY PyValuesAssumption DEF Nest

LEMMA PyGrounded == \A v \in PyValues : Depth(v) \in Nat
BY PyParts

\* An item that is under a key is found there.
LEMMA LastUnderIs ==
  ASSUME NEW v \in PyValues, v[1] = "dict", NEW key \in Keys(v)
  PROVE  LastUnder(v, key) \in DOMAIN v[2] /\ Key(v, LastUnder(v, key)) = key
<1> DEFINE n == Len(v[2])
           Under == {i \in DOMAIN v[2] : Key(v, i) = key}
           N == {n - i : i \in Under}
<1>1. n \in Nat /\ DOMAIN v[2] = 1 .. n
  BY PyValuesAssumption
<1> HIDE DEF n
<1>2. N \subseteq Nat /\ N # {}
  BY <1>1 DEF Keys
<1>3. PICK m \in N : \A k \in N : m <= k
  BY <1>2, ToJsonRec!SmallestNumber
<1>4. PICK i \in Under : m = n - i
  BY <1>3
<1>5. ASSUME NEW j \in Under PROVE j <= i
  <2>1. n - j \in N
    OBVIOUS
  <2>2. n - i <= n - j
    BY <1>3, <1>4, <2>1
  <2>3. i \in Int /\ j \in Int
    BY <1>1
  <2> QED
    BY <1>1, <2>2, <2>3
<1>6. i \in DOMAIN v[2] /\ Key(v, i) = key /\ \A j \in DOMAIN v[2] : Key(v, j) = key => j <= i
  BY <1>4, <1>5
<1> QED
  BY <1>6, Zenon DEF LastUnder

LEMMA PyToJsonLocal == ToJsonRec!Local
<1> SUFFICES ASSUME NEW v \in PyValues, NEW f, NEW g, ToJsonRec!Agree(f, g, v)
             PROVE  PyToJson(f, v) = PyToJson(g, v)
  BY DEF ToJsonRec!Local
<1>1. \A w \in Parts(v) : f[w] = g[w]
  BY PyParts DEF ToJsonRec!Agree
<1>2. CASE v[1] = "dict"
  <2> DEFINE values(h) == [i \in DOMAIN v[2] |-> ItemToJson(h, v[2][i])]
  <2>1. values(f) = values(g)
    <3>1. \A i \in DOMAIN v[2] : f[v[2][i][2]] = g[v[2][i][2]]
      BY <1>1, <1>2 DEF Parts
    <3>2. \A i \in DOMAIN v[2] : ItemToJson(f, v[2][i]) = ItemToJson(g, v[2][i])
      BY <3>1 DEF ItemToJson
    <3> QED
      BY <3>2
  <2>2. \A h : PyToJson(h, v) =
               IF SomeRefused(values(h)) THEN FirstRefused(values(h))
               ELSE <<"object", [key \in Keys(v) |-> values(h)[LastUnder(v, key)]]>>
    BY <1>2 DEF PyToJson, IsInt
  <2> HIDE DEF values
  <2> QED
    BY <2>1, <2>2
<1>3. CASE v[1] \in SequenceTypes
  <2> DEFINE values(h) == [i \in DOMAIN v[2] |-> h[v[2][i]]]
  <2>1. values(f) = values(g)
    BY <1>1, <1>3 DEF Parts, SequenceTypes
  <2> QED
    BY <1>3, <2>1 DEF PyToJson, IsInt, SequenceTypes
<1> QED
  BY <1>2, <1>3 DEF PyToJson

LEMMA PyToJsonDef == py_to_json = [v \in PyValues |-> PyToJson(py_to_json, v)]
<1>1. \E f : ToJsonRec!Satisfies(f)
  BY PyGrounded, PyToJsonLocal, ToJsonRec!Defined DEF ToJsonRec!Grounded
<1>2. \E f : f = [v \in PyValues |-> PyToJson(f, v)]
  BY <1>1 DEF ToJsonRec!Satisfies
<1> QED
  BY <1>2 DEF py_to_json

LEMMA HasFormLocal == FormRec!Local
<1> SUFFICES ASSUME NEW v \in PyValues, NEW f, NEW g, FormRec!Agree(f, g, v)
             PROVE  HasForm(f, v) = HasForm(g, v)
  BY DEF FormRec!Local
<1>1. \A w \in Parts(v) : f[w] = g[w]
  BY PyParts DEF FormRec!Agree
<1>2. CASE v[1] = "dict"
  <2>1. \A i \in DOMAIN v[2] : f[v[2][i][2]] = g[v[2][i][2]]
    BY <1>1, <1>2 DEF Parts
  <2> QED
    BY <1>2, <2>1 DEF HasForm, SequenceTypes
<1>3. CASE v[1] # "dict"
  BY <1>1, <1>3 DEF HasForm
<1> QED
  BY <1>2, <1>3

LEMMA HasFormDef == has_form = [v \in PyValues |-> HasForm(has_form, v)]
<1>1. \E f : FormRec!Satisfies(f)
  BY PyGrounded, HasFormLocal, FormRec!Defined DEF FormRec!Grounded
<1>2. \E f : f = [v \in PyValues |-> HasForm(f, v)]
  BY <1>1 DEF FormRec!Satisfies
<1> QED
  BY <1>2 DEF has_form

LEMMA ReturnedLocal == ReturnedRec!Local
<1> SUFFICES ASSUME NEW v \in PyValues, NEW f, NEW g, ReturnedRec!Agree(f, g, v)
             PROVE  Returned(f, v) = Returned(g, v)
  BY DEF ReturnedRec!Local
<1>1. \A w \in Parts(v) : f[w] = g[w]
  BY PyParts DEF ReturnedRec!Agree
<1>2. CASE v[1] = "dict"
  <2>1. \A key \in Keys(v) : f[v[2][LastUnder(v, key)][2]] = g[v[2][LastUnder(v, key)][2]]
    BY <1>1, <1>2, LastUnderIs DEF Parts
  <2> QED
    BY <1>2, <2>1 DEF Returned, SequenceTypes
<1>3. CASE v[1] \in SequenceTypes
  <2>1. \A i \in DOMAIN v[2] : f[v[2][i]] = g[v[2][i]]
    BY <1>1, <1>3 DEF Parts, SequenceTypes
  <2> QED
    BY <1>3, <2>1 DEF Returned
<1> QED
  BY <1>2, <1>3 DEF Returned

LEMMA ReturnedDef == returned = [v \in PyValues |-> Returned(returned, v)]
<1>1. \E f : ReturnedRec!Satisfies(f)
  BY PyGrounded, ReturnedLocal, ReturnedRec!Defined DEF ReturnedRec!Grounded
<1>2. \E f : f = [v \in PyValues |-> Returned(f, v)]
  BY <1>1 DEF ReturnedRec!Satisfies
<1> QED
  BY <1>2 DEF returned

-----------------------------------------------------------------------------
(* What has a form in JSON is converted, and nothing else                  *)

\* The first result that is refused is refused.
LEMMA FirstRefusedIs ==
  ASSUME NEW results, NEW n \in Nat, DOMAIN results = 1 .. n, SomeRefused(results)
  PROVE  IsRefused(FirstRefused(results))
<1> DEFINE N == {i \in 1 .. n : IsRefused(results[i])}
<1>1. N \subseteq Nat /\ N # {}
  BY DEF SomeRefused
<1>2. PICK i \in N : \A j \in N : i <= j
  BY <1>1, ToJsonRec!SmallestNumber
<1>3. \A j \in 1 .. i - 1 : ~IsRefused(results[j])
  BY <1>2
<1>4. i \in DOMAIN results /\ IsRefused(results[i])
  OBVIOUS
<1>5. \E k \in DOMAIN results : /\ IsRefused(results[k])
                               /\ \A j \in 1 .. k - 1 : ~IsRefused(results[j])
  BY <1>3, <1>4
<1> QED
  BY <1>5, Zenon DEF FirstRefused

\* Exactly the values that have a form in JSON, at every depth, are not refused.
LEMMA RefusedIffFormless ==
  ASSUME NEW v \in PyValues
  PROVE  IsRefused(py_to_json[v]) <=> ~has_form[v]
<1> DEFINE Holds(w) == IsRefused(py_to_json[w]) <=> ~has_form[w]
           T == {w \in PyValues : ~Holds(w)}
<1> SUFFICES ASSUME T # {} PROVE FALSE
  OBVIOUS
<1>1. PICK u \in T : \A w \in T : Depth(u) <= Depth(w)
  BY PyGrounded, ToJsonRec!Shallowest DEF ToJsonRec!Grounded
<1>2. \A w \in Parts(u) : IsRefused(py_to_json[w]) <=> ~has_form[w]
  <2> SUFFICES ASSUME NEW w \in Parts(u), w \in T PROVE FALSE
    BY PyParts
  <2> QED
    BY <1>1, PyParts
<1>3. u \in PyValues /\ ~Holds(u)
  OBVIOUS
<1>4. py_to_json[u] = PyToJson(py_to_json, u) /\ has_form[u] = HasForm(has_form, u)
  BY <1>3, PyToJsonDef, HasFormDef
<1>5. CASE u[1] \in SequenceTypes
  <2> DEFINE values == [i \in DOMAIN u[2] |-> py_to_json[u[2][i]]]
             n == Len(u[2])
  <2>1. n \in Nat /\ DOMAIN values = 1 .. n
    BY <1>3, <1>5, PyValuesAssumption
  <2>2. SomeRefused(values) <=> ~HasForm(has_form, u)
    BY <1>2, <1>5 DEF Parts, SomeRefused, HasForm, SequenceTypes
  <2>3. PyToJson(py_to_json, u) = IF SomeRefused(values) THEN FirstRefused(values)
                                  ELSE <<"array", values>>
    BY <1>5 DEF PyToJson, IsInt, SequenceTypes
  <2> HIDE DEF values, n
  <2>4. SomeRefused(values) => IsRefused(FirstRefused(values))
    BY <2>1, FirstRefusedIs
  <2> QED
    BY <1>3, <1>4, <2>2, <2>3, <2>4 DEF IsRefused
<1>6. CASE u[1] = "dict"
  <2> DEFINE values == [i \in DOMAIN u[2] |-> ItemToJson(py_to_json, u[2][i])]
             n == Len(u[2])
  <2>1. n \in Nat /\ DOMAIN values = 1 .. n
    BY <1>3, <1>6, PyValuesAssumption
  <2>2. SomeRefused(values) <=> ~HasForm(has_form, u)
    <3>1. ASSUME NEW i \in DOMAIN u[2]
          PROVE  IsRefused(values[i]) <=> ~(u[2][i][1][1] = "str" /\ has_form[u[2][i][2]])
      <4>1. IsRefused(py_to_json[u[2][i][2]]) <=> ~has_form[u[2][i][2]]
        BY <1>2, <1>6 DEF Parts
      <4>2. CASE u[2][i][1][1] = "str"
        BY <4>1, <4>2 DEF ItemToJson
      <4>3. CASE u[2][i][1][1] # "str"
        <5>1. values[i] \in {Refused("UnicodeEncodeError"), Refused("ConfigInvalid")}
          BY <4>3 DEF ItemToJson
        <5> QED
          BY <4>3, <5>1 DEF IsRefused, Refused
      <4> QED
        BY <4>2, <4>3
    <3>2. DOMAIN values = DOMAIN u[2]
      OBVIOUS
    <3>3. HasForm(has_form, u) <=>
            \A i \in DOMAIN u[2] : u[2][i][1][1] = "str" /\ has_form[u[2][i][2]]
      BY <1>6 DEF HasForm, SequenceTypes
    <3> HIDE DEF values
    <3> QED
      BY <3>1, <3>2, <3>3 DEF SomeRefused
  <2>3. PyToJson(py_to_json, u) =
          IF SomeRefused(values) THEN FirstRefused(values)
          ELSE <<"object", [key \in Keys(u) |-> values[LastUnder(u, key)]]>>
    BY <1>6 DEF PyToJson, IsInt
  <2> HIDE DEF values, n
  <2>4. SomeRefused(values) => IsRefused(FirstRefused(values))
    BY <2>1, FirstRefusedIs
  <2> QED
    BY <1>3, <1>4, <2>2, <2>3, <2>4 DEF IsRefused
<1>7. CASE u[1] = "int"
  BY <1>3, <1>4, <1>7, PyValuesAssumption, HalfAssumption
  DEF PyToJson, HasForm, IsInt, I64, U64, IsRefused, Refused, SequenceTypes
<1>8. CASE u[1] \in {"none", "bool", "str", "surrogates", "float", "other"}
  BY <1>3, <1>4, <1>8 DEF PyToJson, HasForm, IsInt, IsRefused, Refused, SequenceTypes
<1> QED
  BY <1>3, <1>5, <1>6, <1>7, <1>8, PyValuesAssumption DEF Types

-----------------------------------------------------------------------------
(* The JSON values, and what becomes of them                               *)

\* What a value that is not refused becomes.
LEMMA ToJsonScalar ==
  ASSUME NEW v \in PyValues, ~IsRefused(py_to_json[v]),
         v[1] \notin SequenceTypes \union {"dict"}
  PROVE  /\ py_to_json[v] = IF v[1] = "int" THEN <<"number", v[2]>> ELSE v
         /\ v[1] \in {"none", "bool", "str", "int", "float"}
<1>1. py_to_json[v] = PyToJson(py_to_json, v)
  BY PyToJsonDef
<1> QED
  BY <1>1, PyValuesAssumption DEF Types, PyToJson, IsInt, IsRefused, Refused

LEMMA ToJsonArray ==
  ASSUME NEW v \in PyValues, ~IsRefused(py_to_json[v]), v[1] \in SequenceTypes
  PROVE  /\ py_to_json[v] = <<"array", [i \in DOMAIN v[2] |-> py_to_json[v[2][i]]]>>
         /\ \A i \in DOMAIN v[2] : ~IsRefused(py_to_json[v[2][i]])
<1> DEFINE values == [i \in DOMAIN v[2] |-> py_to_json[v[2][i]]]
           n == Len(v[2])
<1>1. n \in Nat /\ DOMAIN values = 1 .. n
  BY PyValuesAssumption
<1>2. py_to_json[v] = IF SomeRefused(values) THEN FirstRefused(values) ELSE <<"array", values>>
  BY PyToJsonDef DEF PyToJson, IsInt, SequenceTypes
<1>3. ~SomeRefused(values)
  <2> HIDE DEF values, n
  <2> QED
    BY <1>1, <1>2, FirstRefusedIs
<1> QED
  BY <1>2, <1>3 DEF SomeRefused

LEMMA ToJsonObject ==
  ASSUME NEW v \in PyValues, ~IsRefused(py_to_json[v]), v[1] = "dict"
  PROVE  /\ py_to_json[v] =
              <<"object", [key \in Keys(v) |-> py_to_json[v[2][LastUnder(v, key)][2]]]>>
         /\ \A i \in DOMAIN v[2] : ~IsRefused(py_to_json[v[2][i][2]])
<1> DEFINE values == [i \in DOMAIN v[2] |-> ItemToJson(py_to_json, v[2][i])]
           n == Len(v[2])
<1>1. n \in Nat /\ DOMAIN values = 1 .. n
  BY PyValuesAssumption
<1>2. py_to_json[v] =
        IF SomeRefused(values) THEN FirstRefused(values)
        ELSE <<"object", [key \in Keys(v) |-> values[LastUnder(v, key)]]>>
  BY PyToJsonDef DEF PyToJson, IsInt
<1>3. ~SomeRefused(values)
  <2> HIDE DEF values, n
  <2> QED
    BY <1>1, <1>2, FirstRefusedIs
<1>4. \A i \in DOMAIN v[2] : ~IsRefused(values[i])
  BY <1>3 DEF SomeRefused
<1>5. ASSUME NEW i \in DOMAIN v[2]
      PROVE  values[i] = py_to_json[v[2][i][2]] /\ ~IsRefused(py_to_json[v[2][i][2]])
  <2>1. CASE v[2][i][1][1] = "str"
    BY <1>4, <2>1 DEF ItemToJson
  <2>2. CASE v[2][i][1][1] # "str"
    <3>1. values[i] \in {Refused("UnicodeEncodeError"), Refused("ConfigInvalid")}
      BY <2>2 DEF ItemToJson
    <3> QED
      BY <1>4, <3>1 DEF IsRefused, Refused
  <2> QED
    BY <2>1, <2>2
<1>6. \A key \in Keys(v) :
        values[LastUnder(v, key)] = py_to_json[v[2][LastUnder(v, key)][2]]
  BY <1>5, LastUnderIs
<1> HIDE DEF values
<1> QED
  BY <1>2, <1>3, <1>5, <1>6

\* A Python value that becomes j, one that nests least.
Source(j) ==
  CHOOSE v \in PyValues :
    py_to_json[v] = j /\ \A w \in PyValues : py_to_json[w] = j => Depth(v) <= Depth(w)
JsonDepth(j) == Depth(Source(j))

LEMMA SourceIs ==
  ASSUME NEW j \in JsonValues
  PROVE  /\ Source(j) \in PyValues /\ py_to_json[Source(j)] = j
         /\ \A w \in PyValues : py_to_json[w] = j => Depth(Source(j)) <= Depth(w)
         /\ ~IsRefused(j)
<1> DEFINE T == {v \in PyValues : py_to_json[v] = j}
<1>1. T # {} /\ ~IsRefused(j)
  BY DEF JsonValues
<1>2. PICK v \in T : \A w \in T : Depth(v) <= Depth(w)
  BY <1>1, PyGrounded, ToJsonRec!Shallowest DEF ToJsonRec!Grounded
<1>3. v \in PyValues /\ py_to_json[v] = j
      /\ \A w \in PyValues : py_to_json[w] = j => Depth(v) <= Depth(w)
  BY <1>2
<1> QED
  BY <1>1, <1>3, Zenon DEF Source

\* The parts of a JSON value are JSON values, and nest less deep.
LEMMA JsonParts ==
  ASSUME NEW j \in JsonValues
  PROVE  /\ JsonDepth(j) \in Nat
         /\ \A w \in Parts(j) : w \in JsonValues /\ JsonDepth(w) < JsonDepth(j)
<1> DEFINE v == Source(j)
<1>1. v \in PyValues /\ py_to_json[v] = j /\ ~IsRefused(py_to_json[v])
  BY SourceIs
<1>2. JsonDepth(j) = Depth(v) /\ Depth(v) \in Nat
  BY <1>1, PyParts DEF JsonDepth
<1> HIDE DEF v
<1>3. ASSUME NEW w \in Parts(v), ~IsRefused(py_to_json[w])
      PROVE  py_to_json[w] \in JsonValues /\ JsonDepth(py_to_json[w]) < JsonDepth(j)
  <2>1. w \in PyValues /\ Depth(w) < Depth(v) /\ Depth(w) \in Nat
    BY <1>1, PyParts
  <2>2. py_to_json[w] \in JsonValues
    BY <1>3, <2>1 DEF JsonValues
  <2>3. JsonDepth(py_to_json[w]) <= Depth(w) /\ JsonDepth(py_to_json[w]) \in Nat
    BY <2>1, <2>2, SourceIs, PyParts DEF JsonDepth
  <2> QED
    BY <1>2, <2>1, <2>2, <2>3
<1>4. CASE v[1] \in SequenceTypes
  <2>1. /\ j = <<"array", [i \in DOMAIN v[2] |-> py_to_json[v[2][i]]]>>
        /\ \A i \in DOMAIN v[2] : ~IsRefused(py_to_json[v[2][i]])
    BY <1>1, <1>4, ToJsonArray
  <2>2. Parts(j) = {py_to_json[v[2][i]] : i \in DOMAIN v[2]}
    BY <2>1 DEF Parts, SequenceTypes
  <2>3. Parts(v) = {v[2][i] : i \in DOMAIN v[2]}
    BY <1>4 DEF Parts, SequenceTypes
  <2>4. \A w \in Parts(j) : \E u \in Parts(v) : w = py_to_json[u] /\ ~IsRefused(py_to_json[u])
    BY <2>1, <2>2, <2>3
  <2> QED
    BY <1>2, <1>3, <2>4
<1>5. CASE v[1] = "dict"
  <2>1. /\ j = <<"object", [key \in Keys(v) |-> py_to_json[v[2][LastUnder(v, key)][2]]]>>
        /\ \A i \in DOMAIN v[2] : ~IsRefused(py_to_json[v[2][i][2]])
    BY <1>1, <1>5, ToJsonObject
  <2>2. \A key \in Keys(v) : LastUnder(v, key) \in DOMAIN v[2]
    BY <1>1, <1>5, LastUnderIs
  <2>3. Parts(j) = {py_to_json[v[2][LastUnder(v, key)][2]] : key \in Keys(v)}
    BY <2>1 DEF Parts, SequenceTypes
  <2>4. Parts(v) = {v[2][i][2] : i \in DOMAIN v[2]}
    BY <1>5 DEF Parts
  <2>5. \A w \in Parts(j) : \E u \in Parts(v) : w = py_to_json[u] /\ ~IsRefused(py_to_json[u])
    <3> SUFFICES ASSUME NEW key \in Keys(v)
                 PROVE  \E u \in Parts(v) : /\ py_to_json[v[2][LastUnder(v, key)][2]] = py_to_json[u]
                                            /\ ~IsRefused(py_to_json[u])
      BY <2>3
    <3>1. LastUnder(v, key) \in DOMAIN v[2]
      BY <2>2
    <3> QED
      BY <2>1, <2>4, <3>1
  <2> QED
    BY <1>2, <1>3, <2>5
<1>6. CASE v[1] \notin SequenceTypes \union {"dict"}
  <2>1. /\ j = IF v[1] = "int" THEN <<"number", v[2]>> ELSE v
        /\ v[1] \in {"none", "bool", "str", "int", "float"}
    BY <1>1, <1>6, ToJsonScalar
  <2>2. j[1] \in {"number", "none", "bool", "str", "float"}
    BY <2>1
  <2>3. Parts(j) = {}
    BY <2>2 DEF Parts, SequenceTypes
  <2> QED
    BY <1>2, <2>3
<1> QED
  BY <1>4, <1>5, <1>6

\* json_to_py over them.
ToPyRec == INSTANCE Recursion WITH S <- JsonValues, Depth <- JsonDepth, Def <- JsonToPy

LEMMA JsonGrounded == ToPyRec!Grounded
BY JsonParts DEF ToPyRec!Grounded

LEMMA JsonToPyLocal == ToPyRec!Local
<1> SUFFICES ASSUME NEW v \in JsonValues, NEW f, NEW g, ToPyRec!Agree(f, g, v)
             PROVE  JsonToPy(f, v) = JsonToPy(g, v)
  BY DEF ToPyRec!Local
<1>1. \A w \in Parts(v) : f[w] = g[w]
  BY JsonParts DEF ToPyRec!Agree
<1>2. CASE v[1] \in {"array", "object"}
  <2>1. \A i \in DOMAIN v[2] : f[v[2][i]] = g[v[2][i]]
    BY <1>1, <1>2 DEF Parts, SequenceTypes
  <2> QED
    BY <1>2, <2>1 DEF JsonToPy
<1> QED
  BY <1>2 DEF JsonToPy

LEMMA JsonToPyDef == json_to_py = [v \in JsonValues |-> JsonToPy(json_to_py, v)]
<1>1. \E f : ToPyRec!Satisfies(f)
  BY JsonGrounded, JsonToPyLocal, ToPyRec!Defined
<1>2. \E f : f = [v \in JsonValues |-> JsonToPy(f, v)]
  BY <1>1 DEF ToPyRec!Satisfies
<1> QED
  BY <1>2 DEF json_to_py

\* There and back again: whatever is not refused is returned.
LEMMA ThereAndBack ==
  ASSUME NEW v \in PyValues, ~IsRefused(py_to_json[v])
  PROVE  json_to_py[py_to_json[v]] = returned[v]
<1> DEFINE Holds(w) == IsRefused(py_to_json[w]) \/ json_to_py[py_to_json[w]] = returned[w]
           T == {w \in PyValues : ~Holds(w)}
<1> SUFFICES ASSUME T # {} PROVE FALSE
  OBVIOUS
<1>1. PICK u \in T : \A w \in T : Depth(u) <= Depth(w)
  BY PyGrounded, ToJsonRec!Shallowest DEF ToJsonRec!Grounded
<1>2. ASSUME NEW w \in Parts(u), ~IsRefused(py_to_json[w])
      PROVE  json_to_py[py_to_json[w]] = returned[w]
  <2> SUFFICES ASSUME w \in T PROVE FALSE
    BY <1>2, PyParts
  <2> QED
    BY <1>1, PyParts
<1>3. u \in PyValues /\ ~IsRefused(py_to_json[u]) /\ json_to_py[py_to_json[u]] # returned[u]
  OBVIOUS
<1> DEFINE j == py_to_json[u]
<1>4. j \in JsonValues
  BY <1>3 DEF JsonValues
<1>5. json_to_py[j] = JsonToPy(json_to_py, j) /\ returned[u] = Returned(returned, u)
  BY <1>3, <1>4, JsonToPyDef, ReturnedDef
<1>6. CASE u[1] \in SequenceTypes
  <2>1. /\ j = <<"array", [i \in DOMAIN u[2] |-> py_to_json[u[2][i]]]>>
        /\ \A i \in DOMAIN u[2] : ~IsRefused(py_to_json[u[2][i]])
    BY <1>3, <1>6, ToJsonArray
  <2>2. \A i \in DOMAIN u[2] : u[2][i] \in Parts(u)
    BY <1>6 DEF Parts, SequenceTypes
  <2>3. \A i \in DOMAIN u[2] : json_to_py[py_to_json[u[2][i]]] = returned[u[2][i]]
    BY <1>2, <2>1, <2>2
  <2> HIDE DEF j
  <2>4. json_to_py[j] = <<"list", [i \in DOMAIN u[2] |-> json_to_py[py_to_json[u[2][i]]]]>>
    BY <1>5, <2>1 DEF JsonToPy
  <2>5. returned[u] = <<"list", [i \in DOMAIN u[2] |-> returned[u[2][i]]]>>
    BY <1>5, <1>6 DEF Returned, SequenceTypes
  <2>6. json_to_py[j] = returned[u]
    BY <2>3, <2>4, <2>5
  <2> QED
    BY <1>3, <2>6 DEF j
<1>7. CASE u[1] = "dict"
  <2> DEFINE At(key) == u[2][LastUnder(u, key)][2]
  <2>1. /\ j = <<"object", [key \in Keys(u) |-> py_to_json[At(key)]]>>
        /\ \A i \in DOMAIN u[2] : ~IsRefused(py_to_json[u[2][i][2]])
    BY <1>3, <1>7, ToJsonObject
  <2>2. \A key \in Keys(u) : At(key) \in Parts(u) /\ ~IsRefused(py_to_json[At(key)])
    BY <1>3, <1>7, <2>1, LastUnderIs DEF Parts
  <2> HIDE DEF j, At
  <2>3. \A key \in Keys(u) : json_to_py[py_to_json[At(key)]] = returned[At(key)]
    BY <1>2, <2>2
  <2>4. json_to_py[j] = <<"dict", [key \in Keys(u) |-> json_to_py[py_to_json[At(key)]]]>>
    BY <1>5, <2>1 DEF JsonToPy
  <2>5. returned[u] = <<"dict", [key \in Keys(u) |-> returned[At(key)]]>>
    BY <1>5, <1>7 DEF Returned, At, SequenceTypes
  <2>6. json_to_py[j] = returned[u]
    BY <2>3, <2>4, <2>5
  <2> QED
    BY <1>3, <2>6 DEF j
<1>8. CASE u[1] \notin SequenceTypes \union {"dict"}
  <2>1. /\ j = IF u[1] = "int" THEN <<"number", u[2]>> ELSE u
        /\ u[1] \in {"none", "bool", "str", "int", "float"}
    BY <1>3, <1>8, ToJsonScalar
  <2>2. returned[u] = u
    BY <1>5, <1>8 DEF Returned
  <2>3. CASE u[1] = "int"
    <3>1. u = <<"int", u[2]>>
      BY <1>3, <2>3, PyValuesAssumption
    <3> QED
      BY <1>3, <1>5, <2>1, <2>2, <2>3, <3>1 DEF JsonToPy, ScalarToPy
  <2>4. CASE u[1] # "int"
    BY <1>3, <1>5, <2>1, <2>2, <2>4 DEF JsonToPy, ScalarToPy
  <2> QED
    BY <2>3, <2>4
<1> QED
  BY <1>6, <1>7, <1>8

-----------------------------------------------------------------------------
(* Keys                                                                    *)

KeyLength(key) == Len(key)
SnakeRec == INSTANCE Recursion WITH S <- Texts, Depth <- KeyLength, Def <- CamelToSnake

Front(key) == SubSeq(key, 1, Len(key) - 1)
Last(key) == key[Len(key)]

\* A key that is not empty is a shorter one and a last letter.
LEMMA KeyParts ==
  ASSUME NEW key \in Texts, key # <<>>
  PROVE  /\ Front(key) \in Texts /\ Last(key) \in Signs
         /\ Len(key) \in Nat \ {0} /\ Len(Front(key)) = Len(key) - 1
         /\ key = Append(Front(key), Last(key))
         /\ DOMAIN key = 1 .. Len(key) /\ DOMAIN Front(key) = 1 .. Len(key) - 1
         /\ \A i \in 1 .. Len(key) - 1 : Front(key)[i] = key[i]
<1> DEFINE n == Len(key)
<1>1. n \in Nat \ {0} /\ DOMAIN key = 1 .. n /\ \A i \in 1 .. n : key[i] \in Signs
  BY EmptySeq, LenProperties, ElementOfSeq DEF Texts
<1> HIDE DEF n
<1>2. /\ SubSeq(key, 1, n - 1) \in Seq(Signs)
      /\ Len(SubSeq(key, 1, n - 1)) = n - 1
      /\ \A i \in 1 .. n - 1 : SubSeq(key, 1, n - 1)[i] = key[i]
  <2>1. 1 \in Int /\ n - 1 \in Int /\ \A i \in 1 .. n - 1 : key[i] \in Signs
    BY <1>1
  <2>2. /\ SubSeq(key, 1, n - 1) \in Seq(Signs)
        /\ Len(SubSeq(key, 1, n - 1)) = IF 1 <= n - 1 THEN n - 1 - 1 + 1 ELSE 0
        /\ \A i \in 1 .. n - 1 - 1 + 1 : SubSeq(key, 1, n - 1)[i] = key[1 + i - 1]
    BY <2>1, SubSeqProperties
  <2> QED
    BY <1>1, <2>2
<1>3. Front(key) = SubSeq(key, 1, n - 1) /\ Last(key) = key[n]
  BY DEF Front, Last, n
<1>4. Last(key) \in Signs /\ Front(key) \in Seq(Signs) /\ Len(Front(key)) = n - 1
  BY <1>1, <1>2, <1>3
<1>5. DOMAIN Front(key) = 1 .. n - 1
  BY <1>4, LenProperties
<1>6. key = Append(Front(key), Last(key))
  <2> DEFINE t == Append(Front(key), Last(key))
  <2>1. /\ t \in Seq(Signs) /\ Len(t) = n - 1 + 1
        /\ \A i \in 1 .. n - 1 : t[i] = Front(key)[i]
        /\ t[n - 1 + 1] = Last(key)
    BY <1>4, AppendProperties
  <2> HIDE DEF t
  <2>2. Len(t) = n /\ t[n] = Last(key)
    BY <1>1, <2>1
  <2>3. ASSUME NEW i \in 1 .. n PROVE key[i] = t[i]
    <3>1. CASE i = n
      BY <1>3, <2>2, <3>1
    <3>2. CASE i # n
      <4>1. i \in 1 .. n - 1
        BY <1>1, <3>2
      <4> QED
        BY <1>2, <1>3, <2>1, <4>1
    <3> QED
      BY <3>1, <3>2
  <2>4. key \in Seq(Signs) /\ Len(key) = Len(t) /\ \A i \in 1 .. Len(key) : key[i] = t[i]
    BY <2>2, <2>3 DEF Texts, n
  <2>5. key = t
    BY <2>1, <2>4, SeqEqual
  <2> QED
    BY <2>5 DEF t
<1> QED
  BY <1>1, <1>2, <1>3, <1>4, <1>5, <1>6 DEF Texts, n

LEMMA SnakeGrounded == SnakeRec!Grounded
BY LenProperties DEF SnakeRec!Grounded, KeyLength, Texts

LEMMA CamelToSnakeLocal == SnakeRec!Local
<1> SUFFICES ASSUME NEW key \in Texts, NEW f, NEW g, SnakeRec!Agree(f, g, key)
             PROVE  CamelToSnake(f, key) = CamelToSnake(g, key)
  BY DEF SnakeRec!Local
<1>1. CASE key = <<>>
  BY <1>1 DEF CamelToSnake
<1>2. CASE key # <<>>
  <2>1. Front(key) \in Texts /\ KeyLength(Front(key)) < KeyLength(key)
    BY <1>2, KeyParts DEF KeyLength
  <2>2. f[Front(key)] = g[Front(key)]
    BY <2>1 DEF SnakeRec!Agree
  <2> QED
    BY <1>2, <2>2 DEF CamelToSnake, Front
<1> QED
  BY <1>1, <1>2

LEMMA CamelToSnakeDef == camel_to_snake = [key \in Texts |-> CamelToSnake(camel_to_snake, key)]
<1>1. \E f : SnakeRec!Satisfies(f)
  BY SnakeGrounded, CamelToSnakeLocal, SnakeRec!Defined
<1>2. \E f : f = [key \in Texts |-> CamelToSnake(f, key)]
  BY <1>1 DEF SnakeRec!Satisfies
<1> QED
  BY <1>2 DEF camel_to_snake

\* What camel_to_snake makes of a key is in small letters.
SmallSigns == {Small(sign) : sign \in Signs}

LEMMA SignsAre ==
  /\ Separator \in SmallSigns
  /\ \A sign \in Signs : Small(sign) \in SmallSigns /\ sign = <<sign[1], sign[2]>>
                         /\ sign[2] \in BOOLEAN
  /\ \A sign \in SmallSigns : sign \in Signs /\ ~sign[2]
<1>1. Separator \in Signs /\ Separator = Small(Separator)
  BY DEF Signs, Separator, Small
<1>2. ASSUME NEW sign \in Signs
      PROVE  /\ sign = <<sign[1], sign[2]>> /\ sign[2] \in BOOLEAN
             /\ Small(sign) \in Signs /\ ~Small(sign)[2]
  <2>1. PICK l \in Letters \union {Separator[1]}, c \in BOOLEAN :
          sign = <<l, c>> /\ <<l, FALSE>> \in Signs
    <3>1. CASE sign = Separator
      <4>1. sign = <<Separator[1], FALSE>> /\ <<Separator[1], FALSE>> \in Signs
        BY <3>1 DEF Signs, Separator
      <4> QED
        BY <4>1
    <3>2. CASE sign # Separator
      <4>1. sign \in Letters \X BOOLEAN
        BY <3>2 DEF Signs
      <4>2. PICK l \in Letters, c \in BOOLEAN : sign = <<l, c>>
        BY <4>1
      <4>3. <<l, FALSE>> \in Letters \X BOOLEAN
        OBVIOUS
      <4> QED
        BY <4>2, <4>3, Zenon DEF Signs
    <3> QED
      BY <3>1, <3>2
  <2>2. <<l, FALSE>> \in Signs
    BY <2>1
  <2>3. sign[1] = l /\ sign[2] = c
    BY <2>1
  <2>4. Small(sign) = <<l, FALSE>>
    BY <2>3 DEF Small
  <2>5. ~Small(sign)[2]
    BY <2>4
  <2>6. sign[2] \in BOOLEAN
    BY <2>3, Zenon
  <2>7. sign = <<sign[1], sign[2]>>
    BY <2>1, <2>3, Zenon
  <2> QED
    BY <2>2, <2>4, <2>5, <2>6, <2>7, Zenon
<1> QED
  BY <1>1, <1>2, Zenon DEF SmallSigns

LEMMA SnakeOfNone == camel_to_snake[<<>>] = <<>>
BY CamelToSnakeDef, EmptySeq DEF Texts, CamelToSnake

\* It is made from the front of the key and its last letter.
Before(key) ==
  IF Last(key)[2] /\ Front(key) # <<>> THEN Append(camel_to_snake[Front(key)], Separator)
  ELSE camel_to_snake[Front(key)]

LEMMA SnakeOf ==
  ASSUME NEW key \in Texts, key # <<>>
  PROVE  camel_to_snake[key] = Append(Before(key), Small(Last(key)))
BY CamelToSnakeDef DEF CamelToSnake, Before, Front, Last

LEMMA SnakeText ==
  ASSUME NEW key \in Texts
  PROVE  camel_to_snake[key] \in Seq(SmallSigns)
<1> DEFINE T == {k \in Texts : camel_to_snake[k] \notin Seq(SmallSigns)}
<1> SUFFICES ASSUME T # {} PROVE FALSE
  OBVIOUS
<1>1. PICK k \in T : \A l \in T : Len(k) <= Len(l)
  BY SnakeGrounded, SnakeRec!Shallowest DEF KeyLength
<1>2. k \in Texts /\ camel_to_snake[k] \notin Seq(SmallSigns)
  OBVIOUS
<1>3. k # <<>>
  BY <1>2, SnakeOfNone, EmptySeq
<1>4. camel_to_snake[Front(k)] \in Seq(SmallSigns)
  <2>1. Front(k) \in Texts /\ ~(Len(k) <= Len(Front(k)))
    BY <1>2, <1>3, KeyParts
  <2> QED
    BY <1>1, <2>1
<1>5. Before(k) \in Seq(SmallSigns)
  BY <1>4, SignsAre, AppendProperties DEF Before
<1>6. Small(Last(k)) \in SmallSigns
  BY <1>2, <1>3, KeyParts, SignsAre
<1>7. Append(Before(k), Small(Last(k))) \in Seq(SmallSigns)
  BY <1>5, <1>6, AppendProperties
<1> QED
  BY <1>2, <1>3, <1>7, SnakeOf

LEMMA BeforeText ==
  ASSUME NEW key \in Texts, key # <<>>
  PROVE  Before(key) \in Seq(SmallSigns) /\ camel_to_snake[Front(key)] \in Seq(SmallSigns)
BY KeyParts, SnakeText, SignsAre, AppendProperties DEF Before

\* The keys of the engine's own types: a small letter first, and no separator.
CamelCase(key) ==
  /\ key \in Texts
  /\ key # <<>> => ~key[1][2]
  /\ \A i \in DOMAIN key : key[i][1] # Separator[1]

\* What camelCase says of the end of a key.
LEMMA CamelCaseEnd ==
  ASSUME NEW key, CamelCase(key), key # <<>>
  PROVE  /\ CamelCase(Front(key))
         /\ Last(key)[1] # Separator[1]
         /\ Last(key)[2] => Front(key) # <<>>
<1> DEFINE n == Len(key)
<1>1. /\ key \in Texts /\ n \in Nat \ {0} /\ DOMAIN key = 1 .. n /\ ~key[1][2]
      /\ \A i \in DOMAIN key : key[i][1] # Separator[1]
  BY KeyParts DEF CamelCase
<1>2. /\ Front(key) \in Texts /\ Len(Front(key)) = n - 1 /\ DOMAIN Front(key) = 1 .. n - 1
      /\ \A i \in 1 .. n - 1 : Front(key)[i] = key[i]
  BY <1>1, KeyParts
<1> HIDE DEF n
<1>3. Front(key) # <<>> => n # 1
  BY <1>2, EmptySeq, LenProperties DEF Texts
<1>4. CamelCase(Front(key))
  <2>1. Front(key) # <<>> => 1 \in 1 .. n - 1
    BY <1>1, <1>3
  <2> QED
    BY <1>1, <1>2, <2>1 DEF CamelCase
<1>5. Last(key) = key[n] /\ n \in DOMAIN key
  BY <1>1 DEF Last, n
<1>6. n = 1 \/ Front(key) # <<>>
  <2>1. Len(<<>>) = 0
    OBVIOUS
  <2> QED
    BY <1>1, <1>2, <2>1
<1> QED
  BY <1>1, <1>4, <1>5, <1>6

\* Two keys with the same front in snake case, and the same last letter.
LEMMA SnakeEnds ==
  ASSUME NEW k1, NEW k2, CamelCase(k1), CamelCase(k2), k1 # <<>>, k2 # <<>>,
         camel_to_snake[k1] = camel_to_snake[k2]
  PROVE  /\ Last(k1) = Last(k2)
         /\ camel_to_snake[Front(k1)] = camel_to_snake[Front(k2)]
<1>1. k1 \in Texts /\ k2 \in Texts
  BY DEF CamelCase
<1>2. /\ Last(k1) \in Signs /\ Last(k2) \in Signs
      /\ Small(Last(k1)) \in SmallSigns /\ Small(Last(k2)) \in SmallSigns
  BY <1>1, KeyParts, SignsAre
<1>3. Before(k1) = Before(k2) /\ Small(Last(k1)) = Small(Last(k2))
  <2>1. Before(k1) \in Seq(SmallSigns) /\ Before(k2) \in Seq(SmallSigns)
    BY <1>1, BeforeText
  <2>2. Append(Before(k1), Small(Last(k1))) = Append(Before(k2), Small(Last(k2)))
    BY <1>1, SnakeOf
  <2> QED
    BY <1>2, <2>1, <2>2, AppendInjective
<1>4. Last(k1)[1] = Last(k2)[1]
  BY <1>3 DEF Small
<1>5. ASSUME NEW a, NEW b, CamelCase(a), CamelCase(b), a # <<>>, b # <<>>,
             Before(a) = Before(b), Last(a)[2]
      PROVE  Last(b)[2]
  <2> SUFFICES ASSUME ~Last(b)[2] PROVE FALSE
    OBVIOUS
  <2>1. a \in Texts /\ b \in Texts
    BY <1>5 DEF CamelCase
  <2>2. Append(camel_to_snake[Front(a)], Separator) = camel_to_snake[Front(b)]
    BY <1>5, CamelCaseEnd DEF Before
  <2>3. camel_to_snake[Front(a)] \in Seq(SmallSigns)
    BY <1>5, <2>1, BeforeText
  <2>4. Front(b) # <<>>
    BY <2>2, <2>3, SnakeOfNone, SignsAre, AppendProperties
  <2>5. CamelCase(Front(b)) /\ Front(b) \in Texts
    BY <1>5, <2>1, CamelCaseEnd, KeyParts
  <2>6. camel_to_snake[Front(b)] = Append(Before(Front(b)), Small(Last(Front(b))))
    BY <2>4, <2>5, SnakeOf
  <2>7. Separator = Small(Last(Front(b)))
    <3>1. Small(Last(Front(b))) \in SmallSigns /\ Before(Front(b)) \in Seq(SmallSigns)
      BY <2>4, <2>5, BeforeText, KeyParts, SignsAre
    <3> QED
      BY <2>2, <2>3, <2>6, <3>1, SignsAre, AppendInjective
  <2> QED
    BY <2>4, <2>5, <2>7, CamelCaseEnd DEF Small
<1>6. Last(k1)[2] <=> Last(k2)[2]
  BY <1>3, <1>5
<1>7. Last(k1) = Last(k2)
  BY <1>2, <1>4, <1>6, SignsAre
<1>8. CASE Last(k1)[2]
  <2>1. Append(camel_to_snake[Front(k1)], Separator) = Append(camel_to_snake[Front(k2)], Separator)
    BY <1>3, <1>6, <1>8, CamelCaseEnd DEF Before
  <2>2. /\ camel_to_snake[Front(k1)] \in Seq(SmallSigns)
        /\ camel_to_snake[Front(k2)] \in Seq(SmallSigns)
    BY <1>1, BeforeText
  <2>3. Separator \in SmallSigns
    BY SignsAre
  <2>4. camel_to_snake[Front(k1)] = camel_to_snake[Front(k2)]
    BY <2>1, <2>2, <2>3, AppendInjective
  <2> QED
    BY <1>7, <2>4
<1>9. CASE ~Last(k1)[2]
  BY <1>3, <1>6, <1>7, <1>9 DEF Before
<1> QED
  BY <1>8, <1>9

\* No two keys in camelCase become the same in snake case.
LEMMA SnakeInjective ==
  ASSUME NEW k1, NEW k2, CamelCase(k1), CamelCase(k2),
         camel_to_snake[k1] = camel_to_snake[k2]
  PROVE  k1 = k2
<1> DEFINE Twin(k, l) == CamelCase(l) /\ camel_to_snake[l] = camel_to_snake[k] /\ l # k
           T == {k \in Texts : CamelCase(k) /\ \E l \in Texts : Twin(k, l)}
<1>1. SUFFICES T = {}
  <2>1. k1 \in Texts /\ k2 \in Texts
    BY DEF CamelCase
  <2> QED
    BY <1>1, <2>1
<1> SUFFICES ASSUME T # {} PROVE FALSE
  OBVIOUS
<1>2. PICK k \in T : \A l \in T : Len(k) <= Len(l)
  BY SnakeGrounded, SnakeRec!Shallowest DEF KeyLength
<1>3. PICK l \in Texts : Twin(k, l)
  OBVIOUS
<1>4. /\ k \in Texts /\ l \in Texts /\ CamelCase(k) /\ CamelCase(l) /\ l # k
      /\ camel_to_snake[k] = camel_to_snake[l]
  BY <1>3
<1>5. ASSUME NEW a \in Texts, a # <<>> PROVE camel_to_snake[a] # <<>>
  BY <1>5, SnakeOf, BeforeText, KeyParts, SignsAre, AppendProperties
<1>6. k # <<>> /\ l # <<>>
  BY <1>4, <1>5, SnakeOfNone
<1>7. Last(k) = Last(l) /\ camel_to_snake[Front(k)] = camel_to_snake[Front(l)]
  BY <1>4, <1>6, SnakeEnds
<1>8. /\ Front(k) \in Texts /\ CamelCase(Front(k)) /\ ~(Len(k) <= Len(Front(k)))
      /\ Front(l) \in Texts /\ CamelCase(Front(l))
  BY <1>4, <1>6, KeyParts, CamelCaseEnd
<1>9. Front(k) = Front(l)
  BY <1>2, <1>7, <1>8
<1> QED
  BY <1>4, <1>6, <1>7, <1>9, KeyParts

\* The capital a key begins with does not show.
LEMMA UncappedIs ==
  ASSUME NEW key \in Texts
  PROVE  /\ Uncapped(key) \in Texts
         /\ Len(Uncapped(key)) = Len(key) /\ DOMAIN Uncapped(key) = DOMAIN key
         /\ \A i \in DOMAIN key :
              Uncapped(key)[i] = IF i = 1 THEN Small(key[i]) ELSE key[i]
         /\ key = <<>> <=> Uncapped(key) = <<>>
<1> DEFINE n == Len(key)
           low == Uncapped(key)
<1>1. n \in Nat /\ DOMAIN key = 1 .. n /\ \A i \in 1 .. n : key[i] \in Signs
  BY LenProperties, ElementOfSeq DEF Texts
<1>2. low = [i \in 1 .. n |-> IF i = 1 THEN Small(key[i]) ELSE key[i]]
  BY <1>1 DEF Uncapped
<1> HIDE DEF n, low
<1>3. \A i \in 1 .. n : (IF i = 1 THEN Small(key[i]) ELSE key[i]) \in Signs
  BY <1>1, SignsAre
<1>4. low \in Seq(Signs) /\ Len(low) = n
  BY <1>1, <1>2, <1>3, IsASeq, LenProperties
<1>5. key = <<>> <=> low = <<>>
  BY <1>1, <1>4, EmptySeq, LenProperties DEF n, Texts
<1> QED
  BY <1>1, <1>2, <1>4, <1>5 DEF Texts, n, low

LEMMA FrontUncapped ==
  ASSUME NEW key \in Texts, key # <<>>
  PROVE  Front(Uncapped(key)) = Uncapped(Front(key))
<1> DEFINE low == Uncapped(key)
           a == Front(low)
           b == Uncapped(Front(key))
           n == Len(key)
<1>1. /\ low \in Texts /\ low # <<>> /\ Len(low) = n /\ DOMAIN key = 1 .. n
      /\ \A i \in 1 .. n : low[i] = IF i = 1 THEN Small(key[i]) ELSE key[i]
  BY UncappedIs, KeyParts
<1>2. /\ a \in Texts /\ Len(a) = n - 1 /\ n \in Nat \ {0}
      /\ \A i \in 1 .. n - 1 : a[i] = low[i]
  BY <1>1, KeyParts
<1>3. /\ b \in Texts /\ Len(b) = n - 1
      /\ \A i \in 1 .. n - 1 : b[i] = IF i = 1 THEN Small(key[i]) ELSE key[i]
  <2>1. /\ Front(key) \in Texts /\ Len(Front(key)) = n - 1 /\ n \in Nat \ {0}
        /\ \A i \in 1 .. n - 1 : Front(key)[i] = key[i]
    BY KeyParts
  <2>2. DOMAIN Front(key) = 1 .. n - 1
    BY <2>1, LenProperties DEF Texts
  <2> HIDE DEF n
  <2> QED
    BY <2>1, <2>2, UncappedIs
<1> HIDE DEF a, b, low, n
<1>4. \A i \in 1 .. n - 1 : a[i] = b[i]
  BY <1>1, <1>2, <1>3
<1>5. a = b
  BY <1>2, <1>3, <1>4, SeqEqual DEF Texts
<1> QED
  BY <1>5 DEF a, b, low

LEMMA LastUncapped ==
  ASSUME NEW key \in Texts, key # <<>>
  PROVE  /\ Small(Last(Uncapped(key))) = Small(Last(key))
         /\ Front(key) # <<>> => Last(Uncapped(key)) = Last(key)
<1> DEFINE n == Len(key)
<1>1. n \in Nat \ {0} /\ DOMAIN key = 1 .. n /\ n \in 1 .. n
  BY KeyParts
<1>2. /\ Last(Uncapped(key)) = IF n = 1 THEN Small(key[n]) ELSE key[n]
      /\ Last(key) = key[n]
  BY <1>1, UncappedIs DEF Last
<1>3. Front(key) # <<>> => n # 1
  BY KeyParts, EmptySeq DEF Texts
<1>4. Small(Small(key[n])) = Small(key[n])
  BY DEF Small
<1> QED
  BY <1>2, <1>3, <1>4

LEMMA SnakeUncapped ==
  ASSUME NEW key \in Texts
  PROVE  camel_to_snake[Uncapped(key)] = camel_to_snake[key]
<1> DEFINE T == {k \in Texts : camel_to_snake[Uncapped(k)] # camel_to_snake[k]}
<1> SUFFICES ASSUME T # {} PROVE FALSE
  OBVIOUS
<1>1. PICK k \in T : \A l \in T : Len(k) <= Len(l)
  BY SnakeGrounded, SnakeRec!Shallowest DEF KeyLength
<1> DEFINE low == Uncapped(k)
<1>2. k \in Texts /\ camel_to_snake[low] # camel_to_snake[k]
  OBVIOUS
<1>3. k # <<>>
  BY <1>2, UncappedIs
<1>4. low \in Texts /\ low # <<>>
  BY <1>2, <1>3, UncappedIs
<1>5. /\ camel_to_snake[k] = Append(Before(k), Small(Last(k)))
      /\ camel_to_snake[low] = Append(Before(low), Small(Last(low)))
  BY <1>2, <1>3, <1>4, SnakeOf
<1>6. Front(low) = Uncapped(Front(k))
  BY <1>2, <1>3, FrontUncapped
<1>7. camel_to_snake[Front(low)] = camel_to_snake[Front(k)]
  <2>1. Front(k) \in Texts /\ ~(Len(k) <= Len(Front(k)))
    BY <1>2, <1>3, KeyParts
  <2> QED
    BY <1>1, <1>6, <2>1
<1>8. Front(k) = <<>> <=> Front(low) = <<>>
  BY <1>2, <1>3, <1>6, KeyParts, UncappedIs
<1>9. Small(Last(low)) = Small(Last(k)) /\ (Front(k) # <<>> => Last(low) = Last(k))
  BY <1>2, <1>3, LastUncapped
<1>10. Before(low) = Before(k)
  BY <1>7, <1>8, <1>9 DEF Before
<1> QED
  BY <1>2, <1>5, <1>9, <1>10

\* Keys without separators become the same in snake case only if they are equal, but for
\* a capital they begin with: those of the engine's own types never do, and of labels
\* 'Order' and 'order' do (camel_to_snake, get_graph_schema).
THEOREM SnakesDiffer ==
  ASSUME NEW k1 \in Texts, NEW k2 \in Texts,
         camel_to_snake[k1] = camel_to_snake[k2]
  PROVE  Alike(k1, k2)
<1> SUFFICES ASSUME ~HasSeparator(k1), ~HasSeparator(k2)
             PROVE  Uncapped(k1) = Uncapped(k2)
  BY DEF Alike
<1>1. ASSUME NEW k \in Texts, ~HasSeparator(k) PROVE CamelCase(Uncapped(k))
  <2>1. CASE k = <<>>
    BY <1>1, <2>1, UncappedIs DEF CamelCase
  <2>2. CASE k # <<>>
    <3>1. 1 \in DOMAIN k
      BY <2>2, KeyParts
    <3>2. \A i \in DOMAIN k : ~Small(k[i])[2] /\ Small(k[i])[1] = k[i][1]
      BY DEF Small
    <3>3. ~Uncapped(k)[1][2]
      BY <1>1, <3>1, <3>2, UncappedIs
    <3>4. \A i \in DOMAIN k : Uncapped(k)[i][1] = k[i][1]
      BY <1>1, <3>2, UncappedIs
    <3> QED
      BY <1>1, <3>3, <3>4, UncappedIs DEF CamelCase, HasSeparator
  <2> QED
    BY <2>1, <2>2
<1>2. camel_to_snake[Uncapped(k1)] = camel_to_snake[Uncapped(k2)]
  BY SnakeUncapped
<1> QED
  BY <1>1, <1>2, SnakeInjective

-----------------------------------------------------------------------------
(* Trees                                                                   *)

TreeRec == INSTANCE Recursion WITH S <- Trees, Def <- JsonToPySnake

LEMMA TreeParts ==
  ASSUME NEW t \in Trees
  PROVE  /\ Depth(t) \in Nat
         /\ \A u \in Parts(t) : u \in Trees /\ Depth(u) < Depth(t)
         /\ t[1] \in JsonTypes
         /\ t[1] = "object" => DOMAIN t[2] \subseteq Texts
BY TreesAssumption DEF Nest

LEMMA TreeGrounded == TreeRec!Grounded
BY TreeParts DEF TreeRec!Grounded

\* Every key of the dict stands for a key of the object, the one its item is of.
Original(t, snake) == CHOOSE key \in DOMAIN t[2] : camel_to_snake[key] = snake

LEMMA SnakeKeys ==
  ASSUME NEW t, NEW snake \in {camel_to_snake[key] : key \in DOMAIN t[2]}
  PROVE  Original(t, snake) \in DOMAIN t[2] /\ camel_to_snake[Original(t, snake)] = snake
<1>1. \E key \in DOMAIN t[2] : camel_to_snake[key] = snake
  OBVIOUS
<1> QED
  BY <1>1 DEF Original

\* What is made of an object.
LEMMA SnakeObject ==
  ASSUME NEW t, t[1] = "object", NEW f
  PROVE  /\ JsonToPySnake(f, t)[1] = "dict"
         /\ DOMAIN JsonToPySnake(f, t)[2] = {camel_to_snake[key] : key \in DOMAIN t[2]}
         /\ \A snake \in DOMAIN JsonToPySnake(f, t)[2] :
              JsonToPySnake(f, t)[2][snake] = f[t[2][Original(t, snake)]]
BY DEF JsonToPySnake, Original

LEMMA JsonToPySnakeLocal == TreeRec!Local
<1> SUFFICES ASSUME NEW t \in Trees, NEW f, NEW g, TreeRec!Agree(f, g, t)
             PROVE  JsonToPySnake(f, t) = JsonToPySnake(g, t)
  BY DEF TreeRec!Local
<1>1. \A u \in Parts(t) : f[u] = g[u]
  BY TreeParts DEF TreeRec!Agree
<1>2. CASE t[1] = "array"
  <2>1. \A i \in DOMAIN t[2] : f[t[2][i]] = g[t[2][i]]
    BY <1>1, <1>2 DEF Parts
  <2> QED
    BY <1>2, <2>1 DEF JsonToPySnake
<1>3. CASE t[1] = "object"
  <2> DEFINE keys == {camel_to_snake[key] : key \in DOMAIN t[2]}
             items(h) == [snake \in keys |-> h[t[2][Original(t, snake)]]]
  <2>1. \A h : JsonToPySnake(h, t) = <<"dict", items(h)>>
    BY <1>3 DEF JsonToPySnake, Original
  <2>2. ASSUME NEW snake \in keys
        PROVE  f[t[2][Original(t, snake)]] = g[t[2][Original(t, snake)]]
    <3>1. t[2][Original(t, snake)] \in Parts(t)
      BY <1>3, SnakeKeys DEF Parts
    <3> QED
      BY <1>1, <3>1
  <2> HIDE DEF keys
  <2>3. items(f) = items(g)
    BY <2>2
  <2> HIDE DEF items
  <2> QED
    BY <2>1, <2>3
<1> QED
  BY <1>2, <1>3 DEF JsonToPySnake

LEMMA JsonToPySnakeDef ==
  json_to_py_snake = [t \in Trees |-> JsonToPySnake(json_to_py_snake, t)]
<1>1. \E f : TreeRec!Satisfies(f)
  BY TreeGrounded, JsonToPySnakeLocal, TreeRec!Defined
<1>2. \E f : f = [t \in Trees |-> JsonToPySnake(f, t)]
  BY <1>1 DEF TreeRec!Satisfies
<1> QED
  BY <1>2 DEF json_to_py_snake

\* What a dict or a list made of a tree holds is made of trees.
LEMMA SnakeParts ==
  ASSUME NEW w \in Snakes, w[1] \in {"dict", "list"}, NEW i \in DOMAIN w[2]
  PROVE  w[2][i] \in Snakes
<1>1. PICK t \in Trees : w = json_to_py_snake[t]
  BY DEF Snakes
<1>2. w = JsonToPySnake(json_to_py_snake, t)
  BY <1>1, JsonToPySnakeDef
<1>3. \A u \in Parts(t) : json_to_py_snake[u] \in Snakes
  BY TreeParts DEF Snakes
<1>4. CASE t[1] = "array"
  BY <1>2, <1>3, <1>4 DEF JsonToPySnake, Parts
<1>5. CASE t[1] = "object"
  <2>1. /\ i \in {camel_to_snake[key] : key \in DOMAIN t[2]}
        /\ w[2][i] = json_to_py_snake[t[2][Original(t, i)]]
    BY <1>2, <1>5, SnakeObject
  <2>2. Original(t, i) \in DOMAIN t[2]
    BY <2>1, SnakeKeys
  <2> QED
    BY <1>3, <1>5, <2>1, <2>2 DEF Parts
<1>6. CASE t[1] \notin {"array", "object"}
  <2>1. w = ScalarToPy(t)
    BY <1>2, <1>6 DEF JsonToPySnake
  <2> QED
    BY <1>6, <2>1, TreeParts DEF ScalarToPy, JsonTypes
<1> QED
  BY <1>4, <1>5, <1>6

PairDepth(p) == Depth(p[1])
PairRec == INSTANCE Recursion WITH S <- Trees \X Snakes, Depth <- PairDepth, Def <- Rewritten

LEMMA RewrittenLocal == PairRec!Local
<1> SUFFICES ASSUME NEW v \in Trees, NEW w \in Snakes, NEW f, NEW g,
                    PairRec!Agree(f, g, <<v, w>>)
             PROVE  Rewritten(f, <<v, w>>) = Rewritten(g, <<v, w>>)
  BY DEF PairRec!Local
<1>1. ASSUME NEW u \in Parts(v), NEW x \in Snakes PROVE f[<<u, x>>] = g[<<u, x>>]
  BY TreeParts DEF PairRec!Agree, PairDepth
<1>2. CASE v[1] = "object"
  <2>1. CASE w[1] = "dict"
    <3>1. \A k \in DOMAIN v[2], i \in DOMAIN w[2] :
            f[<<v[2][k], w[2][i]>>] = g[<<v[2][k], w[2][i]>>]
      BY <1>1, <1>2, <2>1, SnakeParts DEF Parts
    <3> DEFINE Lower == \A s \in DOMAIN w[2] : \A i \in DOMAIN s : ~s[i][2]
               Pairing(h, key) ==
                 /\ \A k1, k2 \in DOMAIN v[2] : key[k1] = key[k2] => Alike(k1, k2)
                 /\ \A s \in DOMAIN w[2] :
                      \E k \in DOMAIN v[2] : key[k] = s /\ h[<<v[2][k], w[2][s]>>]
    <3>2. \A h : Rewritten(h, <<v, w>>) =
                   (Lower /\ \E key \in [DOMAIN v[2] -> DOMAIN w[2]] : Pairing(h, key))
      BY <1>2, <2>1 DEF Rewritten
    <3>3. ASSUME NEW key \in [DOMAIN v[2] -> DOMAIN w[2]]
          PROVE  Pairing(f, key) <=> Pairing(g, key)
      <4>1. ASSUME NEW s \in DOMAIN w[2]
            PROVE  (\E k \in DOMAIN v[2] : key[k] = s /\ f[<<v[2][k], w[2][s]>>])
                   <=> (\E k \in DOMAIN v[2] : key[k] = s /\ g[<<v[2][k], w[2][s]>>])
        <5>1. \A k \in DOMAIN v[2] : f[<<v[2][k], w[2][s]>>] = g[<<v[2][k], w[2][s]>>]
          BY <3>1
        <5> QED
          BY <5>1, Zenon
      <4> QED
        BY <4>1, Zenon
    <3> HIDE DEF Pairing, Lower
    <3>4. (\E key \in [DOMAIN v[2] -> DOMAIN w[2]] : Pairing(f, key))
          = (\E key \in [DOMAIN v[2] -> DOMAIN w[2]] : Pairing(g, key))
      BY <3>3
    <3> QED
      BY <3>2, <3>4, Zenon
  <2>2. CASE w[1] # "dict"
    BY <1>2, <2>2 DEF Rewritten
  <2> QED
    BY <2>1, <2>2
<1>3. CASE v[1] = "array"
  <2>1. CASE w[1] = "list" /\ DOMAIN w[2] = DOMAIN v[2]
    <3>1. \A i \in DOMAIN v[2] : f[<<v[2][i], w[2][i]>>] = g[<<v[2][i], w[2][i]>>]
      BY <1>1, <1>3, <2>1, SnakeParts DEF Parts
    <3> QED
      BY <1>3, <3>1 DEF Rewritten
  <2>2. CASE ~(w[1] = "list" /\ DOMAIN w[2] = DOMAIN v[2])
    BY <1>3, <2>2 DEF Rewritten
  <2> QED
    BY <2>1, <2>2
<1>4. CASE v[1] \notin {"object", "array"}
  BY <1>4 DEF Rewritten
<1> QED
  BY <1>2, <1>3, <1>4

LEMMA RewrittenDef ==
  rewritten = [p \in Trees \X Snakes |-> Rewritten(rewritten, p)]
<1>1. PairRec!Grounded
  BY TreeParts DEF PairRec!Grounded, PairDepth
<1>2. \E f : PairRec!Satisfies(f)
  BY <1>1, RewrittenLocal, PairRec!Defined
<1>3. \E f : f = [p \in Trees \X Snakes |-> Rewritten(f, p)]
  BY <1>2 DEF PairRec!Satisfies
<1> QED
  BY <1>3 DEF rewritten

\* Every tree comes out under keys without capitals, with all its items but for those
\* under keys that are alike.
LEMMA SnakeRewrites ==
  ASSUME NEW t \in Trees
  PROVE  rewritten[<<t, json_to_py_snake[t]>>]
<1> DEFINE T == {u \in Trees : ~rewritten[<<u, json_to_py_snake[u]>>]}
<1> SUFFICES ASSUME T # {} PROVE FALSE
  OBVIOUS
<1>1. PICK v \in T : \A u \in T : Depth(v) <= Depth(u)
  BY TreeGrounded, TreeRec!Shallowest
<1> DEFINE w == json_to_py_snake[v]
<1>2. v \in Trees /\ ~rewritten[<<v, w>>]
  OBVIOUS
<1>3. \A u \in Parts(v) : rewritten[<<u, json_to_py_snake[u]>>]
  <2> SUFFICES ASSUME NEW u \in Parts(v), u \in T PROVE FALSE
    BY <1>2, TreeParts
  <2> QED
    BY <1>1, <1>2, TreeParts
<1>4. w = JsonToPySnake(json_to_py_snake, v)
  BY <1>2, JsonToPySnakeDef
<1>5. ~Rewritten(rewritten, <<v, w>>)
  <2>1. <<v, w>> \in Trees \X Snakes
    BY <1>2 DEF Snakes
  <2>2. rewritten[<<v, w>>] = Rewritten(rewritten, <<v, w>>)
    BY <2>1, RewrittenDef
  <2> QED
    BY <1>2, <2>2
<1> HIDE DEF w, T
<1>6. CASE v[1] = "array"
  BY <1>3, <1>4, <1>5, <1>6 DEF JsonToPySnake, Rewritten, Parts
<1>7. CASE v[1] = "object"
  <2> DEFINE key == [k \in DOMAIN v[2] |-> camel_to_snake[k]]
  <2>1. /\ w[1] = "dict" /\ DOMAIN w[2] = {camel_to_snake[k] : k \in DOMAIN v[2]}
        /\ \A s \in DOMAIN w[2] : w[2][s] = json_to_py_snake[v[2][Original(v, s)]]
    BY <1>4, <1>7, SnakeObject
  <2>2. key \in [DOMAIN v[2] -> DOMAIN w[2]]
    BY <2>1
  <2>3. DOMAIN v[2] \subseteq Texts
    BY <1>2, <1>7, TreeParts
  <2>4. ASSUME NEW k1 \in DOMAIN v[2], NEW k2 \in DOMAIN v[2], key[k1] = key[k2]
        PROVE  Alike(k1, k2)
    BY <2>3, <2>4, SnakesDiffer
  <2>5. ASSUME NEW s \in DOMAIN w[2], NEW i \in DOMAIN s PROVE ~s[i][2]
    <3>1. PICK k \in DOMAIN v[2] : s = camel_to_snake[k]
      BY <2>1
    <3>2. s \in Seq(SmallSigns)
      BY <2>3, <3>1, SnakeText
    <3>3. s[i] \in SmallSigns
      BY <3>2, LenProperties, ElementOfSeq
    <3> QED
      BY <3>3, SignsAre
  <2>6. ASSUME NEW s \in DOMAIN w[2]
        PROVE  \E k \in DOMAIN v[2] : key[k] = s /\ rewritten[<<v[2][k], w[2][s]>>]
    <3>1. Original(v, s) \in DOMAIN v[2] /\ camel_to_snake[Original(v, s)] = s
      BY <2>1, SnakeKeys
    <3>2. v[2][Original(v, s)] \in Parts(v)
      BY <1>7, <3>1 DEF Parts
    <3>3. rewritten[<<v[2][Original(v, s)], w[2][s]>>]
      BY <1>3, <2>1, <3>2
    <3> QED
      BY <3>1, <3>3
  <2> HIDE DEF key
  <2> QED
    BY <1>5, <1>7, <2>1, <2>2, <2>4, <2>5, <2>6 DEF Rewritten
<1>8. CASE v[1] \notin {"array", "object"}
  BY <1>4, <1>5, <1>8 DEF JsonToPySnake, Rewritten
<1> QED
  BY <1>6, <1>7, <1>8

-----------------------------------------------------------------------------
(* The specification                                                       *)

\* The inductive invariant: whatever is there is what its function made.
Made ==
  /\ task = "value" =>
       /\ input \in PyValues
       /\ json \in {Nothing, py_to_json[input]}
       /\ output # Nothing => /\ json # Nothing /\ ~IsRefused(json)
                              /\ output = json_to_py[json]
  /\ task = "tree" =>
       input \in Trees /\ output \in {Nothing, json_to_py_snake[input]}
  /\ task = "change" =>
       input \in Changes /\ output \in {Nothing, SourceChangeFromPy(input)}

LEMMA MadeHolds == ConversionsSpec => []Made
<1>1. ConversionsInit => Made
  BY DEF ConversionsInit, Made
<1>2. Made /\ [ConversionsNext]_conversionVars => Made'
  <2> SUFFICES ASSUME Made, [ConversionsNext]_conversionVars PROVE Made'
    OBVIOUS
  <2>1. CASE ToJson
    BY <2>1 DEF Made, ToJson
  <2>2. CASE ToPython
    BY <2>2 DEF Made, ToPython
  <2>3. CASE ToChange
    BY <2>3 DEF Made, ToChange
  <2>4. CASE UNCHANGED conversionVars
    BY <2>4 DEF Made, conversionVars
  <2> QED
    BY <2>1, <2>2, <2>3, <2>4 DEF ConversionsNext
<1> QED
  BY <1>1, <1>2, PTL DEF ConversionsSpec

\* What goes into JSON comes out as it was, save that a sequence is a list, or is
\* refused exactly when JSON has no form for it at some depth (py_to_json, json_to_py);
\* and a JSON object keeps its items under keys in snake case, one of those under keys
\* that are alike, and so every item when the keys are those of the engine's own types
\* (json_to_py_snake, camel_to_snake).
THEOREM ValuesSurviveHolds == ConversionsSpec => []ValuesSurvive
<1>1. Made => ValuesSurvive
  <2> SUFFICES ASSUME Made PROVE ValuesSurvive
    OBVIOUS
  <2>1. ASSUME task = "value", json # Nothing PROVE IsRefused(json) <=> ~has_form[input]
    BY <2>1, RefusedIffFormless DEF Made
  <2>2. ASSUME task = "value", output # Nothing PROVE output = returned[input]
    BY <2>2, ThereAndBack DEF Made
  <2>3. ASSUME task = "tree", output # Nothing PROVE rewritten[<<input, output>>]
    BY <2>3, SnakeRewrites DEF Made
  <2> QED
    BY <2>1, <2>2, <2>3 DEF ValuesSurvive
<1> QED
  BY <1>1, MadeHolds, PTL

-----------------------------------------------------------------------------
(* Changes                                                                 *)

Mapping(change) == \A key \in DOMAIN change : change[key] \in PyValues

\* lookup finds one of the values given, if there is one.
LEMMA LookupIs ==
  ASSUME NEW change, Mapping(change), NEW keys, NEW n \in Nat, DOMAIN keys = 1 .. n
  PROVE  /\ Given(change, keys) \subseteq PyValues
         /\ Given(change, keys) = {} => Lookup(change, keys) = Nothing
         /\ Given(change, keys) # {} => Lookup(change, keys) \in Given(change, keys)
<1> DEFINE good == {i \in DOMAIN keys : keys[i] \in DOMAIN change /\ change[keys[i]] # Null}
<1>1. Given(change, keys) = {change[keys[i]] : i \in good}
  BY DEF Given
<1>2. Given(change, keys) \subseteq PyValues
  BY <1>1 DEF Mapping
<1>3. Lookup(change, keys) = FirstOf(change, keys, good)
  BY DEF Lookup
<1>4. good \subseteq Nat
  OBVIOUS
<1> HIDE DEF good
<1>5. CASE good = {}
  BY <1>1, <1>2, <1>3, <1>5 DEF FirstOf
<1>6. CASE good # {}
  <2>1. \E i \in good : \A j \in good : i <= j
    BY <1>4, <1>6, ToJsonRec!SmallestNumber
  <2>2. PICK i \in good : FirstOf(change, keys, good) = change[keys[i]]
    BY <1>6, <2>1 DEF FirstOf
  <2> QED
    BY <1>1, <1>2, <1>3, <2>2
<1> QED
  BY <1>5, <1>6

\* Of a single key there is one value, or none.
LEMMA LookupOne ==
  ASSUME NEW change, Mapping(change), NEW key
  PROVE  \/ Given(change, <<key>>) = {} /\ Lookup(change, <<key>>) = Nothing
         \/ /\ Given(change, <<key>>) = {Lookup(change, <<key>>)}
            /\ Lookup(change, <<key>>) \in PyValues
<1>1. DOMAIN <<key>> = 1 .. 1 /\ 1 \in Nat
  OBVIOUS
<1>2. \A v, w \in Given(change, <<key>>) : v = w
  BY DEF Given
<1> QED
  BY <1>1, <1>2, LookupIs

\* What is found has a type of Python, so it is not mistaken for nothing, and is
\* not refused.
LEMMA PyTypes ==
  ASSUME NEW v \in PyValues
  PROVE  v # Nothing /\ v[1] # "nothing" /\ ~IsRefused(v)
BY PyValuesAssumption DEF Types, SequenceTypes, Nothing, IsRefused

LEMMA RequiredIs ==
  ASSUME NEW change, Mapping(change), NEW key, NEW code
  PROVE  LET value == RequiredStr(change, key, code)
             given == Given(change, <<key>>)
         IN /\ IsRefused(value) => given = {} \/ ~Strings(given)
            /\ ~IsRefused(value) => given = {value} /\ value[1] = "str"
<1> DEFINE value == Lookup(change, <<key>>)
<1>1. RequiredStr(change, key, code) = IF value[1] = "str" THEN value ELSE Refused(code)
  BY DEF RequiredStr
<1>2. \/ Given(change, <<key>>) = {} /\ value = Nothing
      \/ Given(change, <<key>>) = {value} /\ value \in PyValues
  BY LookupOne
<1> HIDE DEF value
<1>3. Nothing[1] # "str" /\ IsRefused(Refused(code))
  BY DEF Nothing, Refused, IsRefused
<1>4. CASE value[1] = "str"
  BY <1>1, <1>2, <1>3, <1>4, PyTypes
<1>5. CASE value[1] # "str"
  BY <1>1, <1>2, <1>3, <1>5 DEF Strings
<1> QED
  BY <1>4, <1>5

Deletes(change) ==
  \E v \in Given(change, <<"op">>) : v[1] = "str" /\ v[2].word \in {"delete", "remove"}

LEMMA OpIs ==
  ASSUME NEW change, Mapping(change)
  PROVE  LET ops == Given(change, <<"op">>)
         IN /\ IsRefused(Op(change)) =>
                 ops = {} \/ ~Strings(ops) \/ \E v \in ops : v[2].word \notin Words
            /\ ~IsRefused(Op(change)) =>
                 /\ \E v \in ops : v[1] = "str" /\ v[2].word \in Synonyms[Op(change)[2]]
                 /\ Op(change)[2] = "delete" <=> Deletes(change)
<1> DEFINE text == RequiredStr(change, "op", "ChangeOpRequired")
           ops == Given(change, <<"op">>)
<1>1. Op(change) = IF IsRefused(text) THEN text ELSE ParseOp(text[2])
  BY DEF Op
<1>2. /\ IsRefused(text) => ops = {} \/ ~Strings(ops)
      /\ ~IsRefused(text) => ops = {text} /\ text[1] = "str"
  BY RequiredIs
<1> HIDE DEF text
<1>3. IsRefused(ParseOp(text[2])) => text[2].word \notin Words
  <2>1. Words = {"insert", "add", "update", "delete", "remove"}
    BY DEF Words, Synonyms
  <2> QED
    BY <2>1 DEF ParseOp, IsRefused, Refused
<1>4. ~IsRefused(ParseOp(text[2])) =>
        /\ text[2].word \in Synonyms[ParseOp(text[2])[2]]
        /\ ParseOp(text[2])[2] = "delete" <=> text[2].word \in {"delete", "remove"}
  BY DEF ParseOp, IsRefused, Refused, Synonyms
<1>5. CASE IsRefused(text)
  BY <1>1, <1>2, <1>5
<1>6. CASE ~IsRefused(text)
  <2>1. ops = {text} /\ text[1] = "str" /\ Op(change) = ParseOp(text[2])
    BY <1>1, <1>2, <1>6
  <2>2. Deletes(change) <=> text[2].word \in {"delete", "remove"}
    BY <2>1 DEF Deletes
  <2> QED
    BY <1>3, <1>4, <2>1, <2>2
<1> QED
  BY <1>5, <1>6

LEMMA LabelsAre ==
  ASSUME NEW change, Mapping(change)
  PROVE  LET made == Labels(change)
             labels == Given(change, <<"labels">>)
         IN /\ IsRefused(made) =>
                 \E v \in labels :
                   v[1] \notin SequenceTypes \/ ~Strings({v[2][i] : i \in DOMAIN v[2]})
            /\ ~IsRefused(made) =>
                 /\ labels = {} => made[2] = <<>>
                 /\ \A v \in labels : /\ DOMAIN made[2] = DOMAIN v[2]
                                      /\ \A i \in DOMAIN v[2] : v[2][i] = <<"str", made[2][i]>>
<1> DEFINE value == Lookup(change, <<"labels">>)
           labels == Given(change, <<"labels">>)
           made == Labels(change)
<1>1. \/ labels = {} /\ value = Nothing
      \/ labels = {value} /\ value \in PyValues
  BY LookupOne
<1>2. made = IF value = Nothing THEN <<"labels", <<>>>>
             ELSE IF value[1] \in SequenceTypes /\ \A i \in DOMAIN value[2] : value[2][i][1] = "str"
             THEN <<"labels", [i \in DOMAIN value[2] |-> value[2][i][2]]>>
             ELSE Refused("ConfigInvalid")
  BY DEF Labels
<1> HIDE DEF value, labels, made
<1>3. CASE value = Nothing
  <2>1. made[2] = <<>> /\ ~IsRefused(made) /\ labels = {}
    BY <1>1, <1>2, <1>3, PyTypes DEF IsRefused
  <2> QED
    BY <2>1 DEF labels, made
<1>4. CASE value # Nothing
  <2>1. labels = {value} /\ value \in PyValues
    BY <1>1, <1>4
  <2>2. CASE value[1] \in SequenceTypes /\ \A i \in DOMAIN value[2] : value[2][i][1] = "str"
    <3>1. ~IsRefused(made) /\ made[2] = [i \in DOMAIN value[2] |-> value[2][i][2]]
      BY <1>2, <1>4, <2>2 DEF IsRefused
    <3>2. ASSUME NEW i \in DOMAIN value[2] PROVE value[2][i] = <<"str", made[2][i]>>
      <4>1. value[2][i] \in Parts(value)
        BY <2>2 DEF Parts, SequenceTypes
      <4>2. value[2][i] \in PyValues
        BY <2>1, <4>1, PyValuesAssumption DEF Nest
      <4>3. value[2][i] = <<value[2][i][1], value[2][i][2]>>
        BY <4>2, PyValuesAssumption
      <4>4. value[2][i][1] = "str" /\ made[2][i] = value[2][i][2]
        BY <2>2, <3>1
      <4> QED
        BY <4>3, <4>4
    <3> QED
      BY <2>1, <3>1, <3>2 DEF labels, made
  <2>3. CASE ~(value[1] \in SequenceTypes /\ \A i \in DOMAIN value[2] : value[2][i][1] = "str")
    <3>1. IsRefused(made)
      BY <1>2, <1>4, <2>3 DEF IsRefused, Refused
    <3> QED
      BY <2>1, <2>3, <3>1 DEF Strings, labels, made
  <2> QED
    BY <2>2, <2>3
<1> QED
  BY <1>3, <1>4

LEMMA EffectiveFromIs ==
  ASSUME NEW change, Mapping(change)
  PROVE  LET times == Given(change, EFFECTIVE_FROM_KEYS)
             time == EffectiveFrom(change)
         IN /\ IsRefused(time) =>
                 \E v \in times : v[1] \notin {"int", "bool"} \/ Number(v) < 0
                                  \/ Number(v) >= 2 * Half
            /\ ~IsRefused(time) => \/ time[2] \in {Number(v) : v \in times}
                                   \/ time[2] = 0 /\ times = {}
<1> DEFINE value == Lookup(change, EFFECTIVE_FROM_KEYS)
           times == Given(change, EFFECTIVE_FROM_KEYS)
           time == EffectiveFrom(change)
<1>1. DOMAIN EFFECTIVE_FROM_KEYS = 1 .. 2
  BY DEF EFFECTIVE_FROM_KEYS
<1>2. /\ times \subseteq PyValues
      /\ times = {} => value = Nothing
      /\ times # {} => value \in times
  BY <1>1, LookupIs
<1>3. time = IF value = Nothing THEN <<"time", 0>>
             ELSE IF IsInt(value) /\ Number(value) \in U64 THEN <<"time", Number(value)>>
             ELSE Refused("ConfigInvalid")
  BY DEF EffectiveFrom
<1> HIDE DEF value, times, time
<1>4. CASE times = {}
  <2>1. time = <<"time", 0>>
    BY <1>2, <1>3, <1>4
  <2>2. time[2] = 0 /\ ~IsRefused(time)
    BY <2>1 DEF IsRefused
  <2> QED
    BY <1>4, <2>2 DEF times, time
<1>5. CASE times # {}
  <2>1. value \in times /\ value \in PyValues /\ value # Nothing
    BY <1>2, <1>5, PyTypes
  <2>2. CASE IsInt(value) /\ Number(value) \in U64
    BY <1>3, <2>1, <2>2 DEF IsRefused, times, time
  <2>3. CASE ~IsInt(value)
    BY <1>3, <2>1, <2>3 DEF IsRefused, Refused, IsInt, times, time
  <2>4. CASE IsInt(value) /\ Number(value) \notin U64
    <3>1. Number(value) \in Int
      BY <2>1, <2>4, PyValuesAssumption DEF IsInt, Number
    <3>2. Number(value) < 0 \/ Number(value) >= 2 * Half
      BY <2>4, <3>1, HalfAssumption DEF U64
    <3>3. IsRefused(time)
      BY <1>3, <2>1, <2>4 DEF IsRefused, Refused
    <3> QED
      BY <2>1, <3>2, <3>3 DEF times, time
  <2> QED
    BY <2>2, <2>3, <2>4
<1> QED
  BY <1>4, <1>5 DEF times, time

LEMMA EndIs ==
  ASSUME NEW change, Mapping(change), NEW keys, NEW n \in Nat, DOMAIN keys = 1 .. n
  PROVE  LET end == End(change, keys)
             ends == Given(change, keys)
         IN /\ IsRefused(end) => ~Strings(ends)
            /\ ~IsRefused(end) => \/ end \in ends /\ end # Nothing
                                  \/ end = Nothing /\ ends = {}
<1> DEFINE value == Lookup(change, keys)
           ends == Given(change, keys)
           end == End(change, keys)
<1>1. /\ ends \subseteq PyValues
      /\ ends = {} => value = Nothing
      /\ ends # {} => value \in ends
  BY LookupIs
<1>2. end = IF value[1] \in {"nothing", "str"} THEN value ELSE Refused("ConfigInvalid")
  BY DEF End
<1> HIDE DEF value, ends, end
<1>3. CASE ends = {}
  BY <1>1, <1>2, <1>3 DEF Nothing, IsRefused, ends, end
<1>4. CASE ends # {}
  <2>1. value \in ends /\ value # Nothing /\ value[1] # "nothing" /\ ~IsRefused(value)
    BY <1>1, <1>4, PyTypes
  <2>2. CASE value[1] = "str"
    BY <1>2, <2>1, <2>2 DEF ends, end
  <2>3. CASE value[1] # "str"
    <3>1. ~Strings(ends) /\ IsRefused(end)
      BY <1>2, <2>1, <2>3 DEF Strings, IsRefused, Refused
    <3> QED
      BY <3>1 DEF ends, end
  <2> QED
    BY <2>2, <2>3
<1> QED
  BY <1>3, <1>4

LEMMA PropertiesAre ==
  ASSUME NEW change, Mapping(change)
  PROVE  LET properties == Properties(change)
             given == Given(change, <<"properties">>)
         IN /\ IsRefused(properties) => \E v \in given : v[1] # "dict" \/ ~has_form[v]
            /\ ~IsRefused(properties) => \A v \in given : json_to_py[properties] = returned[v]
<1> DEFINE value == Lookup(change, <<"properties">>)
           given == Given(change, <<"properties">>)
           object == py_to_json[value]
<1>1. \/ given = {} /\ value = Nothing
      \/ given = {value} /\ value \in PyValues
  BY LookupOne
<1>2. Properties(change) =
        IF value = Nothing THEN <<"object", [key \in {} |-> 0]>>
        ELSE IF object[1] \in {"object", "refused"} THEN object ELSE Refused("ConfigInvalid")
  BY DEF Properties
<1> HIDE DEF value
<1>3. CASE value = Nothing
  <2>1. given = {}
    BY <1>1, <1>3, PyTypes
  <2> QED
    BY <1>2, <1>3, <2>1 DEF IsRefused
<1>4. CASE value # Nothing
  <2>1. given = {value} /\ value \in PyValues
    BY <1>1, <1>4
  <2>2. CASE IsRefused(object)
    <3>1. Properties(change) = object
      BY <1>2, <1>4, <2>2 DEF IsRefused
    <3> QED
      BY <2>1, <2>2, <3>1, RefusedIffFormless
  <2>3. CASE object[1] = "object"
    <3>1. Properties(change) = object
      BY <1>2, <1>4, <2>3
    <3>2. ~IsRefused(object)
      BY <2>3 DEF IsRefused
    <3> QED
      BY <2>1, <3>1, <3>2, ThereAndBack
  <2>4. CASE object[1] \notin {"object", "refused"}
    <3>1. Properties(change) = Refused("ConfigInvalid")
      BY <1>2, <1>4, <2>4
    <3>2. ~IsRefused(object)
      BY <2>4 DEF IsRefused
    <3>3. value[1] # "dict"
      <4>1. value[1] = "dict" => \E items : object = <<"object", items>>
        BY <2>1, <3>2, ToJsonObject
      <4> QED
        BY <2>4, <4>1
    <3>4. IsRefused(Properties(change))
      BY <3>1 DEF IsRefused, Refused
    <3> QED
      BY <2>1, <3>3, <3>4
  <2> QED
    BY <2>2, <2>3, <2>4 DEF IsRefused
<1> QED
  BY <1>3, <1>4

\* The parts a change is made of, as source_change_from_py names them.
BothEnds(change) ==
  IF (End(change, START_ID_KEYS) = Nothing) # (End(change, END_ID_KEYS) = Nothing)
  THEN Refused("RelationRequiresBothEnds") ELSE <<"ends", 0>>
Metadata(change) ==
  <<Op(change), RequiredStr(change, "id", "ChangeIdRequired"), Labels(change), EffectiveFrom(change)>>
ChangeParts(change) ==
  <<Op(change), RequiredStr(change, "id", "ChangeIdRequired"), Labels(change), EffectiveFrom(change),
    End(change, START_ID_KEYS), End(change, END_ID_KEYS), BothEnds(change), Properties(change)>>

LEMMA SourceChangeIs ==
  ASSUME NEW change
  PROVE  LET m == Metadata(change)
             p == ChangeParts(change)
         IN SourceChange(change) =
              IF SomeRefused(m) THEN FirstRefused(m)
              ELSE IF p[1][2] = "delete"
              THEN <<"change", [op |-> "delete", id |-> p[2], labels |-> p[3][2],
                                time |-> p[4][2]]>>
              ELSE IF SomeRefused(p) THEN FirstRefused(p)
              ELSE <<"change", [op |-> p[1][2], id |-> p[2], labels |-> p[3][2],
                                time |-> p[4][2], start |-> p[5], end |-> p[6],
                                properties |-> p[8]]>>
BY DEF SourceChange, Metadata, ChangeParts, BothEnds

\* Some part is refused, and that is what refuses the change.
LEMMA SomeRefusedOf ==
  ASSUME NEW change
  PROVE  LET m == Metadata(change)
             p == ChangeParts(change)
         IN /\ SomeRefused(m) <=> \/ IsRefused(p[1]) \/ IsRefused(p[2])
                                  \/ IsRefused(p[3]) \/ IsRefused(p[4])
            /\ SomeRefused(p) <=> \/ SomeRefused(m) \/ IsRefused(p[5])
                                  \/ IsRefused(p[6]) \/ IsRefused(p[7]) \/ IsRefused(p[8])
            /\ SomeRefused(m) => IsRefused(FirstRefused(m))
            /\ SomeRefused(p) => IsRefused(FirstRefused(p))
<1> DEFINE m == Metadata(change)
           p == ChangeParts(change)
<1>1. DOMAIN m = 1 .. 4 /\ DOMAIN p = 1 .. 8
  BY DEF Metadata, ChangeParts
<1>2. m[1] = p[1] /\ m[2] = p[2] /\ m[3] = p[3] /\ m[4] = p[4]
  BY DEF Metadata, ChangeParts
<1> HIDE DEF m, p
<1>3. /\ SomeRefused(m) <=> \E i \in 1 .. 4 : IsRefused(m[i])
      /\ SomeRefused(p) <=> \E i \in 1 .. 8 : IsRefused(p[i])
  BY <1>1 DEF SomeRefused
<1>4. SomeRefused(m) <=> \/ IsRefused(m[1]) \/ IsRefused(m[2])
                         \/ IsRefused(m[3]) \/ IsRefused(m[4])
  BY <1>3
<1>5. SomeRefused(p) <=> \/ IsRefused(p[1]) \/ IsRefused(p[2])
                         \/ IsRefused(p[3]) \/ IsRefused(p[4]) \/ IsRefused(p[5])
                         \/ IsRefused(p[6]) \/ IsRefused(p[7]) \/ IsRefused(p[8])
  BY <1>3
<1>6. /\ SomeRefused(m) => IsRefused(FirstRefused(m))
      /\ SomeRefused(p) => IsRefused(FirstRefused(p))
  BY <1>1, FirstRefusedIs
<1> QED
  BY <1>2, <1>4, <1>5, <1>6 DEF m, p

\* What push_change makes of a mapping has the operation, the identity, the labels, the
\* time, the ends and the properties the mapping gives, whichever spelling it uses, and
\* nothing else; and a mapping is refused only for what is wrong with it
\* (lookup, source_change_from_py).
THEOREM ChangeFaithfulHolds == ConversionsSpec => []ChangeFaithful
<1>1. Made => ChangeFaithful
  <2> SUFFICES ASSUME Made, task = "change", output # Nothing, input[1] = "dict"
               PROVE  ChangeFaithful
    BY DEF ChangeFaithful
  <2> DEFINE change == input[2]
             starts == Given(change, START_ID_KEYS)
             finish == Given(change, END_ID_KEYS)
             times == Given(change, EFFECTIVE_FROM_KEYS)
             labels == Given(change, <<"labels">>)
             ops == Given(change, <<"op">>)
             m == Metadata(change)
             p == ChangeParts(change)
  <2>1. input \in Changes /\ output = SourceChange(change)
    BY DEF Made, SourceChangeFromPy
  <2>2. Mapping(change)
    BY <2>1, ChangesAssumption DEF Mapping
  <2>3. DOMAIN START_ID_KEYS = 1 .. 4 /\ DOMAIN END_ID_KEYS = 1 .. 4
    BY DEF START_ID_KEYS, END_ID_KEYS
  <2>4. /\ p[1] = Op(change) /\ p[2] = RequiredStr(change, "id", "ChangeIdRequired")
        /\ p[3] = Labels(change) /\ p[4] = EffectiveFrom(change)
        /\ p[5] = End(change, START_ID_KEYS) /\ p[6] = End(change, END_ID_KEYS)
        /\ p[7] = BothEnds(change) /\ p[8] = Properties(change)
    BY DEF ChangeParts
  <2>5. /\ IsRefused(p[1]) =>
             ops = {} \/ ~Strings(ops) \/ \E v \in ops : v[2].word \notin Words
        /\ ~IsRefused(p[1]) =>
             /\ \E v \in ops : v[1] = "str" /\ v[2].word \in Synonyms[p[1][2]]
             /\ p[1][2] = "delete" <=> Deletes(change)
    BY <2>2, <2>4, OpIs
  <2>6. /\ IsRefused(p[2]) => \/ Given(change, <<"id">>) = {}
                              \/ ~Strings(Given(change, <<"id">>))
        /\ ~IsRefused(p[2]) => Given(change, <<"id">>) = {p[2]}
    BY <2>2, <2>4, RequiredIs
  <2>7. /\ IsRefused(p[3]) =>
             \E v \in labels :
               v[1] \notin SequenceTypes \/ ~Strings({v[2][i] : i \in DOMAIN v[2]})
        /\ ~IsRefused(p[3]) =>
             /\ labels = {} => p[3][2] = <<>>
             /\ \A v \in labels : /\ DOMAIN p[3][2] = DOMAIN v[2]
                                  /\ \A i \in DOMAIN v[2] : v[2][i] = <<"str", p[3][2][i]>>
    BY <2>2, <2>4, LabelsAre
  <2>8. /\ IsRefused(p[4]) =>
             \E v \in times : v[1] \notin {"int", "bool"} \/ Number(v) < 0
                              \/ Number(v) >= 2 * Half
        /\ ~IsRefused(p[4]) => \/ p[4][2] \in {Number(v) : v \in times}
                               \/ p[4][2] = 0 /\ times = {}
    BY <2>2, <2>4, EffectiveFromIs
  <2>9. /\ IsRefused(p[5]) => ~Strings(starts)
        /\ ~IsRefused(p[5]) => \/ p[5] \in starts /\ p[5] # Nothing
                               \/ p[5] = Nothing /\ starts = {}
    BY <2>2, <2>3, <2>4, EndIs
  <2>10. /\ IsRefused(p[6]) => ~Strings(finish)
         /\ ~IsRefused(p[6]) => \/ p[6] \in finish /\ p[6] # Nothing
                                \/ p[6] = Nothing /\ finish = {}
    BY <2>2, <2>3, <2>4, EndIs
  <2>11. IsRefused(p[7]) <=> ~(p[5] = Nothing <=> p[6] = Nothing)
    BY <2>4 DEF BothEnds, IsRefused, Refused
  <2>12. /\ IsRefused(p[8]) =>
              \E v \in Given(change, <<"properties">>) : v[1] # "dict" \/ ~has_form[v]
         /\ ~IsRefused(p[8]) =>
              \A v \in Given(change, <<"properties">>) : json_to_py[p[8]] = returned[v]
    BY <2>2, <2>4, PropertiesAre
  <2>13. output = IF SomeRefused(m) THEN FirstRefused(m)
                  ELSE IF p[1][2] = "delete"
                  THEN <<"change", [op |-> "delete", id |-> p[2], labels |-> p[3][2],
                                    time |-> p[4][2]]>>
                  ELSE IF SomeRefused(p) THEN FirstRefused(p)
                  ELSE <<"change", [op |-> p[1][2], id |-> p[2], labels |-> p[3][2],
                                    time |-> p[4][2], start |-> p[5], end |-> p[6],
                                    properties |-> p[8]]>>
    BY <2>1, SourceChangeIs
  <2>14. /\ SomeRefused(m) <=> \/ IsRefused(p[1]) \/ IsRefused(p[2])
                               \/ IsRefused(p[3]) \/ IsRefused(p[4])
         /\ SomeRefused(p) <=> \/ SomeRefused(m) \/ IsRefused(p[5])
                               \/ IsRefused(p[6]) \/ IsRefused(p[7]) \/ IsRefused(p[8])
         /\ SomeRefused(m) => IsRefused(FirstRefused(m))
         /\ SomeRefused(p) => IsRefused(FirstRefused(p))
    BY SomeRefusedOf
  <2>15. ChangeFaithful <=>
           IF ~IsRefused(output)
           THEN /\ Given(change, <<"id">>) = {output[2].id}
                /\ \E v \in ops : v[1] = "str" /\ v[2].word \in Synonyms[output[2].op]
                /\ labels = {} => output[2].labels = <<>>
                /\ \A v \in labels :
                     /\ DOMAIN output[2].labels = DOMAIN v[2]
                     /\ \A i \in DOMAIN v[2] : v[2][i] = <<"str", output[2].labels[i]>>
                /\ \/ output[2].time \in {Number(v) : v \in times}
                   \/ output[2].time = 0 /\ times = {}
                /\ output[2].op # "delete" =>
                     /\ output[2].start \in starts \/ (starts = {} /\ output[2].start = Nothing)
                     /\ output[2].end \in finish \/ (finish = {} /\ output[2].end = Nothing)
                     /\ starts = {} <=> finish = {}
                     /\ \A v \in Given(change, <<"properties">>) :
                          json_to_py[output[2].properties] = returned[v]
           ELSE \/ ops = {} \/ ~Strings(ops) \/ \E v \in ops : v[2].word \notin Words
                \/ Given(change, <<"id">>) = {} \/ ~Strings(Given(change, <<"id">>))
                \/ \E v \in labels :
                     v[1] \notin SequenceTypes \/ ~Strings({v[2][i] : i \in DOMAIN v[2]})
                \/ \E v \in times : v[1] \notin {"int", "bool"} \/ Number(v) < 0
                                    \/ Number(v) >= 2 * Half
                \/ /\ ~Deletes(change)
                   /\ \/ (starts = {}) # (finish = {}) \/ ~Strings(starts \union finish)
                      \/ \E v \in Given(change, <<"properties">>) :
                           v[1] # "dict" \/ ~has_form[v]
    BY Zenon DEF ChangeFaithful, Deletes
  <2> HIDE DEF change, starts, finish, times, labels, ops, m, p
  <2>16. CASE SomeRefused(m)
    <3>1. IsRefused(output)
      BY <2>13, <2>14, <2>16
    <3> QED
      BY <2>5, <2>6, <2>7, <2>8, <2>14, <2>15, <2>16, <3>1
  <2>17. CASE ~SomeRefused(m) /\ p[1][2] = "delete"
    <3>1. output = <<"change", [op |-> "delete", id |-> p[2], labels |-> p[3][2],
                                time |-> p[4][2]]>>
      BY <2>13, <2>17
    <3>2. /\ ~IsRefused(output) /\ output[2].op = "delete" /\ output[2].id = p[2]
          /\ output[2].labels = p[3][2] /\ output[2].time = p[4][2]
      BY <3>1 DEF IsRefused
    <3> QED
      BY <2>5, <2>6, <2>7, <2>8, <2>14, <2>15, <2>17, <3>2
  <2>18. CASE ~SomeRefused(m) /\ p[1][2] # "delete" /\ SomeRefused(p)
    <3>1. IsRefused(output)
      BY <2>13, <2>14, <2>18
    <3>2. ~Deletes(change)
      BY <2>5, <2>14, <2>18
    <3>3. Strings(starts \union finish) => Strings(starts) /\ Strings(finish)
      BY DEF Strings
    <3> QED
      BY <2>9, <2>10, <2>11, <2>12, <2>14, <2>15, <2>18, <3>1, <3>2, <3>3
  <2>19. CASE ~SomeRefused(m) /\ p[1][2] # "delete" /\ ~SomeRefused(p)
    <3>1. output = <<"change", [op |-> p[1][2], id |-> p[2], labels |-> p[3][2],
                                time |-> p[4][2], start |-> p[5], end |-> p[6],
                                properties |-> p[8]]>>
      BY <2>13, <2>19
    <3>2. /\ ~IsRefused(output) /\ output[2].op = p[1][2] /\ output[2].id = p[2]
          /\ output[2].labels = p[3][2] /\ output[2].time = p[4][2]
          /\ output[2].start = p[5] /\ output[2].end = p[6] /\ output[2].properties = p[8]
      BY <3>1 DEF IsRefused
    <3>3. starts = {} <=> finish = {}
      BY <2>9, <2>10, <2>11, <2>14, <2>19
    <3> QED
      BY <2>5, <2>6, <2>7, <2>8, <2>9, <2>10, <2>12, <2>14, <2>15, <2>19, <3>2, <3>3
  <2> QED
    BY <2>16, <2>17, <2>18, <2>19
<1> QED
  BY <1>1, MadeHolds, PTL

=============================================================================
