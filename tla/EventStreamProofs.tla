------------------------- MODULE EventStreamProofs -------------------------
(***************************************************************************)
(* What the operations on a durable consumer preserve, for every subject.  *)
(***************************************************************************)
EXTENDS EventStream, TLAPS

(* Every operation on a durable of a subject yields a durable of it, and   *)
(* only numbers the subject has are delivered.                             *)
LEMMA DurableOperations ==
  ASSUME NEW S, NEW log \in Seq(S), NEW c \in DurableOf(log)
  PROVE  /\ SubscribeNew(c, log) \in DurableOf(log)
         /\ \A s \in Deliverable(c, log) :
               /\ s \in DOMAIN log
               /\ Receive(c, s) \in DurableOf(log)
               /\ Return(Receive(c, s)) \in DurableOf(log)
         /\ Ack(c) \in DurableOf(log)
         /\ c.open # 0 => Return(c) \in DurableOf(log)
         /\ \A k \in Prefetch(c, log) : Drop(c, k) \in DurableOf(log)
<1>1. Len(log) \in Nat /\ DOMAIN log = 1 .. Len(log)
  OBVIOUS
<1>2. /\ SubscribeNew(c, log) \in DurableOf(log)
      /\ Ack(c) \in DurableOf(log)
      /\ c.open # 0 => Return(c) \in DurableOf(log)
  BY <1>1 DEF DurableOf, Consumer, SubscribeNew, Exists, Ack, Return
<1>3. ASSUME NEW s \in Deliverable(c, log)
      PROVE  /\ s \in DOMAIN log
             /\ Receive(c, s) \in DurableOf(log)
             /\ Return(Receive(c, s)) \in DurableOf(log)
  <2>1. s \in DOMAIN log
    BY <1>1 DEF DurableOf, Consumer, Deliverable
  <2>2. /\ Receive(c, s) \in Consumer /\ Receive(c, s).open = s
        /\ Receive(c, s).next <= Len(log) + 1
        /\ s < Receive(c, s).next
        /\ \A t \in Receive(c, s).again : 1 <= t /\ t < Receive(c, s).next
    BY <1>1, <2>1 DEF DurableOf, Consumer, Receive, Deliverable
  <2> QED
    BY <1>1, <2>1, <2>2 DEF DurableOf, Consumer, Return
<1>4. ASSUME NEW k \in Prefetch(c, log)
      PROVE  Drop(c, k) \in DurableOf(log)
  <2>1. CASE Exists(c)
    <3>1. k \in c.next .. (Len(log) + 1) /\ c.next \in Nat \ {0}
      BY <2>1 DEF DurableOf, Consumer, Prefetch, Exists
    <3>2. c.next .. (k - 1) \subseteq DOMAIN log
      BY <1>1, <3>1
    <3> QED
      BY <1>1, <3>1, <3>2 DEF DurableOf, Consumer, Drop
  <2>2. CASE ~ Exists(c)
    <3>1. k = 0 /\ c.next = 0 /\ c.next .. (k - 1) = {}
      BY <2>2 DEF DurableOf, Consumer, Prefetch, Exists
    <3> QED
      BY <1>1, <3>1 DEF DurableOf, Consumer, Drop
  <2> QED
    BY <2>1, <2>2
<1> QED
  BY <1>2, <1>3, <1>4

(* A durable of a subject remains one when an event is published.          *)
LEMMA DurableAppend ==
  ASSUME NEW S, NEW log \in Seq(S), NEW e \in S, NEW c \in DurableOf(log)
  PROVE  c \in DurableOf(Append(log, e))
BY DEF DurableOf, Consumer

(* Nobody has a durable at first, and that is a durable of any subject.    *)
LEMMA DurableInitially ==
  ASSUME NEW S, NEW log \in Seq(S)
  PROVE  NoConsumer \in DurableOf(log)
BY DEF DurableOf, Consumer, NoConsumer

(* Only the handler that receives a number can make it applied: no crash,  *)
(* nak or lost ack does.                                                   *)
LEMMA AppliedNumbers ==
  ASSUME NEW S, NEW log \in Seq(S), NEW c \in DurableOf(log), NEW n \in Nat
  PROVE  /\ Applied(Ack(c), n) => Applied(c, n)
         /\ Applied(Return(c), n) => Applied(c, n)
         /\ Exists(c) /\ Applied(SubscribeNew(c, log), n) => Applied(c, n)
         /\ \A s \in Deliverable(c, log) :
               /\ Applied(Receive(c, s), n) => Applied(c, n) \/ n = s
               /\ Applied(Return(Receive(c, s)), n) => Applied(c, n)
         /\ \A k \in Prefetch(c, log) : Applied(Drop(c, k), n) => Applied(c, n)
<1>0. Len(log) \in Nat /\ c \in Consumer
  BY DEF DurableOf
<1>1. /\ Applied(Ack(c), n) => Applied(c, n)
      /\ Applied(Return(c), n) => Applied(c, n)
      /\ Exists(c) /\ Applied(SubscribeNew(c, log), n) => Applied(c, n)
  BY <1>0 DEF Consumer, Applied, Ack, Return, SubscribeNew, Exists
<1>2. ASSUME NEW s \in Deliverable(c, log)
      PROVE  /\ Applied(Receive(c, s), n) => Applied(c, n) \/ n = s
             /\ Applied(Return(Receive(c, s)), n) => Applied(c, n)
  <2>1. s \in Nat
    BY <1>0 DEF Consumer, Deliverable
  <2> QED
    BY <1>0, <2>1 DEF Consumer, Applied, Receive, Return
<1>3. ASSUME NEW k \in Prefetch(c, log)
      PROVE  Applied(Drop(c, k), n) => Applied(c, n)
  BY <1>0 DEF Consumer, Applied, Drop, Prefetch, Exists
<1> QED
  BY <1>1, <1>2, <1>3

(* A durable that exists goes on existing; subscribing makes one exist.    *)
LEMMA DurablePersists ==
  ASSUME NEW S, NEW log \in Seq(S), NEW c \in DurableOf(log)
  PROVE  /\ Exists(SubscribeNew(c, log))
         /\ Exists(c) => /\ Exists(Ack(c)) /\ Exists(Return(c))
                         /\ \A s \in Deliverable(c, log) :
                               Exists(Receive(c, s)) /\ Exists(Return(Receive(c, s)))
                         /\ \A k \in Prefetch(c, log) : Exists(Drop(c, k))
<1>1. Len(log) \in Nat /\ c \in Consumer
  BY DEF DurableOf
<1>2. Exists(SubscribeNew(c, log))
  BY <1>1 DEF Consumer, Exists, SubscribeNew
<1>3. Exists(c) => Exists(Ack(c)) /\ Exists(Return(c))
  BY <1>1 DEF Consumer, Exists, Ack, Return
<1>4. ASSUME Exists(c), NEW s \in Deliverable(c, log)
      PROVE  Exists(Receive(c, s)) /\ Exists(Return(Receive(c, s)))
  <2>1. s \in Nat
    BY <1>1 DEF Consumer, Deliverable
  <2> QED
    BY <1>1, <1>4, <2>1 DEF Consumer, Exists, Receive, Return
<1>5. ASSUME Exists(c), NEW k \in Prefetch(c, log)
      PROVE  Exists(Drop(c, k))
  BY <1>1, <1>5 DEF Consumer, Exists, Prefetch, Drop
<1> QED
  BY <1>2, <1>3, <1>4, <1>5

(* No operation moves a durable backwards, and what it delivers is either  *)
(* waiting to come again or the next number, and then behind it.           *)
LEMMA DurableForward ==
  ASSUME NEW S, NEW log \in Seq(S), NEW c \in DurableOf(log)
  PROVE  /\ c.next \in Nat
         /\ c.next <= SubscribeNew(c, log).next
         /\ Ack(c).next = c.next /\ Return(c).next = c.next
         /\ \A s \in Deliverable(c, log) :
               /\ s \in c.again \/ s = c.next
               /\ c.next <= Receive(c, s).next /\ s < Receive(c, s).next
               /\ Return(Receive(c, s)).next = Receive(c, s).next
         /\ \A k \in Prefetch(c, log) : c.next <= Drop(c, k).next
<1>1. Len(log) \in Nat /\ c \in Consumer
  BY DEF DurableOf
<1>2. /\ c.next \in Nat
      /\ c.next <= SubscribeNew(c, log).next
      /\ Ack(c).next = c.next /\ Return(c).next = c.next
  BY <1>1 DEF DurableOf, Consumer, SubscribeNew, Exists, Ack, Return
<1>3. ASSUME NEW s \in Deliverable(c, log)
      PROVE  /\ s \in c.again \/ s = c.next
             /\ c.next <= Receive(c, s).next /\ s < Receive(c, s).next
             /\ Return(Receive(c, s)).next = Receive(c, s).next
  BY <1>1, <1>3 DEF DurableOf, Consumer, Deliverable, Receive, Return
<1>4. ASSUME NEW k \in Prefetch(c, log) PROVE c.next <= Drop(c, k).next
  BY <1>1, <1>4 DEF Consumer, Prefetch, Exists, Drop
<1> QED
  BY <1>2, <1>3, <1>4
=============================================================================
