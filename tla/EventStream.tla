---------------------------- MODULE EventStream ----------------------------
(***************************************************************************)
(* What the services rely on of NATS JetStream (external: modelled from    *)
(* the consumers.add / consume / ack / nak calls in services/*/src and     *)
(* crates/*/src).                                                          *)
(*                                                                         *)
(* A subject is an append-only sequence of events.  A durable consumer of  *)
(* it is a record                                                          *)
(*    next   the first sequence number never handed out; 0 before the      *)
(*           consumer has been created,                                    *)
(*    again  the numbers waiting to be delivered once more,                *)
(*    open   the number handed to the handler and not yet acked, or 0.     *)
(*                                                                         *)
(* The client library pulls messages ahead of the handler, so a crash may  *)
(* put back any run of messages that no handler has seen, and a message    *)
(* that is delivered again may come after younger ones.                    *)
(***************************************************************************)
EXTENDS Integers, Sequences

Consumer == [next : Nat, again : SUBSET Nat, open : Nat]

\* A durable that nobody has added yet.
NoConsumer == [next |-> 0, again |-> {}, open |-> 0]

Exists(c) == c.next # 0

\* consumers.add with DeliverPolicy.New: a durable that exists is left alone,
\* a new one starts behind everything already published.
SubscribeNew(c, log) == IF Exists(c) THEN c ELSE [c EXCEPT !.next = Len(log) + 1]

\* consumers.add with DeliverPolicy.All: a new durable starts at the beginning.
SubscribeAll(c) == IF Exists(c) THEN c ELSE [c EXCEPT !.next = 1]

\* The numbers a free handler loop may receive next.
Deliverable(c, log) ==
    IF c.open # 0 THEN {} ELSE c.again \union ({c.next} \intersect 1 .. Len(log))

\* Number s is handed to the handler.
Receive(c, s) == [next  |-> IF s = c.next THEN s + 1 ELSE c.next,
                  again |-> c.again \ {s},
                  open  |-> s]

Ack(c) == [c EXCEPT !.open = 0]

\* nak, an ack that is lost or refused, or an ack that comes too late.
Return(c) == [next |-> c.next, again |-> c.again \union {c.open}, open |-> 0]

\* The consuming process dies: what it held, handled or prefetched up to
\* (not including) number k, comes back.
Drop(c, k) == [next  |-> k,
               again |-> c.again \union (c.next .. (k - 1)) \union ({c.open} \ {0}),
               open  |-> 0]

\* How far ahead of the handler the client may have pulled.
Prefetch(c, log) == IF Exists(c) THEN c.next .. (Len(log) + 1) ELSE {0}

\* Number s has been through the handler and is not due to come again.
Applied(c, s) == s < c.next /\ s \notin c.again

Drained(c, log) == c.next = Len(log) + 1 /\ c.again = {} /\ c.open = 0

\* A durable of the subject log: it knows only numbers the subject has, and
\* what waits or is held has been handed out before.
DurableOf(log) ==
    {c \in Consumer : /\ c.next <= Len(log) + 1
                      /\ \A s \in c.again : 1 <= s /\ s < c.next
                      /\ c.open # 0 => c.open < c.next}
=============================================================================
