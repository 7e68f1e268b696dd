--------------------------- MODULE StreamingProofs ---------------------------
(***************************************************************************)
(* The theorem about Streaming that does not depend on what the rows hold: *)
(* no event of a stream is overtaken by the end of the stream.  For any    *)
(* processes, tables, rows and number of crashes.                          *)
(***************************************************************************)
EXTENDS Streaming, SequenceTheorems, TLAPS

-----------------------------------------------------------------------------
(* Sequences of messages, whatever these are made of. *)

IsSequence(s) == \E S : s \in Seq(S)

LEMMA EmptySequence == IsSequence(<<>>) /\ Len(<<>>) = 0 /\ DOMAIN <<>> = {}
<1>1. <<>> \in Seq({})
  OBVIOUS
<1> QED
  BY <1>1 DEF IsSequence

LEMMA SequenceDomain ==
  ASSUME NEW s, IsSequence(s)
  PROVE  Len(s) \in Nat /\ DOMAIN s = 1..Len(s)
<1>1. PICK S : s \in Seq(S)
  BY DEF IsSequence
<1> QED
  BY <1>1

LEMMA AppendSequence ==
  ASSUME NEW s, IsSequence(s), NEW e
  PROVE  /\ IsSequence(Append(s, e)) /\ Len(Append(s, e)) = Len(s) + 1
         /\ \A i \in 1..Len(s) : Append(s, e)[i] = s[i]
         /\ Append(s, e)[Len(s) + 1] = e
<1>1. PICK S : s \in Seq(S)
  BY DEF IsSequence
<1>2. s \in Seq(S \cup {e}) /\ e \in S \cup {e}
  <2>1. \A i \in 1..Len(s) : s[i] \in S \cup {e}
    BY <1>1
  <2>2. s \in [1..Len(s) -> S \cup {e}] /\ Len(s) \in Nat
    BY <1>1, <2>1
  <2> QED
    BY <2>2, IsASeq
<1>3. Append(s, e) \in Seq(S \cup {e})
  BY <1>2, AppendProperties
<1>4. /\ Len(Append(s, e)) = Len(s) + 1
      /\ \A i \in 1..Len(s) : Append(s, e)[i] = s[i]
      /\ Append(s, e)[Len(s) + 1] = e
  BY <1>2, AppendProperties
<1> QED
  BY <1>3, <1>4 DEF IsSequence

LEMMA TailSequence ==
  ASSUME NEW s, IsSequence(s), s # <<>>
  PROVE  /\ IsSequence(Tail(s)) /\ Len(Tail(s)) = Len(s) - 1 /\ Len(s) >= 1
         /\ \A i \in 1..(Len(s) - 1) : Tail(s)[i] = s[i + 1]
         /\ Head(s) = s[1]
<1>1. PICK S : s \in Seq(S)
  BY DEF IsSequence
<1>2. /\ Tail(s) \in Seq(S) /\ Len(Tail(s)) = Len(s) - 1
      /\ \A i \in 1..(Len(s) - 1) : Tail(s)[i] = s[i + 1]
  BY <1>1, HeadTailProperties
<1>3. Len(s) >= 1
  BY <1>1, EmptySeq
<1>4. Head(s) = s[1]
  BY <1>1
<1> QED
  BY <1>2, <1>3, <1>4 DEF IsSequence

-----------------------------------------------------------------------------
(* The inductive invariant. *)

Types ==
  /\ IsSequence(sent) /\ IsSequence(topic) /\ IsSequence(polled)
  /\ DOMAIN queue = Procs
  /\ \A p \in Procs : IsSequence(queue[p])
  /\ given \in Nat /\ committed \in Nat /\ given <= Len(topic)
  /\ faults \in Nat

\* A message was made of an event that was sent.
Known(e, s) == e.n \in 1..Len(s)
Origins ==
  /\ \A i \in 1..Len(topic) : Known(topic[i].event, sent)
  /\ \A p \in Procs : \A i \in 1..Len(queue[p]) : Known(queue[p][i].event, sent) /\ queue[p][i].event.by = p
  /\ \A i \in 1..Len(polled) : Known(polled[i].of, sent)

\* The event with number m is among the first n messages of the topic, of the queue of a
\* process, of what was polled.
InTopic(m, n) == \E i \in 1..n : topic[i].event.n = m
InQueue(p, m, n) == \E i \in 1..n : queue[p][i].event.n = m
InPolled(m, n) == \E i \in 1..n : polled[i].of.n = m

\* An event of a process that did not crash is in the topic or in the queue of the process.
NothingLost ==
  \A m \in 1..Len(sent) :
    sent[m].by \in Procs \ crashed => InTopic(m, Len(topic)) \/ InQueue(sent[m].by, m, Len(queue[sent[m].by]))

\* What a process sent before an event is in front of it: in its queue ...
QueueOrder ==
  \A p \in Procs \ crashed : \A i \in 1..Len(queue[p]) : \A m \in 1..(queue[p][i].event.n - 1) :
    sent[m].by = p => InTopic(m, Len(topic)) \/ InQueue(p, m, i - 1)

\* ... in the topic ...
TopicOrder ==
  \A i \in 1..Len(topic) : \A m \in 1..(topic[i].event.n - 1) :
    topic[i].event.by \notin crashed /\ sent[m].by = topic[i].event.by => InTopic(m, i - 1)

\* ... and for the consumers.
PolledOrder ==
  \A i \in 1..Len(polled) : \A m \in 1..(polled[i].of.n - 1) :
    polled[i].of.by \notin crashed /\ sent[m].by = polled[i].of.by => InPolled(m, i - 1)

\* The group was given all messages up to its offset.
GivenPolled == \A i \in 1..given : InPolled(topic[i].event.n, Len(polled))

\* With a faulty broker only the types and the origins of the messages are kept.
InOrder == NothingLost /\ QueueOrder /\ TopicOrder /\ PolledOrder
StreamInv == Types /\ Origins /\ GivenPolled /\ (faults = 0 => InOrder)

flow == <<queue, topic, given, committed, sent, polled, crashed, faults>>

LEMMA StreamInit == Init => StreamInv
<1> SUFFICES ASSUME Init PROVE StreamInv
  OBVIOUS
<1>1. Types
  BY EmptySequence DEF Init, Types
<1>2. Origins /\ GivenPolled
  BY EmptySequence DEF Init, Origins, GivenPolled
<1>3. InOrder
  BY EmptySequence DEF Init, InOrder, NothingLost, QueueOrder, TopicOrder, PolledOrder
<1> QED
  BY <1>1, <1>2, <1>3 DEF StreamInv

\* Steps that do not touch the stream.
LEMMA StreamSame ==
  ASSUME StreamInv, UNCHANGED flow
  PROVE  StreamInv'
<1>1. Types'
  BY DEF StreamInv, Types, flow
<1>2. Origins' /\ GivenPolled'
  BY DEF StreamInv, Origins, Known, GivenPolled, InPolled, flow
<1>3. faults' = 0 => InOrder'
  BY DEF StreamInv, InOrder, NothingLost, QueueOrder, TopicOrder, PolledOrder, InTopic, InQueue, InPolled, flow
<1> QED
  BY <1>1, <1>2, <1>3 DEF StreamInv

\* An event is sent: it is queued behind all that its process sent before.
LEMMA StreamSend ==
  ASSUME StreamInv, NEW p \in Procs, NEW msg, msg.event.by = p, msg.event.n = Len(sent) + 1,
         queue' = [queue EXCEPT ![p] = Append(@, msg)], sent' = Append(sent, msg.event),
         UNCHANGED <<topic, given, committed, polled, crashed, faults>>
  PROVE  StreamInv'
<1> DEFINE n == Len(sent)
           k == Len(queue[p])
<1>0. IsSequence(sent) /\ IsSequence(queue[p]) /\ DOMAIN queue = Procs
  BY DEF StreamInv, Types
<1>1. /\ n \in Nat /\ IsSequence(sent') /\ Len(sent') = n + 1
      /\ \A m \in 1..n : sent'[m] = sent[m]
      /\ sent'[n + 1] = msg.event
  BY <1>0, AppendSequence, SequenceDomain
<1>2. /\ k \in Nat /\ IsSequence(queue'[p]) /\ Len(queue'[p]) = k + 1
      /\ \A i \in 1..k : queue'[p][i] = queue[p][i]
      /\ queue'[p][k + 1] = msg
  <2>1. queue'[p] = Append(queue[p], msg)
    BY <1>0
  <2> QED
    BY <1>0, <2>1, AppendSequence, SequenceDomain
<1>3. DOMAIN queue' = Procs /\ \A q \in Procs : q # p => queue'[q] = queue[q]
  BY <1>0
<1> HIDE DEF n, k
<1>4. Types'
  BY <1>1, <1>2, <1>3 DEF StreamInv, Types
<1>5. \A q \in Procs : \A i \in 1..Len(queue[q]) :
        Len(queue[q]) \in Nat /\ i \in 1..Len(queue'[q]) /\ queue'[q][i] = queue[q][i]
  <2> SUFFICES ASSUME NEW q \in Procs, NEW i \in 1..Len(queue[q])
               PROVE  Len(queue[q]) \in Nat /\ i \in 1..Len(queue'[q]) /\ queue'[q][i] = queue[q][i]
    OBVIOUS
  <2>1. CASE q = p
    BY <2>1, <1>2 DEF k
  <2>2. CASE q # p
    <3>1. Len(queue[q]) \in Nat
      BY SequenceDomain DEF StreamInv, Types
    <3> QED
      BY <2>2, <3>1, <1>3
  <2> QED
    BY <2>1, <2>2
<1>6. \A q \in Procs : \A i \in 1..Len(queue'[q]) :
        \/ i \in 1..Len(queue[q]) /\ queue'[q][i] = queue[q][i]
        \/ q = p /\ i = k + 1 /\ queue'[q][i] = msg
  BY <1>2, <1>3 DEF k
<1>7. \A e : Known(e, sent) => Known(e, sent') /\ \A m \in 1..e.n : m \in 1..n /\ sent'[m] = sent[m]
  BY <1>1 DEF Known, n
<1>8. Known(msg.event, sent')
  BY <1>1 DEF Known, n
<1>9. Origins' /\ GivenPolled'
  <2>1. \A i \in 1..Len(topic') : Known(topic'[i].event, sent')
    BY <1>7 DEF StreamInv, Origins
  <2>2. \A q \in Procs : \A i \in 1..Len(queue'[q]) :
          Known(queue'[q][i].event, sent') /\ queue'[q][i].event.by = q
    BY <1>6, <1>7, <1>8 DEF StreamInv, Origins
  <2>3. \A i \in 1..Len(polled') : Known(polled'[i].of, sent')
    BY <1>7 DEF StreamInv, Origins
  <2>4. GivenPolled'
    BY DEF StreamInv, GivenPolled, InPolled
  <2> QED
    BY <2>1, <2>2, <2>3, <2>4 DEF Origins
<1>10. ASSUME faults' = 0
       PROVE  InOrder'
  <2>0. InOrder
    BY <1>10 DEF StreamInv
  <2>1. NothingLost'
    <3> SUFFICES ASSUME NEW m \in 1..(n + 1), sent'[m].by \in Procs \ crashed
                 PROVE  InTopic(m, Len(topic))' \/ InQueue(sent[m].by, m, Len(queue[sent[m].by]))'
      BY <1>1 DEF NothingLost
    <3>1. CASE m \in 1..n
      <4> DEFINE q == sent[m].by
      <4>1. sent'[m].by = q /\ q \in Procs \ crashed
        BY <3>1, <1>1
      <4>2. InTopic(m, Len(topic)) \/ InQueue(q, m, Len(queue[q]))
        BY <3>1, <4>1, <2>0 DEF InOrder, NothingLost, n
      <4>3. CASE q = p
        <5> HIDE DEF q
        <5>1. InQueue(p, m, k) => \E i \in 1..Len(queue'[p]) : queue'[p][i].event.n = m
          BY <1>5, <1>2 DEF InQueue, k
        <5> QED
          BY <4>1, <4>2, <4>3, <5>1 DEF InTopic, InQueue, k
      <4>4. CASE q # p
        <5> HIDE DEF q
        <5>1. queue'[q] = queue[q]
          BY <4>4
        <5> QED
          BY <4>1, <4>2, <5>1 DEF InTopic, InQueue
      <4> QED
        BY <4>3, <4>4
    <3>2. CASE m = n + 1
      <4>1. sent'[m].by = p /\ k + 1 \in 1..Len(queue'[p]) /\ queue'[p][k + 1].event.n = m
        BY <3>2, <1>1, <1>2 DEF n
      <4> QED
        BY <4>1 DEF InQueue
    <3> QED
      BY <3>1, <3>2, <1>1
  <2>2. QueueOrder'
    <3> SUFFICES ASSUME NEW q \in Procs, q \notin crashed, NEW i \in 1..Len(queue'[q]),
                        NEW m \in 1..(queue'[q][i].event.n - 1), sent'[m].by = q
                 PROVE  InTopic(m, Len(topic))' \/ InQueue(q, m, i - 1)'
      BY DEF QueueOrder
    <3> SUFFICES InTopic(m, Len(topic)) \/ \E j \in 1..(i - 1) : queue'[q][j].event.n = m
      BY DEF InTopic, InQueue
    <3>1. CASE i \in 1..Len(queue[q]) /\ queue'[q][i] = queue[q][i]
      <4>1. Known(queue[q][i].event, sent)
        BY <3>1 DEF StreamInv, Origins
      <4>2. m \in 1..n /\ sent[m].by = q
        <5>1. m \in 1..queue[q][i].event.n
          BY <3>1, <4>1 DEF Known
        <5>2. m \in 1..n /\ sent'[m] = sent[m]
          BY <4>1, <5>1, <1>7
        <5> QED
          BY <5>2
      <4>3. InTopic(m, Len(topic)) \/ InQueue(q, m, i - 1)
        BY <3>1, <4>2, <2>0 DEF InOrder, QueueOrder
      <4>4. \A j \in 1..(i - 1) : queue'[q][j] = queue[q][j]
        BY <3>1, <1>5
      <4> QED
        BY <4>3, <4>4 DEF InQueue
    <3>2. CASE q = p /\ i = k + 1 /\ queue'[q][i] = msg
      <4>1. m \in 1..n /\ sent[m].by = p /\ p \notin crashed
        BY <3>2, <1>1 DEF n
      <4>2. InTopic(m, Len(topic)) \/ InQueue(p, m, k)
        BY <4>1, <2>0 DEF InOrder, NothingLost, n, k
      <4>3. i - 1 = k
        BY <3>2, <1>2
      <4> QED
        BY <3>2, <4>2, <4>3, <1>2 DEF InQueue
    <3> QED
      BY <3>1, <3>2, <1>6
  <2>3. TopicOrder'
    <3> SUFFICES ASSUME NEW i \in 1..Len(topic), NEW m \in 1..(topic[i].event.n - 1),
                        topic[i].event.by \notin crashed, sent'[m].by = topic[i].event.by
                 PROVE  InTopic(m, i - 1)'
      BY DEF TopicOrder
    <3> SUFFICES InTopic(m, i - 1)
      BY DEF InTopic
    <3>1. Known(topic[i].event, sent)
      BY DEF StreamInv, Origins
    <3>2. sent'[m] = sent[m]
      BY <3>1, <1>7 DEF Known
    <3> QED
      BY <3>2, <2>0 DEF InOrder, TopicOrder
  <2>4. PolledOrder'
    <3> SUFFICES ASSUME NEW i \in 1..Len(polled), NEW m \in 1..(polled[i].of.n - 1),
                        polled[i].of.by \notin crashed, sent'[m].by = polled[i].of.by
                 PROVE  InPolled(m, i - 1)'
      BY DEF PolledOrder
    <3> SUFFICES InPolled(m, i - 1)
      BY DEF InPolled
    <3>1. Known(polled[i].of, sent)
      BY DEF StreamInv, Origins
    <3>2. sent'[m] = sent[m]
      BY <3>1, <1>7 DEF Known
    <3> QED
      BY <3>2, <2>0 DEF InOrder, PolledOrder
  <2> QED
    BY <2>1, <2>2, <2>3, <2>4 DEF InOrder
<1> QED
  BY <1>4, <1>9, <1>10 DEF StreamInv

\* The head of a queue reaches the topic; it leaves the queue unless the broker is at fault.
LEMMA StreamDeliver ==
  ASSUME StreamInv, NEW p \in Procs, deliver(p)
  PROVE  StreamInv'
<1> DEFINE n == Len(topic)
           k == Len(queue[p])
<1> PICK msg : msg = queue[p][1]
  OBVIOUS
<1>0. /\ IsSequence(topic) /\ IsSequence(queue[p]) /\ DOMAIN queue = Procs /\ faults \in Nat
      /\ given \in Nat /\ given <= n /\ queue[p] # <<>>
      /\ UNCHANGED <<given, committed, sent, polled, crashed>>
  BY DEF StreamInv, Types, deliver
<1>1. k \in Nat /\ k >= 1 /\ Head(queue[p]) = msg /\ msg.event.by = p /\ Known(msg.event, sent)
  <2>1. k \in Nat /\ k >= 1 /\ Head(queue[p]) = msg
    BY <1>0, TailSequence, SequenceDomain
  <2> QED
    BY <2>1 DEF StreamInv, Origins
<1>2. topic' = Append(topic, msg)
  BY <1>1 DEF deliver
<1>3. /\ n \in Nat /\ IsSequence(topic') /\ Len(topic') = n + 1
      /\ \A i \in 1..n : topic'[i] = topic[i]
      /\ topic'[n + 1] = msg
  BY <1>0, <1>2, AppendSequence, SequenceDomain
<1>4. \/ faults' = faults + 1 /\ queue' = queue
      \/ /\ faults' = faults /\ DOMAIN queue' = Procs
         /\ \A q \in Procs : q # p => queue'[q] = queue[q]
         /\ IsSequence(queue'[p]) /\ Len(queue'[p]) = k - 1
         /\ \A i \in 1..(k - 1) : queue'[p][i] = queue[p][i + 1]
  <2>1. \/ faults' = faults + 1 /\ queue' = queue
        \/ faults' = faults /\ queue' = [queue EXCEPT ![p] = Tail(queue[p])]
    BY DEF deliver
  <2>2. ASSUME queue' = [queue EXCEPT ![p] = Tail(queue[p])]
        PROVE  /\ DOMAIN queue' = Procs
               /\ \A q \in Procs : q # p => queue'[q] = queue[q]
               /\ IsSequence(queue'[p]) /\ Len(queue'[p]) = k - 1
               /\ \A i \in 1..(k - 1) : queue'[p][i] = queue[p][i + 1]
    <3>1. queue'[p] = Tail(queue[p])
      BY <1>0, <2>2
    <3>2. DOMAIN queue' = Procs /\ \A q \in Procs : q # p => queue'[q] = queue[q]
      BY <1>0, <2>2
    <3> QED
      BY <1>0, <3>1, <3>2, TailSequence
  <2> QED
    BY <2>1, <2>2
<1> HIDE DEF n, k
<1>5. faults' \in Nat
  BY <1>0, <1>4
<1>6. Types'
  <2>1. given' <= Len(topic')
    BY <1>0, <1>3
  <2>2. DOMAIN queue' = Procs /\ \A q \in Procs : IsSequence(queue'[q])
    BY <1>4 DEF StreamInv, Types
  <2> QED
    BY <1>0, <1>3, <1>5, <2>1, <2>2 DEF StreamInv, Types
<1>7. \A q \in Procs : \A i \in 1..Len(queue'[q]) :
        \E j \in 1..Len(queue[q]) : queue'[q][i] = queue[q][j]
  <2> SUFFICES ASSUME NEW q \in Procs, NEW i \in 1..Len(queue'[q])
               PROVE  \E j \in 1..Len(queue[q]) : queue'[q][i] = queue[q][j]
    OBVIOUS
  <2>1. CASE queue'[q] = queue[q]
    BY <2>1
  <2>2. CASE /\ q = p /\ Len(queue'[p]) = k - 1
             /\ \A j \in 1..(k - 1) : queue'[p][j] = queue[p][j + 1]
    BY <2>2, <1>1 DEF k
  <2> QED
    BY <2>1, <2>2, <1>4
<1>8. Origins' /\ GivenPolled'
  <2>1. \A i \in 1..Len(topic') : Known(topic'[i].event, sent')
    BY <1>0, <1>1, <1>3 DEF StreamInv, Origins, n
  <2>2. \A q \in Procs : \A i \in 1..Len(queue'[q]) :
          Known(queue'[q][i].event, sent') /\ queue'[q][i].event.by = q
    <3> SUFFICES ASSUME NEW q \in Procs, NEW i \in 1..Len(queue'[q])
                 PROVE  Known(queue'[q][i].event, sent') /\ queue'[q][i].event.by = q
      OBVIOUS
    <3>1. PICK j \in 1..Len(queue[q]) : queue'[q][i] = queue[q][j]
      BY <1>7
    <3>2. Known(queue[q][j].event, sent) /\ queue[q][j].event.by = q
      BY DEF StreamInv, Origins
    <3> QED
      BY <1>0, <3>1, <3>2
  <2>3. \A i \in 1..Len(polled') : Known(polled'[i].of, sent')
    BY <1>0 DEF StreamInv, Origins
  <2>4. GivenPolled'
    <3>1. \A i \in 1..given : topic'[i] = topic[i]
      BY <1>0, <1>3
    <3> QED
      BY <1>0, <3>1 DEF StreamInv, GivenPolled, InPolled
  <2> QED
    BY <2>1, <2>2, <2>3, <2>4 DEF Origins
<1>9. ASSUME faults' = 0
      PROVE  InOrder'
  <2>0. InOrder
    BY <1>0, <1>4, <1>9 DEF StreamInv
  <2>1. /\ DOMAIN queue' = Procs
        /\ \A q \in Procs : q # p => queue'[q] = queue[q]
        /\ Len(queue'[p]) = k - 1
        /\ \A i \in 1..(k - 1) : queue'[p][i] = queue[p][i + 1]
    BY <1>0, <1>4, <1>9
  <2>2. ASSUME NEW m, InTopic(m, n)
        PROVE  InTopic(m, Len(topic))'
    BY <2>2, <1>3 DEF InTopic
  <2>3. InTopic(msg.event.n, Len(topic))'
    BY <1>3 DEF InTopic
  <2>4. NothingLost'
    <3> SUFFICES ASSUME NEW m \in 1..Len(sent), sent[m].by \in Procs \ crashed
                 PROVE  InTopic(m, Len(topic))' \/ InQueue(sent[m].by, m, Len(queue[sent[m].by]))'
      BY <1>0 DEF NothingLost
    <3> DEFINE q == sent[m].by
    <3>1. InTopic(m, n) \/ InQueue(q, m, Len(queue[q]))
      BY <2>0 DEF InOrder, NothingLost, n
    <3>2. CASE InTopic(m, n)
      BY <3>2, <2>2
    <3>3. CASE InQueue(q, m, Len(queue[q])) /\ q # p
      <4>1. queue'[q] = queue[q]
        BY <3>3, <2>1
      <4> QED
        BY <1>0, <3>3, <4>1 DEF InQueue
    <3>4. CASE InQueue(q, m, Len(queue[q])) /\ q = p
      <4>1. PICK i \in 1..k : queue[p][i].event.n = m
        BY <3>4 DEF InQueue, k
      <4>2. CASE i = 1
        BY <4>1, <4>2, <2>3
      <4>3. CASE i # 1
        <5>1. i - 1 \in 1..(k - 1) /\ (i - 1) + 1 = i
          BY <4>1, <4>3, <1>1
        <5>2. queue'[p][i - 1].event.n = m
          BY <5>1, <4>1, <2>1
        <5>3. \E j \in 1..Len(queue'[p]) : queue'[p][j].event.n = m
          BY <5>1, <5>2, <2>1
        <5> QED
          BY <1>0, <3>4, <5>3 DEF InQueue
      <4> QED
        BY <4>2, <4>3
    <3> QED
      BY <3>1, <3>2, <3>3, <3>4
  <2>5. QueueOrder'
    <3> SUFFICES ASSUME NEW q \in Procs, q \notin crashed, NEW i \in 1..Len(queue'[q]),
                        NEW m \in 1..(queue'[q][i].event.n - 1), sent[m].by = q
                 PROVE  InTopic(m, Len(topic))' \/ InQueue(q, m, i - 1)'
      BY <1>0 DEF QueueOrder
    <3>1. CASE q # p
      <4>1. queue'[q] = queue[q]
        BY <3>1, <2>1
      <4>2. InTopic(m, n) \/ InQueue(q, m, i - 1)
        BY <4>1, <2>0 DEF InOrder, QueueOrder, n
      <4> QED
        BY <4>1, <4>2, <2>2 DEF InQueue
    <3>2. CASE q = p
      <4>1. i \in 1..(k - 1) /\ i + 1 \in 1..k /\ queue'[p][i] = queue[p][i + 1] /\ (i + 1) - 1 = i
        BY <3>2, <2>1, <1>1
      <4>2. InTopic(m, n) \/ InQueue(p, m, i)
        <5>1. m \in 1..(queue[p][i + 1].event.n - 1)
          BY <3>2, <4>1
        <5>2. InTopic(m, n) \/ InQueue(p, m, (i + 1) - 1)
          BY <3>2, <4>1, <5>1, <2>0 DEF InOrder, QueueOrder, n, k
        <5> QED
          BY <4>1, <5>2
      <4>3. CASE InTopic(m, n)
        BY <4>3, <2>2
      <4>4. CASE InQueue(p, m, i)
        <5>1. PICK j \in 1..i : queue[p][j].event.n = m
          BY <4>4 DEF InQueue
        <5>2. CASE j = 1
          BY <5>1, <5>2, <2>3
        <5>3. CASE j # 1
          <6>1. j - 1 \in 1..(k - 1) /\ j - 1 \in 1..(i - 1) /\ (j - 1) + 1 = j
            BY <5>1, <5>3, <4>1, <1>1
          <6>2. queue'[p][j - 1].event.n = m
            BY <6>1, <5>1, <2>1
          <6> QED
            BY <3>2, <6>1, <6>2 DEF InQueue
        <5> QED
          BY <5>2, <5>3
      <4> QED
        BY <4>2, <4>3, <4>4
    <3> QED
      BY <3>1, <3>2
  <2>6. TopicOrder'
    <3> SUFFICES ASSUME NEW i \in 1..(n + 1), NEW m \in 1..(topic'[i].event.n - 1),
                        topic'[i].event.by \notin crashed, sent[m].by = topic'[i].event.by
                 PROVE  InTopic(m, i - 1)'
      BY <1>0, <1>3 DEF TopicOrder
    <3>1. CASE i \in 1..n
      <4>1. topic'[i] = topic[i] /\ \A j \in 1..(i - 1) : topic'[j] = topic[j]
        BY <3>1, <1>3
      <4>2. InTopic(m, i - 1)
        BY <3>1, <4>1, <2>0 DEF InOrder, TopicOrder, n
      <4> QED
        BY <4>1, <4>2 DEF InTopic
    <3>2. CASE i = n + 1
      <4>1. m \in 1..(queue[p][1].event.n - 1) /\ sent[m].by = p /\ p \notin crashed
        BY <3>2, <1>1, <1>3
      <4>2. 1 \in 1..k
        BY <1>1
      <4>3. InTopic(m, n) \/ InQueue(p, m, 1 - 1)
        BY <4>1, <4>2, <2>0 DEF InOrder, QueueOrder, n, k
      <4>4. InTopic(m, n)
        BY <4>3 DEF InQueue
      <4>5. i - 1 = n
        BY <3>2, <1>3
      <4> QED
        BY <4>4, <4>5, <1>3 DEF InTopic
    <3> QED
      BY <3>1, <3>2, <1>3
  <2>7. PolledOrder'
    BY <1>0, <2>0 DEF InOrder, PolledOrder, InPolled
  <2> QED
    BY <2>4, <2>5, <2>6, <2>7 DEF InOrder
<1> QED
  BY <1>6, <1>8, <1>9 DEF StreamInv

\* Steps that leave the topic, what was sent and what was polled alone, and keep of each
\* queue some of its messages in any order.
LEMMA StreamQueues ==
  ASSUME StreamInv, DOMAIN queue' = Procs, \A q \in Procs : IsSequence(queue'[q]),
         \A q \in Procs : \A i \in 1..Len(queue'[q]) :
           \E j \in 1..Len(queue[q]) : queue'[q][i] = queue[q][j],
         given' \in Nat, committed' \in Nat, given' <= given, faults' \in Nat,
         UNCHANGED <<topic, sent, polled>>
  PROVE  Types' /\ Origins' /\ GivenPolled'
<1>1. given \in Nat /\ Len(topic) \in Nat /\ given <= Len(topic)
  BY SequenceDomain DEF StreamInv, Types
<1>2. given' <= Len(topic') /\ \A i \in 1..given' : i \in 1..given
  BY <1>1
<1>3. Types'
  BY <1>2 DEF StreamInv, Types
<1>4. GivenPolled'
  BY <1>2 DEF StreamInv, GivenPolled, InPolled
<1>5. \A q \in Procs : \A i \in 1..Len(queue'[q]) :
        Known(queue'[q][i].event, sent') /\ queue'[q][i].event.by = q
  <2> SUFFICES ASSUME NEW q \in Procs, NEW i \in 1..Len(queue'[q])
               PROVE  Known(queue'[q][i].event, sent') /\ queue'[q][i].event.by = q
    OBVIOUS
  <2>1. PICK j \in 1..Len(queue[q]) : queue'[q][i] = queue[q][j]
    OBVIOUS
  <2>2. Known(queue[q][j].event, sent) /\ queue[q][j].event.by = q
    BY DEF StreamInv, Origins
  <2> QED
    BY <2>1, <2>2
<1>6. Origins'
  BY <1>5 DEF StreamInv, Origins
<1> QED
  BY <1>3, <1>4, <1>6

\* A message is tried again after the one behind it: a fault of the broker.
LEMMA StreamReorder ==
  ASSUME StreamInv, NEW p \in Procs, reorder(p)
  PROVE  StreamInv'
<1> DEFINE s == queue[p]
           k == Len(s)
           a == <<s[2], s[1]>>
           b == SubSeq(s, 3, k)
<1>0. /\ IsSequence(s) /\ DOMAIN queue = Procs /\ faults \in Nat /\ given \in Nat
      /\ committed \in Nat /\ k > 1 /\ faults' = faults + 1
      /\ queue' = [queue EXCEPT ![p] = a \o b]
      /\ UNCHANGED <<topic, given, committed, sent, polled, crashed>>
  BY DEF StreamInv, Types, reorder
<1>1. PICK S : s \in Seq(S)
  BY <1>0 DEF IsSequence
<1>2. k \in Nat /\ \A i \in 1..k : s[i] \in S
  BY <1>1
<1>3. a \in Seq(S) /\ Len(a) = 2
  BY <1>0, <1>2
<1>4. b \in Seq(S) /\ Len(b) = k - 2 /\ \A i \in 1..(k - 2) : b[i] = s[i + 2]
  <2> HIDE DEF s, k
  <2>1. \A i \in 3..k : s[i] \in S
    BY <1>2
  <2>2. k >= 2 /\ k \in Int /\ 3 \in Int
    BY <1>0, <1>2
  <2>3. CASE k = 2
    <3>1. b = <<>>
      BY <2>3, SubSeqProperties
    <3> QED
      BY <2>3, <3>1
  <2>4. CASE k # 2
    <3>1. 3 <= k + 1 /\ k - 3 + 1 = k - 2
      BY <2>2, <2>4
    <3>2. /\ SubSeq(s, 3, k) \in Seq(S)
          /\ Len(SubSeq(s, 3, k)) = IF 3 <= k THEN k - 3 + 1 ELSE 0
          /\ \A i \in 1..(k - 3 + 1) : SubSeq(s, 3, k)[i] = s[3 + i - 1]
      BY <2>1, <2>2, SubSeqProperties
    <3> QED
      BY <2>2, <2>4, <3>2
  <2> QED
    BY <2>3, <2>4
<1> HIDE DEF b
<1>5. /\ a \o b \in Seq(S) /\ Len(a \o b) = k
      /\ \A i \in 1..k : (a \o b)[i] = IF i <= 2 THEN a[i] ELSE b[i - 2]
  <2>0. Len(a) + Len(b) = k
    BY <1>0, <1>2, <1>3, <1>4
  <2>1. /\ a \o b \in Seq(S) /\ Len(a \o b) = Len(a) + Len(b)
        /\ \A i \in 1..(Len(a) + Len(b)) : (a \o b)[i] = IF i <= Len(a) THEN a[i] ELSE b[i - Len(a)]
    <3>1. a \in Seq(S) /\ b \in Seq(S)
      BY <1>3, <1>4
    <3> HIDE DEF a, k, s
    <3> QED
      BY <3>1, ConcatProperties
  <2> HIDE DEF a
  <2> QED
    BY <2>0, <2>1, <1>3
<1>6. \A i \in 1..k : \E j \in 1..k : (a \o b)[i] = s[j]
  <2> SUFFICES ASSUME NEW i \in 1..k PROVE \E j \in 1..k : (a \o b)[i] = s[j]
    OBVIOUS
  <2>1. CASE i <= 2
    <3>1. i = 1 \/ i = 2
      BY <2>1
    <3>2. a[1] = s[2] /\ a[2] = s[1] /\ 1 \in 1..k /\ 2 \in 1..k
      BY <1>0, <1>2
    <3> QED
      BY <1>5, <2>1, <3>1, <3>2
  <2>2. CASE i > 2
    <3>1. i - 2 \in 1..(k - 2) /\ (i - 2) + 2 = i
      BY <2>2, <1>2
    <3>2. (a \o b)[i] = b[i - 2]
      BY <1>5, <2>2
    <3> QED
      BY <1>4, <3>1, <3>2
  <2>3. i <= 2 \/ i > 2
    BY <1>2
  <2> QED
    BY <2>1, <2>2, <2>3
<1> HIDE DEF a, s, k
<1>7. queue'[p] = a \o b /\ DOMAIN queue' = Procs /\ \A q \in Procs : q # p => queue'[q] = queue[q]
  BY <1>0
<1>8. IsSequence(queue'[p]) /\ \A q \in Procs : IsSequence(queue'[q])
  BY <1>5, <1>7 DEF IsSequence, StreamInv, Types
<1>9. \A q \in Procs : \A i \in 1..Len(queue'[q]) :
           \E j \in 1..Len(queue[q]) : queue'[q][i] = queue[q][j]
  <2> SUFFICES ASSUME NEW q \in Procs, NEW i \in 1..Len(queue'[q])
               PROVE  \E j \in 1..Len(queue[q]) : queue'[q][i] = queue[q][j]
    OBVIOUS
  <2>1. CASE q = p
    BY <2>1, <1>5, <1>6, <1>7 DEF s, k
  <2>2. CASE q # p
    BY <2>2, <1>7
  <2> QED
    BY <2>1, <2>2
<1>10. faults' \in Nat /\ faults' # 0 /\ given' \in Nat /\ given' <= given /\ committed' \in Nat
  BY <1>0
<1>11. Types' /\ Origins' /\ GivenPolled'
  BY <1>0, <1>7, <1>8, <1>9, <1>10, StreamQueues
<1> QED
  BY <1>10, <1>11 DEF StreamInv

\* A process ends or is killed: what it leaves in its queue is of no use any more, and if
\* there is anything the process has crashed.  Offsets only go back.
LEMMA StreamEnd ==
  ASSUME StreamInv, NEW p \in Procs,
         queue' = [queue EXCEPT ![p] = <<>>], queue[p] = <<>> \/ p \in crashed',
         crashed \subseteq crashed',
         given' \in Nat, committed' \in Nat, given' <= given,
         UNCHANGED <<topic, sent, polled, faults>>
  PROVE  StreamInv'
<1>0. DOMAIN queue = Procs /\ faults \in Nat
  BY DEF StreamInv, Types
<1>1. /\ queue'[p] = <<>> /\ DOMAIN queue' = Procs
      /\ \A q \in Procs : q # p => queue'[q] = queue[q]
  BY <1>0
<1>2. \A q \in Procs : q \notin crashed' => queue'[q] = queue[q]
  BY <1>1
<1>3. \A q \in Procs : IsSequence(queue'[q])
  BY <1>1, EmptySequence DEF StreamInv, Types
<1>4. \A q \in Procs : \A i \in 1..Len(queue'[q]) :
           \E j \in 1..Len(queue[q]) : queue'[q][i] = queue[q][j]
  BY <1>1, EmptySequence
<1>5. Types' /\ Origins' /\ GivenPolled'
  BY <1>0, <1>1, <1>3, <1>4, StreamQueues
<1>6. ASSUME faults' = 0
      PROVE  InOrder'
  <2>0. InOrder
    BY <1>6 DEF StreamInv
  <2>1. NothingLost'
    <3> SUFFICES ASSUME NEW m \in 1..Len(sent), sent[m].by \in Procs \ crashed'
                 PROVE  InTopic(m, Len(topic))' \/ InQueue(sent[m].by, m, Len(queue[sent[m].by]))'
      BY DEF NothingLost
    <3> DEFINE q == sent[m].by
    <3>1. InTopic(m, Len(topic)) \/ InQueue(q, m, Len(queue[q]))
      BY <2>0 DEF InOrder, NothingLost
    <3>2. queue'[q] = queue[q]
      BY <1>2
    <3> QED
      BY <3>1, <3>2 DEF InTopic, InQueue
  <2>2. QueueOrder'
    <3> SUFFICES ASSUME NEW q \in Procs \ crashed', NEW i \in 1..Len(queue'[q]),
                        NEW m \in 1..(queue'[q][i].event.n - 1), sent[m].by = q
                 PROVE  InTopic(m, Len(topic))' \/ InQueue(q, m, i - 1)'
      BY DEF QueueOrder
    <3>1. queue'[q] = queue[q] /\ q \in Procs \ crashed
      BY <1>2
    <3>2. InTopic(m, Len(topic)) \/ InQueue(q, m, i - 1)
      BY <3>1, <2>0 DEF InOrder, QueueOrder
    <3> QED
      BY <3>1, <3>2 DEF InTopic, InQueue
  <2>3. TopicOrder'
    BY <2>0 DEF InOrder, TopicOrder, InTopic
  <2>4. PolledOrder'
    BY <2>0 DEF InOrder, PolledOrder, InPolled
  <2> QED
    BY <2>1, <2>2, <2>3, <2>4 DEF InOrder
<1> QED
  BY <1>5, <1>6 DEF StreamInv

\* A consumer polls the next message: all before it in the topic have been polled.
LEMMA StreamPoll ==
  ASSUME StreamInv, given < Len(topic), given' = given + 1, NEW r, r.of = topic[given + 1].event,
         polled' = Append(polled, r),
         UNCHANGED <<queue, topic, committed, sent, crashed, faults>>
  PROVE  StreamInv'
<1> DEFINE n == Len(polled)
           x == given + 1
<1>0. /\ IsSequence(polled) /\ given \in Nat /\ Len(topic) \in Nat
      /\ x \in 1..Len(topic) /\ x - 1 = given
  BY SequenceDomain DEF StreamInv, Types
<1>1. /\ n \in Nat /\ IsSequence(polled') /\ Len(polled') = n + 1
      /\ \A i \in 1..n : polled'[i] = polled[i]
      /\ polled'[n + 1] = r
  BY <1>0, AppendSequence, SequenceDomain
<1> HIDE DEF n
<1>2. Types'
  BY <1>0, <1>1 DEF StreamInv, Types
<1>3. Origins'
  <2>1. Known(topic[x].event, sent)
    BY <1>0 DEF StreamInv, Origins
  <2>2. \A i \in 1..(n + 1) : Known(polled'[i].of, sent)
    BY <1>1, <2>1 DEF StreamInv, Origins, n
  <2> QED
    BY <1>1, <2>2 DEF StreamInv, Origins
<1>4. ASSUME NEW m, InPolled(m, n)
      PROVE  \E i \in 1..(n + 1) : polled'[i].of.n = m
  BY <1>1, <1>4 DEF InPolled
<1>5. GivenPolled'
  <2> SUFFICES ASSUME NEW i \in 1..x
               PROVE  \E j \in 1..(n + 1) : polled'[j].of.n = topic[i].event.n
    BY <1>1 DEF GivenPolled, InPolled
  <2>1. CASE i \in 1..given
    BY <2>1, <1>4 DEF StreamInv, GivenPolled, n
  <2>2. CASE i = x
    BY <2>2, <1>1
  <2>3. i \in 1..given \/ i = x
    BY <1>0
  <2> QED
    BY <2>1, <2>2, <2>3
<1>6. ASSUME faults' = 0
      PROVE  InOrder'
  <2>0. InOrder
    BY <1>6 DEF StreamInv
  <2>1. NothingLost' /\ QueueOrder' /\ TopicOrder'
    BY <2>0 DEF InOrder, NothingLost, QueueOrder, TopicOrder, InTopic, InQueue
  <2>2. PolledOrder'
    <3> SUFFICES ASSUME NEW i \in 1..(n + 1), NEW m \in 1..(polled'[i].of.n - 1),
                        polled'[i].of.by \notin crashed, sent[m].by = polled'[i].of.by
                 PROVE  InPolled(m, i - 1)'
      BY <1>1 DEF PolledOrder
    <3>1. CASE i \in 1..n
      <4>1. polled'[i] = polled[i] /\ \A j \in 1..(i - 1) : polled'[j] = polled[j]
        BY <3>1, <1>1
      <4>2. InPolled(m, i - 1)
        BY <3>1, <4>1, <2>0 DEF InOrder, PolledOrder, n
      <4> QED
        BY <4>1, <4>2 DEF InPolled
    <3>2. CASE i = n + 1
      <4>1. m \in 1..(topic[x].event.n - 1) /\ topic[x].event.by \notin crashed
            /\ sent[m].by = topic[x].event.by
        BY <3>2, <1>1
      <4>2. InTopic(m, x - 1)
        BY <4>1, <1>0, <2>0 DEF InOrder, TopicOrder
      <4>3. PICK j \in 1..given : topic[j].event.n = m
        BY <4>2, <1>0 DEF InTopic
      <4>4. InPolled(m, n)
        BY <4>3 DEF StreamInv, GivenPolled, n
      <4>5. i - 1 = n
        BY <3>2, <1>1
      <4> QED
        BY <4>4, <4>5, <1>1 DEF InPolled
    <3> QED
      BY <3>1, <3>2, <1>1
  <2> QED
    BY <2>1, <2>2 DEF InOrder
<1> QED
  BY <1>2, <1>3, <1>5, <1>6 DEF StreamInv

LEMMA StreamStep == StreamInv /\ [Next]_vars => StreamInv'
<1> SUFFICES ASSUME StreamInv, [Next]_vars PROVE StreamInv'
  OBVIOUS
<1>0. Writers \subseteq Procs /\ Producers \subseteq Procs /\ Consumers \subseteq Procs
  BY DEF Writers, Procs
<1>1. ASSUME NEW p \in Procs, NEW k, NEW v, __setitem__(p, k, v)
      PROVE  StreamInv'
  <2>1. CASE UNCHANGED <<queue, sent>>
    BY <1>1, <2>1, StreamSame DEF __setitem__, flow
  <2>2. CASE /\ queue' = [queue EXCEPT ![p] = Append(@, Message(KeyRow(k), ValueRow(v), Event(p, k, v)))]
             /\ sent' = Append(sent, Event(p, k, v))
    <3> DEFINE msg == Message(KeyRow(k), ValueRow(v), Event(p, k, v))
    <3>1. msg.event = Event(p, k, v) /\ msg.event.by = p /\ msg.event.n = Len(sent) + 1
      BY DEF Message, Event
    <3>2. UNCHANGED <<topic, given, committed, polled, crashed, faults>>
      BY <1>1 DEF __setitem__
    <3> HIDE DEF msg
    <3>3. queue' = [queue EXCEPT ![p] = Append(@, msg)] /\ sent' = Append(sent, msg.event)
      BY <2>2, <3>1 DEF msg
    <3> QED
      BY <3>1, <3>2, <3>3, StreamSend
  <2> QED
    BY <1>1, <2>1, <2>2 DEF __setitem__
<1>2. ASSUME NEW p \in Procs, NEW k, NEW v, send(p, k, v)
      PROVE  StreamInv'
  <2>1. CASE UNCHANGED <<queue, sent>>
    BY <1>2, <2>1, StreamSame DEF send, flow
  <2>2. CASE /\ queue' = [queue EXCEPT ![p] = Append(@, Message(KeyRow(k), ValueRow(v), Event(p, k, v)))]
             /\ sent' = Append(sent, Event(p, k, v))
    <3> DEFINE msg == Message(KeyRow(k), ValueRow(v), Event(p, k, v))
    <3>1. msg.event = Event(p, k, v) /\ msg.event.by = p /\ msg.event.n = Len(sent) + 1
      BY DEF Message, Event
    <3>2. UNCHANGED <<topic, given, committed, polled, crashed, faults>>
      BY <1>2 DEF send
    <3> HIDE DEF msg
    <3>3. queue' = [queue EXCEPT ![p] = Append(@, msg)] /\ sent' = Append(sent, msg.event)
      BY <2>2, <3>1 DEF msg
    <3> QED
      BY <3>1, <3>2, <3>3, StreamSend
  <2> QED
    BY <1>2, <2>1, <2>2 DEF send
<1>3. ASSUME NEW p \in Procs, close_stream(p)
      PROVE  StreamInv'
  <2> DEFINE key == make_tuple(table.keys, [i \in DOMAIN table.keys |-> Null])
             val == make_tuple(table.cols, [i \in DOMAIN table.cols |-> Null])
             msg == Message(key, val, EndOf(p))
  <2>1. CASE UNCHANGED <<queue, sent>>
    BY <1>3, <2>1, StreamSame DEF close_stream, flow
  <2>2. CASE queue' = [queue EXCEPT ![p] = Append(@, msg)] /\ sent' = Append(sent, EndOf(p))
    <3>1. msg.event = EndOf(p) /\ msg.event.by = p /\ msg.event.n = Len(sent) + 1
      BY DEF Message, EndOf, Event
    <3>2. UNCHANGED <<topic, given, committed, polled, crashed, faults>>
      BY <1>3 DEF close_stream
    <3>3. queue' = [queue EXCEPT ![p] = Append(@, msg)] /\ sent' = Append(sent, msg.event)
      BY <2>2, <3>1
    <3> HIDE DEF msg
    <3> QED
      BY <3>1, <3>2, <3>3, StreamSend
  <2> QED
    BY <1>3, <2>1, <2>2 DEF close_stream
<1>4. ASSUME NEW p \in Procs, NEW k, __getitem__(p, k)
      PROVE  StreamInv'
  BY <1>4, StreamSame DEF __getitem__, flow
<1>5. ASSUME NEW p \in Procs, NEW k, NEW v, registerNumpy(p, k, v)
      PROVE  StreamInv'
  BY <1>5, StreamSame DEF registerNumpy, flow
<1>6. ASSUME NEW p \in Procs, write_arrives(p) \/ open(p)
      PROVE  StreamInv'
  BY <1>6, StreamSame DEF write_arrives, open, flow
<1>7. ASSUME NEW p \in Procs, dealloc(p)
      PROVE  StreamInv'
  <2>1. given \in Nat /\ committed \in Nat /\ given' = given /\ given' <= given /\ committed' \in Nat
    BY <1>7 DEF dealloc, Committed, StreamInv, Types
  <2>2. /\ queue' = [queue EXCEPT ![p] = <<>>] /\ queue[p] = <<>> /\ crashed' = crashed
        /\ UNCHANGED <<topic, sent, polled, faults>>
    BY <1>7 DEF dealloc, Drained
  <2> QED
    BY <2>1, <2>2, StreamEnd
<1>8. ASSUME NEW p \in Procs, crash(p)
      PROVE  StreamInv'
  <2>0. given \in Nat /\ committed \in Nat
    BY DEF StreamInv, Types
  <2>1. given' \in Nat /\ given' <= given /\ committed' \in Nat
    BY <1>8, <2>0 DEF crash
  <2>2. /\ queue' = [queue EXCEPT ![p] = <<>>] /\ crashed' = crashed \cup {p}
        /\ UNCHANGED <<topic, sent, polled, faults>>
    BY <1>8 DEF crash
  <2> QED
    BY <2>1, <2>2, StreamEnd
<1>9. ASSUME NEW p \in Procs, deliver(p) \/ reorder(p)
      PROVE  StreamInv'
  BY <1>9, StreamDeliver, StreamReorder
<1>10. ASSUME NEW c \in Procs, poll(c)
       PROVE  StreamInv'
  <2>1. /\ given < Len(topic) /\ given' = given + 1
        /\ UNCHANGED <<queue, topic, committed, sent, crashed, faults>>
    BY <1>10 DEF poll
  <2>2. \E row, raised : polled' = Append(polled, [row |-> row, of |-> topic[given + 1].event, raised |-> raised])
    BY <1>10 DEF poll
  <2>3. PICK row, raised : polled' = Append(polled, [row |-> row, of |-> topic[given + 1].event, raised |-> raised])
    BY <2>2
  <2> DEFINE r == [row |-> row, of |-> topic[given + 1].event, raised |-> raised]
  <2>4. r.of = topic[given + 1].event /\ polled' = Append(polled, r)
    BY <2>3
  <2> HIDE DEF r
  <2> QED
    BY <2>1, <2>4, StreamPoll
<1>11. CASE UNCHANGED vars
  BY <1>11, StreamSame DEF vars, flow
<1>12. ASSUME NEW p \in Writers, NEW r \in table.rows,
              \/ __setitem__(p, r[1], r[2]) \/ send(p, r[1], r[2]) \/ registerNumpy(p, r[1], r[2])
              \/ __getitem__(p, r[1])
       PROVE  StreamInv'
  BY <1>0, <1>1, <1>2, <1>4, <1>5, <1>12
<1> QED
  BY <1>0, <1>3, <1>6, <1>7, <1>8, <1>9, <1>10, <1>11, <1>12 DEF Next

LEMMA StreamInvariant == Spec => []StreamInv
BY StreamInit, StreamStep, PTL DEF Spec

\* The end of a stream comes last: whatever a producer that did not crash has sent before
\* it closed its stream was given to the consumers before they are given the end mark, in
\* whatever way sends, deliveries, polls, restarts of the dict and crashes of the other
\* processes interleave, as long as the broker neither duplicates nor delays a message.
THEOREM EndTheorem == Spec => []EndAfterAll
<1>1. StreamInv => EndAfterAll
  <2> SUFFICES ASSUME StreamInv, NEW i \in DOMAIN polled, faults = 0, polled[i].of.by \notin crashed,
                      NEW m \in 1..(polled[i].of.n - 1), sent[m].by = polled[i].of.by
               PROVE  \E j \in 1..(i - 1) : polled[j].of.n = m
    BY DEF EndAfterAll
  <2>1. i \in 1..Len(polled)
    BY SequenceDomain DEF StreamInv, Types
  <2> QED
    BY <2>1 DEF StreamInv, InOrder, PolledOrder, InPolled
<1> QED
  BY <1>1, StreamInvariant, PTL

=============================================================================
