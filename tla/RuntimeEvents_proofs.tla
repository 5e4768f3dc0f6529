------------------------ MODULE RuntimeEvents_proofs ------------------------
(* Theorems about RuntimeEvents, for every set of signals and history limit. *)
EXTENDS RuntimeEvents, SequenceTheorems, TLAPS

\* Trimming keeps the last HistoryLimit elements.
LEMMA TrimmedProperties ==
    ASSUME NEW S, NEW h \in Seq(S)
    PROVE  /\ Trimmed(h) \in Seq(S)
           /\ Len(Trimmed(h)) = IF Len(h) > HistoryLimit THEN HistoryLimit ELSE Len(h)
           /\ \A i \in 1..Len(Trimmed(h)) :
                 Trimmed(h)[i] = h[Len(h) - Len(Trimmed(h)) + i]
<1>1. HistoryLimit \in Nat \ {0} /\ Len(h) \in Nat
  BY LimitAssumption
<1>2. CASE Len(h) > HistoryLimit
  <2> DEFINE m == Len(h) - HistoryLimit + 1
  <2>1. m \in 1..Len(h) /\ Trimmed(h) = SubSeq(h, m, Len(h))
    BY <1>1, <1>2 DEF Trimmed
  <2>2. /\ SubSeq(h, m, Len(h)) \in Seq(S)
        /\ Len(SubSeq(h, m, Len(h))) = Len(h) - m + 1
        /\ \A i \in 1..(Len(h) - m + 1) : SubSeq(h, m, Len(h))[i] = h[m + i - 1]
    BY <1>1, <2>1, SubSeqProperties
  <2> QED BY <1>1, <1>2, <2>1, <2>2
<1>3. CASE ~(Len(h) > HistoryLimit)
  BY <1>1, <1>3 DEF Trimmed
<1> QED BY <1>2, <1>3

\* What a client is sent first: nothing, a resync, or the end of the history
\* after the place of its id.
LEMMA EventsSinceCases ==
    ASSUME TypeOK, NEW id \in Nat \cup {NoId}
    PROVE  \/ EventsSince(id) = <<>> /\ (id = NoId \/ id = revision)
           \/ EventsSince(id) = <<Resync>>
           \/ EventsSince(id) = history /\ id = 0 /\ history # <<>> /\ history[1].revision = 1
           \/ \E k \in DOMAIN history : history[k].revision = id
                 /\ EventsSince(id) = SubSeq(history, k + 1, Len(history))
<1>1. CASE Position(id) # {}
  <2> DEFINE k == CHOOSE i \in Position(id) : TRUE
  <2>1. k \in Position(id)
    BY <1>1
  <2>2. k \in DOMAIN history /\ history[k].revision = id
    BY <2>1 DEF Position
  <2> HIDE DEF k
  <2> QED BY <1>1, <2>2 DEF EventsSince, k
<1>2. CASE Position(id) = {}
  BY <1>2 DEF EventsSince
<1> QED BY <1>1, <1>2

LEMMA EventsSinceType ==
    ASSUME TypeOK, NEW id \in Nat \cup {NoId}
    PROVE  EventsSince(id) \in Seq(Envelope)
<1>1. <<Resync>> \in Seq(Envelope) /\ <<>> \in Seq(Envelope)
  BY DEF TypeOK, Resync, Envelope
<1>2. ASSUME NEW k \in DOMAIN history
      PROVE  SubSeq(history, k + 1, Len(history)) \in Seq(Envelope)
  BY <1>2 DEF TypeOK
<1>3. history \in Seq(Envelope)
  BY DEF TypeOK
<1> QED BY <1>1, <1>2, <1>3, EventsSinceCases

LEMMA TypeInit == Init => TypeOK
<1> SUFFICES ASSUME Init PROVE TypeOK
  OBVIOUS
<1>1. history \in Seq(Envelope) /\ Len(history) <= HistoryLimit
  BY LimitAssumption DEF Init
<1>2. stream \in Seq(Envelope)
  BY DEF Init
<1>3. announced \in [Signals -> Nat]
  BY DEF Init
<1> QED BY <1>1, <1>2, <1>3 DEF Init, TypeOK

\* Every step keeps the types and the bound of the history.
LEMMA TypeStep == TypeOK /\ [Next]_vars => TypeOK'
<1> SUFFICES ASSUME TypeOK, [Next]_vars PROVE TypeOK'
  OBVIOUS
<1> USE DEF server, client, ghosts, counters
<1>1. ASSUME NEW s \in Signals, Accept(s) PROVE TypeOK'
  BY <1>1 DEF Accept, TypeOK
<1>2. CASE Flush
  <2> DEFINE envelope == [revision |-> revision + 1, signals |-> pending]
  <2>1. envelope \in Envelope
    BY DEF TypeOK, Envelope
  <2>2. Append(history, envelope) \in Seq(Envelope)
    BY <2>1 DEF TypeOK
  <2>3. history' = Trimmed(Append(history, envelope))
    BY <1>2 DEF Flush
  <2>4. history' \in Seq(Envelope) /\ Len(history') <= HistoryLimit
    <3> DEFINE h == Append(history, envelope)
    <3> HIDE DEF h, envelope
    <3>1. /\ Trimmed(h) \in Seq(Envelope)
          /\ Len(Trimmed(h)) = IF Len(h) > HistoryLimit THEN HistoryLimit ELSE Len(h)
      BY <2>2, TrimmedProperties DEF h
    <3>2. Len(h) \in Nat
      BY <2>2 DEF h
    <3> QED BY <2>3, <3>1, <3>2, LimitAssumption DEF h
  <2>5. stream' \in Seq(Envelope)
    BY <1>2, <2>1 DEF Flush, TypeOK
  <2>6. announced' \in [Signals -> Nat]
    BY <1>2 DEF Flush, TypeOK
  <2> QED BY <1>2, <2>4, <2>5, <2>6 DEF Flush, TypeOK
<1>3. CASE Stop
  <2>1. history' \in Seq(Envelope) /\ Len(history') <= HistoryLimit
    BY <1>3, LimitAssumption DEF Stop
  <2>2. stream' \in Seq(Envelope) /\ announced' \in [Signals -> Nat]
    BY <1>3 DEF Stop
  <2>3. link' \in {"starting", "stopped", "connecting", "open", "waiting"}
    BY <1>3 DEF Stop, TypeOK
  <2>4. /\ up' = FALSE /\ idIsCurrent' = FALSE /\ pending' = {} /\ revision' = 0
        /\ restarts' = restarts + 1
        /\ UNCHANGED <<initialized, lastEventId, changes, drops>>
    BY <1>3 DEF Stop
  <2>5. pending' \subseteq Signals /\ revision' \in Nat
    BY <2>4
  <2>6. /\ up' \in BOOLEAN /\ idIsCurrent' \in BOOLEAN /\ initialized' \in BOOLEAN
    BY <2>4, ZenonT(20) DEF TypeOK
  <2>7. /\ lastEventId' \in Nat \cup {NoId}
        /\ changes' \in Nat /\ drops' \in Nat /\ restarts' \in Nat
    BY <2>4 DEF TypeOK
  <2> QED BY <2>1, <2>2, <2>3, <2>5, <2>6, <2>7, ZenonT(20) DEF TypeOK
<1>4. CASE Start
  BY <1>4 DEF Start, TypeOK
<1>5. CASE Initialize
  BY <1>5 DEF Initialize, TypeOK
<1>6. CASE InitializeFails
  BY <1>6 DEF InitializeFails, TypeOK
<1>7. CASE Subscribe
  BY <1>7 DEF Subscribe, TypeOK
<1>8. CASE Connect
  <2>1. stream' \in Seq(Envelope)
    BY <1>8, EventsSinceType DEF Connect, TypeOK
  <2> QED BY <1>8, <2>1 DEF Connect, TypeOK
<1>9. CASE ConnectFails
  <2>1. drops' \in Nat
    BY <1>9 DEF ConnectFails, TypeOK
  <2> QED BY <1>9, <2>1 DEF ConnectFails, TypeOK
<1>10. CASE Deliver
  <2>1. Head(stream) \in Envelope /\ Tail(stream) \in Seq(Envelope)
    BY <1>10 DEF Deliver, TypeOK
  <2>2. lastEventId' \in Nat
    BY <1>10, <2>1 DEF Deliver, Envelope
  <2> QED BY <1>10, <2>1, <2>2 DEF Deliver, TypeOK
<1>11. CASE Drop
  BY <1>11 DEF Drop, TypeOK
<1>12. CASE Retry
  BY <1>12 DEF Retry, TypeOK
<1>14. CASE Unsubscribe
  BY <1>14 DEF Unsubscribe, TypeOK
<1>13. CASE UNCHANGED vars
  BY <1>13 DEF vars, TypeOK
<1> QED
  BY <1>1, <1>2, <1>3, <1>4, <1>5, <1>6, <1>7, <1>8, <1>9, <1>10, <1>11, <1>12, <1>13, <1>14
     DEF Next

\* The variables keep their types and the history its bound.
THEOREM TypeCorrect == Spec => []TypeOK
<1> QED BY TypeInit, TypeStep, PTL DEF Spec

-----------------------------------------------------------------------------
LEMMA EventsInit == Init => EventsInv
BY DEF Init, EventsInv, Contiguous, Recorded, Sent, InOrder, NothingMissed

\* A client that reconnects with the id of an event of this process is sent
\* everything flushed since, in order; with another id, what it is sent is in
\* order up to the last flush.
LEMMA ReplayCovers ==
    ASSUME TypeOK, Len(history) <= revision, Contiguous, Recorded,
           NEW id \in Nat \cup {NoId}, NEW s \in Signals
    PROVE  /\ \A i \in DOMAIN EventsSince(id) :
                announced[s] > EventsSince(id)[i].revision =>
                   \E j \in DOMAIN EventsSince(id) :
                      /\ j > i /\ s \in EventsSince(id)[j].signals
                      /\ EventsSince(id)[j].revision >= announced[s]
           /\ id # NoId /\ id <= revision /\ announced[s] > id =>
                 \E j \in DOMAIN EventsSince(id) :
                    /\ s \in EventsSince(id)[j].signals
                    /\ EventsSince(id)[j].revision >= announced[s]
<1> DEFINE E == EventsSince(id)
           n == Len(history)
<1>1. /\ n \in Nat /\ revision \in Nat /\ announced[s] \in Nat
      /\ announced[s] <= revision /\ history \in Seq(Envelope)
      /\ \A i \in DOMAIN history : history[i].revision = revision - n + i
  BY DEF TypeOK, Recorded, Contiguous
<1>2. CASE E = <<>> /\ (id = NoId \/ id = revision)
  BY <1>1, <1>2
<1>3. CASE E = <<Resync>>
  <2>1. E[1].revision = revision /\ E[1].signals = Signals /\ DOMAIN E = {1}
    BY <1>3 DEF Resync
  <2> QED BY <1>1, <2>1
<1>4. CASE E = history /\ id = 0 /\ history # <<>> /\ history[1].revision = 1
  <2>1. revision - n = 0
    BY <1>1, <1>4
  <2>2. announced[s] > 0 => \E j \in DOMAIN history :
           history[j].revision = announced[s] /\ s \in history[j].signals
    BY <1>1, <2>1 DEF Recorded
  <2> QED BY <1>1, <1>4, <2>1, <2>2
<1>5. ASSUME NEW k \in DOMAIN history, history[k].revision = id,
             E = SubSeq(history, k + 1, n)
      PROVE  /\ \A i \in DOMAIN E : announced[s] > E[i].revision =>
                   \E j \in DOMAIN E : /\ j > i /\ s \in E[j].signals
                                       /\ E[j].revision >= announced[s]
             /\ announced[s] > id =>
                   \E j \in DOMAIN E : /\ s \in E[j].signals
                                       /\ E[j].revision >= announced[s]
  <2>1. k \in 1..n /\ id = revision - n + k
    BY <1>1, <1>5
  <2>2. DOMAIN E = 1..(n - k) /\ \A j \in 1..(n - k) : E[j] = history[k + j]
    BY <1>1, <1>5, <2>1
  <2>3. \A j \in DOMAIN E : E[j].revision = revision - n + k + j
    <3> SUFFICES ASSUME NEW j \in 1..(n - k) PROVE E[j].revision = revision - n + k + j
      BY <2>2
    <3>1. k + j \in DOMAIN history /\ revision - n + (k + j) = revision - n + k + j
      BY <1>1, <2>1
    <3>2. history[k + j].revision = revision - n + (k + j)
      BY <1>1, <3>1
    <3> QED BY <2>2, <3>1, <3>2
  <2>4. ASSUME announced[s] > id
        PROVE  \E j \in DOMAIN E : E[j].revision = announced[s] /\ s \in E[j].signals
    <3>1. announced[s] > revision - n
      BY <1>1, <2>1, <2>4
    <3>2. PICK m \in DOMAIN history :
             history[m].revision = announced[s] /\ s \in history[m].signals
      BY <3>1 DEF Recorded
    <3>3. m \in 1..n /\ m > k
      BY <1>1, <2>1, <2>4, <3>2
    <3>4. m - k \in 1..(n - k) /\ E[m - k] = history[m]
      BY <1>1, <2>1, <2>2, <3>3
    <3> QED BY <2>2, <3>2, <3>4
  <2>5. ASSUME NEW i \in DOMAIN E, announced[s] > E[i].revision
        PROVE  \E j \in DOMAIN E : /\ j > i /\ s \in E[j].signals
                                   /\ E[j].revision >= announced[s]
    <3>1. i \in 1..(n - k) /\ announced[s] > revision - n + k + i
      BY <2>2, <2>3, <2>5
    <3>2. announced[s] > id
      BY <1>1, <2>1, <3>1
    <3>3. PICK j \in DOMAIN E : E[j].revision = announced[s] /\ s \in E[j].signals
      BY <2>4, <3>2
    <3>4. j \in 1..(n - k) /\ announced[s] = revision - n + k + j
      BY <2>2, <2>3, <3>3
    <3>5. j > i
      BY <1>1, <2>1, <3>1, <3>4
    <3> QED BY <1>1, <3>3, <3>5
  <2> HIDE DEF E, n
  <2>6. announced[s] > id => \E j \in DOMAIN E : /\ s \in E[j].signals
                                                /\ E[j].revision >= announced[s]
    BY <1>1, <2>4
  <2> QED BY <2>5, <2>6
<1> QED BY <1>1, <1>2, <1>3, <1>4, <1>5, EventsSinceCases

\* What a client is sent first is not newer than the projector.
LEMMA ReplaySent ==
    ASSUME TypeOK, Len(history) <= revision, Contiguous, NEW id \in Nat \cup {NoId}
    PROVE  \A i \in DOMAIN EventsSince(id) : EventsSince(id)[i].revision <= revision
<1> DEFINE E == EventsSince(id)
           n == Len(history)
<1>1. /\ n \in Nat /\ revision \in Nat /\ history \in Seq(Envelope) /\ DOMAIN history = 1..n
      /\ \A i \in DOMAIN history : history[i].revision = revision - n + i
  BY DEF TypeOK, Contiguous
<1>2. CASE E = <<>>
  BY <1>2
<1>3. CASE E = <<Resync>>
  BY <1>1, <1>3 DEF Resync
<1>4. CASE E = history
  BY <1>1, <1>4
<1>5. ASSUME NEW k \in DOMAIN history, E = SubSeq(history, k + 1, n)
      PROVE  \A i \in DOMAIN E : E[i].revision <= revision
  <2>1. k \in 1..n
    BY <1>1
  <2>2. DOMAIN E = 1..(n - k) /\ \A j \in 1..(n - k) : E[j] = history[k + j]
    BY <1>1, <1>5, <2>1
  <2> QED BY <1>1, <2>1, <2>2
<1> QED BY <1>2, <1>3, <1>4, <1>5, EventsSinceCases

-----------------------------------------------------------------------------
(* The invariant is kept by every step.                                     *)

\* What EventsInv says of the projector, and of the connection.
ProjectorInv == Len(history) <= revision /\ Contiguous /\ Recorded
LinkInv ==
    /\ Sent
    /\ InOrder
    /\ idIsCurrent => lastEventId # NoId /\ lastEventId <= revision
    /\ NothingMissed

LEMMA ProjectorKept ==
    ASSUME ProjectorInv, UNCHANGED <<revision, history, announced>>
    PROVE  ProjectorInv'
BY DEF ProjectorInv, Contiguous, Recorded

LEMMA LinkKept ==
    ASSUME LinkInv,
           UNCHANGED <<link, stream, lastEventId, idIsCurrent, announced, revision>>
    PROVE  LinkInv'
BY DEF LinkInv, Sent, InOrder, NothingMissed, InStream

\* A link that is not open owes nothing.
LEMMA LinkClosed ==
    ASSUME LinkInv, link' # "open", stream' = stream \/ stream' = <<>>,
           UNCHANGED <<lastEventId, idIsCurrent, revision>>
    PROVE  LinkInv'
BY DEF LinkInv, Sent, InOrder, NothingMissed

\* A flush extends the history and announces what was pending.
LEMMA FlushProjector ==
    ASSUME TypeOK, ProjectorInv, Flush
    PROVE  ProjectorInv'
<1> DEFINE envelope == [revision |-> revision + 1, signals |-> pending]
           n == Len(history)
           h == Append(history, envelope)
           d == n + 1 - Len(history')
<1>1. /\ n \in Nat /\ revision \in Nat /\ history \in Seq(Envelope) /\ DOMAIN history = 1..n
      /\ pending \subseteq Signals /\ announced \in [Signals -> Nat]
  BY DEF TypeOK
<1>2. envelope \in Envelope
  BY <1>1 DEF Envelope
<1>3. h \in Seq(Envelope) /\ Len(h) = n + 1 /\ h[n + 1] = envelope
      /\ \A k \in 1..n : h[k] = history[k]
  BY <1>1, <1>2
<1>4. \A k \in 1..(n + 1) : h[k].revision = revision - n + k
  <2>1. \A k \in 1..n : h[k].revision = revision - n + k
    BY <1>1, <1>3 DEF ProjectorInv, Contiguous
  <2>2. h[n + 1].revision = revision + 1
    BY <1>3
  <2> QED BY <1>1, <2>1, <2>2
<1>5. /\ history' = Trimmed(h) /\ revision' = revision + 1
      /\ announced' = [s \in Signals |-> IF s \in pending THEN revision + 1
                                                         ELSE announced[s]]
  BY DEF Flush
<1>6. /\ history' \in Seq(Envelope) /\ Len(history') \in 1..(n + 1)
      /\ \A i \in 1..Len(history') : history'[i] = h[d + i]
  <2> HIDE DEF h
  <2>1. /\ Trimmed(h) \in Seq(Envelope)
        /\ Len(Trimmed(h)) = IF Len(h) > HistoryLimit THEN HistoryLimit ELSE Len(h)
        /\ \A i \in 1..Len(Trimmed(h)) : Trimmed(h)[i] = h[Len(h) - Len(Trimmed(h)) + i]
    BY <1>3, TrimmedProperties
  <2>2. HistoryLimit \in Nat \ {0} /\ Len(h) = n + 1
    BY <1>3, LimitAssumption
  <2>3. Len(history') \in 1..(n + 1)
    BY <1>1, <1>5, <2>1, <2>2
  <2>4. ASSUME NEW i \in 1..Len(history')
        PROVE  history'[i] = h[n + 1 - Len(history') + i]
    <3> DEFINE t == Trimmed(h)
    <3>1. history' = t
      BY <1>5
    <3>2. i \in 1..Len(t) /\ t[i] = h[Len(h) - Len(t) + i]
      BY <2>1, <2>4, <3>1
    <3> HIDE DEF t
    <3> QED BY <2>2, <3>1, <3>2
  <2>5. history' \in Seq(Envelope)
    BY <1>5, <2>1
  <2> QED BY <2>3, <2>4, <2>5
<1> HIDE DEF h, envelope
<1>7. d \in 0..n /\ DOMAIN history' = 1..(n + 1 - d) /\ Len(history') = n + 1 - d
      /\ \A i \in 1..(n + 1 - d) : history'[i] = h[d + i]
  BY <1>1, <1>6
<1> HIDE DEF d
<1>8. Len(history') <= revision'
  BY <1>1, <1>5, <1>7 DEF ProjectorInv
<1>9. Contiguous'
  <2>1. ASSUME NEW i \in 1..(n + 1 - d)
        PROVE  history'[i].revision = (revision + 1) - (n + 1 - d) + i
    <3>1. d + i \in 1..(n + 1)
      BY <1>1, <1>7
    <3>2. history'[i].revision = revision - n + (d + i)
      BY <1>4, <1>7, <3>1
    <3> QED BY <1>1, <1>7, <3>2
  <2> QED BY <1>5, <1>7, <2>1 DEF Contiguous
<1>10. ASSUME NEW s \in Signals
       PROVE  /\ announced'[s] <= revision'
              /\ announced'[s] > revision' - Len(history') =>
                    \E i \in DOMAIN history' :
                       history'[i].revision = announced'[s] /\ s \in history'[i].signals
  <2>1. CASE s \in pending
    <3>1. history'[n + 1 - d] = envelope /\ n + 1 - d \in DOMAIN history'
      BY <1>1, <1>3, <1>7
    <3> QED BY <1>1, <1>5, <2>1, <3>1 DEF envelope
  <2>2. CASE s \notin pending
    <3>1. announced'[s] = announced[s] /\ announced[s] \in Nat /\ announced[s] <= revision
      BY <1>1, <1>5, <2>2 DEF ProjectorInv, Recorded
    <3>2. ASSUME announced[s] > revision + 1 - (n + 1 - d)
          PROVE  \E i \in DOMAIN history' :
                    history'[i].revision = announced[s] /\ s \in history'[i].signals
      <4>1. announced[s] > revision - n
        BY <1>1, <1>7, <3>1, <3>2
      <4>2. PICK m \in 1..n :
               history[m].revision = announced[s] /\ s \in history[m].signals
        BY <1>1, <4>1 DEF ProjectorInv, Recorded
      <4>3. h[m] = history[m] /\ announced[s] = revision - n + m
        BY <1>1, <1>3, <1>4, <4>2
      <4>4. m - d \in 1..(n + 1 - d)
        BY <1>1, <1>7, <3>2, <4>3
      <4>5. history'[m - d] = h[m]
        BY <1>1, <1>7, <4>4
      <4> QED BY <1>7, <4>2, <4>3, <4>4, <4>5
    <3> QED BY <1>1, <1>5, <1>7, <3>1, <3>2
  <2> QED BY <2>1, <2>2
<1> QED BY <1>8, <1>9, <1>10 DEF ProjectorInv, Recorded

\* ... and sends it down an open connection, after all that was sent before.
LEMMA FlushLink ==
    ASSUME TypeOK, ProjectorInv, LinkInv, Flush
    PROVE  LinkInv'
<1> DEFINE envelope == [revision |-> revision + 1, signals |-> pending]
           l == Len(stream)
<1>1. /\ revision \in Nat /\ stream \in Seq(Envelope) /\ l \in Nat /\ DOMAIN stream = 1..l
      /\ pending \subseteq Signals /\ announced \in [Signals -> Nat]
      /\ lastEventId \in Nat \cup {NoId}
  BY DEF TypeOK
<1>2. /\ revision' = revision + 1 /\ link' = link
      /\ lastEventId' = lastEventId /\ idIsCurrent' = idIsCurrent
      /\ stream' = IF link = "open" THEN Append(stream, envelope) ELSE stream
      /\ announced' = [s \in Signals |-> IF s \in pending THEN revision + 1
                                                         ELSE announced[s]]
  BY DEF Flush
<1>3. (idIsCurrent => lastEventId # NoId /\ lastEventId <= revision)'
  BY <1>1, <1>2, NoIdAssumption DEF LinkInv
<1>4. CASE link = "open"
  <2>1. /\ DOMAIN stream' = 1..(l + 1) /\ stream'[l + 1] = envelope
        /\ \A i \in 1..l : stream'[i] = stream[i]
    BY <1>1, <1>2, <1>4
  <2>2. envelope.revision = revision + 1 /\ envelope.signals = pending
    OBVIOUS
  <2>3. ASSUME NEW i \in 1..l
        PROVE  stream[i].revision <= revision /\ stream[i].revision \in Nat
    <3>1. stream[i] \in Envelope
      BY <1>1
    <3> QED BY <1>1, <3>1 DEF LinkInv, Sent, Envelope
  <2> HIDE DEF envelope, l
  <2>4. Sent'
    BY <1>1, <1>2, <2>1, <2>2, <2>3 DEF Sent
  <2>5. ASSUME NEW s \in Signals, NEW i \in DOMAIN stream',
               announced'[s] > stream'[i].revision
        PROVE  \E j \in DOMAIN stream' : /\ j > i /\ s \in stream'[j].signals
                                        /\ stream'[j].revision >= announced'[s]
    <3>1. CASE s \in pending
      <4>1. announced'[s] = revision + 1
        BY <1>2, <3>1
      <4>2. i \in 1..l
        BY <1>1, <2>1, <2>2, <2>5, <4>1
      <4> QED BY <1>1, <2>1, <2>2, <3>1, <4>1, <4>2
    <3>2. CASE s \notin pending
      <4>1. announced'[s] = announced[s] /\ announced[s] <= revision /\ announced[s] \in Nat
        BY <1>1, <1>2, <3>2 DEF ProjectorInv, Recorded
      <4>2. i \in 1..l
        BY <1>1, <2>1, <2>2, <2>5, <4>1
      <4>3. PICK j \in 1..l : /\ j > i /\ s \in stream[j].signals
                              /\ stream[j].revision >= announced[s]
        BY <1>1, <1>4, <2>1, <2>5, <4>1, <4>2 DEF LinkInv, InOrder
      <4> QED BY <1>1, <2>1, <4>1, <4>3
    <3> QED BY <3>1, <3>2
  <2>6. ASSUME idIsCurrent, NEW s \in Signals, announced'[s] > lastEventId
        PROVE  \E j \in DOMAIN stream' : /\ s \in stream'[j].signals
                                        /\ stream'[j].revision >= announced'[s]
    <3>1. CASE s \in pending
      <4>1. announced'[s] = revision + 1
        BY <1>2, <3>1
      <4> QED BY <1>1, <2>1, <2>2, <3>1, <4>1
    <3>2. CASE s \notin pending
      <4>1. announced'[s] = announced[s]
        BY <1>2, <3>2
      <4>2. PICK j \in 1..l : /\ s \in stream[j].signals
                              /\ stream[j].revision >= announced[s]
        BY <1>1, <1>4, <2>6, <4>1 DEF LinkInv, NothingMissed, InStream
      <4> QED BY <1>1, <2>1, <4>1, <4>2
    <3> QED BY <3>1, <3>2
  <2>7. InOrder'
    BY <2>5 DEF InOrder
  <2>8. NothingMissed'
    BY <1>2, <2>6 DEF NothingMissed, InStream
  <2> QED BY <1>3, <2>4, <2>7, <2>8 DEF LinkInv
<1>5. CASE link # "open"
  <2>1. ASSUME NEW i \in DOMAIN stream
        PROVE  stream[i].revision <= revision + 1
    <3>1. stream[i] \in Envelope
      BY <1>1
    <3> QED BY <1>1, <3>1 DEF LinkInv, Sent, Envelope
  <2>2. InOrder' /\ NothingMissed'
    BY <1>2, <1>5 DEF InOrder, NothingMissed
  <2>3. Sent'
    BY <1>2, <1>5, <2>1 DEF Sent
  <2> QED BY <1>3, <2>2, <2>3 DEF LinkInv
<1> QED BY <1>4, <1>5

\* A connection starts with what the client has missed.
LEMMA ConnectLink ==
    ASSUME TypeOK, ProjectorInv, LinkInv, Connect
    PROVE  LinkInv'
<1>1. /\ stream' = EventsSince(lastEventId)
      /\ UNCHANGED <<revision, announced, lastEventId, idIsCurrent>>
  BY DEF Connect, server
<1>2. lastEventId \in Nat \cup {NoId} /\ Contiguous /\ Recorded /\ Len(history) <= revision
  BY DEF TypeOK, ProjectorInv
<1>3. Sent'
  BY <1>1, <1>2, ReplaySent DEF Sent
<1>4. InOrder'
  BY <1>1, <1>2, ReplayCovers DEF InOrder
<1>5. ASSUME idIsCurrent, NEW s \in Signals, announced[s] > lastEventId
      PROVE  \E j \in DOMAIN EventsSince(lastEventId) :
                /\ s \in EventsSince(lastEventId)[j].signals
                /\ EventsSince(lastEventId)[j].revision >= announced[s]
  BY <1>2, <1>5, ReplayCovers DEF LinkInv
<1>6. NothingMissed'
  BY <1>1, <1>5 DEF NothingMissed, InStream
<1> QED BY <1>1, <1>3, <1>4, <1>6 DEF LinkInv

\* An envelope that is read settles what is not still behind it in the stream.
LEMMA DeliverLink ==
    ASSUME TypeOK, LinkInv, Deliver
    PROVE  LinkInv'
<1> DEFINE l == Len(stream)
<1>1. /\ stream \in Seq(Envelope) /\ l \in Nat /\ l > 0 /\ DOMAIN stream = 1..l
      /\ revision \in Nat /\ link = "open"
  BY DEF TypeOK, Deliver
<1>2. /\ lastEventId' = stream[1].revision /\ stream' = Tail(stream)
      /\ UNCHANGED <<revision, link, announced>>
  BY <1>1 DEF Deliver, server
<1>3. DOMAIN stream' = 1..(l - 1) /\ \A i \in 1..(l - 1) : stream'[i] = stream[i + 1]
  BY <1>1, <1>2
<1>4. stream[1].revision \in Nat /\ stream[1].revision <= revision
  <2>1. 1 \in DOMAIN stream /\ stream[1] \in Envelope
    BY <1>1
  <2> QED BY <1>1, <2>1 DEF Envelope, LinkInv, Sent
<1> HIDE DEF l
<1>5. Sent'
  BY <1>1, <1>2, <1>3 DEF LinkInv, Sent
<1>6. ASSUME NEW s \in Signals, NEW i \in DOMAIN stream, announced[s] > stream[i].revision
      PROVE  \E j \in DOMAIN stream' : /\ j > i - 1 /\ s \in stream'[j].signals
                                      /\ stream'[j].revision >= announced[s]
  <2>1. PICK j \in 1..l : /\ j > i /\ s \in stream[j].signals
                          /\ stream[j].revision >= announced[s]
    BY <1>1, <1>6 DEF LinkInv, InOrder
  <2>2. j - 1 \in 1..(l - 1) /\ j - 1 > i - 1 /\ stream'[j - 1] = stream[j]
    BY <1>1, <1>3, <2>1
  <2> QED BY <1>3, <2>1, <2>2
<1>7. InOrder'
  <2> SUFFICES ASSUME NEW s \in Signals, NEW i \in DOMAIN stream',
                      announced[s] > stream'[i].revision
               PROVE  \E j \in DOMAIN stream' : /\ j > i /\ s \in stream'[j].signals
                                               /\ stream'[j].revision >= announced[s]
    BY <1>2 DEF InOrder
  <2>1. i + 1 \in DOMAIN stream /\ stream'[i] = stream[i + 1] /\ (i + 1) - 1 = i
    BY <1>1, <1>3
  <2> QED BY <1>6, <2>1
<1>8. NothingMissed'
  <2>1. 1 \in DOMAIN stream
    BY <1>1
  <2> QED BY <1>2, <1>6, <2>1 DEF NothingMissed, InStream
<1> QED BY <1>2, <1>4, <1>5, <1>7, <1>8, NoIdAssumption DEF LinkInv

\* A restart forgets everything, and no client has an id of the new process.
LEMMA StopKeeps ==
    ASSUME TypeOK, Stop
    PROVE  ProjectorInv' /\ LinkInv'
<1>1. /\ revision' = 0 /\ history' = <<>> /\ stream' = <<>> /\ idIsCurrent' = FALSE
      /\ announced' = [s \in Signals |-> 0] /\ link' # "open"
  BY DEF Stop
<1>2. ProjectorInv'
  BY <1>1 DEF ProjectorInv, Contiguous, Recorded
<1>3. LinkInv'
  BY <1>1 DEF LinkInv, Sent, InOrder, NothingMissed
<1> QED BY <1>2, <1>3

LEMMA EventsStep == TypeOK /\ EventsInv /\ [Next]_vars => EventsInv'
<1> SUFFICES ASSUME TypeOK, ProjectorInv, LinkInv, [Next]_vars
             PROVE  ProjectorInv' /\ LinkInv'
  BY DEF EventsInv, ProjectorInv, LinkInv
<1> USE DEF server, client, ghosts
<1>1. ASSUME NEW s \in Signals, Accept(s) PROVE ProjectorInv' /\ LinkInv'
  BY <1>1, ProjectorKept, LinkKept DEF Accept
<1>2. CASE Flush
  BY <1>2, FlushProjector, FlushLink
<1>3. CASE Stop
  BY <1>3, StopKeeps
<1>4. CASE Start
  BY <1>4, ProjectorKept, LinkKept DEF Start
<1>5. CASE Initialize
  BY <1>5, ProjectorKept, LinkClosed DEF Initialize
<1>6. CASE InitializeFails
  BY <1>6, ProjectorKept, LinkClosed DEF InitializeFails
<1>7. CASE Subscribe
  BY <1>7, ProjectorKept, LinkClosed DEF Subscribe
<1>8. CASE Connect
  BY <1>8, ProjectorKept, ConnectLink DEF Connect
<1>9. CASE ConnectFails
  BY <1>9, ProjectorKept, LinkClosed DEF ConnectFails
<1>10. CASE Deliver
  BY <1>10, ProjectorKept, DeliverLink DEF Deliver
<1>11. CASE Drop
  BY <1>11, ProjectorKept, LinkClosed DEF Drop
<1>12. CASE Retry
  BY <1>12, ProjectorKept, LinkClosed DEF Retry
<1>14. CASE Unsubscribe
  BY <1>14, ProjectorKept, LinkClosed DEF Unsubscribe
<1>13. CASE UNCHANGED vars
  BY <1>13, ProjectorKept, LinkKept DEF vars
<1> QED
  BY <1>1, <1>2, <1>3, <1>4, <1>5, <1>6, <1>7, <1>8, <1>9, <1>10, <1>11, <1>12, <1>13, <1>14
     DEF Next

\* Once a client has read an event of this runtime process, no change flushed
\* after it is lost to it by dropped connections or an expired history.
THEOREM NothingMissedCorrect == Spec => []NothingMissed
<1>1. Spec => []EventsInv
  BY TypeInit, TypeStep, EventsInit, EventsStep, PTL DEF Spec
<1>2. EventsInv => NothingMissed
  BY DEF EventsInv
<1> QED BY <1>1, <1>2, PTL
=============================================================================
