------------------------- MODULE EventBroker_proofs -------------------------
(***************************************************************************)
(* Proofs about the event broker, for any clients, publishers, filters,    *)
(* channel capacity and number of events.                                  *)
(***************************************************************************)
EXTENDS EventBroker, SequenceTheorems, TLAPS

\* A publisher that visits subscribers has numbered its event.
PublishersInv == \A p \in Publishers : visiting[p] # Idle => count[p] > 0

\* A stream that handles an event has one.
StreamsInv == \A c \in Clients : stream[c] = "handling" => inHand[c] \in Events

Inv == TypeOK /\ PublishersInv /\ StreamsInv /\ NoSendOnClosed

LEMMA EventsTyped ==
  ASSUME NEW p \in Publishers, NEW n \in Nat, n > 0, n <= MaxEvents[p]
  PROVE  [from |-> p, no |-> n] \in Events
<1>1. n \in 1..MaxEvents[p]
  BY EventBrokerAssumption
<1>2. [from |-> p, no |-> n] \in [from : {p}, no : 1..MaxEvents[p]]
  BY <1>1
<1> QED BY <1>2 DEF Events

LEMMA Initial == Init => Inv
<1> SUFFICES ASSUME Init PROVE Inv
  OBVIOUS
<1>1. TypeOK
  <2>1. <<>> \in Seq(Events) /\ Len(<<>>) = 0
    OBVIOUS
  <2>2. promised \in SUBSET (Clients \X Events) /\ dropped \in SUBSET (Clients \X Events)
    BY DEF Init
  <2>3. chan \in [Clients -> Seq(Events)] /\ received \in [Clients -> Seq(Events)]
    BY <2>1 DEF Init
  <2>4. \A c \in Clients : Len(chan[c]) <= Cap
    BY EventBrokerAssumption DEF Init
  <2>5. gone \in SUBSET Clients /\ open \in SUBSET Clients
    BY DEF Init
  <2>6. /\ stream \in [Clients -> {"idle", "watching", "handling", "leaving", "done"}]
        /\ inHand \in [Clients -> Events \cup {NoEvent}]
        /\ visiting \in [Publishers -> (SUBSET Clients) \cup {Idle}]
    BY DEF Init
  <2>7. count \in [Publishers -> Nat] /\ \A p \in Publishers : count[p] <= MaxEvents[p]
    BY EventBrokerAssumption DEF Init
  <2> QED BY <2>2, <2>3, <2>4, <2>5, <2>6, <2>7 DEF TypeOK
<1>2. PublishersInv /\ StreamsInv /\ NoSendOnClosed
  BY DEF Init, PublishersInv, StreamsInv, NoSendOnClosed
<1> QED BY <1>1, <1>2 DEF Inv

LEMMA Preserved == Inv /\ [Next]_vars => Inv'
<1> SUFFICES ASSUME Inv, [Next]_vars
             PROVE  Inv'
  OBVIOUS
<1> USE EventBrokerAssumption DEF Inv, TypeOK, PublishersInv, StreamsInv, NoSendOnClosed
<1>1. ASSUME NEW c \in Clients, Subscribe(c)
      PROVE  Inv'
  BY <1>1 DEF Subscribe, LockFree
<1>2. ASSUME NEW c \in Clients, Unsubscribe(c)
      PROVE  Inv'
  <2>1. chan' \in [Clients -> Seq(Events)] /\ \A d \in Clients : Len(chan'[d]) <= Cap
    BY <1>2 DEF Unsubscribe
  <2> QED BY <1>2, <2>1 DEF Unsubscribe, LockFree
<1>3. ASSUME NEW c \in Clients, Receive(c)
      PROVE  Inv'
  <2>1. /\ chan[c] \in Seq(Events) /\ chan[c] # <<>>
        /\ Head(chan[c]) \in Events /\ Tail(chan[c]) \in Seq(Events)
        /\ Len(Tail(chan[c])) = Len(chan[c]) - 1 /\ Len(chan[c]) \in Nat
    BY <1>3, HeadTailProperties DEF Receive
  <2>2. chan' \in [Clients -> Seq(Events)] /\ \A d \in Clients : Len(chan'[d]) <= Cap
    BY <1>3, <2>1 DEF Receive
  <2>3. inHand' \in [Clients -> Events \cup {NoEvent}]
    BY <1>3, <2>1 DEF Receive
  <2> QED BY <1>3, <2>2, <2>3 DEF Receive
<1>4. ASSUME NEW c \in Clients, ContextDone(c)
      PROVE  Inv'
  BY <1>4 DEF ContextDone
<1>5. ASSUME NEW c \in Clients, SendOrSkip(c)
      PROVE  Inv'
  <2>1. inHand[c] \in Events /\ received[c] \in Seq(Events)
    BY <1>5 DEF SendOrSkip
  <2>2. received' \in [Clients -> Seq(Events)]
    <3>1. Append(received[c], inHand[c]) \in Seq(Events)
      BY <2>1, AppendProperties
    <3>2. CASE received' = [received EXCEPT ![c] = Append(@, inHand[c])]
      BY <3>1, <3>2
    <3>3. CASE received' = received
      BY <3>3
    <3> QED BY <1>5, <3>2, <3>3 DEF SendOrSkip
  <2>3. /\ stream' \in [Clients -> {"idle", "watching", "handling", "leaving", "done"}]
        /\ inHand' \in [Clients -> Events \cup {NoEvent}]
    BY <1>5 DEF SendOrSkip
  <2>4. StreamsInv'
    BY <1>5 DEF SendOrSkip
  <2> QED BY <1>5, <2>2, <2>3, <2>4 DEF SendOrSkip
<1>6. ASSUME NEW c \in Clients, HangUp(c)
      PROVE  Inv'
  BY <1>6 DEF HangUp
<1>7. ASSUME NEW p \in Publishers, PublishBegins(p)
      PROVE  Inv'
  <2>1. count' \in [Publishers -> Nat] /\ \A q \in Publishers : count'[q] <= MaxEvents[q]
    BY <1>7 DEF PublishBegins
  <2>2. visiting' \in [Publishers -> (SUBSET Clients) \cup {Idle}]
    BY <1>7 DEF PublishBegins
  <2>3. [from |-> p, no |-> count[p] + 1] \in Events
    <3>1. count[p] + 1 \in Nat /\ count[p] + 1 > 0 /\ count[p] + 1 <= MaxEvents[p]
      BY <1>7 DEF PublishBegins
    <3> QED BY <3>1, EventsTyped
  <2>4. promised' \in SUBSET (Clients \X Events)
    BY <1>7, <2>3 DEF PublishBegins
  <2>5. PublishersInv' /\ NoSendOnClosed'
    BY <1>7 DEF PublishBegins
  <2> QED BY <1>7, <2>1, <2>2, <2>4, <2>5 DEF PublishBegins
<1>8. ASSUME NEW p \in Publishers, PublishEnds(p)
      PROVE  Inv'
  BY <1>8 DEF PublishEnds
<1>9. ASSUME NEW p \in Publishers, NEW c \in Clients, PublishTo(p, c)
      PROVE  Inv'
  <2>1. Current(p) \in Events
    BY <1>9, EventsTyped DEF PublishTo, Current
  <2>2. chan' \in [Clients -> Seq(Events)] /\ \A d \in Clients : Len(chan'[d]) <= Cap
    <3>1. CASE chan' = chan
      BY <3>1
    <3>2. CASE Len(chan[c]) < Cap /\ chan' = [chan EXCEPT ![c] = Append(@, Current(p))]
      <4>1. /\ Append(chan[c], Current(p)) \in Seq(Events)
            /\ Len(Append(chan[c], Current(p))) = Len(chan[c]) + 1 /\ Len(chan[c]) \in Nat
        BY <2>1, AppendProperties
      <4> QED BY <3>2, <4>1
    <3> QED BY <1>9, <3>1, <3>2 DEF PublishTo
  <2>3. dropped' \in SUBSET (Clients \X Events)
    BY <1>9, <2>1 DEF PublishTo
  <2>4. visiting' \in [Publishers -> (SUBSET Clients) \cup {Idle}]
    BY <1>9 DEF PublishTo
  <2>5. NoSendOnClosed' /\ PublishersInv'
    BY <1>9 DEF PublishTo
  <2> QED BY <1>9, <2>2, <2>3, <2>4, <2>5 DEF PublishTo
<1>10. CASE UNCHANGED vars
  BY <1>10 DEF vars
<1> QED
  BY <1>1, <1>2, <1>3, <1>4, <1>5, <1>6, <1>7, <1>8, <1>9, <1>10 DEF Next

LEMMA Invariance == Spec => []Inv
  BY Initial, Preserved, PTL DEF Spec

\* The broker's state has its types; in particular no channel ever holds more
\* than its capacity, although several publishers send at a time.
THEOREM TypeCorrect == Spec => []TypeOK
<1>1. Inv => TypeOK
  BY DEF Inv
<1> QED BY <1>1, Invariance, PTL

\* Publish never sends on a channel that Unsubscribe has closed.
THEOREM ClosedIsNotSentTo == Spec => []NoSendOnClosed
<1>1. Inv => NoSendOnClosed
  BY DEF Inv
<1> QED BY <1>1, Invariance, PTL

-----------------------------------------------------------------------------
(* Sequences of events.                                                    *)

\* The events of one module are in the order of their numbers.
Ordered(s) ==
    \A i, j \in 1..Len(s) :
        i < j /\ s[i].from = s[j].from => s[i].no < s[j].no

\* The event e is somewhere in the sequence s.
Has(s, e) == \E i \in 1..Len(s) : s[i] = e

LEMMA HasAppend ==
  ASSUME NEW s \in Seq(Events), NEW e \in Events, NEW x
  PROVE  Has(Append(s, e), x) <=> Has(s, x) \/ x = e
<1>1. /\ Len(s) \in Nat /\ Len(Append(s, e)) = Len(s) + 1
      /\ \A i \in 1..Len(s) : Append(s, e)[i] = s[i]
      /\ Append(s, e)[Len(s) + 1] = e
  BY AppendProperties, LenProperties
<1>2. 1..(Len(s) + 1) = (1..Len(s)) \cup {Len(s) + 1}
  BY <1>1
<1> QED BY <1>1, <1>2 DEF Has

LEMMA HasConcat ==
  ASSUME NEW s \in Seq(Events), NEW t \in Seq(Events), NEW x
  PROVE  Has(s \o t, x) <=> Has(s, x) \/ Has(t, x)
<1>1. /\ Len(s) \in Nat /\ Len(t) \in Nat
      /\ Len(s \o t) = Len(s) + Len(t)
      /\ \A i \in 1..(Len(s) + Len(t)) :
            (s \o t)[i] = IF i <= Len(s) THEN s[i] ELSE t[i - Len(s)]
  BY ConcatProperties, LenProperties
<1>2. ASSUME Has(s \o t, x) PROVE Has(s, x) \/ Has(t, x)
  <2>1. PICK i \in 1..(Len(s) + Len(t)) : (s \o t)[i] = x
    BY <1>1, <1>2 DEF Has
  <2>2. CASE i <= Len(s)
    BY <1>1, <2>1, <2>2 DEF Has
  <2>3. CASE i > Len(s)
    <3>1. i - Len(s) \in 1..Len(t) /\ t[i - Len(s)] = x
      BY <1>1, <2>1, <2>3
    <3> QED BY <3>1 DEF Has
  <2> QED BY <1>1, <2>1, <2>2, <2>3
<1>3. ASSUME Has(s, x) PROVE Has(s \o t, x)
  <2>1. PICK i \in 1..Len(s) : s[i] = x
    BY <1>3 DEF Has
  <2>2. i \in 1..Len(s \o t) /\ (s \o t)[i] = x
    BY <1>1, <2>1
  <2> QED BY <2>2 DEF Has
<1>4. ASSUME Has(t, x) PROVE Has(s \o t, x)
  <2>1. PICK i \in 1..Len(t) : t[i] = x
    BY <1>4 DEF Has
  <2>2. i + Len(s) \in 1..Len(s \o t) /\ (s \o t)[i + Len(s)] = x
    BY <1>1, <2>1
  <2> QED BY <2>2 DEF Has
<1> QED BY <1>2, <1>3, <1>4

LEMMA HasOne ==
  ASSUME NEW e \in Events, NEW x
  PROVE  /\ <<e>> \in Seq(Events) /\ Len(<<e>>) = 1 /\ <<e>>[1] = e
         /\ Has(<<e>>, x) <=> x = e
BY DEF Has

LEMMA HasSkip ==
  ASSUME NEW r \in Seq(Events), NEW e \in Events, NEW q \in Seq(Events), NEW x
  PROVE  Has((r \o <<e>>) \o q, x) <=> Has(r \o q, x) \/ x = e
<1>1. <<e>> \in Seq(Events) /\ (Has(<<e>>, x) <=> x = e)
  BY HasOne
<1>2. r \o <<e>> \in Seq(Events)
  BY <1>1, ConcatProperties
<1>3. Has((r \o <<e>>) \o q, x) <=> Has(r \o <<e>>, x) \/ Has(q, x)
  BY <1>2, HasConcat
<1>4. Has(r \o <<e>>, x) <=> Has(r, x) \/ Has(<<e>>, x)
  BY <1>1, HasConcat
<1>5. Has(r \o q, x) <=> Has(r, x) \/ Has(q, x)
  BY HasConcat
<1> QED BY <1>1, <1>3, <1>4, <1>5

LEMMA OrderedAppend ==
  ASSUME NEW s \in Seq(Events), NEW e \in Events, Ordered(s),
         \A x \in Events : Has(s, x) /\ x.from = e.from => x.no < e.no
  PROVE  Ordered(Append(s, e))
<1>1. /\ Len(s) \in Nat /\ Len(Append(s, e)) = Len(s) + 1
      /\ \A i \in 1..Len(s) : Append(s, e)[i] = s[i]
      /\ Append(s, e)[Len(s) + 1] = e
  BY AppendProperties, LenProperties
<1>2. \A i \in 1..Len(s) : s[i].from = e.from => s[i].no < e.no
  BY ElementOfSeq DEF Has
<1> SUFFICES ASSUME NEW i \in 1..(Len(s) + 1), NEW j \in 1..(Len(s) + 1), i < j,
                    Append(s, e)[i].from = Append(s, e)[j].from
             PROVE  Append(s, e)[i].no < Append(s, e)[j].no
  BY <1>1 DEF Ordered
<1>3. i \in 1..Len(s)
  BY <1>1
<1>4. CASE j \in 1..Len(s)
  BY <1>1, <1>3, <1>4 DEF Ordered
<1>5. CASE j = Len(s) + 1
  BY <1>1, <1>2, <1>3, <1>5
<1> QED BY <1>1, <1>4, <1>5

LEMMA OrderedPrefix ==
  ASSUME NEW s \in Seq(Events), NEW t \in Seq(Events), Ordered(s \o t)
  PROVE  Ordered(s)
<1>1. /\ Len(s) \in Nat /\ Len(t) \in Nat
      /\ Len(s \o t) = Len(s) + Len(t)
      /\ \A i \in 1..Len(s) : (s \o t)[i] = s[i]
  BY ConcatProperties, LenProperties
<1> QED BY <1>1 DEF Ordered

\* An event taken out of the middle leaves the others in order.
LEMMA OrderedSkip ==
  ASSUME NEW r \in Seq(Events), NEW e \in Events, NEW q \in Seq(Events),
         Ordered((r \o <<e>>) \o q)
  PROVE  Ordered(r \o q)
<1> DEFINE s == (r \o <<e>>) \o q
           n == Len(r)
           later(i) == IF i <= n THEN i ELSE i + 1
<1>1. /\ Len(r) \in Nat /\ Len(q) \in Nat
      /\ r \o <<e>> \in Seq(Events) /\ Len(r \o <<e>>) = Len(r) + 1
      /\ \A i \in 1..Len(r) : (r \o <<e>>)[i] = r[i]
  BY ConcatProperties, LenProperties, HasOne
<1>2. /\ Len(s) = n + 1 + Len(q)
      /\ \A i \in 1..n : s[i] = r[i]
      /\ \A i \in (n + 2)..(n + 1 + Len(q)) : s[i] = q[i - (n + 1)]
  <2>1. /\ Len(s) = n + 1 + Len(q)
        /\ \A i \in 1..(n + 1 + Len(q)) :
              s[i] = IF i <= n + 1 THEN (r \o <<e>>)[i] ELSE q[i - (n + 1)]
    BY <1>1, ConcatProperties
  <2> QED BY <1>1, <2>1
<1>3. /\ Len(r \o q) = n + Len(q)
      /\ \A i \in 1..(n + Len(q)) : (r \o q)[i] = IF i <= n THEN r[i] ELSE q[i - n]
  BY ConcatProperties
<1>4. \A i \in 1..(n + Len(q)) : later(i) \in 1..Len(s) /\ (r \o q)[i] = s[later(i)]
  <2> SUFFICES ASSUME NEW i \in 1..(n + Len(q))
               PROVE  later(i) \in 1..Len(s) /\ (r \o q)[i] = s[later(i)]
    OBVIOUS
  <2>1. CASE i <= n
    BY <1>1, <1>2, <1>3, <2>1
  <2>2. CASE i > n
    <3>1. later(i) = i + 1 /\ i + 1 \in (n + 2)..(n + 1 + Len(q)) /\ i + 1 - (n + 1) = i - n
      BY <1>1, <2>2
    <3>2. s[i + 1] = q[i - n] /\ (r \o q)[i] = q[i - n]
      BY <1>1, <1>2, <1>3, <2>2, <3>1
    <3> QED BY <1>1, <1>2, <3>1, <3>2
  <2> QED BY <1>1, <2>1, <2>2
<1>5. \A i, j \in 1..(n + Len(q)) : i < j => later(i) < later(j)
  BY <1>1
<1>6. Ordered(s)
  OBVIOUS
<1> HIDE DEF s, later
<1> QED BY <1>3, <1>4, <1>5, <1>6 DEF Ordered

LEMMA PipeReceive ==
  ASSUME NEW r \in Seq(Events), NEW q \in Seq(Events), q # <<>>
  PROVE  (r \o <<>>) \o q = (r \o <<Head(q)>>) \o Tail(q)
<1>1. Head(q) \in Events /\ Tail(q) \in Seq(Events) /\ q = <<Head(q)>> \o Tail(q)
  BY HeadTailProperties, SMTT(30)
<1>2. <<Head(q)>> \in Seq(Events)
  BY <1>1, HasOne
<1>3. (r \o <<Head(q)>>) \o Tail(q) = r \o (<<Head(q)>> \o Tail(q))
  BY <1>1, <1>2, ConcatAssociative
<1> QED BY <1>1, <1>3, ConcatEmptySeq

LEMMA PipeSend ==
  ASSUME NEW r \in Seq(Events), NEW e \in Events, NEW q \in Seq(Events)
  PROVE  (r \o <<e>>) \o q = (Append(r, e) \o <<>>) \o q
<1>1. Append(r, e) = r \o <<e>> /\ Append(r, e) \in Seq(Events)
  BY AppendIsConcat, AppendProperties
<1> QED BY <1>1, ConcatEmptySeq

LEMMA PipePublish ==
  ASSUME NEW s \in Seq(Events), NEW e \in Events, NEW q \in Seq(Events)
  PROVE  s \o Append(q, e) = Append(s \o q, e)
<1>1. Append(q, e) = q \o <<e>> /\ s \o q \in Seq(Events) /\ <<e>> \in Seq(Events)
  BY AppendIsConcat, ConcatProperties, HasOne
<1>2. Append(s \o q, e) = (s \o q) \o <<e>>
  BY <1>1, AppendIsConcat
<1>3. (s \o q) \o <<e>> = s \o (q \o <<e>>)
  BY <1>1, ConcatAssociative
<1> QED BY <1>1, <1>2, <1>3

-----------------------------------------------------------------------------
(* Order and completeness of what a client sees.                           *)

\* A stream holds an event only while it handles one.
HandInv == \A c \in Clients : stream[c] # "handling" => inHand[c] = NoEvent

\* Only a client with a running stream is subscribed.
OpenInv == \A c \in Clients : c \in open => stream[c] # "idle"

\* What is promised to a client passes its filter, and the client has called.
PromisedInv ==
    \A c \in Clients : \A ev \in Events :
        <<c, ev>> \in promised => Wants(c, ev) /\ stream[c] # "idle"

\* A publisher that has still to visit a client has sent it older events only.
CountInv ==
    \A c \in Clients : \A ev \in Events :
        Has(Pipeline(c), ev) =>
            /\ ev.no <= count[ev.from]
            /\ c \in visiting[ev.from] => ev.no < count[ev.from]

OrderInv == \A c \in Clients : Ordered(Pipeline(c))

StreamInv == /\ Inv /\ HandInv /\ OpenInv /\ PromisedInv
             /\ CountInv /\ OrderInv /\ NothingVanishes

LEMMA EventFields ==
  ASSUME NEW ev \in Events
  PROVE  ev.from \in Publishers /\ ev.no \in Nat
BY EventBrokerAssumption DEF Events

LEMMA NoEventIsNone == NoEvent \notin Events
BY EventBrokerAssumption DEF Events, NoEvent

LEMMA PipelineTyped ==
  ASSUME TypeOK, NEW c \in Clients
  PROVE  Pipeline(c) \in Seq(Events)
<1> DEFINE held == IF inHand[c] = NoEvent THEN <<>> ELSE <<inHand[c]>>
<1>1. received[c] \in Seq(Events) /\ chan[c] \in Seq(Events)
  BY DEF TypeOK
<1>2. held \in Seq(Events)
  <2>1. CASE inHand[c] = NoEvent
    BY <2>1, EmptySeq
  <2>2. CASE inHand[c] \in Events
    BY <2>2, NoEventIsNone, HasOne
  <2> QED BY <2>1, <2>2 DEF TypeOK
<1>3. received[c] \o held \in Seq(Events)
  BY <1>1, <1>2, ConcatProperties
<1>4. (received[c] \o held) \o chan[c] \in Seq(Events)
  BY <1>1, <1>3, ConcatProperties
<1> QED BY <1>4 DEF Pipeline

\* A step that leaves the pipelines, the publishers and the promises alone
\* keeps order and completeness, if it lets no stream start.
LEMMA QuietStep ==
  ASSUME StreamInv, Inv',
         \A c \in Clients : Pipeline(c)' = Pipeline(c),
         UNCHANGED <<visiting, count, promised, dropped>>,
         \A c \in Clients : stream'[c] \in {"watching", "handling"} /\ stream[c] # "idle"
            => stream[c] \in {"watching", "handling"}
  PROVE  CountInv' /\ OrderInv' /\ NothingVanishes'
<1>1. CountInv'
  BY DEF StreamInv, CountInv
<1>2. OrderInv'
  BY DEF StreamInv, OrderInv
<1>3. NothingVanishes'
  <2> SUFFICES ASSUME SharedBroker, NEW c \in Clients, NEW ev \in Events,
                      <<c, ev>> \in promised', <<c, ev>> \notin dropped',
                      stream'[c] \in {"watching", "handling"}
               PROVE  (\/ \E i \in 1..Len(Pipeline(c)) : Pipeline(c)[i] = ev
                       \/ /\ visiting[ev.from] # Idle
                          /\ c \in visiting[ev.from]
                          /\ Current(ev.from) = ev)'
    BY DEF NothingVanishes
  <2>1. stream[c] \in {"watching", "handling"}
    BY DEF StreamInv, PromisedInv
  <2>2. \/ \E i \in 1..Len(Pipeline(c)) : Pipeline(c)[i] = ev
        \/ /\ visiting[ev.from] # Idle
           /\ c \in visiting[ev.from]
           /\ Current(ev.from) = ev
    BY <2>1 DEF StreamInv, NothingVanishes
  <2> QED BY <2>2 DEF Current
<1> QED BY <1>1, <1>2, <1>3

LEMMA PreservedStreams == StreamInv /\ [Next]_vars => StreamInv'
<1> SUFFICES ASSUME StreamInv, [Next]_vars
             PROVE  StreamInv'
  OBVIOUS
<1>t. TypeOK /\ StreamsInv /\ HandInv /\ OpenInv /\ PromisedInv
  BY DEF StreamInv, Inv
<1>p. Inv'
  BY Preserved DEF StreamInv
<1>s. \A c \in Clients : Pipeline(c) \in Seq(Events)
  BY <1>t, PipelineTyped
<1>i. \A V \in SUBSET Clients : V # Idle
  BY EventBrokerAssumption DEF Idle
<1>1. ASSUME NEW c \in Clients, Subscribe(c)
      PROVE  StreamInv'
  <2>1. HandInv' /\ OpenInv' /\ PromisedInv'
    BY <1>1, <1>t DEF Subscribe, TypeOK, HandInv, OpenInv, PromisedInv
  <2>2. CountInv' /\ OrderInv' /\ NothingVanishes'
    <3>1. \A d \in Clients : Pipeline(d)' = Pipeline(d)
      BY <1>1 DEF Subscribe, Pipeline
    <3>2. \A d \in Clients : stream'[d] \in {"watching", "handling"} /\ stream[d] # "idle"
            => stream[d] \in {"watching", "handling"}
      BY <1>1, <1>t DEF Subscribe, TypeOK
    <3>3. UNCHANGED <<visiting, count, promised, dropped>>
      BY <1>1 DEF Subscribe
    <3> QED BY <1>p, <3>1, <3>2, <3>3, QuietStep
  <2> QED BY <1>p, <2>1, <2>2 DEF StreamInv
<1>2. ASSUME NEW c \in Clients, Unsubscribe(c)
      PROVE  StreamInv'
  <2>1. HandInv' /\ OpenInv' /\ PromisedInv'
    BY <1>2, <1>t DEF Unsubscribe, TypeOK, HandInv, OpenInv, PromisedInv
  <2>2. \A d \in Clients : d # c => Pipeline(d)' = Pipeline(d)
    BY <1>2, <1>t DEF Unsubscribe, Pipeline, TypeOK
  <2>3. /\ received[c] \in Seq(Events) /\ chan[c] \in Seq(Events)
        /\ Pipeline(c) = received[c] \o chan[c] /\ Pipeline(c)' = received[c]
    <3>1. received[c] \in Seq(Events) /\ chan[c] \in Seq(Events) /\ inHand[c] = NoEvent
      BY <1>2, <1>t DEF Unsubscribe, TypeOK, HandInv
    <3>2. received'[c] = received[c] /\ inHand'[c] = NoEvent /\ chan'[c] = <<>>
      BY <1>2, <1>t, <3>1 DEF Unsubscribe, TypeOK
    <3> QED BY <3>1, <3>2, ConcatEmptySeq DEF Pipeline
  <2>4. OrderInv'
    BY <2>2, <2>3, OrderedPrefix DEF StreamInv, OrderInv
  <2>5. \A ev \in Events : Has(Pipeline(c)', ev) => Has(Pipeline(c), ev)
    BY <2>3, HasConcat
  <2>6. UNCHANGED <<visiting, count, promised, dropped>>
    BY <1>2 DEF Unsubscribe
  <2>7. CountInv'
    BY <2>2, <2>5, <2>6 DEF StreamInv, CountInv
  <2>8. NothingVanishes'
    <3>1. stream'[c] = "done" /\ \A d \in Clients : d # c => stream'[d] = stream[d]
      BY <1>2, <1>t DEF Unsubscribe, TypeOK
    <3> QED BY <2>2, <2>6, <3>1 DEF StreamInv, NothingVanishes, Current
  <2> QED BY <1>p, <2>1, <2>4, <2>7, <2>8 DEF StreamInv
<1>3. ASSUME NEW c \in Clients, Receive(c)
      PROVE  StreamInv'
  <2>1. HandInv' /\ OpenInv' /\ PromisedInv'
    BY <1>3, <1>t DEF Receive, TypeOK, HandInv, OpenInv, PromisedInv
  <2>2. \A d \in Clients : d # c => Pipeline(d)' = Pipeline(d)
    BY <1>3, <1>t DEF Receive, Pipeline, TypeOK
  <2>3. Pipeline(c)' = Pipeline(c)
    <3>1. /\ received[c] \in Seq(Events) /\ chan[c] \in Seq(Events) /\ chan[c] # <<>>
          /\ inHand[c] = NoEvent
      BY <1>3, <1>t DEF Receive, TypeOK, HandInv
    <3>2. Head(chan[c]) # NoEvent
      BY <3>1, HeadTailProperties, NoEventIsNone
    <3>3. received'[c] = received[c] /\ inHand'[c] = Head(chan[c]) /\ chan'[c] = Tail(chan[c])
      BY <1>3, <1>t DEF Receive, TypeOK
    <3>4. Pipeline(c) = (received[c] \o <<>>) \o chan[c]
      BY <3>1 DEF Pipeline
    <3>5. Pipeline(c)' = (received[c] \o <<Head(chan[c])>>) \o Tail(chan[c])
      BY <3>2, <3>3 DEF Pipeline
    <3> QED BY <3>1, <3>4, <3>5, PipeReceive
  <2>4. CountInv' /\ OrderInv' /\ NothingVanishes'
    <3>1. \A d \in Clients : stream'[d] \in {"watching", "handling"} /\ stream[d] # "idle"
            => stream[d] \in {"watching", "handling"}
      BY <1>3, <1>t DEF Receive, TypeOK
    <3>2. UNCHANGED <<visiting, count, promised, dropped>>
      BY <1>3 DEF Receive
    <3> QED BY <1>p, <2>2, <2>3, <3>1, <3>2, QuietStep
  <2> QED BY <1>p, <2>1, <2>4 DEF StreamInv
<1>4. ASSUME NEW c \in Clients, ContextDone(c)
      PROVE  StreamInv'
  <2>1. HandInv' /\ OpenInv' /\ PromisedInv'
    BY <1>4, <1>t DEF ContextDone, TypeOK, HandInv, OpenInv, PromisedInv
  <2>2. CountInv' /\ OrderInv' /\ NothingVanishes'
    <3>1. \A d \in Clients : Pipeline(d)' = Pipeline(d)
      BY <1>4 DEF ContextDone, Pipeline
    <3>2. \A d \in Clients : stream'[d] \in {"watching", "handling"} /\ stream[d] # "idle"
            => stream[d] \in {"watching", "handling"}
      BY <1>4, <1>t DEF ContextDone, TypeOK
    <3>3. UNCHANGED <<visiting, count, promised, dropped>>
      BY <1>4 DEF ContextDone
    <3> QED BY <1>p, <3>1, <3>2, <3>3, QuietStep
  <2> QED BY <1>p, <2>1, <2>2 DEF StreamInv
<1>5. ASSUME NEW c \in Clients, SendOrSkip(c)
      PROVE  StreamInv'
  <2>1. HandInv' /\ OpenInv' /\ PromisedInv'
    BY <1>5, <1>t DEF SendOrSkip, TypeOK, HandInv, OpenInv, PromisedInv
  <2>2. \A d \in Clients : d # c => Pipeline(d)' = Pipeline(d)
    BY <1>5, <1>t DEF SendOrSkip, Pipeline, TypeOK
  <2>3. /\ received[c] \in Seq(Events) /\ chan[c] \in Seq(Events)
        /\ inHand[c] \in Events /\ inHand[c] # NoEvent
        /\ Pipeline(c) = (received[c] \o <<inHand[c]>>) \o chan[c]
    BY <1>5, <1>t, NoEventIsNone DEF SendOrSkip, TypeOK, StreamsInv, Pipeline
  <2>4. inHand'[c] = NoEvent /\ chan'[c] = chan[c]
    BY <1>5, <1>t DEF SendOrSkip, TypeOK
  <2>5. UNCHANGED <<visiting, count, promised, dropped>>
    BY <1>5 DEF SendOrSkip
  <2>6. \A d \in Clients : d # c => stream'[d] = stream[d]
    BY <1>5, <1>t DEF SendOrSkip, TypeOK
  <2>7. CASE received' = [received EXCEPT ![c] = Append(@, inHand[c])]
    <3>1. Pipeline(c)' = (Append(received[c], inHand[c]) \o <<>>) \o chan[c]
      BY <1>t, <2>4, <2>7 DEF TypeOK, Pipeline
    <3>2. Pipeline(c)' = Pipeline(c)
      BY <2>3, <3>1, PipeSend
    <3>3. \A d \in Clients : stream'[d] \in {"watching", "handling"} /\ stream[d] # "idle"
            => stream[d] \in {"watching", "handling"}
      BY <1>5, <2>6 DEF SendOrSkip
    <3>4. CountInv' /\ OrderInv' /\ NothingVanishes'
      BY <1>p, <2>2, <2>5, <3>2, <3>3, QuietStep
    <3> QED BY <1>p, <2>1, <3>4 DEF StreamInv
  <2>8. CASE received' = received
    <3>1. Pipeline(c)' = received[c] \o chan[c]
      BY <2>3, <2>4, <2>8, ConcatEmptySeq DEF Pipeline
    <3>2. OrderInv'
      <4>1. Ordered((received[c] \o <<inHand[c]>>) \o chan[c])
        BY <2>3 DEF StreamInv, OrderInv
      <4>2. Ordered(Pipeline(c)')
        BY <2>3, <3>1, <4>1, OrderedSkip
      <4> QED BY <2>2, <4>2 DEF StreamInv, OrderInv
    <3>3. \A ev \in Events : Has(Pipeline(c), ev) <=> Has(Pipeline(c)', ev) \/ ev = inHand[c]
      BY <2>3, <3>1, HasSkip
    <3>4. CountInv'
      BY <2>2, <2>5, <3>3 DEF StreamInv, CountInv
    <3>5. NothingVanishes'
      <4> SUFFICES ASSUME SharedBroker, NEW d \in Clients, NEW ev \in Events,
                          <<d, ev>> \in promised, <<d, ev>> \notin dropped,
                          stream'[d] \in {"watching", "handling"}
                   PROVE  \/ Has(Pipeline(d)', ev)
                          \/ /\ visiting[ev.from] # Idle
                             /\ d \in visiting[ev.from]
                             /\ Current(ev.from) = ev
        BY <2>5 DEF NothingVanishes, Has, Current
      <4>1. stream[d] \in {"watching", "handling"}
        BY <1>5, <2>6 DEF SendOrSkip
      <4>2. \/ Has(Pipeline(d), ev)
            \/ /\ visiting[ev.from] # Idle
               /\ d \in visiting[ev.from]
               /\ Current(ev.from) = ev
        BY <4>1 DEF StreamInv, NothingVanishes, Has
      <4>3. CASE d # c
        BY <2>2, <4>2, <4>3
      <4>4. CASE d = c
        <5>1. stream'[c] = "watching"
          BY <1>5, <4>4, <1>t DEF SendOrSkip, TypeOK
        <5>2. ~Wants(c, inHand[c])
          <6>1. Append(received[c], inHand[c]) # received[c]
            BY <2>3, AppendProperties, LenProperties
          <6>2. received' # [received EXCEPT ![c] = Append(@, inHand[c])]
            BY <1>t, <2>8, <6>1 DEF TypeOK
          <6>3. stream' # [stream EXCEPT ![c] = "leaving"]
            BY <1>t, <5>1 DEF TypeOK
          <6> QED BY <1>5, <6>2, <6>3 DEF SendOrSkip
        <5>3. ev # inHand[c]
          BY <1>t, <4>4, <5>2 DEF PromisedInv
        <5> QED BY <3>3, <4>2, <4>4, <5>3
      <4> QED BY <4>3, <4>4
    <3> QED BY <1>p, <2>1, <3>2, <3>4, <3>5 DEF StreamInv
  <2> QED BY <1>5, <2>7, <2>8 DEF SendOrSkip
<1>6. ASSUME NEW c \in Clients, HangUp(c)
      PROVE  StreamInv'
  <2>1. HandInv' /\ OpenInv' /\ PromisedInv'
    BY <1>6, <1>t DEF HangUp, HandInv, OpenInv, PromisedInv
  <2>2. CountInv' /\ OrderInv' /\ NothingVanishes'
    <3>1. \A d \in Clients : Pipeline(d)' = Pipeline(d)
      BY <1>6 DEF HangUp, Pipeline
    <3>2. UNCHANGED <<stream, visiting, count, promised, dropped>>
      BY <1>6 DEF HangUp
    <3> QED BY <1>p, <3>1, <3>2, QuietStep
  <2> QED BY <1>p, <2>1, <2>2 DEF StreamInv
<1>7. ASSUME NEW p \in Publishers, PublishBegins(p)
      PROVE  StreamInv'
  <2> DEFINE new == [from |-> p, no |-> count[p] + 1]
  <2>1. HandInv' /\ OpenInv'
    BY <1>7, <1>t DEF PublishBegins, HandInv, OpenInv
  <2>2. PromisedInv'
    <3>1. \A c \in Clients : \A ev \in Events :
             <<c, ev>> \in promised' =>
                <<c, ev>> \in promised \/ (ev = new /\ c \in open /\ Wants(c, new))
      BY <1>7 DEF PublishBegins
    <3>2. stream' = stream
      BY <1>7 DEF PublishBegins
    <3> QED BY <1>t, <3>1, <3>2 DEF PromisedInv, OpenInv
  <2>3. \A d \in Clients : Pipeline(d)' = Pipeline(d)
    BY <1>7 DEF PublishBegins, Pipeline
  <2>4. OrderInv'
    BY <2>3 DEF StreamInv, OrderInv
  <2>5. /\ count'[p] = count[p] + 1 /\ count[p] \in Nat
        /\ \A q \in Publishers : q # p => count'[q] = count[q] /\ visiting'[q] = visiting[q]
    BY <1>7, <1>t DEF PublishBegins, TypeOK
  <2>6. CountInv'
    <3> SUFFICES ASSUME NEW c \in Clients, NEW ev \in Events, Has(Pipeline(c), ev)
                 PROVE  /\ ev.no <= count'[ev.from]
                        /\ c \in visiting'[ev.from] => ev.no < count'[ev.from]
      BY <2>3 DEF CountInv
    <3>1. /\ ev.no <= count[ev.from]
          /\ c \in visiting[ev.from] => ev.no < count[ev.from]
      BY DEF StreamInv, CountInv
    <3>2. CASE ev.from = p
      BY <2>5, <3>1, <3>2, EventFields
    <3>3. CASE ev.from # p
      BY <2>5, <3>1, <3>3, EventFields
    <3> QED BY <3>2, <3>3
  <2>7. NothingVanishes'
    <3> SUFFICES ASSUME SharedBroker, NEW c \in Clients, NEW ev \in Events,
                        <<c, ev>> \in promised', <<c, ev>> \notin dropped',
                        stream'[c] \in {"watching", "handling"}
                 PROVE  \/ Has(Pipeline(c)', ev)
                        \/ /\ visiting'[ev.from] # Idle
                           /\ c \in visiting'[ev.from]
                           /\ Current(ev.from)' = ev
      BY DEF NothingVanishes, Has
    <3>1. stream' = stream /\ dropped' = dropped
      BY <1>7 DEF PublishBegins
    <3>2. CASE <<c, ev>> \in promised
      <4>1. \/ Has(Pipeline(c), ev)
            \/ /\ visiting[ev.from] # Idle
               /\ c \in visiting[ev.from]
               /\ Current(ev.from) = ev
        BY <3>1, <3>2 DEF StreamInv, NothingVanishes, Has
      <4>2. CASE ev.from = p
        BY <1>7, <2>3, <4>1, <4>2 DEF PublishBegins
      <4>3. CASE ev.from # p
        BY <2>3, <2>5, <4>1, <4>3, EventFields DEF Current
      <4> QED BY <4>2, <4>3
    <3>3. CASE <<c, ev>> \notin promised
      <4>1. ev = new /\ c \in open
        BY <1>7, <3>3 DEF PublishBegins
      <4>2. visiting'[p] = open /\ open \in SUBSET Clients
        BY <1>7, <1>t DEF PublishBegins, TypeOK
      <4>3. ev.from = p /\ Current(p)' = ev
        BY <2>5, <4>1 DEF Current
      <4> QED BY <1>i, <4>1, <4>2, <4>3
    <3> QED BY <3>2, <3>3
  <2> QED BY <1>p, <2>1, <2>2, <2>4, <2>6, <2>7 DEF StreamInv
<1>8. ASSUME NEW p \in Publishers, PublishEnds(p)
      PROVE  StreamInv'
  <2>1. HandInv' /\ OpenInv' /\ PromisedInv'
    BY <1>8, <1>t DEF PublishEnds, HandInv, OpenInv, PromisedInv
  <2>2. \A d \in Clients : Pipeline(d)' = Pipeline(d)
    BY <1>8 DEF PublishEnds, Pipeline
  <2>3. OrderInv'
    BY <2>2 DEF StreamInv, OrderInv
  <2>4. /\ visiting[p] = {} /\ visiting'[p] = Idle
        /\ \A q \in Publishers : q # p => visiting'[q] = visiting[q]
        /\ UNCHANGED <<stream, count, promised, dropped>>
    BY <1>8, <1>t DEF PublishEnds, TypeOK
  <2>5. CountInv'
    <3>1. \A c \in Clients : c \notin Idle
      BY EventBrokerAssumption DEF Idle
    <3> QED BY <2>2, <2>4, <3>1, EventFields DEF StreamInv, CountInv
  <2>6. NothingVanishes'
    BY <2>2, <2>4, EventFields DEF StreamInv, NothingVanishes, Current
  <2> QED BY <1>p, <2>1, <2>3, <2>5, <2>6 DEF StreamInv
<1>9. ASSUME NEW p \in Publishers, NEW c \in Clients, PublishTo(p, c)
      PROVE  StreamInv'
  <2>1. HandInv' /\ OpenInv' /\ PromisedInv'
    BY <1>9, <1>t DEF PublishTo, HandInv, OpenInv, PromisedInv
  <2>2. \A d \in Clients : d # c => Pipeline(d)' = Pipeline(d)
    BY <1>9, <1>t DEF PublishTo, Pipeline, TypeOK
  <2>3. /\ Current(p) \in Events /\ Current(p).from = p /\ Current(p).no = count[p]
        /\ count[p] \in Nat
    BY <1>9, <1>t, EventsTyped DEF PublishTo, Current, StreamInv, Inv, PublishersInv, TypeOK
  <2>4. /\ c \in visiting[p] /\ visiting'[p] = visiting[p] \ {c}
        /\ visiting[p] \in SUBSET Clients /\ visiting'[p] # Idle
        /\ \A q \in Publishers : q # p => visiting'[q] = visiting[q]
        /\ UNCHANGED <<stream, count, promised>>
    <3>1. c \in visiting[p] /\ visiting'[p] = visiting[p] \ {c} /\ visiting[p] # Idle
      BY <1>9, <1>t DEF PublishTo, TypeOK
    <3>2. visiting[p] \in SUBSET Clients
      BY <1>t, <3>1 DEF TypeOK
    <3>3. visiting'[p] # Idle
      BY <1>i, <3>1, <3>2
    <3> QED BY <1>9, <1>t, <3>1, <3>2, <3>3 DEF PublishTo, TypeOK
  <2>5. \/ Pipeline(c)' = Append(Pipeline(c), Current(p)) /\ dropped' = dropped
        \/ Pipeline(c)' = Pipeline(c) /\ dropped' = dropped \cup {<<c, Current(p)>>}
    <3>1. CASE chan' = [chan EXCEPT ![c] = Append(@, Current(p))] /\ dropped' = dropped
      <4> DEFINE held == IF inHand[c] = NoEvent THEN <<>> ELSE <<inHand[c]>>
      <4>1. chan'[c] = Append(chan[c], Current(p)) /\ received' = received /\ inHand' = inHand
        BY <1>9, <1>t, <3>1 DEF PublishTo, TypeOK
      <4>2. received[c] \in Seq(Events) /\ chan[c] \in Seq(Events)
        BY <1>t DEF TypeOK
      <4>3. held \in Seq(Events)
        <5>1. CASE inHand[c] = NoEvent
          BY <5>1, EmptySeq
        <5>2. CASE inHand[c] \in Events
          BY <5>2, NoEventIsNone, HasOne
        <5> QED BY <1>t, <5>1, <5>2 DEF TypeOK
      <4>4. received[c] \o held \in Seq(Events)
        BY <4>2, <4>3, ConcatProperties
      <4>5. Pipeline(c) = (received[c] \o held) \o chan[c]
        BY DEF Pipeline
      <4>6. Pipeline(c)' = (received[c] \o held) \o Append(chan[c], Current(p))
        BY <4>1 DEF Pipeline
      <4> HIDE DEF held
      <4>7. (received[c] \o held) \o Append(chan[c], Current(p))
              = Append((received[c] \o held) \o chan[c], Current(p))
        BY <2>3, <4>2, <4>4, PipePublish
      <4>8. Pipeline(c)' = Append(Pipeline(c), Current(p))
        BY <4>5, <4>6, <4>7
      <4> QED BY <3>1, <4>8
    <3>2. CASE chan' = chan /\ dropped' = dropped \cup {<<c, Current(p)>>}
      <4>1. Pipeline(c)' = Pipeline(c)
        BY <1>9, <3>2 DEF PublishTo, Pipeline
      <4> QED BY <3>2, <4>1
    <3> QED BY <1>9, <3>1, <3>2 DEF PublishTo
  <2>h. \A ev \in Events : Has(Append(Pipeline(c), Current(p)), ev) <=> Has(Pipeline(c), ev) \/ ev = Current(p)
    BY <1>s, <2>3, HasAppend
  <2>6. \A ev \in Events : Has(Pipeline(c)', ev) => Has(Pipeline(c), ev) \/ ev = Current(p)
    BY <2>5, <2>h
  <2>7. \A ev \in Events : Has(Pipeline(c), ev) => Has(Pipeline(c)', ev)
    <3>1. CASE Pipeline(c)' = Append(Pipeline(c), Current(p))
      BY <2>h, <3>1
    <3>2. CASE Pipeline(c)' = Pipeline(c)
      BY <3>2
    <3> QED BY <2>5, <3>1, <3>2
  <2>8. OrderInv'
    <3>1. \A x \in Events : Has(Pipeline(c), x) /\ x.from = p => x.no < count[p]
      BY <2>4 DEF StreamInv, CountInv
    <3>2. Ordered(Pipeline(c))
      BY DEF StreamInv, OrderInv
    <3>3. Ordered(Append(Pipeline(c), Current(p)))
      BY <1>s, <2>3, <3>1, <3>2, OrderedAppend
    <3>4. Ordered(Pipeline(c)')
      BY <2>5, <3>2, <3>3
    <3> QED BY <2>2, <3>4 DEF StreamInv, OrderInv
  <2>9. CountInv'
    <3> SUFFICES ASSUME NEW d \in Clients, NEW ev \in Events, Has(Pipeline(d)', ev)
                 PROVE  /\ ev.no <= count[ev.from]
                        /\ d \in visiting'[ev.from] => ev.no < count[ev.from]
      BY <2>4 DEF CountInv
    <3>1. \A q \in Publishers : d \in visiting'[q] => d \in visiting[q]
      BY <2>4
    <3>2. CASE Has(Pipeline(d), ev)
      BY <3>1, <3>2, EventFields DEF StreamInv, CountInv
    <3>3. CASE ~Has(Pipeline(d), ev)
      BY <2>2, <2>3, <2>4, <2>6, <3>3
    <3> QED BY <3>2, <3>3
  <2>10. NothingVanishes'
    <3> SUFFICES ASSUME SharedBroker, NEW d \in Clients, NEW ev \in Events,
                        <<d, ev>> \in promised, <<d, ev>> \notin dropped',
                        stream[d] \in {"watching", "handling"}
                 PROVE  \/ Has(Pipeline(d)', ev)
                        \/ /\ visiting'[ev.from] # Idle
                           /\ d \in visiting'[ev.from]
                           /\ Current(ev.from)' = ev
      BY <2>4 DEF NothingVanishes, Has
    <3>1. /\ <<d, ev>> \notin dropped
          /\ d = c /\ ev = Current(p) => Pipeline(c)' = Append(Pipeline(c), Current(p))
      BY <2>5
    <3>2. \/ Has(Pipeline(d), ev)
          \/ /\ visiting[ev.from] # Idle
             /\ d \in visiting[ev.from]
             /\ Current(ev.from) = ev
      BY <3>1 DEF StreamInv, NothingVanishes, Has
    <3>3. CASE Has(Pipeline(d), ev)
      BY <2>2, <2>7, <3>3
    <3>4. CASE ev.from = p /\ d = c /\ Current(p) = ev
      BY <2>h, <3>1, <3>4
    <3>5. CASE /\ d \in visiting[ev.from] /\ visiting[ev.from] # Idle
               /\ Current(ev.from) = ev /\ (ev.from # p \/ d # c)
      BY <2>4, <3>5, EventFields DEF Current
    <3> QED BY <3>2, <3>3, <3>4, <3>5
  <2> QED BY <1>p, <2>1, <2>8, <2>9, <2>10 DEF StreamInv
<1>10. CASE UNCHANGED vars
  <2>1. HandInv' /\ OpenInv' /\ PromisedInv'
    BY <1>10, <1>t DEF vars, HandInv, OpenInv, PromisedInv
  <2>2. \A d \in Clients : Pipeline(d)' = Pipeline(d)
    BY <1>10 DEF vars, Pipeline
  <2>3. UNCHANGED <<stream, visiting, count, promised, dropped>>
    BY <1>10 DEF vars
  <2> QED BY <1>p, <2>1, <2>2, <2>3, QuietStep DEF StreamInv
<1> QED
  BY <1>1, <1>2, <1>3, <1>4, <1>5, <1>6, <1>7, <1>8, <1>9, <1>10 DEF Next

LEMMA InitialStreams == Init => StreamInv
<1> SUFFICES ASSUME Init PROVE StreamInv
  OBVIOUS
<1>1. Inv
  BY Initial
<1>2. HandInv /\ OpenInv /\ PromisedInv
  BY DEF Init, HandInv, OpenInv, PromisedInv
<1>3. \A c \in Clients : Pipeline(c) = <<>> /\ Len(Pipeline(c)) = 0
  <2>1. <<>> \o <<>> = <<>> /\ Len(<<>>) = 0
    BY EmptySeq, ConcatEmptySeq
  <2> QED BY <2>1 DEF Init, Pipeline
<1>4. CountInv /\ OrderInv
  BY <1>3 DEF CountInv, OrderInv, Ordered, Has
<1>5. NothingVanishes
  BY DEF Init, NothingVanishes
<1> QED BY <1>1, <1>2, <1>4, <1>5 DEF StreamInv

LEMMA StreamInvariance == Spec => []StreamInv
  BY InitialStreams, PreservedStreams, PTL DEF Spec

\* A client sees the events of one module in the order of their publication
\* and none twice, however many publishers and clients there are, however
\* Publish, Receive, Send and Unsubscribe overlap and whatever is dropped.
THEOREM InOrder == Spec => []OrderedPerModule
<1>1. StreamInv => OrderedPerModule
  BY DEF StreamInv, OrderInv, Ordered, OrderedPerModule
<1> QED BY <1>1, StreamInvariance, PTL

\* With modules and streams on one broker, an event a subscribed client asked
\* for was sent, is under way, or was dropped for want of room.
THEOREM NothingIsLostSilently == Spec => []NothingVanishes
<1>1. StreamInv => NothingVanishes
  BY DEF StreamInv
<1> QED BY <1>1, StreamInvariance, PTL
=============================================================================
