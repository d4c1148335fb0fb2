---------------------------- MODULE EventBroker ----------------------------
(***************************************************************************)
(* Event distribution in penguind: the EventBroker and the WatchEvents     *)
(* streams that drain it (internal/daemon/server.go), and how initDaemon   *)
(* wires brokers to modules and streams (cmd/penguind/service.go).         *)
(*                                                                         *)
(* Publish holds the broker's lock for reading while it visits the         *)
(* subscriber channels one by one, so several publishers overlap, and the  *)
(* streams receive from the channels without any lock.  Subscribe and      *)
(* Unsubscribe take the lock for writing.                                  *)
(*                                                                         *)
(* An event is a publisher (the module it is about) and its serial number. *)
(* Every client opens one stream; its subscription id is the client.       *)
(***************************************************************************)
EXTENDS Naturals, Sequences, FiniteSets

CONSTANTS
    Clients,      \* callers of WatchEvents
    Publishers,   \* modules whose events are published, one goroutine each
    Filter,       \* WatchEventsRequest.module of each client: a publisher or ""
    Cap,          \* capacity of a subscriber channel (10 in the code)
    MaxEvents,    \* model bound: events of each publisher
    SharedBroker  \* do modules publish to the broker WatchEvents reads?

ASSUME EventBrokerAssumption ==
    /\ Cap \in Nat \ {0}
    /\ MaxEvents \in [Publishers -> Nat]
    /\ SharedBroker \in BOOLEAN
    /\ "idle" \notin Clients  \* no client is the mark of an idle publisher

ASSUME FilterAssumption == Filter \in [Clients -> Publishers \cup {""}]

VARIABLES
    stream,     \* control state of each WatchEvents call
    gone,       \* clients whose stream context is cancelled
    chan,       \* contents of each subscriber channel
    open,       \* clients in the broker's subscriber map
    inHand,     \* the event a stream has received and not sent yet
    received,   \* the events sent to each client
    visiting,   \* subscribers a publisher in Publish has still to visit
    count,      \* events each publisher has begun to publish
    promised,   \* ghost: <<client, event>> with the client subscribed and
                \* interested when the event was published
    dropped     \* ghost: <<client, event>> lost to a full channel

vars == <<stream, gone, chan, open, inHand, received, visiting, count,
          promised, dropped>>

Events == UNION {[from : {p}, no : 1..MaxEvents[p]] : p \in Publishers}
NoEvent == [from |-> "none", no |-> 0]
Idle == {"idle"}

Current(p) == [from |-> p, no |-> count[p]]

\* The read lock is held by publishers, the write lock needs it free.
LockFree == \A p \in Publishers : visiting[p] = Idle

Wants(c, ev) == Filter[c] = "" \/ Filter[c] = ev.from

TypeOK ==
    /\ stream \in [Clients -> {"idle", "watching", "handling", "leaving", "done"}]
    /\ gone \in SUBSET Clients
    /\ open \in SUBSET Clients
    /\ chan \in [Clients -> Seq(Events)]
    /\ \A c \in Clients : Len(chan[c]) <= Cap
    /\ inHand \in [Clients -> Events \cup {NoEvent}]
    /\ received \in [Clients -> Seq(Events)]
    /\ visiting \in [Publishers -> (SUBSET Clients) \cup {Idle}]
    /\ count \in [Publishers -> Nat]
    /\ \A p \in Publishers : count[p] <= MaxEvents[p]
    /\ promised \in SUBSET (Clients \X Events)
    /\ dropped \in SUBSET (Clients \X Events)

-----------------------------------------------------------------------------
(* The broker.                                                             *)

\* WatchEvents up to its loop: Subscribe registers a fresh, empty channel.
Subscribe(c) ==
    /\ stream[c] = "idle"
    /\ LockFree
    /\ open' = open \cup {c}
    /\ stream' = [stream EXCEPT ![c] = "watching"]
    /\ UNCHANGED <<gone, chan, inHand, received, visiting, count, promised, dropped>>

\* Slip: the subscription is removed without taking the lock.
UnsubscribeUnlocked(c) ==
    /\ stream[c] = "leaving"
    /\ open' = open \ {c}
    /\ chan' = [chan EXCEPT ![c] = <<>>]
    /\ stream' = [stream EXCEPT ![c] = "done"]
    /\ UNCHANGED <<gone, inHand, received, visiting, count, promised, dropped>>

\* The deferred Unsubscribe closes the channel and forgets it.
Unsubscribe(c) ==
    /\ stream[c] = "leaving"
    /\ LockFree
    /\ open' = open \ {c}
    /\ chan' = [chan EXCEPT ![c] = <<>>]
    /\ stream' = [stream EXCEPT ![c] = "done"]
    /\ UNCHANGED <<gone, inHand, received, visiting, count, promised, dropped>>

\* Publish takes the read lock; the subscriber map cannot change until it
\* lets go.  Modules and streams need not use the same broker.
PublishBegins(p) ==
    LET ev == [from |-> p, no |-> count[p] + 1] IN
    /\ visiting[p] = Idle
    /\ count[p] < MaxEvents[p]
    /\ count' = [count EXCEPT ![p] = @ + 1]
    /\ visiting' = [visiting EXCEPT ![p] = IF SharedBroker THEN open ELSE {}]
    /\ promised' = promised \cup {<<c, ev>> : c \in {d \in open : Wants(d, ev)}}
    /\ UNCHANGED <<stream, gone, chan, open, inHand, received, dropped>>

\* Slip: the subscriber is visited again after its turn.
PublishToTwice(p, c) ==
    /\ visiting[p] # Idle
    /\ c \in visiting[p]
    /\ Len(chan[c]) < Cap
    /\ chan' = [chan EXCEPT ![c] = Append(@, Current(p))]
    /\ \/ visiting' = [visiting EXCEPT ![p] = @ \ {c}]
       \/ UNCHANGED visiting
    /\ UNCHANGED <<stream, gone, open, inHand, received, count, promised, dropped>>

\* Slip: a plain send, which waits for room.
PublishToBlocking(p, c) ==
    /\ visiting[p] # Idle
    /\ c \in visiting[p]
    /\ Len(chan[c]) < Cap
    /\ chan' = [chan EXCEPT ![c] = Append(@, Current(p))]
    /\ visiting' = [visiting EXCEPT ![p] = @ \ {c}]
    /\ UNCHANGED <<stream, gone, open, inHand, received, count, promised, dropped>>

\* Slip: an unbuffered channel, to which a non-blocking send only succeeds
\* while the stream is waiting for it.
PublishToIdleOnly(p, c) ==
    /\ visiting[p] # Idle
    /\ c \in visiting[p]
    /\ chan' = IF stream[c] = "watching" /\ Len(chan[c]) < Cap
               THEN [chan EXCEPT ![c] = Append(@, Current(p))]
               ELSE chan
    /\ visiting' = [visiting EXCEPT ![p] = @ \ {c}]
    /\ UNCHANGED <<stream, gone, open, inHand, received, count, promised, dropped>>

\* One turn of Publish's loop: a send that never blocks.
PublishTo(p, c) ==
    /\ visiting[p] # Idle
    /\ c \in visiting[p]
    /\ \/ /\ Len(chan[c]) < Cap
          /\ chan' = [chan EXCEPT ![c] = Append(@, Current(p))]
          /\ UNCHANGED dropped
       \/ /\ Len(chan[c]) = Cap
          /\ dropped' = dropped \cup {<<c, Current(p)>>}
          /\ UNCHANGED chan
    /\ visiting' = [visiting EXCEPT ![p] = @ \ {c}]
    /\ UNCHANGED <<stream, gone, open, inHand, received, count, promised>>

PublishEnds(p) ==
    /\ visiting[p] = {}
    /\ visiting' = [visiting EXCEPT ![p] = Idle]
    /\ UNCHANGED <<stream, gone, chan, open, inHand, received, count, promised, dropped>>

-----------------------------------------------------------------------------
(* WatchEvents.                                                            *)

\* select: an event is there.
Receive(c) ==
    /\ stream[c] = "watching"
    /\ chan[c] # <<>>
    /\ inHand' = [inHand EXCEPT ![c] = Head(chan[c])]
    /\ chan' = [chan EXCEPT ![c] = Tail(@)]
    /\ stream' = [stream EXCEPT ![c] = "handling"]
    /\ UNCHANGED <<gone, open, received, visiting, count, promised, dropped>>

\* select: the context is done (select picks freely when both are ready).
ContextDone(c) ==
    /\ stream[c] = "watching"
    /\ c \in gone
    /\ stream' = [stream EXCEPT ![c] = "leaving"]
    /\ UNCHANGED <<gone, chan, open, inHand, received, visiting, count, promised, dropped>>

\* The filter, then stream.Send; Send fails only once the client is gone.
SendOrSkip(c) ==
    /\ stream[c] = "handling"
    /\ inHand' = [inHand EXCEPT ![c] = NoEvent]
    /\ \/ /\ ~Wants(c, inHand[c])
          /\ stream' = [stream EXCEPT ![c] = "watching"]
          /\ UNCHANGED received
       \/ /\ Wants(c, inHand[c])
          /\ received' = [received EXCEPT ![c] = Append(@, inHand[c])]
          /\ stream' = [stream EXCEPT ![c] = "watching"]
       \/ /\ Wants(c, inHand[c])
          /\ c \in gone
          /\ stream' = [stream EXCEPT ![c] = "leaving"]
          /\ UNCHANGED received
    /\ UNCHANGED <<gone, chan, open, visiting, count, promised, dropped>>

\* The client hangs up, or its process dies.
HangUp(c) ==
    /\ stream[c] \in {"watching", "handling"}
    /\ c \notin gone
    /\ gone' = gone \cup {c}
    /\ UNCHANGED <<stream, chan, open, inHand, received, visiting, count, promised, dropped>>

-----------------------------------------------------------------------------
Init ==
    /\ stream = [c \in Clients |-> "idle"]
    /\ gone = {}
    /\ chan = [c \in Clients |-> <<>>]
    /\ open = {}
    /\ inHand = [c \in Clients |-> NoEvent]
    /\ received = [c \in Clients |-> <<>>]
    /\ visiting = [p \in Publishers |-> Idle]
    /\ count = [p \in Publishers |-> 0]
    /\ promised = {}
    /\ dropped = {}

Next ==
    \/ \E c \in Clients :
          \/ Subscribe(c) \/ Unsubscribe(c) \/ Receive(c)
          \/ ContextDone(c) \/ SendOrSkip(c) \/ HangUp(c)
    \/ \E p \in Publishers :
          \/ PublishBegins(p) \/ PublishEnds(p)
          \/ \E c \in Clients : PublishTo(p, c)

Spec == Init /\ [][Next]_vars

\* A publisher that is inside Publish keeps running.  Nothing is assumed of
\* the streams: a Send waits for a client that does not read.
Fairness ==
    \A p \in Publishers : /\ WF_vars(\E c \in Clients : PublishTo(p, c))
                          /\ WF_vars(PublishEnds(p))

FairSpec == Spec /\ Fairness

\* Clients that read or hang up, so that their streams keep running.  Strong
\* fairness: select chooses among ready cases at random, and a waiting writer
\* of an RWMutex holds off new readers.
ClientReads(c) ==
    /\ WF_vars(Receive(c) \/ ContextDone(c))
    /\ SF_vars(ContextDone(c))
    /\ WF_vars(SendOrSkip(c))
    /\ SF_vars(Unsubscribe(c))

-----------------------------------------------------------------------------
(* Safety.                                                                 *)

\* Publish never sends on a closed channel (which would panic): Unsubscribe
\* cannot close one while any publisher may still visit it.
NoSendOnClosed ==
    \A p \in Publishers : visiting[p] # Idle => visiting[p] \subseteq open

\* What a client has been sent, what its stream holds and what is queued.
Pipeline(c) ==
    received[c] \o (IF inHand[c] = NoEvent THEN <<>> ELSE <<inHand[c]>>) \o chan[c]

\* A client sees the events of one module in the order in which they were
\* published and none twice, however publishers overlap and whatever is lost.
OrderedPerModule ==
    \A c \in Clients :
        \A i, j \in 1..Len(Pipeline(c)) :
            i < j /\ Pipeline(c)[i].from = Pipeline(c)[j].from
                => Pipeline(c)[i].no < Pipeline(c)[j].no

\* An event that a subscribed client asked for is sent, under way or was lost
\* to a full channel; nothing else makes it vanish while the client is there.
NothingVanishes ==
    SharedBroker =>
        \A c \in Clients : \A ev \in Events :
            /\ <<c, ev>> \in promised
            /\ <<c, ev>> \notin dropped
            /\ stream[c] \in {"watching", "handling"}
            => \/ \E i \in 1..Len(Pipeline(c)) : Pipeline(c)[i] = ev
               \/ /\ visiting[ev.from] # Idle
                  /\ c \in visiting[ev.from]
                  /\ Current(ev.from) = ev

-----------------------------------------------------------------------------
(* Liveness.                                                               *)

\* What a client asked for has reached it or was lost to a full channel.
Delivered(c) ==
    \A ev \in Events :
        <<c, ev>> \in promised
            => \/ \E i \in 1..Len(received[c]) : received[c][i] = ev
               \/ <<c, ev>> \in dropped

\* "WatchEvents streams events from modules": a client that reads and does
\* not hang up catches up with the modules again and again.
EventsReachWatchers ==
    \A c \in Clients : ClientReads(c) => []<>(Delivered(c) \/ c \in gone)

\* "Buffered to avoid blocking publishers": Publish returns even when no
\* client ever reads.
PublishReturns ==
    \A p \in Publishers : visiting[p] # Idle ~> visiting[p] = Idle

\* A subscription does not outlive its client.
SubscriptionReleased ==
    \A c \in Clients : ClientReads(c) => (c \in gone ~> c \notin open)

\* The broker's lock is a bottleneck for nobody: publishers return and
\* departing clients are let go, however the two overlap.
NobodyIsStuck == PublishReturns /\ SubscriptionReleased
=============================================================================
