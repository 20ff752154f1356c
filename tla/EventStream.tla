---------------------------- MODULE EventStream ----------------------------
(***************************************************************************)
(* The way of an event from the broker of a supervisor                     *)
(* (internal/supervisor/events.go) through a stream of its API             *)
(* (internal/supervisorapi) to the mirror of a manager                     *)
(* (internal/manager/monitor.go, mirror.go).                               *)
(*                                                                         *)
(* Nobody waits for a slow reader: a full mailbox, on either side of the   *)
(* socket, ends the stream; the manager subscribes again and gets the      *)
(* events the broker has retained.  An event is its sequence number.  A    *)
(* capacity stands for both limits, of events and of bytes; one event may  *)
(* be large enough to be refused, or to evict more than one.               *)
(***************************************************************************)
EXTENDS Naturals, Sequences, FiniteSets

CONSTANTS
    Stream,     \* connections of the manager to GET /v1/events
    RingCap,    \* events the broker retains
    MailCap,    \* events a mailbox holds
    MaxEvents,  \* bound: events published
    MaxTimeouts,\* bound: write deadlines that pass
    NoStream

\* A replay fits the mailbox of the client, as by default; one that does not is refused for ever.
ASSUME StreamAssumption ==
    /\ IsFiniteSet(Stream) /\ NoStream \notin Stream
    /\ {RingCap, MailCap, MaxEvents} \subseteq Nat \ {0} /\ MaxTimeouts \in Nat
    /\ RingCap <= MailCap

VARIABLES
    broker, \* the EventBroker, and the delivery that publishMu covers
    stream, \* of each connection: handler, replay, mailbox, and the mailbox of the client
    mgr     \* the eventLoop of a handle and its mirror; missing is history

streamVars == <<broker, stream, mgr>>

NoGap == 0

Unused == [srv |-> FALSE, replay |-> <<>>, box |-> <<>>, boxOpen |-> FALSE,
           end |-> "open", cl |-> "none", inbox |-> <<>>]

StreamInit ==
    /\ broker = [next |-> 0, low |-> 1, closed |-> FALSE, timeouts |-> 0,
                 to |-> {}, over |-> {}, subs |-> {}]
    /\ stream = [s \in Stream |-> Unused]
    /\ mgr = [cur |-> NoStream, last |-> 0, missing |-> {}, gap |-> NoGap, bump |-> FALSE,
              cancelled |-> FALSE]
-----------------------------------------------------------------------------
(* The broker *)

\* publishMu is held.
Publishing == broker.to # {} \/ broker.over # {}

\* retainLocked: the number of retained events is bounded, and so are their bytes.
Retained(next) == {low \in broker.low..(next + 1) : next - low < RingCap}

\* PublishLocal and Forward.
Publish ==
    /\ ~Publishing /\ ~broker.closed /\ broker.next < MaxEvents
    /\ \E low \in Retained(broker.next + 1) :
          broker' = [broker EXCEPT !.next = @ + 1, !.low = low, !.to = broker.subs]
    /\ UNCHANGED <<stream, mgr>>

\* eventMailbox.send: a mailbox that is full, or no longer open, takes nothing.
Deliver(s) ==
    /\ s \in broker.to
    /\ \/ /\ stream[s].boxOpen /\ Len(stream[s].box) < MailCap
          /\ stream' = [stream EXCEPT ![s].box = Append(@, broker.next)]
          /\ broker' = [broker EXCEPT !.to = @ \ {s}]
       \/ /\ broker' = [broker EXCEPT !.to = @ \ {s}, !.over = @ \cup {s}]
          /\ UNCHANGED stream
    /\ UNCHANGED mgr

\* Mutant: one that was slow keeps its subscription and its mailbox.
DropNobody ==
    /\ broker.to = {} /\ broker.over # {}
    /\ broker' = [broker EXCEPT !.over = {}]
    /\ UNCHANGED <<stream, mgr>>

\* deliver, when all have been tried: the slow ones are removed and their mailboxes aborted.
DropSlow ==
    /\ broker.to = {} /\ broker.over # {}
    /\ broker' = [broker EXCEPT !.over = {}, !.subs = @ \ broker.over]
    /\ stream' = [s \in Stream |-> IF s \in broker.over
                       THEN [stream[s] EXCEPT !.box = <<>>, !.boxOpen = FALSE] ELSE stream[s]]
    /\ UNCHANGED mgr

\* Close: the mailboxes are drained.
BrokerClose ==
    /\ ~Publishing /\ ~broker.closed
    /\ broker' = [broker EXCEPT !.closed = TRUE, !.subs = {}]
    /\ stream' = [s \in Stream |-> IF s \in broker.subs
                                   THEN [stream[s] EXCEPT !.boxOpen = FALSE] ELSE stream[s]]
    /\ UNCHANGED mgr
-----------------------------------------------------------------------------
(* serveEvents *)

Ring == [n \in 1..(broker.next - broker.low + 1) |-> broker.low + n - 1]

\* Mutant: the replay is read before the subscription is made, and an event falls between.
OpenedBefore == [Unused EXCEPT !.srv = TRUE, !.cl = "read", !.boxOpen = ~broker.closed,
                               !.replay = SubSeq(Ring, 1, Len(Ring) - 1)]

\* Broker.Subscribe, atomic with respect to publication, and the response of the handler.
Opened == [Unused EXCEPT !.srv = TRUE, !.cl = "read", !.boxOpen = ~broker.closed,
                         !.replay = IF broker.closed THEN <<>> ELSE Ring]

\* What is read, of the replay or of the mailbox, goes into the mailbox of the client, until it
\* is taken.
ReadReplay(r) == [r EXCEPT !.replay = Tail(r.replay), !.inbox = Append(r.inbox, Head(r.replay))]
ReadBox(r) == [r EXCEPT !.box = Tail(r.box), !.inbox = Append(r.inbox, Head(r.box))]

\* The client gives up when its consumer is slow: it closes the connection.
Hungup(r) == [r EXCEPT !.box = Tail(r.box), !.cl = "done", !.end = "left", !.inbox = <<>>]

\* Mutant: a live event overtakes the replay.
WriteAnyOrder(s) ==
    /\ stream[s].srv /\ stream[s].end = "open"
    /\ \/ /\ stream[s].replay # <<>>
          /\ stream' = [stream EXCEPT ![s] = ReadReplay(@)]
       \/ /\ stream[s].box # <<>>
          /\ stream' = [stream EXCEPT ![s] = ReadBox(@)]
    /\ UNCHANGED <<broker, mgr>>

\* One event, of the replay first, is written and read.
Write(s) ==
    /\ stream[s].srv /\ stream[s].end = "open"
    /\ \/ /\ stream[s].replay # <<>>
          /\ stream' = [stream EXCEPT ![s] = ReadReplay(@)]
       \/ /\ stream[s].replay = <<>> /\ stream[s].box # <<>> /\ Len(stream[s].inbox) < MailCap
          /\ stream' = [stream EXCEPT ![s] = ReadBox(@)]
       \/ /\ stream[s].replay = <<>> /\ stream[s].box # <<>> /\ stream[s].inbox # <<>>
          /\ stream' = [stream EXCEPT ![s] = Hungup(@)]
    /\ UNCHANGED <<broker, mgr>>

\* Nothing more comes; what the client has read stays.
Ended(r) == IF r.cl = "none" THEN Unused
            ELSE [r EXCEPT !.srv = FALSE, !.replay = <<>>, !.box = <<>>, !.boxOpen = FALSE,
                           !.end = "closed"]

\* Mutant: the subscription of a handler that returns is not closed.
ReturnSubscribed(s, cut) ==
    /\ broker' = [broker EXCEPT !.timeouts = @ + cut]
    /\ stream' = [stream EXCEPT ![s] = Ended(@)]
    /\ UNCHANGED mgr

\* The handler returns, and closes its subscription.
Return(s, cut) ==
    /\ broker' = [broker EXCEPT !.subs = @ \ {s}, !.timeouts = @ + cut]
    /\ stream' = [stream EXCEPT ![s] = Ended(@)]
    /\ UNCHANGED mgr

\* The deadline of a write passes, the client is not reading.
WriteFails(s) ==
    /\ stream[s].srv /\ stream[s].replay \o stream[s].box # <<>>
    /\ broker.timeouts < MaxTimeouts
    /\ Return(s, 1)

\* The client has gone, or the mailbox is closed and nothing is left in it.
HandlerEnds(s) ==
    /\ stream[s].srv
    /\ \/ stream[s].end = "left"
       \/ stream[s].replay \o stream[s].box = <<>> /\ ~stream[s].boxOpen
    /\ Return(s, 0)
-----------------------------------------------------------------------------
(* DescendantClient.Subscribe *)

\* The stream ends: what has been read can still be taken.
ScanEnds(s) ==
    /\ stream[s].cl = "read" /\ stream[s].end = "closed"
    /\ stream' = [stream EXCEPT ![s].cl = "done"]
    /\ UNCHANGED <<broker, mgr>>

\* The owner closes the subscription.
Closed(r) == IF r.srv THEN [r EXCEPT !.cl = "none", !.end = "left", !.inbox = <<>>] ELSE Unused
-----------------------------------------------------------------------------
(* The eventLoop of a manager *)

\* It subscribes, again after a delay; a request that fails changes nothing.
Subscribe ==
    /\ mgr.cur = NoStream /\ ~mgr.cancelled /\ ~mgr.bump /\ ~Publishing
    /\ \E s \in Stream : stream[s] = Unused
    /\ LET s == CHOOSE t \in Stream : stream[t] = Unused IN
          /\ stream' = [stream EXCEPT ![s] = Opened]
          /\ broker' = IF broker.closed THEN broker ELSE [broker EXCEPT !.subs = @ \cup {s}]
          /\ mgr' = [mgr EXCEPT !.cur = s]

\* eventMirror.Accept: what it has seen is dropped, and the first gap is kept.
Accepted(n) ==
    IF n <= mgr.last THEN mgr
    ELSE [mgr EXCEPT !.missing = @ \cup (mgr.last + 1)..(n - 1), !.last = n,
                     !.gap = IF n > mgr.last + 1 /\ @ = NoGap THEN mgr.last + 1 ELSE @]

\* consumeSubscription: an event goes into the mirror, before the change is announced.
Take ==
    LET s == mgr.cur IN
    /\ s # NoStream /\ ~mgr.bump
    /\ stream[s].inbox # <<>>
    /\ mgr' = [Accepted(Head(stream[s].inbox)) EXCEPT !.bump = TRUE]
    /\ stream' = [stream EXCEPT ![s].inbox = Tail(@)]
    /\ UNCHANGED broker

\* The stream has ended, or the handle is cancelled.
StopConsuming ==
    LET s == mgr.cur IN
    /\ s # NoStream /\ ~mgr.bump
    /\ mgr.cancelled \/ (stream[s].inbox = <<>> /\ stream[s].cl = "done")
    /\ stream' = [stream EXCEPT ![s] = Closed(@)]
    /\ mgr' = [mgr EXCEPT !.cur = NoStream]
    /\ UNCHANGED broker

\* The context of the handle ends: the root leaves the fleet, or the manager closes.
CancelHandle ==
    /\ mgr' = [mgr EXCEPT !.cancelled = TRUE]
    /\ UNCHANGED <<broker, stream>>
-----------------------------------------------------------------------------
Serve(s) == Write(s) \/ HandlerEnds(s) \/ ScanEnds(s)
Finish == (\E s \in Stream : Deliver(s)) \/ DropSlow

StreamNext ==
    \/ Publish \/ Finish \/ BrokerClose
    \/ \E s \in Stream : Serve(s) \/ WriteFails(s)
    \/ Subscribe \/ Take \/ StopConsuming

\* The goroutines that hold a mutex or have something to do run.
StreamFairness ==
    /\ WF_streamVars(Finish)
    /\ \A s \in Stream : WF_streamVars(Serve(s))
    /\ WF_streamVars(Subscribe) /\ WF_streamVars(Take) /\ WF_streamVars(StopConsuming)
-----------------------------------------------------------------------------
(* Properties *)

Seqs == 1..MaxEvents

StreamTypeOK ==
    /\ broker \in [next : 0..MaxEvents, low : 1..(MaxEvents + 1), closed : BOOLEAN,
                   timeouts : 0..MaxTimeouts, to : SUBSET Stream, over : SUBSET Stream,
                   subs : SUBSET Stream]
    /\ stream \in [Stream -> [srv : BOOLEAN, replay : Seq(Seqs), box : Seq(Seqs), boxOpen : BOOLEAN,
                              end : {"open", "closed", "left"}, cl : {"none", "read", "done"},
                              inbox : Seq(Seqs)]]
    /\ mgr \in [cur : Stream \cup {NoStream}, last : 0..MaxEvents, missing : SUBSET Seqs,
                gap : 0..MaxEvents, bump : BOOLEAN, cancelled : BOOLEAN]

\* What is on its way in a stream, the oldest first.
Coming(s) == stream[s].inbox \o stream[s].replay \o stream[s].box

\* What a stream carries has no hole, nothing twice and nothing out of order, across the cut from
\* the replay to the live events; and, while it is subscribed, it reaches to the last event
\* published (EventBroker.Subscribe and deliver, serveEvents).
NoHole ==
    \A s \in Stream :
        LET coming == Coming(s) IN
        /\ \A i \in 1..(Len(coming) - 1) : coming[i + 1] = coming[i] + 1
        /\ (s \in broker.subs \ (broker.to \cup broker.over) /\ coming # <<>>)
               => coming[Len(coming)] = broker.next

\* The manager never misses an event without a word, and never without need: each one missing was
\* evicted by the broker, whatever streams were lost, and the gap of the mirror is the first.
GapIsTrue ==
    /\ \A n \in mgr.missing : n < broker.low /\ mgr.gap # NoGap /\ mgr.gap <= n
    /\ mgr.gap # NoGap => mgr.gap \in mgr.missing
============================================================================
