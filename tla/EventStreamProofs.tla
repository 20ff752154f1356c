------------------------- MODULE EventStreamProofs -------------------------
(***************************************************************************)
(* Proofs about EventStream, in the specification of LiveView, for any     *)
(* number of streams and of events and any capacities: type correctness,   *)
(* an inductive invariant, that no stream has a hole, and that the gap of  *)
(* the mirror is true.                                                     *)
(***************************************************************************)
EXTENDS LiveView, TLAPS

USE StreamAssumption, PageAssumption

-----------------------------------------------------------------------------
(* The inductive invariant *)

\* x is a+1, ..., b.
IsRun(x, a, b) == Len(x) = b - a /\ \A i \in 1..Len(x) : x[i] = a + i

\* What is on its way in s is the run from a to d, cut at b and c: it reaches to the last event
\* that was delivered while s is subscribed, and from what the mirror has, or the broker has not.
Carries(s, a, b, c, d) ==
    /\ a <= b /\ b <= c /\ c <= d /\ d <= broker.next
    /\ IsRun(stream[s].inbox, a, b) /\ IsRun(stream[s].replay, b, c) /\ IsRun(stream[s].box, c, d)
    /\ s \in broker.subs \ (broker.to \cup broker.over) => d = broker.next
    /\ (s \in broker.to /\ stream[s].boxOpen) => d + 1 = broker.next
    /\ (s = mgr.cur /\ stream[s].end # "left") => \A n \in (mgr.last + 1)..a : n < broker.low

CarriesAll == \A s \in Stream : \E a, b, c, d \in 0..MaxEvents : Carries(s, a, b, c, d)

\* The ends of a stream.
EndsAgree ==
    \A s \in Stream :
        /\ s \in broker.subs => stream[s].srv
        /\ s = mgr.cur => stream[s].cl # "none"
        /\ stream[s].end = "left" => stream[s].inbox = <<>>

BrokerInv ==
    /\ broker.low <= broker.next + 1 /\ mgr.last <= broker.next
    /\ broker.closed => broker.subs = {}
    /\ mgr.missing \subseteq 1..mgr.last

StreamInv == LiveTypeOK /\ CarriesAll /\ EndsAgree /\ BrokerInv /\ GapIsTrue

-----------------------------------------------------------------------------
(* Runs *)

\* An empty run is where it starts.
LEMMA RunEmpty ==
    /\ \A a \in Nat : IsRun(<<>>, a, a)
    /\ \A a, b \in Nat : IsRun(<<>>, a, b) => a = b
<1>1. Len(<<>>) = 0
  OBVIOUS
<1> QED
  BY <1>1 DEF IsRun

\* The first of a run is taken.
LEMMA RunTail ==
    ASSUME NEW x \in Seq(Seqs), x # <<>>, NEW a \in Nat, NEW b \in Nat, IsRun(x, a, b)
    PROVE  /\ Head(x) = a + 1 /\ Head(x) \in Seqs /\ Tail(x) \in Seq(Seqs)
           /\ IsRun(Tail(x), a + 1, b) /\ a + 1 <= b
<1>1. Len(x) \in Nat /\ Len(x) >= 1 /\ Head(x) = x[1] /\ x[1] \in Seqs
  OBVIOUS
<1>2. Tail(x) \in Seq(Seqs) /\ Len(Tail(x)) = Len(x) - 1
         /\ \A i \in 1..(Len(x) - 1) : Tail(x)[i] = x[i + 1]
  BY <1>1
<1>3. Len(x) = b - a /\ \A i \in 1..Len(x) : x[i] = a + i
  BY DEF IsRun
<1>4. \A i \in 1..(Len(x) - 1) : i + 1 \in 1..Len(x) /\ x[i + 1] = a + 1 + i
  BY <1>1, <1>3
<1> QED
  BY <1>1, <1>2, <1>3, <1>4 DEF IsRun

\* The next is appended to a run.
LEMMA RunAppend ==
    ASSUME NEW x \in Seq(Seqs), NEW a \in Nat, NEW b \in Nat, IsRun(x, a, b), b + 1 \in Seqs
    PROVE  Append(x, b + 1) \in Seq(Seqs) /\ IsRun(Append(x, b + 1), a, b + 1)
<1> DEFINE n == b + 1
           y == Append(x, n)
<1>1. /\ y \in Seq(Seqs) /\ Len(y) = Len(x) + 1 /\ Len(x) \in Nat
      /\ \A i \in 1..Len(x) : y[i] = x[i]
      /\ y[Len(x) + 1] = n
  OBVIOUS
<1>2. Len(x) = b - a /\ \A i \in 1..Len(x) : x[i] = a + i
  BY DEF IsRun
<1> HIDE DEF y
<1>3. Len(y) = n - a
  BY <1>1, <1>2
<1>4. ASSUME NEW i \in 1..Len(y) PROVE y[i] = a + i
  <2>1. i \in 1..Len(x) \/ i = Len(x) + 1
    BY <1>1
  <2>2. CASE i \in 1..Len(x)
    BY <1>1, <1>2, <2>2
  <2>3. CASE i = Len(x) + 1
    <3>1. y[i] = n
      BY <1>1, <2>3
    <3>2. n = a + i
      BY <1>1, <1>2, <2>3
    <3> QED
      BY <3>1, <3>2
  <2> QED
    BY <2>1, <2>2, <2>3
<1> QED
  BY <1>1, <1>3, <1>4 DEF IsRun, y

\* Two runs that meet are one.
LEMMA RunConcat ==
    ASSUME NEW x \in Seq(Seqs), NEW y \in Seq(Seqs), NEW a \in Nat, NEW b \in Nat, NEW c \in Nat,
           IsRun(x, a, b), IsRun(y, b, c)
    PROVE  x \o y \in Seq(Seqs) /\ IsRun(x \o y, a, c)
<1> DEFINE z == x \o y
<1>1. /\ z \in Seq(Seqs) /\ Len(z) = Len(x) + Len(y) /\ Len(x) \in Nat /\ Len(y) \in Nat
      /\ \A i \in 1..(Len(x) + Len(y)) : z[i] = IF i <= Len(x) THEN x[i] ELSE y[i - Len(x)]
  OBVIOUS
<1>2. /\ Len(x) = b - a /\ \A i \in 1..Len(x) : x[i] = a + i
      /\ Len(y) = c - b /\ \A i \in 1..Len(y) : y[i] = b + i
  BY DEF IsRun
<1> HIDE DEF z
<1>3. Len(z) = c - a
  BY <1>1, <1>2
<1>4. ASSUME NEW i \in 1..Len(z) PROVE z[i] = a + i
  <2>1. CASE i <= Len(x)
    BY <1>1, <1>2, <2>1
  <2>2. CASE ~(i <= Len(x))
    <3>1. i - Len(x) \in 1..Len(y)
      BY <1>1, <2>2
    <3> QED
      BY <1>1, <1>2, <2>2, <3>1
  <2> QED
    BY <2>1, <2>2
<1> QED
  BY <1>1, <1>3, <1>4 DEF IsRun, z

\* What the broker retains is a run.
LEMMA RingIsRun ==
    ASSUME broker.next \in 0..MaxEvents, broker.low \in 1..(MaxEvents + 1),
           broker.low <= broker.next + 1
    PROVE  Ring \in Seq(Seqs) /\ IsRun(Ring, broker.low - 1, broker.next)
<1> DEFINE k == broker.next - broker.low + 1
<1>1. k \in Nat /\ \A n \in 1..k : broker.low + n - 1 \in Seqs
  BY DEF Seqs
<1>2. Ring = [n \in 1..k |-> broker.low + n - 1]
  BY DEF Ring
<1> HIDE DEF k
<1>3. Ring \in Seq(Seqs) /\ Len(Ring) = k
  BY <1>1, <1>2
<1>4. \A n \in 1..k : Ring[n] = broker.low + n - 1
  BY <1>2
<1> QED
  BY <1>3, <1>4 DEF IsRun, k

-----------------------------------------------------------------------------
(* Types *)

BrokerType == [next : 0..MaxEvents, low : 1..(MaxEvents + 1), closed : BOOLEAN,
               timeouts : 0..MaxTimeouts, to : SUBSET Stream, over : SUBSET Stream,
               subs : SUBSET Stream]
StreamRecord == [srv : BOOLEAN, replay : Seq(Seqs), box : Seq(Seqs), boxOpen : BOOLEAN,
                 end : {"open", "closed", "left"}, cl : {"none", "read", "done"},
                 inbox : Seq(Seqs)]
MgrType == [cur : Stream \cup {NoStream}, last : 0..MaxEvents, missing : SUBSET Seqs,
            gap : 0..MaxEvents, bump : BOOLEAN, cancelled : BOOLEAN]

\* The parts of the type invariant.
LEMMA Typed ==
    StreamTypeOK <=> /\ broker \in BrokerType /\ stream \in [Stream -> StreamRecord]
                     /\ mgr \in MgrType
BY DEF StreamTypeOK, BrokerType, StreamRecord, MgrType

\* The fields.
LEMMA Fields ==
    ASSUME StreamTypeOK
    PROVE  /\ broker.next \in 0..MaxEvents /\ broker.low \in 1..(MaxEvents + 1)
           /\ broker.to \subseteq Stream /\ broker.over \subseteq Stream /\ broker.subs \subseteq Stream
           /\ broker.timeouts \in 0..MaxTimeouts /\ broker.closed \in BOOLEAN
           /\ mgr.cur \in Stream \cup {NoStream} /\ mgr.last \in 0..MaxEvents
           /\ mgr.missing \subseteq Seqs /\ mgr.gap \in 0..MaxEvents
           /\ \A s \in Stream :
                 /\ stream[s] \in StreamRecord
                 /\ stream[s].inbox \in Seq(Seqs) /\ stream[s].replay \in Seq(Seqs)
                 /\ stream[s].box \in Seq(Seqs)
                 /\ stream[s].srv \in BOOLEAN /\ stream[s].boxOpen \in BOOLEAN
BY DEF StreamTypeOK, StreamRecord

\* A stream that nobody uses is typed, and carries nothing.
LEMMA UnusedIsTyped ==
    /\ Unused \in StreamRecord /\ Unused.inbox = <<>> /\ Unused.replay = <<>> /\ Unused.box = <<>>
    /\ Unused.srv = FALSE /\ Unused.boxOpen = FALSE /\ Unused.end = "open" /\ Unused.cl = "none"
<1>1. <<>> \in Seq(Seqs)
  OBVIOUS
<1> QED
  BY <1>1 DEF Unused, StreamRecord

\* A stream of which a step changes nothing but what others have done to the broker.
LEMMA CarriesStays ==
    ASSUME NEW s \in Stream, NEW a, NEW b, NEW c, NEW d, Carries(s, a, b, c, d),
           stream'[s] = stream[s], broker'.next = broker.next, broker'.low = broker.low,
           s \in broker'.subs \ (broker'.to \cup broker'.over)
               => s \in broker.subs \ (broker.to \cup broker.over),
           s \in broker'.to => s \in broker.to,
           s = mgr'.cur => s = mgr.cur /\ mgr'.last = mgr.last
    PROVE  Carries(s, a, b, c, d)'
BY DEF Carries

\* What has to be shown of a step of one stream.
StreamStep(s) ==
    /\ \A t \in Stream \ {s} :
          /\ stream'[t] = stream[t]
          /\ t \in broker'.subs \ (broker'.to \cup broker'.over)
                => t \in broker.subs \ (broker.to \cup broker.over)
          /\ t \in broker'.subs => t \in broker.subs
          /\ t \in broker'.to => t \in broker.to
          /\ t = mgr'.cur => t = mgr.cur /\ mgr'.last = mgr.last
    /\ broker'.next = broker.next /\ broker'.low = broker.low
    /\ \E a, b, c, d \in 0..MaxEvents : Carries(s, a, b, c, d)'
    /\ s \in broker'.subs => stream'[s].srv
    /\ s = mgr'.cur => stream'[s].cl # "none"
    /\ stream'[s].end = "left" => stream'[s].inbox = <<>>

\* The others carry what they did.
LEMMA StreamStepKeeps ==
    ASSUME StreamInv, NEW s \in Stream, StreamStep(s)
    PROVE  CarriesAll' /\ EndsAgree'
<1>1. ASSUME NEW t \in Stream PROVE \E a, b, c, d \in 0..MaxEvents : Carries(t, a, b, c, d)'
  <2>1. CASE t = s
    BY <2>1 DEF StreamStep
  <2>2. CASE t # s
    <3>1. /\ stream'[t] = stream[t] /\ broker'.next = broker.next /\ broker'.low = broker.low
          /\ t \in broker'.subs \ (broker'.to \cup broker'.over)
                => t \in broker.subs \ (broker.to \cup broker.over)
          /\ t \in broker'.to => t \in broker.to
          /\ t = mgr'.cur => t = mgr.cur /\ mgr'.last = mgr.last
      BY <2>2 DEF StreamStep
    <3>2. PICK a, b, c, d \in 0..MaxEvents : Carries(t, a, b, c, d)
      BY DEF StreamInv, CarriesAll
    <3>3. Carries(t, a, b, c, d)'
      BY <3>1, <3>2, CarriesStays
    <3> QED
      BY <3>3
  <2> QED
    BY <2>1, <2>2
<1>2. EndsAgree'
  <2>1. EndsAgree
    BY DEF StreamInv
  <2>2. ASSUME NEW t \in Stream
        PROVE  /\ t \in broker'.subs => stream'[t].srv
               /\ t = mgr'.cur => stream'[t].cl # "none"
               /\ stream'[t].end = "left" => stream'[t].inbox = <<>>
    BY <2>1 DEF StreamStep, EndsAgree
  <2> QED
    BY <2>2 DEF EndsAgree
<1> QED
  BY <1>1, <1>2, Zenon DEF CarriesAll

-----------------------------------------------------------------------------
(* The broker *)

\* An event is published: the streams that are subscribed lack it.
LEMMA PublishKeeps ==
    ASSUME StreamInv, Publish
    PROVE  StreamTypeOK' /\ CarriesAll' /\ EndsAgree' /\ BrokerInv' /\ GapIsTrue'
<1>1. StreamTypeOK /\ broker \in BrokerType /\ BrokerInv /\ GapIsTrue
  BY Typed DEF StreamInv, LiveTypeOK
<1>2. /\ broker.to = {} /\ broker.over = {} /\ broker.next < MaxEvents /\ ~broker.closed
      /\ stream' = stream /\ mgr' = mgr
  BY DEF Publish, Publishing
<1>3. PICK low \in Retained(broker.next + 1) :
         broker' = [broker EXCEPT !.next = @ + 1, !.low = low, !.to = broker.subs]
  BY DEF Publish
<1>4. low \in Nat /\ low >= broker.low /\ low <= broker.next + 2
  BY <1>1, Fields DEF Retained
<1>5. /\ broker'.next = broker.next + 1 /\ broker'.low = low /\ broker'.to = broker.subs
      /\ broker'.over = {} /\ broker'.subs = broker.subs /\ ~broker'.closed
  BY <1>1, <1>2, <1>3 DEF BrokerType
<1>6. broker' \in BrokerType
  <2>1. broker.next + 1 \in 0..MaxEvents /\ low \in 1..(MaxEvents + 1) /\ broker.subs \in SUBSET Stream
    <3>1. broker.next \in 0..MaxEvents /\ broker.low \in 1..(MaxEvents + 1) /\ MaxEvents \in Nat
      BY <1>1, Fields
    <3>2. broker.next + 1 \in 0..MaxEvents /\ low \in 1..(MaxEvents + 1)
      BY <1>2, <1>4, <3>1
    <3> QED
      BY <1>1, <3>2, Fields
  <2>2. broker' = [broker EXCEPT !.next = broker.next + 1, !.low = low, !.to = broker.subs]
    BY <1>3
  <2> QED
    BY <1>1, <2>1, <2>2, Zenon DEF BrokerType
<1>7. StreamTypeOK'
  BY <1>1, <1>2, <1>6, Typed DEF StreamTypeOK, BrokerType
<1>8. ASSUME NEW s \in Stream PROVE \E a, b, c, d \in 0..MaxEvents : Carries(s, a, b, c, d)'
  <2>1. PICK a, b, c, d \in 0..MaxEvents : Carries(s, a, b, c, d)
    BY DEF StreamInv, CarriesAll
  <2>2. Carries(s, a, b, c, d)'
    <3>1. broker.next \in Nat /\ d \in Nat /\ broker.low \in Nat /\ mgr.last \in Nat
      BY <1>1, Fields
    <3>2. d <= broker.next + 1 /\ (s \in broker.subs => d = broker.next)
      BY <1>2, <2>1, <3>1 DEF Carries
    <3>3. s \in broker'.subs \ (broker'.to \cup broker'.over) => d = broker'.next
      BY <1>5
    <3>4. (s = mgr.cur /\ stream[s].end # "left") => \A n \in (mgr.last + 1)..a : n < low
      BY <1>4, <2>1, <3>1 DEF Carries
    <3> QED
      BY <1>2, <1>5, <2>1, <3>1, <3>2, <3>3, <3>4 DEF Carries
  <2> QED
    BY <2>2
<1>9. EndsAgree'
  BY <1>2, <1>5 DEF StreamInv, EndsAgree
<1>10. BrokerInv'
  <2>1. /\ broker.next \in Nat /\ mgr.last \in Nat /\ mgr.last <= broker.next
        /\ mgr.missing \subseteq 1..mgr.last
    BY <1>1, Fields DEF BrokerInv
  <2>2. low <= broker.next + 1 + 1 /\ mgr.last <= broker.next + 1
    BY <1>4, <2>1
  <2> QED
    BY <1>2, <1>5, <2>1, <2>2 DEF BrokerInv
<1>11. GapIsTrue'
  <2>1. ASSUME NEW n \in mgr.missing PROVE n < low
    <3>1. n \in Nat /\ broker.low \in Nat /\ n < broker.low
      BY <1>1, Fields DEF GapIsTrue, Seqs
    <3> QED
      BY <1>4, <3>1
  <2> QED
    BY <1>1, <1>2, <1>5, <2>1 DEF GapIsTrue
<1> QED
  BY <1>7, <1>8, <1>9, <1>10, <1>11 DEF CarriesAll

\* What stays when the mirror does, and nothing is published.
LEMMA MirrorStays ==
    ASSUME StreamInv, broker'.next = broker.next, broker'.low = broker.low,
           broker'.closed = broker.closed, broker'.subs \subseteq broker.subs,
           UNCHANGED <<mgr.last, mgr.missing, mgr.gap>>
    PROVE  BrokerInv' /\ GapIsTrue'
BY DEF StreamInv, BrokerInv, GapIsTrue

\* The event is delivered to a stream, or finds its mailbox full.
LEMMA DeliverKeeps ==
    ASSUME StreamInv, NEW s \in Stream, Deliver(s)
    PROVE  StreamTypeOK' /\ CarriesAll' /\ EndsAgree' /\ BrokerInv' /\ GapIsTrue'
<1>1. /\ StreamTypeOK /\ broker \in BrokerType /\ stream \in [Stream -> StreamRecord]
      /\ mgr \in MgrType /\ stream[s] \in StreamRecord /\ stream[s].box \in Seq(Seqs)
      /\ broker.next \in Nat
  BY Typed, Fields DEF StreamInv, LiveTypeOK
<1>2. s \in broker.to /\ mgr' = mgr
  BY DEF Deliver
<1>3. PICK a, b, c, d \in 0..MaxEvents : Carries(s, a, b, c, d)
  BY DEF StreamInv, CarriesAll
<1>4. EndsAgree
  BY DEF StreamInv
<1>5. CASE /\ stream[s].boxOpen
           /\ stream' = [stream EXCEPT ![s].box = Append(@, broker.next)]
           /\ broker' = [broker EXCEPT !.to = @ \ {s}]
  <2>1. d + 1 = broker.next /\ d + 1 \in Seqs /\ c \in Nat /\ d \in Nat /\ d + 1 \in 0..MaxEvents
    <3>1. d + 1 = broker.next
      BY <1>2, <1>3, <1>5 DEF Carries
    <3>2. broker.next \in 0..MaxEvents /\ MaxEvents \in Nat
      BY <1>1, Fields
    <3> QED
      BY <3>1, <3>2 DEF Seqs
  <2>2. IsRun(stream[s].box, c, d)
    BY <1>3 DEF Carries
  <2> DEFINE x == Append(stream[s].box, broker.next)
  <2>3. x \in Seq(Seqs) /\ IsRun(x, c, d + 1)
    BY <1>1, <2>1, <2>2, RunAppend
  <2> HIDE DEF x
  <2>4. stream' = [stream EXCEPT ![s].box = x]
    BY <1>5 DEF x
  <2>5. stream' \in [Stream -> StreamRecord]
    BY <1>1, <2>3, <2>4, Zenon DEF StreamRecord
  <2>6. broker' = [broker EXCEPT !.to = broker.to \ {s}] /\ broker.to \ {s} \in SUBSET Stream
    BY <1>1, <1>5 DEF BrokerType
  <2>7. broker' \in BrokerType
    BY <1>1, <2>6, Zenon DEF BrokerType
  <2>8. /\ broker'.next = broker.next /\ broker'.low = broker.low /\ broker'.closed = broker.closed
        /\ broker'.to = broker.to \ {s} /\ broker'.over = broker.over /\ broker'.subs = broker.subs
    BY <1>1, <2>6 DEF BrokerType
  <2>9. /\ \A t \in Stream \ {s} : stream'[t] = stream[t]
        /\ stream'[s] = [stream[s] EXCEPT !.box = x]
    BY <1>1, <2>4
  <2>10. /\ stream'[s].box = x /\ stream'[s].inbox = stream[s].inbox
         /\ stream'[s].replay = stream[s].replay /\ stream'[s].boxOpen = stream[s].boxOpen
         /\ stream'[s].srv = stream[s].srv /\ stream'[s].cl = stream[s].cl
         /\ stream'[s].end = stream[s].end
    BY <1>1, <2>9 DEF StreamRecord
  <2>11. Carries(s, a, b, c, d + 1)'
    BY <1>2, <1>3, <2>1, <2>3, <2>8, <2>10 DEF Carries
  <2>12. StreamStep(s)
    BY <1>2, <1>4, <2>1, <2>8, <2>9, <2>10, <2>11 DEF StreamStep, EndsAgree
  <2>13. StreamTypeOK'
    BY <1>1, <1>2, <2>5, <2>7 DEF StreamTypeOK, BrokerType, StreamRecord, MgrType
  <2> QED
    BY <1>2, <2>8, <2>12, <2>13, StreamStepKeeps, MirrorStays
<1>6. CASE /\ broker' = [broker EXCEPT !.to = @ \ {s}, !.over = @ \cup {s}]
           /\ stream' = stream
  <2>1. /\ broker' = [broker EXCEPT !.to = broker.to \ {s}, !.over = broker.over \cup {s}]
        /\ broker.to \ {s} \in SUBSET Stream /\ broker.over \cup {s} \in SUBSET Stream
    BY <1>1, <1>6 DEF BrokerType
  <2>2. broker' \in BrokerType
    BY <1>1, <2>1, Zenon DEF BrokerType
  <2>3. /\ broker'.next = broker.next /\ broker'.low = broker.low /\ broker'.closed = broker.closed
        /\ broker'.to = broker.to \ {s} /\ broker'.over = broker.over \cup {s}
        /\ broker'.subs = broker.subs
    BY <1>1, <2>1 DEF BrokerType
  <2>4. Carries(s, a, b, c, d)'
    BY <1>2, <1>3, <1>6, <2>3, CarriesStays
  <2>5. StreamStep(s)
    BY <1>2, <1>4, <1>6, <2>3, <2>4 DEF StreamStep, EndsAgree
  <2>6. StreamTypeOK'
    BY <1>1, <1>2, <1>6, <2>2 DEF StreamTypeOK, BrokerType, StreamRecord, MgrType
  <2> QED
    BY <1>2, <2>3, <2>5, <2>6, StreamStepKeeps, MirrorStays
<1> QED
  BY <1>5, <1>6, Zenon DEF Deliver

\* A mailbox that is aborted is empty; one that is drained keeps what it has.
LEMMA UnsubscribeKeeps ==
    ASSUME StreamInv, DropSlow \/ BrokerClose
    PROVE  StreamTypeOK' /\ CarriesAll' /\ EndsAgree' /\ BrokerInv' /\ GapIsTrue'
<1>1. /\ StreamTypeOK /\ broker \in BrokerType /\ stream \in [Stream -> StreamRecord]
      /\ mgr \in MgrType /\ mgr' = mgr
  BY Typed DEF StreamInv, LiveTypeOK, DropSlow, BrokerClose
<1>2. broker.to = {} /\ EndsAgree
  BY DEF DropSlow, BrokerClose, Publishing, StreamInv
<1>3. /\ broker'.next = broker.next /\ broker'.low = broker.low /\ broker'.to = {}
      /\ broker'.over = {} /\ broker'.subs \subseteq broker.subs \ broker.over
      /\ broker'.closed => (broker.closed \/ broker'.subs = {})
      /\ broker' \in BrokerType
  <2>1. CASE DropSlow
    <3>1. broker' = [broker EXCEPT !.over = {}, !.subs = broker.subs \ broker.over]
      BY <2>1 DEF DropSlow
    <3>2. broker.subs \ broker.over \in SUBSET Stream /\ {} \in SUBSET Stream
      BY <1>1 DEF BrokerType
    <3>3. broker' \in BrokerType
      BY <1>1, <3>1, <3>2, Zenon DEF BrokerType
    <3> QED
      BY <1>1, <1>2, <3>1, <3>3 DEF BrokerType
  <2>2. CASE BrokerClose
    <3>1. broker' = [broker EXCEPT !.closed = TRUE, !.subs = {}] /\ broker.over = {}
      BY <2>2 DEF BrokerClose, Publishing
    <3>2. broker' \in BrokerType
      <4>1. {} \in SUBSET Stream /\ TRUE \in BOOLEAN
        OBVIOUS
      <4> QED
        BY <1>1, <3>1, <4>1, Zenon DEF BrokerType
    <3> QED
      BY <1>1, <1>2, <3>1, <3>2 DEF BrokerType
  <2> QED
    BY <2>1, <2>2
<1>4. ASSUME NEW s \in Stream
      PROVE  /\ stream'[s].inbox = stream[s].inbox /\ stream'[s].replay = stream[s].replay
             /\ stream'[s].srv = stream[s].srv /\ stream'[s].cl = stream[s].cl
             /\ stream'[s].end = stream[s].end
             /\ stream'[s].box = stream[s].box \/ (stream'[s].box = <<>> /\ s \in broker.over)
             /\ stream'[s] \in StreamRecord
  <2>1. stream[s] \in StreamRecord
    BY <1>1
  <2>2. \/ stream'[s] = stream[s]
        \/ stream'[s] = [stream[s] EXCEPT !.boxOpen = FALSE]
        \/ s \in broker.over /\ stream'[s] = [stream[s] EXCEPT !.box = <<>>, !.boxOpen = FALSE]
    BY DEF DropSlow, BrokerClose
  <2>3. /\ [stream[s] EXCEPT !.boxOpen = FALSE] \in StreamRecord
        /\ [stream[s] EXCEPT !.box = <<>>, !.boxOpen = FALSE] \in StreamRecord
    <3>1. <<>> \in Seq(Seqs)
      OBVIOUS
    <3> QED
      BY <2>1, <3>1, Zenon DEF StreamRecord
  <2> QED
    BY <2>1, <2>2, <2>3 DEF StreamRecord
<1>5. StreamTypeOK'
  <2>1. stream' \in [Stream -> StreamRecord]
    <3>1. \E f : stream' = [s \in Stream |-> f[s]]
      <4>1. stream' = [s \in Stream |-> stream'[s]]
        BY DEF DropSlow, BrokerClose
      <4> QED
        BY <4>1
    <3> QED
      BY <1>4, <3>1
  <2> QED
    BY <1>1, <1>3, <2>1 DEF StreamTypeOK, BrokerType, StreamRecord, MgrType
<1>6. ASSUME NEW s \in Stream PROVE \E a, b, c, d \in 0..MaxEvents : Carries(s, a, b, c, d)'
  <2>1. PICK a, b, c, d \in 0..MaxEvents : Carries(s, a, b, c, d)
    BY DEF StreamInv, CarriesAll
  <2>2. CASE stream'[s].box = stream[s].box
    <3>1. Carries(s, a, b, c, d)'
      BY <1>1, <1>2, <1>3, <1>4, <2>1, <2>2 DEF Carries
    <3> QED
      BY <3>1
  <2>3. CASE stream'[s].box = <<>> /\ s \in broker.over
    <3>1. IsRun(stream'[s].box, c, c)
      BY <2>3, RunEmpty
    <3>2. c <= broker.next /\ s \notin broker'.subs
      <4>1. broker.next \in Nat /\ c \in Nat /\ d \in Nat
        BY <1>1, Fields
      <4> QED
        BY <1>3, <2>1, <2>3, <4>1 DEF Carries
    <3>3. Carries(s, a, b, c, c)'
      BY <1>1, <1>2, <1>3, <1>4, <2>1, <3>1, <3>2 DEF Carries
    <3> QED
      BY <3>3
  <2> QED
    BY <1>4, <2>2, <2>3
<1>7. EndsAgree'
  BY <1>1, <1>2, <1>3, <1>4 DEF EndsAgree
<1>8. BrokerInv' /\ GapIsTrue'
  BY <1>1, <1>3 DEF StreamInv, BrokerInv, GapIsTrue
<1> QED
  BY <1>5, <1>6, <1>7, <1>8 DEF CarriesAll

-----------------------------------------------------------------------------
(* The handler and the client *)

\* A step of one stream that leaves the broker alone but for its subscription, and the mirror.
LEMMA HandlerStepKeeps ==
    ASSUME StreamInv, NEW s \in Stream, NEW r \in StreamRecord,
           stream' = [stream EXCEPT ![s] = r], mgr' = mgr,
           broker' \in BrokerType, broker'.next = broker.next, broker'.low = broker.low,
           broker'.closed = broker.closed, broker'.to = broker.to, broker'.over = broker.over,
           broker'.subs \in {broker.subs, broker.subs \ {s}},
           \E a, b, c, d \in 0..MaxEvents : Carries(s, a, b, c, d)',
           s \in broker'.subs => r.srv,
           s = mgr.cur => r.cl # "none",
           r.end = "left" => r.inbox = <<>>
    PROVE  StreamTypeOK' /\ CarriesAll' /\ EndsAgree' /\ BrokerInv' /\ GapIsTrue'
<1>1. /\ StreamTypeOK /\ stream \in [Stream -> StreamRecord] /\ mgr \in MgrType
  BY Typed DEF StreamInv, LiveTypeOK
<1>2. stream'[s] = r /\ \A t \in Stream \ {s} : stream'[t] = stream[t]
  BY <1>1
<1>3. StreamStep(s)
  BY <1>2 DEF StreamStep
<1>4. StreamTypeOK'
  <2>1. stream' \in [Stream -> StreamRecord]
    BY <1>1, Zenon
  <2> QED
    BY <1>1, <2>1 DEF StreamTypeOK, BrokerType, StreamRecord, MgrType
<1> QED
  BY <1>3, <1>4, StreamStepKeeps, MirrorStays

\* What a stream is when an event of the replay has been read.
LEMMA ReadReplayFields ==
    ASSUME NEW q \in StreamRecord, q.replay # <<>>
    PROVE  /\ ReadReplay(q) \in StreamRecord
           /\ ReadReplay(q).inbox = Append(q.inbox, Head(q.replay)) /\ ReadReplay(q).replay = Tail(q.replay)
           /\ ReadReplay(q).box = q.box /\ ReadReplay(q).srv = q.srv /\ ReadReplay(q).cl = q.cl
           /\ ReadReplay(q).end = q.end /\ ReadReplay(q).boxOpen = q.boxOpen
<1> DEFINE x == Append(q.inbox, Head(q.replay))
           y == Tail(q.replay)
<1>1. x \in Seq(Seqs) /\ y \in Seq(Seqs)
  BY DEF StreamRecord
<1>2. ReadReplay(q) = [q EXCEPT !.replay = y, !.inbox = x]
  BY DEF ReadReplay
<1> HIDE DEF x, y
<1>3. ReadReplay(q) \in StreamRecord
  BY <1>1, <1>2, Zenon DEF StreamRecord
<1>4. /\ ReadReplay(q).inbox = x /\ ReadReplay(q).replay = y /\ ReadReplay(q).box = q.box
      /\ ReadReplay(q).srv = q.srv /\ ReadReplay(q).cl = q.cl
      /\ ReadReplay(q).end = q.end /\ ReadReplay(q).boxOpen = q.boxOpen
  BY <1>2 DEF StreamRecord
<1> QED
  BY <1>3, <1>4 DEF x, y

\* What a stream is when an event of the mailbox has been read.
LEMMA ReadBoxFields ==
    ASSUME NEW q \in StreamRecord, q.box # <<>>
    PROVE  /\ ReadBox(q) \in StreamRecord
           /\ ReadBox(q).inbox = Append(q.inbox, Head(q.box)) /\ ReadBox(q).box = Tail(q.box)
           /\ ReadBox(q).replay = q.replay /\ ReadBox(q).srv = q.srv /\ ReadBox(q).cl = q.cl
           /\ ReadBox(q).end = q.end /\ ReadBox(q).boxOpen = q.boxOpen
<1> DEFINE x == Append(q.inbox, Head(q.box))
           y == Tail(q.box)
<1>1. x \in Seq(Seqs) /\ y \in Seq(Seqs)
  BY DEF StreamRecord
<1>2. ReadBox(q) = [q EXCEPT !.box = y, !.inbox = x]
  BY DEF ReadBox
<1> HIDE DEF x, y
<1>3. ReadBox(q) \in StreamRecord
  BY <1>1, <1>2, Zenon DEF StreamRecord
<1>4. /\ ReadBox(q).inbox = x /\ ReadBox(q).box = y /\ ReadBox(q).replay = q.replay
      /\ ReadBox(q).srv = q.srv /\ ReadBox(q).cl = q.cl
      /\ ReadBox(q).end = q.end /\ ReadBox(q).boxOpen = q.boxOpen
  BY <1>2 DEF StreamRecord
<1> QED
  BY <1>3, <1>4 DEF x, y

\* What a stream is when the client has hung up.
LEMMA HungupFields ==
    ASSUME NEW q \in StreamRecord, q.box # <<>>
    PROVE  /\ Hungup(q) \in StreamRecord /\ Hungup(q).inbox = <<>>
           /\ Hungup(q).replay = q.replay /\ Hungup(q).box = Tail(q.box)
           /\ Hungup(q).srv = q.srv /\ Hungup(q).cl = "done" /\ Hungup(q).end = "left"
           /\ Hungup(q).boxOpen = q.boxOpen
<1> DEFINE y == Tail(q.box)
<1>1. y \in Seq(Seqs) /\ <<>> \in Seq(Seqs)
  BY DEF StreamRecord
<1>2. Hungup(q) = [q EXCEPT !.box = y, !.cl = "done", !.end = "left", !.inbox = <<>>]
  BY DEF Hungup
<1> HIDE DEF y
<1>3. Hungup(q) \in StreamRecord
  BY <1>1, <1>2, Zenon DEF StreamRecord
<1>4. /\ Hungup(q).inbox = <<>> /\ Hungup(q).replay = q.replay /\ Hungup(q).box = y
      /\ Hungup(q).srv = q.srv /\ Hungup(q).cl = "done" /\ Hungup(q).end = "left"
      /\ Hungup(q).boxOpen = q.boxOpen
  BY <1>2 DEF StreamRecord
<1> QED
  BY <1>3, <1>4 DEF y

\* What a stream is when its handler has returned.
LEMMA EndedFields ==
    ASSUME NEW q \in StreamRecord
    PROVE  /\ Ended(q) \in StreamRecord
           /\ Ended(q).replay = <<>> /\ Ended(q).box = <<>> /\ ~Ended(q).srv /\ ~Ended(q).boxOpen
           /\ q.cl = "none" => Ended(q).inbox = <<>> /\ Ended(q).end = "open"
           /\ q.cl # "none" => /\ Ended(q).inbox = q.inbox /\ Ended(q).end = "closed"
                               /\ Ended(q).cl = q.cl
<1>1. CASE q.cl = "none"
  BY <1>1, UnusedIsTyped DEF Ended
<1>2. CASE q.cl # "none"
  <2>1. Ended(q) = [q EXCEPT !.srv = FALSE, !.replay = <<>>, !.box = <<>>, !.boxOpen = FALSE,
                             !.end = "closed"]
    BY <1>2 DEF Ended
  <2>2. <<>> \in Seq(Seqs)
    OBVIOUS
  <2>3. Ended(q) \in StreamRecord
    BY <2>1, <2>2, Zenon DEF StreamRecord
  <2> QED
    BY <1>2, <2>1, <2>3 DEF StreamRecord
<1> QED
  BY <1>1, <1>2

\* An event is written and read, or the client hangs up.
LEMMA WriteKeeps ==
    ASSUME StreamInv, NEW s \in Stream, Write(s)
    PROVE  StreamTypeOK' /\ CarriesAll' /\ EndsAgree' /\ BrokerInv' /\ GapIsTrue'
<1> DEFINE q == stream[s]
<1>1. /\ broker \in BrokerType /\ stream \in [Stream -> StreamRecord] /\ q \in StreamRecord
      /\ q.inbox \in Seq(Seqs) /\ q.replay \in Seq(Seqs) /\ q.box \in Seq(Seqs)
      /\ StreamTypeOK /\ broker.next \in Nat
  BY Typed, Fields DEF StreamInv, LiveTypeOK
<1>2. PICK a, b, c, d \in 0..MaxEvents : Carries(s, a, b, c, d)
  BY DEF StreamInv, CarriesAll
<1>3. /\ broker' = broker /\ mgr' = mgr /\ q.srv /\ q.end = "open"
  BY DEF Write
<1>4. s = mgr.cur => q.cl # "none"
  BY DEF StreamInv, EndsAgree
<1>5. a \in Nat /\ b \in Nat /\ c \in Nat /\ d \in Nat /\ d <= MaxEvents
  OBVIOUS
<1>6. /\ a <= b /\ b <= c /\ c <= d /\ d <= broker.next
      /\ IsRun(q.inbox, a, b) /\ IsRun(q.replay, b, c) /\ IsRun(q.box, c, d)
  BY <1>2 DEF Carries
<1>7. CASE /\ q.replay # <<>>
           /\ stream' = [stream EXCEPT ![s] = ReadReplay(q)]
  <2> DEFINE n == b + 1
             x == Append(q.inbox, n)
             y == Tail(q.replay)
             r == ReadReplay(q)
  <2>1. Head(q.replay) = b + 1 /\ b + 1 \in Seqs /\ y \in Seq(Seqs) /\ IsRun(y, b + 1, c) /\ b + 1 <= c
    <3>1. b \in Nat /\ c \in Nat /\ q.replay \in Seq(Seqs) /\ q.replay # <<>> /\ IsRun(q.replay, b, c)
      BY <1>1, <1>5, <1>6, <1>7
    <3> HIDE DEF q
    <3>2. /\ Head(q.replay) = b + 1 /\ Head(q.replay) \in Seqs /\ Tail(q.replay) \in Seq(Seqs)
          /\ IsRun(Tail(q.replay), b + 1, c) /\ b + 1 <= c
      BY <3>1, RunTail
    <3> QED
      BY <3>2
  <2>2. x \in Seq(Seqs) /\ IsRun(x, a, b + 1)
    BY <1>1, <1>5, <1>6, <2>1, RunAppend
  <2>4. stream' = [stream EXCEPT ![s] = r]
    BY <1>7
  <2>5. /\ r \in StreamRecord /\ r.inbox = x /\ r.replay = y /\ r.box = q.box
        /\ r.srv = q.srv /\ r.cl = q.cl /\ r.end = q.end /\ r.boxOpen = q.boxOpen
    BY <1>1, <1>7, <2>1, ReadReplayFields
  <2>6. /\ r.inbox = x /\ r.replay = y /\ r.box = q.box /\ r.srv = q.srv /\ r.cl = q.cl
        /\ r.end = q.end /\ r.boxOpen = q.boxOpen
    BY <2>5
  <2> HIDE DEF x, y, r
  <2>7. stream'[s] = r
    BY <1>1, <2>4
  <2>8. Carries(s, a, b + 1, c, d)'
    <3>1. a <= b + 1
      BY <1>5, <1>6
    <3> QED
      BY <1>2, <1>3, <2>1, <2>2, <2>6, <2>7, <3>1 DEF Carries
  <2>9. b + 1 \in 0..MaxEvents
    BY <1>5, <1>6, <2>1
  <2>10. \E i, j, k, l \in 0..MaxEvents : Carries(s, i, j, k, l)'
    BY <2>8, <2>9
  <2> QED
    BY <1>1, <1>3, <1>4, <2>4, <2>5, <2>6, <2>10, HandlerStepKeeps
<1>8. CASE /\ q.replay = <<>> /\ q.box # <<>>
           /\ stream' = [stream EXCEPT ![s] = ReadBox(q)]
  <2> DEFINE n == b + 1
             x == Append(q.inbox, n)
             y == Tail(q.box)
             r == ReadBox(q)
  <2>0. b = c
    BY <1>5, <1>6, <1>8, RunEmpty
  <2>1. Head(q.box) = b + 1 /\ b + 1 \in Seqs /\ y \in Seq(Seqs) /\ IsRun(y, b + 1, d) /\ b + 1 <= d
    BY <1>1, <1>5, <1>6, <1>8, <2>0, RunTail
  <2>2. x \in Seq(Seqs) /\ IsRun(x, a, b + 1)
    BY <1>1, <1>5, <1>6, <2>1, RunAppend
  <2>4. stream' = [stream EXCEPT ![s] = r]
    BY <1>8
  <2>5. /\ r \in StreamRecord /\ r.inbox = x /\ r.replay = q.replay /\ r.box = y
        /\ r.srv = q.srv /\ r.cl = q.cl /\ r.end = q.end /\ r.boxOpen = q.boxOpen
    BY <1>1, <1>8, <2>1, ReadBoxFields
  <2>6. /\ r.inbox = x /\ r.replay = <<>> /\ r.box = y /\ r.srv = q.srv /\ r.cl = q.cl
        /\ r.end = q.end /\ r.boxOpen = q.boxOpen
    BY <1>8, <2>5
  <2> HIDE DEF x, y, r
  <2>7. stream'[s] = r
    BY <1>1, <2>4
  <2>8. Carries(s, a, b + 1, b + 1, d)'
    <3>1. a <= b + 1 /\ b + 1 \in Nat
      BY <1>5, <1>6
    <3>2. IsRun(r.replay, b + 1, b + 1)
      BY <2>6, <3>1, RunEmpty
    <3> QED
      BY <1>2, <1>3, <2>1, <2>2, <2>6, <2>7, <3>1, <3>2 DEF Carries
  <2>9. b + 1 \in 0..MaxEvents
    BY <1>5, <1>6, <2>1
  <2>10. \E i, j, k, l \in 0..MaxEvents : Carries(s, i, j, k, l)'
    BY <2>8, <2>9
  <2> QED
    BY <1>1, <1>3, <1>4, <2>4, <2>5, <2>6, <2>10, HandlerStepKeeps
<1>9. CASE /\ q.replay = <<>> /\ q.box # <<>> /\ q.inbox # <<>>
           /\ stream' = [stream EXCEPT ![s] = Hungup(q)]
  <2> DEFINE y == Tail(q.box)
             r == Hungup(q)
  <2>1. y \in Seq(Seqs) /\ IsRun(y, c + 1, d) /\ c + 1 <= d
    BY <1>1, <1>5, <1>6, <1>9, RunTail
  <2>4. stream' = [stream EXCEPT ![s] = r]
    BY <1>9
  <2>5. /\ r \in StreamRecord /\ r.inbox = <<>> /\ r.replay = q.replay /\ r.box = y
        /\ r.srv = q.srv /\ r.cl = "done" /\ r.end = "left" /\ r.boxOpen = q.boxOpen
    BY <1>1, <1>9, HungupFields
  <2>6. /\ r.inbox = <<>> /\ r.replay = <<>> /\ r.box = y /\ r.srv = q.srv /\ r.cl = "done"
        /\ r.end = "left" /\ r.boxOpen = q.boxOpen
    BY <1>9, <2>5
  <2> HIDE DEF y, r
  <2>7. stream'[s] = r
    BY <1>1, <2>4
  <2>8. Carries(s, c + 1, c + 1, c + 1, d)'
    <3>1. IsRun(<<>>, c + 1, c + 1) /\ c + 1 <= c + 1
      BY <1>5, RunEmpty
    <3> QED
      BY <1>2, <1>3, <2>1, <2>6, <2>7, <3>1 DEF Carries
  <2>9. c + 1 \in 0..MaxEvents
    BY <1>5, <1>6, <2>1
  <2>10. \E i, j, k, l \in 0..MaxEvents : Carries(s, i, j, k, l)'
    BY <2>8, <2>9
  <2> QED
    BY <1>1, <1>3, <2>4, <2>5, <2>6, <2>10, HandlerStepKeeps
<1> QED
  <2>1. \/ /\ q.replay # <<>>
           /\ stream' = [stream EXCEPT ![s] = ReadReplay(q)]
        \/ /\ q.replay = <<>> /\ q.box # <<>>
           /\ stream' = [stream EXCEPT ![s] = ReadBox(q)]
        \/ /\ q.replay = <<>> /\ q.box # <<>> /\ q.inbox # <<>>
           /\ stream' = [stream EXCEPT ![s] = Hungup(q)]
    BY DEF Write
  <2> QED
    BY <1>7, <1>8, <1>9, <2>1

\* The handler returns: the client keeps what it has read.
LEMMA ReturnKeeps ==
    ASSUME StreamInv, NEW s \in Stream, WriteFails(s) \/ HandlerEnds(s)
    PROVE  StreamTypeOK' /\ CarriesAll' /\ EndsAgree' /\ BrokerInv' /\ GapIsTrue'
<1> DEFINE q == stream[s]
           r == Ended(q)
<1>1. /\ broker \in BrokerType /\ stream \in [Stream -> StreamRecord] /\ q \in StreamRecord
      /\ StreamTypeOK /\ broker.next \in 0..MaxEvents /\ mgr.last \in 0..MaxEvents
      /\ mgr.last <= broker.next
  BY Typed, Fields DEF StreamInv, LiveTypeOK, BrokerInv
<1>2. PICK a, b, c, d \in 0..MaxEvents : Carries(s, a, b, c, d)
  BY DEF StreamInv, CarriesAll
<1>3. mgr' = mgr /\ stream' = [stream EXCEPT ![s] = r]
  BY DEF WriteFails, HandlerEnds, Return
<1>4. \E k \in 0..MaxTimeouts : broker' = [broker EXCEPT !.subs = broker.subs \ {s}, !.timeouts = k]
  <2>1. CASE WriteFails(s)
    <3>1. broker.timeouts + 1 \in 0..MaxTimeouts
      <4>1. broker.timeouts \in 0..MaxTimeouts /\ MaxTimeouts \in Nat
        BY <1>1, Fields
      <4>2. broker.timeouts < MaxTimeouts
        BY <2>1 DEF WriteFails
      <4> QED
        BY <4>1, <4>2
    <3> QED
      BY <2>1, <3>1 DEF WriteFails, Return
  <2>2. CASE HandlerEnds(s)
    <3>1. broker.timeouts + 0 \in 0..MaxTimeouts
      BY <1>1, Fields
    <3> QED
      BY <2>2, <3>1 DEF HandlerEnds, Return
  <2> QED
    BY <2>1, <2>2
<1>5. PICK k \in 0..MaxTimeouts : broker' = [broker EXCEPT !.subs = broker.subs \ {s}, !.timeouts = k]
  BY <1>4
<1>6. /\ broker' \in BrokerType /\ broker'.next = broker.next /\ broker'.low = broker.low
      /\ broker'.closed = broker.closed /\ broker'.to = broker.to /\ broker'.over = broker.over
      /\ broker'.subs = broker.subs \ {s}
  <2>1. broker.subs \ {s} \in SUBSET Stream
    BY <1>1 DEF BrokerType
  <2>2. broker' \in BrokerType
    BY <1>1, <1>5, <2>1, Zenon DEF BrokerType
  <2> QED
    BY <1>1, <1>5, <2>2 DEF BrokerType
<1>7. /\ r \in StreamRecord /\ r.replay = <<>> /\ r.box = <<>> /\ ~r.srv /\ ~r.boxOpen
      /\ q.cl = "none" => r.inbox = <<>> /\ r.end = "open"
      /\ q.cl # "none" => r.inbox = q.inbox /\ r.end = "closed" /\ r.cl = q.cl
  BY <1>1, EndedFields
<1>8. /\ s = mgr.cur => q.cl # "none"
      /\ q.end = "left" => q.inbox = <<>>
  BY DEF StreamInv, EndsAgree
<1> HIDE DEF r
<1>9. stream'[s] = r
  BY <1>1, <1>3
<1>10. r.end # "left"
  BY <1>7
<1>11. \E i, j \in 0..MaxEvents :
          /\ i <= j /\ j <= broker.next /\ IsRun(r.inbox, i, j)
          /\ s = mgr.cur => \A n \in (mgr.last + 1)..i : n < broker.low
  <2>1. CASE q.cl = "none" \/ q.end = "left"
    <3>1. r.inbox = <<>> /\ IsRun(r.inbox, mgr.last, mgr.last)
      BY <1>1, <1>7, <1>8, <2>1, RunEmpty
    <3>2. \A n \in (mgr.last + 1)..mgr.last : n < broker.low
      BY <1>1
    <3> QED
      BY <1>1, <3>1, <3>2
  <2>2. CASE q.cl # "none" /\ q.end # "left"
    <3>1. /\ a <= b /\ b <= broker.next /\ IsRun(r.inbox, a, b)
          /\ s = mgr.cur => \A n \in (mgr.last + 1)..a : n < broker.low
      <4>1. b <= broker.next
        <5>1. b \in Nat /\ c \in Nat /\ d \in Nat /\ broker.next \in Nat
          BY <1>1
        <5> QED
          BY <1>2, <5>1 DEF Carries
      <4> QED
        BY <1>2, <1>7, <2>2, <4>1 DEF Carries
    <3> QED
      BY <3>1
  <2> QED
    BY <2>1, <2>2
<1>12. PICK i, j \in 0..MaxEvents :
          /\ i <= j /\ j <= broker.next /\ IsRun(r.inbox, i, j)
          /\ s = mgr.cur => \A n \in (mgr.last + 1)..i : n < broker.low
  BY <1>11
<1>13. Carries(s, i, j, j, j)'
  <2>1. IsRun(r.replay, j, j) /\ IsRun(r.box, j, j) /\ j <= j
    BY <1>7, RunEmpty
  <2> QED
    BY <1>3, <1>6, <1>7, <1>9, <1>12, <2>1 DEF Carries
<1>14. \E e, f, g, h \in 0..MaxEvents : Carries(s, e, f, g, h)'
  BY <1>13
<1>15. s \notin broker'.subs /\ (s = mgr.cur => r.cl # "none")
  BY <1>6, <1>7, <1>8
<1> QED
  BY <1>3, <1>6, <1>7, <1>10, <1>14, <1>15, HandlerStepKeeps

\* The client sees the end of the stream.
LEMMA ScanEndsKeeps ==
    ASSUME StreamInv, NEW s \in Stream, ScanEnds(s)
    PROVE  StreamTypeOK' /\ CarriesAll' /\ EndsAgree' /\ BrokerInv' /\ GapIsTrue'
<1> DEFINE q == stream[s]
           r == [q EXCEPT !.cl = "done"]
<1>1. /\ broker \in BrokerType /\ stream \in [Stream -> StreamRecord] /\ q \in StreamRecord
  BY Typed DEF StreamInv, LiveTypeOK
<1>2. stream' = [stream EXCEPT ![s] = r] /\ broker' = broker /\ mgr' = mgr
  BY DEF ScanEnds
<1>3. r \in StreamRecord
  BY <1>1, Zenon DEF StreamRecord
<1>4. /\ r.inbox = q.inbox /\ r.replay = q.replay /\ r.box = q.box /\ r.srv = q.srv
      /\ r.cl = "done" /\ r.end = q.end /\ r.boxOpen = q.boxOpen
  BY <1>1 DEF StreamRecord
<1> HIDE DEF r
<1>5. stream'[s] = r
  BY <1>1, <1>2
<1>6. \E a, b, c, d \in 0..MaxEvents : Carries(s, a, b, c, d)'
  <2>1. PICK a, b, c, d \in 0..MaxEvents : Carries(s, a, b, c, d)
    BY DEF StreamInv, CarriesAll
  <2>2. Carries(s, a, b, c, d)'
    BY <1>2, <1>4, <1>5, <2>1 DEF Carries
  <2> QED
    BY <2>2
<1>7. (s \in broker.subs => q.srv) /\ (q.end = "left" => q.inbox = <<>>)
  BY DEF StreamInv, EndsAgree
<1> QED
  BY <1>1, <1>2, <1>3, <1>4, <1>6, <1>7, HandlerStepKeeps

-----------------------------------------------------------------------------
(* The eventLoop *)

\* A new subscription carries what the broker retains: what it lacks has been evicted.
LEMMA SubscribeKeeps ==
    ASSUME StreamInv, Subscribe
    PROVE  StreamTypeOK' /\ CarriesAll' /\ EndsAgree' /\ BrokerInv' /\ GapIsTrue'
<1>1. /\ broker \in BrokerType /\ stream \in [Stream -> StreamRecord] /\ mgr \in MgrType
      /\ StreamTypeOK /\ BrokerInv
      /\ broker.next \in 0..MaxEvents /\ mgr.last \in 0..MaxEvents
      /\ broker.low \in 1..(MaxEvents + 1)
  BY Typed, Fields DEF StreamInv, LiveTypeOK
<1>2. broker.to = {} /\ broker.over = {} /\ mgr.cur = NoStream
  BY DEF Subscribe, Publishing
<1> DEFINE u == CHOOSE t \in Stream : stream[t] = Unused
           r == Opened
<1>3. u \in Stream /\ stream[u] = Unused
  BY Zenon DEF Subscribe
<1>4. /\ stream' = [stream EXCEPT ![u] = r] /\ mgr' = [mgr EXCEPT !.cur = u]
      /\ broker' = IF broker.closed THEN broker ELSE [broker EXCEPT !.subs = @ \cup {u}]
  BY Zenon DEF Subscribe
<1> HIDE DEF u
<1>5. PICK s \in Stream : s = u
  BY <1>3
<1>6. /\ stream[s] = Unused
       /\ stream' = [stream EXCEPT ![s] = r] /\ mgr' = [mgr EXCEPT !.cur = s]
       /\ broker' = IF broker.closed THEN broker ELSE [broker EXCEPT !.subs = @ \cup {s}]
  BY <1>3, <1>4, <1>5
<1> DEFINE x == IF broker.closed THEN <<>> ELSE Ring
<1>7. Ring \in Seq(Seqs) /\ IsRun(Ring, broker.low - 1, broker.next) /\ x \in Seq(Seqs)
  BY <1>1, RingIsRun DEF BrokerInv
<1>8. /\ r \in StreamRecord /\ r.srv /\ r.cl = "read"
      /\ r.replay = x /\ r.inbox = <<>> /\ r.box = <<>> /\ r.end = "open"
  <2> DEFINE open == ~broker.closed
  <2>1. r = [Unused EXCEPT !.srv = TRUE, !.cl = "read", !.boxOpen = open, !.replay = x]
    BY Zenon DEF Opened
  <2>2. open \in BOOLEAN
    OBVIOUS
  <2> HIDE DEF x, r, open
  <2>3. r \in StreamRecord
    BY <1>7, <2>1, <2>2, UnusedIsTyped, Zenon DEF StreamRecord
  <2> QED
    BY <2>1, <2>3, UnusedIsTyped DEF StreamRecord
<1> HIDE DEF r
<1>9. /\ broker' \in BrokerType /\ broker'.next = broker.next /\ broker'.low = broker.low
      /\ broker'.closed = broker.closed /\ broker'.to = {} /\ broker'.over = {}
      /\ broker'.subs = IF broker.closed THEN broker.subs ELSE broker.subs \cup {s}
  <2>1. CASE broker.closed
    BY <1>1, <1>2, <1>6, <2>1
  <2>2. CASE ~broker.closed
    <3>1. broker.subs \cup {s} \in SUBSET Stream
      BY <1>1, <1>3 DEF BrokerType
    <3>2. broker' = [broker EXCEPT !.subs = broker.subs \cup {s}]
      BY <1>6, <2>2
    <3>3. broker' \in BrokerType
      BY <1>1, <3>1, <3>2, Zenon DEF BrokerType
    <3> QED
      BY <1>1, <1>2, <2>2, <3>2, <3>3 DEF BrokerType
  <2> QED
    BY <2>1, <2>2
<1>10. /\ mgr' \in MgrType /\ mgr'.cur = s /\ mgr'.last = mgr.last /\ mgr'.missing = mgr.missing
      /\ mgr'.gap = mgr.gap
  <2>1. mgr' \in MgrType
    BY <1>1, <1>6, Zenon DEF MgrType
  <2> QED
    BY <1>1, <1>6, <2>1 DEF MgrType
<1>11. stream'[s] = r /\ \A t \in Stream \ {s} : stream'[t] = stream[t]
  BY <1>1, <1>6
<1>12. \E a, b, c, d \in 0..MaxEvents : Carries(s, a, b, c, d)'
  <2>1. CASE broker.closed
    <3>1. PICK k \in 0..MaxEvents : k = mgr.last
      BY <1>1
    <3>2. k <= broker.next /\ k <= k /\ IsRun(<<>>, k, k)
      BY <1>1, <3>1, RunEmpty DEF BrokerInv
    <3>3. s \notin broker'.subs /\ \A n \in (mgr.last + 1)..k : n < broker.low
      BY <1>1, <1>9, <2>1, <3>1 DEF BrokerInv
    <3>4. r.replay = <<>>
      BY <1>8, <2>1
    <3>5. Carries(s, k, k, k, k)'
      BY <1>8, <1>9, <1>10, <1>11, <3>2, <3>3, <3>4 DEF Carries
    <3> QED
      BY <3>5
  <2>2. CASE ~broker.closed
    <3>1. PICK k, m \in 0..MaxEvents : k = broker.low - 1 /\ m = broker.next
      <4>1. broker.low - 1 \in 0..MaxEvents
        BY <1>1
      <4> QED
        BY <1>1, <4>1
    <3>2. k <= m /\ k <= k /\ m <= m /\ IsRun(<<>>, k, k) /\ IsRun(<<>>, m, m)
      BY <1>1, <3>1, RunEmpty DEF BrokerInv
    <3>3. \A n \in (mgr.last + 1)..k : n < broker.low
      BY <1>1, <3>1
    <3>4. IsRun(r.replay, k, m)
      BY <1>7, <1>8, <2>2, <3>1
    <3>5. Carries(s, k, k, m, m)'
      BY <1>8, <1>9, <1>10, <1>11, <3>1, <3>2, <3>3, <3>4 DEF Carries
    <3> QED
      BY <3>5
  <2> QED
    BY <2>1, <2>2
<1>13. StreamStep(s)
  <2>1. \A t \in Stream \ {s} : t \in broker'.subs => t \in broker.subs
    BY <1>9
  <2> QED
    BY <1>2, <1>8, <1>9, <1>10, <1>11, <1>12, <2>1 DEF StreamStep
<1>14. StreamTypeOK'
  <2>1. stream' \in [Stream -> StreamRecord]
    BY <1>1, <1>6, <1>8, Zenon
  <2> QED
    BY <1>9, <1>10, <2>1 DEF StreamTypeOK, BrokerType, StreamRecord, MgrType
<1>15. BrokerInv' /\ GapIsTrue'
  BY <1>1, <1>9, <1>10 DEF StreamInv, BrokerInv, GapIsTrue
<1> QED
  BY <1>13, <1>14, <1>15, StreamStepKeeps

\* An event goes into the mirror: what lies between it and the last one has been evicted.
LEMMA TakeKeeps ==
    ASSUME StreamInv, Take
    PROVE  StreamTypeOK' /\ CarriesAll' /\ EndsAgree' /\ BrokerInv' /\ GapIsTrue'
<1>1. /\ broker \in BrokerType /\ stream \in [Stream -> StreamRecord] /\ mgr \in MgrType
      /\ StreamTypeOK /\ BrokerInv /\ GapIsTrue
      /\ broker.next \in 0..MaxEvents /\ mgr.last \in 0..MaxEvents
      /\ broker.low \in 1..(MaxEvents + 1) /\ mgr.missing \subseteq Seqs /\ mgr.gap \in 0..MaxEvents
  BY Typed, Fields DEF StreamInv, LiveTypeOK
<1> DEFINE s == mgr.cur
           q == stream[s]
           y == Tail(q.inbox)
           n == Head(q.inbox)
<1>2. /\ s # NoStream /\ q.inbox # <<>>
      /\ mgr' = [Accepted(n) EXCEPT !.bump = TRUE]
      /\ stream' = [stream EXCEPT ![s].inbox = y] /\ broker' = broker
  BY DEF Take
<1>3. s \in Stream /\ q \in StreamRecord /\ q.inbox \in Seq(Seqs)
  BY <1>1, <1>2 DEF MgrType, StreamRecord
<1>4. PICK a, b, c, d \in 0..MaxEvents : Carries(s, a, b, c, d)
  BY <1>3 DEF StreamInv, CarriesAll
<1>5. /\ q.end # "left" /\ q.cl # "none" /\ (s \in broker.subs => q.srv)
  BY <1>2, <1>3 DEF StreamInv, EndsAgree
<1>6. /\ a <= b /\ b <= c /\ c <= d /\ d <= broker.next /\ IsRun(q.inbox, a, b)
      /\ \A m \in (mgr.last + 1)..a : m < broker.low
  BY <1>4, <1>5 DEF Carries
<1>7. a \in Nat /\ b \in Nat /\ c \in Nat /\ d \in Nat
  OBVIOUS
<1>8. n = a + 1 /\ n \in Seqs /\ y \in Seq(Seqs) /\ IsRun(y, a + 1, b) /\ a + 1 <= b
  BY <1>2, <1>3, <1>6, <1>7, RunTail
<1> HIDE DEF y, n
<1>9. n <= broker.next /\ n \in Nat /\ n - 1 = a /\ n \in 0..MaxEvents
  BY <1>1, <1>6, <1>7, <1>8
\* What the mirror is then.
<1>10. /\ mgr' \in MgrType /\ mgr'.cur = mgr.cur
       /\ mgr'.last = IF n <= mgr.last THEN mgr.last ELSE n
       /\ mgr'.missing = IF n <= mgr.last THEN mgr.missing ELSE mgr.missing \cup (mgr.last + 1)..a
       /\ mgr'.gap = IF n > mgr.last + 1 /\ mgr.gap = NoGap THEN mgr.last + 1 ELSE mgr.gap
  <2>1. CASE n <= mgr.last
    <3>1. mgr' = [mgr EXCEPT !.bump = TRUE]
      BY <1>2, <2>1 DEF Accepted
    <3>2. mgr' \in MgrType
      BY <1>1, <3>1, Zenon DEF MgrType
    <3>3. ~(n > mgr.last + 1)
      BY <1>1, <1>9, <2>1
    <3> QED
      BY <1>1, <2>1, <3>1, <3>2, <3>3 DEF MgrType
  <2>2. CASE ~(n <= mgr.last)
    <3> DEFINE M == mgr.missing \cup (mgr.last + 1)..(n - 1)
               g == IF n > mgr.last + 1 /\ mgr.gap = NoGap THEN mgr.last + 1 ELSE mgr.gap
               A == [mgr EXCEPT !.missing = M, !.last = n, !.gap = g]
    <3>1. Accepted(n) = A
      BY <2>2 DEF Accepted
    <3>2. M \in SUBSET Seqs /\ g \in 0..MaxEvents
      <4>1. (mgr.last + 1)..(n - 1) \subseteq Seqs
        BY <1>1, <1>8 DEF Seqs
      <4>2. n > mgr.last + 1 => mgr.last + 1 \in 0..MaxEvents
        BY <1>1, <1>9
      <4> QED
        BY <1>1, <4>1, <4>2
    <3> HIDE DEF M, g
    <3>3. A \in MgrType
      BY <1>1, <1>9, <3>2, Zenon DEF MgrType
    <3>4. A.cur = mgr.cur /\ A.last = n /\ A.missing = M /\ A.gap = g
      BY <1>1 DEF MgrType
    <3> HIDE DEF A
    <3>5. mgr' = [A EXCEPT !.bump = TRUE]
      BY <1>2, <3>1
    <3>6. mgr' \in MgrType
      BY <3>3, <3>5, Zenon DEF MgrType
    <3>7. mgr'.cur = A.cur /\ mgr'.last = A.last /\ mgr'.missing = A.missing /\ mgr'.gap = A.gap
      BY <3>3, <3>5 DEF MgrType
    <3>8. (mgr.last + 1)..(n - 1) = (mgr.last + 1)..a
      BY <1>9
    <3> QED
      BY <2>2, <3>4, <3>6, <3>7, <3>8 DEF M, g
  <2> QED
    BY <2>1, <2>2
<1>11. /\ \A t \in Stream \ {s} : stream'[t] = stream[t]
       /\ stream'[s] = [q EXCEPT !.inbox = y] /\ stream' \in [Stream -> StreamRecord]
  <2>1. [q EXCEPT !.inbox = y] \in StreamRecord
    BY <1>3, <1>8, Zenon DEF StreamRecord
  <2>2. stream' = [stream EXCEPT ![s] = [q EXCEPT !.inbox = y]]
    BY <1>1, <1>2, <1>3
  <2> QED
    BY <1>1, <1>3, <2>1, <2>2
<1>12. /\ stream'[s].inbox = y /\ stream'[s].replay = q.replay /\ stream'[s].box = q.box
       /\ stream'[s].srv = q.srv /\ stream'[s].cl = q.cl /\ stream'[s].end = q.end
       /\ stream'[s].boxOpen = q.boxOpen
  BY <1>3, <1>11 DEF StreamRecord
<1>13. PICK t \in Stream : t = s
  BY <1>3
<1>14. Carries(t, a + 1, b, c, d)'
  <2>1. \A m \in (mgr'.last + 1)..(a + 1) : m < broker.low
    BY <1>1, <1>6, <1>7, <1>8, <1>9, <1>10
  <2> QED
    BY <1>2, <1>4, <1>8, <1>12, <1>13, <2>1 DEF Carries
<1>15. StreamStep(t)
  <2>1. a + 1 \in 0..MaxEvents
    BY <1>8, <1>9
  <2>2. \E i, j, k, l \in 0..MaxEvents : Carries(t, i, j, k, l)'
    BY <1>14, <2>1
  <2> QED
    BY <1>2, <1>5, <1>10, <1>11, <1>12, <1>13, <2>2 DEF StreamStep
<1>16. StreamTypeOK'
  BY <1>1, <1>2, <1>10, <1>11 DEF StreamTypeOK, BrokerType, StreamRecord, MgrType
<1>17. BrokerInv'
  <2>1. mgr.missing \subseteq 1..mgr.last /\ mgr.last <= broker.next
    BY <1>1 DEF BrokerInv
  <2>2. mgr'.last <= broker.next /\ mgr'.last >= mgr.last /\ mgr'.last \in Nat
    BY <1>1, <1>9, <1>10, <2>1
  <2>3. ~(n <= mgr.last) => (mgr.last + 1)..a \subseteq 1..n
    BY <1>1, <1>9
  <2>4. 1..mgr.last \subseteq 1..mgr'.last
    BY <1>1, <2>2
  <2>5. mgr'.missing \subseteq 1..mgr'.last
    BY <1>10, <2>1, <2>3, <2>4
  <2> QED
    BY <1>1, <1>2, <2>2, <2>5 DEF BrokerInv
<1>18. GapIsTrue'
  <2>1. mgr.missing \subseteq 1..mgr.last
    BY <1>1 DEF BrokerInv
  <2>2. CASE n <= mgr.last + 1
    <3>1. ~(n > mgr.last + 1) /\ (n <= mgr.last \/ (mgr.last + 1)..a = {})
      BY <1>1, <1>7, <1>9, <2>2
    <3>2. mgr'.gap = mgr.gap
      BY <1>10, <3>1, Zenon
    <3>3. mgr'.missing = mgr.missing
      BY <1>10, <3>1
    <3> QED
      BY <1>1, <1>2, <3>2, <3>3 DEF GapIsTrue
  <2>3. CASE ~(n <= mgr.last + 1)
    <3>1. /\ mgr'.missing = mgr.missing \cup (mgr.last + 1)..a
          /\ mgr'.gap = IF mgr.gap = NoGap THEN mgr.last + 1 ELSE mgr.gap
          /\ mgr.last + 1 <= a
      BY <1>1, <1>9, <1>10, <2>3
    <3>2. CASE mgr.gap = NoGap
      <4>1. mgr.missing = {}
        BY <1>1, <3>2 DEF GapIsTrue
      <4>2. mgr'.gap = mgr.last + 1 /\ mgr'.missing = (mgr.last + 1)..a
        BY <3>1, <3>2, <4>1
      <4>3. mgr.last + 1 # NoGap /\ mgr.last + 1 \in (mgr.last + 1)..a
        BY <1>1, <1>7, <3>1 DEF NoGap
      <4>4. \A m \in (mgr.last + 1)..a : m < broker.low /\ mgr.last + 1 <= m
        BY <1>1, <1>6, <1>7
      <4> QED
        BY <1>2, <4>2, <4>3, <4>4 DEF GapIsTrue
    <3>3. CASE mgr.gap # NoGap
      <4>1. mgr'.gap = mgr.gap /\ mgr.gap \in mgr.missing /\ mgr.gap <= mgr.last
        BY <1>1, <2>1, <3>1, <3>3 DEF GapIsTrue
      <4>2. \A m \in (mgr.last + 1)..a : m < broker.low /\ mgr.gap <= m
        BY <1>1, <1>6, <1>7, <4>1
      <4>3. \A m \in mgr.missing : m < broker.low /\ mgr.gap <= m
        BY <1>1 DEF GapIsTrue
      <4> QED
        BY <1>2, <3>1, <3>3, <4>1, <4>2, <4>3 DEF GapIsTrue
    <3> QED
      BY <3>2, <3>3
  <2> QED
    BY <2>2, <2>3
<1> QED
  BY <1>15, <1>16, <1>17, <1>18, StreamStepKeeps
\* A consumer that ends takes the stream with it: the handler that is left carries nothing.
LEMMA StopConsumingKeeps ==
    ASSUME StreamInv, StopConsuming
    PROVE  StreamTypeOK' /\ CarriesAll' /\ EndsAgree' /\ BrokerInv' /\ GapIsTrue'
<1>1. /\ broker \in BrokerType /\ stream \in [Stream -> StreamRecord] /\ mgr \in MgrType
      /\ StreamTypeOK
  BY Typed DEF StreamInv, LiveTypeOK
<1>2. mgr.cur \in Stream
  BY <1>1 DEF StopConsuming, MgrType
<1>3. PICK s \in Stream : s = mgr.cur
  BY <1>2
<1> DEFINE q == stream[s]
<1>4. /\ stream' = [stream EXCEPT ![s] = Closed(q)]
      /\ mgr' = [mgr EXCEPT !.cur = NoStream] /\ broker' = broker
  BY <1>3 DEF StopConsuming
<1>5. q \in StreamRecord
  BY <1>1
<1>6. /\ Closed(q) \in StreamRecord /\ Closed(q).inbox = <<>>
      /\ q.srv => /\ Closed(q).srv /\ Closed(q).replay = q.replay /\ Closed(q).box = q.box
                  /\ Closed(q).boxOpen = q.boxOpen
      /\ ~q.srv => Closed(q) = Unused
  <2>1. CASE q.srv
    <3>1. Closed(q) = [q EXCEPT !.cl = "none", !.end = "left", !.inbox = <<>>]
      BY <2>1 DEF Closed
    <3>2. <<>> \in Seq(Seqs)
      OBVIOUS
    <3> HIDE DEF q
    <3>3. Closed(q) \in StreamRecord
      BY <1>5, <3>1, <3>2, Zenon DEF StreamRecord
    <3> QED
      BY <1>5, <2>1, <3>1, <3>3 DEF StreamRecord
  <2>2. CASE ~q.srv
    BY <2>2, UnusedIsTyped DEF Closed
  <2> QED
    BY <2>1, <2>2
<1>7. /\ mgr' \in MgrType /\ mgr'.cur = NoStream /\ mgr'.last = mgr.last
      /\ mgr'.missing = mgr.missing /\ mgr'.gap = mgr.gap
  <2>1. mgr' \in MgrType
    BY <1>1, <1>4, Zenon DEF MgrType
  <2> QED
    BY <1>1, <1>4, <2>1 DEF MgrType
<1>8. stream'[s] = Closed(q) /\ \A t \in Stream \ {s} : stream'[t] = stream[t]
  BY <1>1, <1>4
<1>9. (s \in broker.subs => q.srv) /\ NoStream \notin Stream
  BY DEF StreamInv, EndsAgree
<1>10. PICK a, b, c, d \in 0..MaxEvents : Carries(s, a, b, c, d)
  BY DEF StreamInv, CarriesAll
<1> HIDE DEF q
<1>11. \E i, j, k, l \in 0..MaxEvents : Carries(s, i, j, k, l)'
  <2>1. CASE q.srv
    <3>1. IsRun(<<>>, b, b) /\ b <= b
      BY RunEmpty
    <3>2. /\ b <= c /\ c <= d /\ d <= broker.next /\ IsRun(q.replay, b, c) /\ IsRun(q.box, c, d)
          /\ s \in broker.subs \ (broker.to \cup broker.over) => d = broker.next
          /\ (s \in broker.to /\ q.boxOpen) => d + 1 = broker.next
      BY <1>10 DEF Carries, q
    <3>3. Carries(s, b, b, c, d)'
      BY <1>4, <1>6, <1>7, <1>8, <1>9, <2>1, <3>1, <3>2 DEF Carries
    <3> QED
      BY <3>3
  <2>2. CASE ~q.srv
    <3>1. IsRun(<<>>, 0, 0) /\ broker.next \in Nat /\ 0 \in 0..MaxEvents
      BY <1>1, RunEmpty, Fields
    <3>2. 0 <= broker.next
      BY <3>1
    <3>3. Carries(s, 0, 0, 0, 0)'
      BY <1>4, <1>6, <1>7, <1>8, <1>9, <2>2, <3>1, <3>2, UnusedIsTyped DEF Carries
    <3> QED
      BY <3>1, <3>3
  <2> QED
    BY <2>1, <2>2
<1>12. StreamStep(s)
  BY <1>4, <1>6, <1>7, <1>8, <1>9, <1>11 DEF StreamStep
<1>13. StreamTypeOK'
  <2>1. stream' \in [Stream -> StreamRecord]
    BY <1>1, <1>4, <1>6, Zenon
  <2> QED
    BY <1>1, <1>4, <1>7, <2>1 DEF StreamTypeOK, BrokerType, StreamRecord, MgrType
<1>14. BrokerInv' /\ GapIsTrue'
  BY <1>4, <1>7, MirrorStays
<1> QED
  BY <1>12, <1>13, <1>14, StreamStepKeeps

-----------------------------------------------------------------------------
(* The pages and the server *)

PageType == [pc : {"none", "subscribed", "open"}, listed : BOOLEAN, queue : 0..PageCap,
             shut : BOOLEAN, detail : 0..MaxEvents, activity : 0..MaxEvents, pending : BOOLEAN]

\* What the mirror has, and the streams, do not change when a change is announced and when a
\* handle is cancelled.
LEMMA MirrorKept ==
    ASSUME StreamInv, UNCHANGED <<broker, stream>>,
           \/ mgr' = mgr
           \/ mgr' = [mgr EXCEPT !.bump = FALSE]
           \/ mgr' = [mgr EXCEPT !.cancelled = TRUE]
    PROVE  StreamTypeOK' /\ CarriesAll' /\ EndsAgree' /\ BrokerInv' /\ GapIsTrue'
<1>1. StreamTypeOK /\ mgr \in MgrType
  BY Typed DEF StreamInv, LiveTypeOK
<1>2. mgr' \in MgrType
  BY <1>1, Zenon DEF MgrType
<1>3. UNCHANGED <<mgr.cur, mgr.last, mgr.missing, mgr.gap>>
  BY <1>1, <1>2 DEF MgrType
<1>4. StreamTypeOK'
  BY <1>1, <1>2 DEF StreamTypeOK, MgrType
<1>5. CarriesAll'
  <2>1. ASSUME NEW s \in Stream PROVE \E a, b, c, d \in 0..MaxEvents : Carries(s, a, b, c, d)'
    <3>1. PICK a, b, c, d \in 0..MaxEvents : Carries(s, a, b, c, d)
      BY DEF StreamInv, CarriesAll
    <3>2. Carries(s, a, b, c, d)'
      BY <1>3, <3>1, CarriesStays
    <3> QED
      BY <3>2
  <2> QED
    BY <2>1, Zenon DEF CarriesAll
<1>6. EndsAgree'
  BY <1>3 DEF StreamInv, EndsAgree
<1> QED
  BY <1>3, <1>4, <1>5, <1>6, MirrorStays

\* No page.
LEMMA NoPageIsTyped == NoPage \in PageType
BY DEF NoPage, PageType

\* An announcement fits the channel, or closes it.
LEMMA AnnouncedIsTyped ==
    ASSUME NEW p \in PageType
    PROVE  Announced(p) \in PageType
<1>1. CASE p.listed /\ p.queue < PageCap
  <2>1. p.queue + 1 \in 0..PageCap
    BY <1>1 DEF PageType
  <2>2. Announced(p) = [p EXCEPT !.queue = p.queue + 1]
    BY <1>1 DEF Announced
  <2> QED
    BY <2>1, <2>2, Zenon DEF PageType
<1>2. CASE p.listed /\ ~(p.queue < PageCap)
  <2>1. Announced(p) = [p EXCEPT !.listed = FALSE, !.shut = TRUE]
    BY <1>2 DEF Announced
  <2> QED
    BY <2>1, Zenon DEF PageType
<1>3. CASE ~p.listed
  BY <1>3 DEF Announced
<1> QED
  BY <1>1, <1>2, <1>3

\* A step of a page leaves the streams and the mirror.
LEMMA PageKeeps ==
    ASSUME LiveTypeOK, page \in PageType, mgr.last \in 0..MaxEvents,
           PageSubscribes \/ PageNext \/ PageTicks \/ BrowserLeaves
    PROVE  page' \in PageType /\ UNCHANGED <<broker, stream, mgr, web, routed>>
<1>1. CASE PageSubscribes
  <2>1. page' = [NoPage EXCEPT !.pc = "subscribed", !.listed = TRUE]
    BY <1>1 DEF PageSubscribes
  <2>2. page' \in PageType
    BY <2>1, NoPageIsTyped, Zenon DEF PageType
  <2> QED
    BY <1>1, <2>2 DEF PageSubscribes
<1>2. CASE PageReads
  <2>1. page' = [page EXCEPT !.pc = "open", !.detail = mgr.last, !.activity = mgr.last]
        \/ page' = NoPage
    BY <1>2 DEF PageReads
  <2>2. page' \in PageType
    BY <2>1, NoPageIsTyped, Zenon DEF PageType
  <2> QED
    BY <1>2, <2>2 DEF PageReads
<1>3. CASE PageUpdates
  <2>1. page.queue - 1 \in 0..PageCap
    BY <1>3 DEF PageUpdates, PageType
  <2>2. page' = [page EXCEPT !.queue = page.queue - 1, !.detail = mgr.last, !.pending = TRUE]
        \/ page' = NoPage
    BY <1>3 DEF PageUpdates
  <2>3. page' \in PageType
    BY <2>1, <2>2, NoPageIsTyped, Zenon DEF PageType
  <2> QED
    BY <1>3, <2>3 DEF PageUpdates
<1>4. CASE PageTicks
  <2>1. page.detail \in 0..MaxEvents
    BY DEF PageType
  <2>2. page' = [page EXCEPT !.activity = page.detail, !.pending = FALSE]
    BY <1>4 DEF PageTicks
  <2>3. page' \in PageType
    BY <2>1, <2>2, Zenon DEF PageType
  <2> QED
    BY <1>4, <2>3 DEF PageTicks
<1>5. CASE PageEnds \/ BrowserLeaves
  BY <1>5, NoPageIsTyped DEF PageEnds, BrowserLeaves
<1> QED
  BY <1>1, <1>2, <1>3, <1>4, <1>5 DEF PageNext

\* A phase of the server that stops.
LEMMA WebKeeps ==
    ASSUME LiveTypeOK, page \in PageType, WebNext
    PROVE  /\ page' \in PageType /\ UNCHANGED <<broker, stream>>
           /\ web' \in {"up", "cancelled", "shut", "closing", "closed"} /\ routed' \in BOOLEAN
           /\ mgr' = mgr \/ mgr' = [mgr EXCEPT !.cancelled = TRUE]
<1>1. routed \in BOOLEAN
  BY DEF LiveTypeOK
<1>2. CASE CancelStreams \/ ServeFails \/ Shutdown
  BY <1>1, <1>2 DEF CancelStreams, ServeFails, Shutdown, WebStep
<1>3. CASE Close
  BY <1>1, <1>3 DEF Close
<1>4. CASE CloseClients
  <2>1. page' = [page EXCEPT !.listed = FALSE, !.shut = TRUE] \/ page' = page
    BY <1>4 DEF CloseClients
  <2>2. page' \in PageType
    BY <2>1, Zenon DEF PageType
  <2> QED
    BY <1>4, <2>2 DEF CloseClients
<1> QED
  BY <1>2, <1>3, <1>4 DEF WebNext

-----------------------------------------------------------------------------
(* The theorems *)

\* Nothing has been published, and nobody subscribed.
LEMMA InitInv == LiveInit => StreamInv
<1> SUFFICES ASSUME LiveInit PROVE StreamInv
  OBVIOUS
<1>1. /\ broker = [next |-> 0, low |-> 1, closed |-> FALSE, timeouts |-> 0,
                   to |-> {}, over |-> {}, subs |-> {}]
      /\ stream = [s \in Stream |-> Unused]
      /\ mgr = [cur |-> NoStream, last |-> 0, missing |-> {}, gap |-> 0, bump |-> FALSE,
                cancelled |-> FALSE]
      /\ page = NoPage /\ web = "up" /\ routed = TRUE
  BY DEF LiveInit, StreamInit, NoGap
<1>2. \A s \in Stream : stream[s] = Unused
  BY <1>1
<1>3. StreamTypeOK
  <2>1. broker \in BrokerType
    BY <1>1 DEF BrokerType
  <2>2. stream \in [Stream -> StreamRecord]
    BY <1>1, UnusedIsTyped
  <2>3. mgr \in MgrType
    BY <1>1 DEF MgrType
  <2> QED
    BY <2>1, <2>2, <2>3, Typed
<1>4. LiveTypeOK
  BY <1>1, <1>3, NoPageIsTyped DEF LiveTypeOK, PageType
<1>5. ASSUME NEW s \in Stream PROVE \E a, b, c, d \in 0..MaxEvents : Carries(s, a, b, c, d)
  <2>1. IsRun(<<>>, 0, 0) /\ 0 \in 0..MaxEvents
    BY RunEmpty
  <2>2. Carries(s, 0, 0, 0, 0)
    BY <1>1, <1>2, <2>1, UnusedIsTyped DEF Carries
  <2> QED
    BY <2>1, <2>2
<1>6. EndsAgree
  BY <1>1, <1>2, UnusedIsTyped DEF EndsAgree
<1>7. BrokerInv
  BY <1>1 DEF BrokerInv
<1>8. GapIsTrue
  BY <1>1 DEF GapIsTrue, NoGap
<1> QED
  BY <1>4, <1>5, <1>6, <1>7, <1>8 DEF StreamInv, CarriesAll

\* A step of the streams and the mirror.
LEMMA StreamNextKeeps ==
    ASSUME StreamInv, StreamNext
    PROVE  StreamTypeOK' /\ CarriesAll' /\ EndsAgree' /\ BrokerInv' /\ GapIsTrue'
<1>1. CASE Publish
  BY <1>1, PublishKeeps
<1>2. CASE \E s \in Stream : Deliver(s)
  BY <1>2, DeliverKeeps
<1>3. CASE DropSlow \/ BrokerClose
  BY <1>3, UnsubscribeKeeps
<1>4. CASE \E s \in Stream : Write(s)
  BY <1>4, WriteKeeps
<1>5. CASE \E s \in Stream : HandlerEnds(s) \/ WriteFails(s)
  BY <1>5, ReturnKeeps
<1>6. CASE \E s \in Stream : ScanEnds(s)
  BY <1>6, ScanEndsKeeps
<1>7. CASE Subscribe
  BY <1>7, SubscribeKeeps
<1>8. CASE Take
  BY <1>8, TakeKeeps
<1>9. CASE StopConsuming
  BY <1>9, StopConsumingKeeps
<1> QED
  BY <1>1, <1>2, <1>3, <1>4, <1>5, <1>6, <1>7, <1>8, <1>9 DEF StreamNext, Finish, Serve

\* The invariant is inductive.
LEMMA StepInv == StreamInv /\ [LiveNext]_liveVars => StreamInv'
<1> SUFFICES ASSUME StreamInv, [LiveNext]_liveVars PROVE StreamInv'
  OBVIOUS
<1>1. /\ LiveTypeOK /\ page \in PageType /\ mgr.last \in 0..MaxEvents /\ routed \in BOOLEAN
      /\ web \in {"up", "cancelled", "shut", "closing", "closed"}
  BY Fields DEF StreamInv, LiveTypeOK, PageType
<1>2. ASSUME StreamTypeOK' /\ CarriesAll' /\ EndsAgree' /\ BrokerInv' /\ GapIsTrue',
             page' \in PageType, routed' \in BOOLEAN,
             web' \in {"up", "cancelled", "shut", "closing", "closed"}
      PROVE  StreamInv'
  BY <1>2 DEF StreamInv, LiveTypeOK, PageType
<1>3. CASE StreamNext /\ UNCHANGED <<page, web, routed>>
  BY <1>1, <1>2, <1>3, StreamNextKeeps
<1>4. CASE Notify \/ Refresh
  <2>1. page' = Announced(page) /\ page' \in PageType
    BY <1>1, <1>4, AnnouncedIsTyped DEF Notify, Refresh
  <2>2. /\ UNCHANGED <<broker, stream, web, routed>>
        /\ mgr' = mgr \/ mgr' = [mgr EXCEPT !.bump = FALSE]
    BY <1>4 DEF Notify, Refresh
  <2> QED
    BY <1>1, <1>2, <2>1, <2>2, MirrorKept
<1>5. CASE RootLeaves
  <2>1. page' = Announced(page) /\ page' \in PageType
    BY <1>1, <1>5, AnnouncedIsTyped DEF RootLeaves
  <2>2. /\ UNCHANGED <<broker, stream, web>> /\ routed' = FALSE
        /\ mgr' = [mgr EXCEPT !.cancelled = TRUE]
    BY <1>5 DEF RootLeaves, CancelHandle
  <2> QED
    BY <1>1, <1>2, <2>1, <2>2, MirrorKept
<1>6. CASE PageSubscribes \/ PageNext \/ PageTicks \/ BrowserLeaves
  BY <1>1, <1>2, <1>6, PageKeeps, MirrorKept
<1>7. CASE WebNext
  BY <1>1, <1>2, <1>7, WebKeeps, MirrorKept
<1>8. CASE UNCHANGED liveVars
  BY <1>1, <1>2, <1>8, MirrorKept DEF liveVars
<1> QED
  BY <1>3, <1>4, <1>5, <1>6, <1>7, <1>8 DEF LiveNext

\* What streams carry, what the mirror has and what the broker retains always agree: of what a
\* stream begins with, all that the mirror lacks has been evicted (EventBroker, serveEvents,
\* DescendantClient.Subscribe, eventMirror.Accept).
THEOREM StreamInvariant == LiveSpec => []StreamInv
<1> QED
  BY InitInv, StepInv, PTL DEF LiveSpec

\* Every variable has its type: a page's channel holds no more than its capacity, and no sequence
\* number is out of range (changeFanout, eventMirror).
THEOREM TypeCorrect == LiveSpec => []LiveTypeOK
<1>1. StreamInv => LiveTypeOK
  BY DEF StreamInv
<1> QED
  BY <1>1, StreamInvariant, PTL

\* Every event that the mirror lacks was evicted by the broker, and the gap it tells of is the
\* first, whatever streams are lost (eventMirror.Accept).
THEOREM GapTrue == LiveSpec => []GapIsTrue
<1>1. StreamInv => GapIsTrue
  BY DEF StreamInv
<1> QED
  BY <1>1, StreamInvariant, PTL

\* What a stream carries is a run, which reaches, while it is subscribed, to the last event that
\* was published (EventBroker.Subscribe, serveEvents).
LEMMA RunsHaveNoHole == StreamInv => NoHole
<1> SUFFICES ASSUME StreamInv PROVE NoHole
  OBVIOUS
<1>1. StreamTypeOK
  BY DEF StreamInv, LiveTypeOK
<1>2. ASSUME NEW s \in Stream
      PROVE  /\ \A i \in 1..(Len(Coming(s)) - 1) : Coming(s)[i + 1] = Coming(s)[i] + 1
             /\ (s \in broker.subs \ (broker.to \cup broker.over) /\ Coming(s) # <<>>)
                    => Coming(s)[Len(Coming(s))] = broker.next
  <2>1. /\ stream[s].inbox \in Seq(Seqs) /\ stream[s].replay \in Seq(Seqs)
        /\ stream[s].box \in Seq(Seqs)
    BY <1>1, Fields
  <2>2. PICK a, b, c, d \in 0..MaxEvents : Carries(s, a, b, c, d)
    BY DEF StreamInv, CarriesAll
  <2>3. /\ IsRun(stream[s].inbox, a, b) /\ IsRun(stream[s].replay, b, c)
        /\ IsRun(stream[s].box, c, d)
        /\ s \in broker.subs \ (broker.to \cup broker.over) => d = broker.next
    BY <2>2 DEF Carries
  <2>4. a \in Nat /\ b \in Nat /\ c \in Nat /\ d \in Nat
    OBVIOUS
  <2> DEFINE xy == stream[s].inbox \o stream[s].replay
             x == xy \o stream[s].box
  <2>5. xy \in Seq(Seqs) /\ IsRun(xy, a, c)
    BY <2>1, <2>3, <2>4, RunConcat
  <2>6. x \in Seq(Seqs) /\ IsRun(x, a, d)
    <3> HIDE DEF xy
    <3> QED
      BY <2>1, <2>3, <2>4, <2>5, RunConcat
  <2>7. Coming(s) = x
    BY DEF Coming
  <2> HIDE DEF xy, x
  <2>8. Len(x) \in Nat /\ Len(x) = d - a /\ \A i \in 1..Len(x) : x[i] = a + i
    BY <2>6 DEF IsRun
  <2>9. \A i \in 1..(Len(x) - 1) : i \in 1..Len(x) /\ i + 1 \in 1..Len(x) /\ i \in Nat
    BY <2>8
  <2>10. \A i \in 1..(Len(x) - 1) : x[i + 1] = x[i] + 1
    BY <2>4, <2>8, <2>9
  <2>11. x # <<>> => Len(x) \in 1..Len(x)
    BY <2>6, <2>8
  <2>12. x # <<>> => x[Len(x)] = d
    BY <2>4, <2>8, <2>11
  <2> QED
    BY <2>3, <2>7, <2>10, <2>12
<1> QED
  BY <1>2 DEF NoHole

\* What a stream carries has no hole, across the cut from the replay to the live events, in every
\* state (EventBroker.Subscribe, serveEvents).
THEOREM NoHoleInStreams == LiveSpec => []NoHole
<1> QED
  BY StreamInvariant, RunsHaveNoHole, PTL
=============================================================================
