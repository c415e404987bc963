--------------------------- MODULE ShutdownProofs ---------------------------
(***************************************************************************)
(* Proofs about the event bus and the shutdown: no send on the closed      *)
(* channel, nothing lost quietly, no event acknowledged twice by a         *)
(* webhook, and the bus is a queue to its callers.                         *)
(***************************************************************************)
EXTENDS Shutdown, SequenceTheorems, TLAPS

\* What the read-write lock, the flag and the channel have to do with each other.
LockInv ==
    /\ \A c \in Closer : close[c] \in {"store", "close"} => Readers = {}
    /\ \A c \in Closer : close[c] = "close" => closed
    /\ \A p \in Emitter : emit[p].at = "send" => ~closed
    /\ chClosed => closed

\* The types that the steps of the lock need.
CallsOK ==
    /\ emit \in [Emitter -> [at : {"idle", "lock", "check", "send"}, event : Nat]]
    /\ close \in [Closer -> {"idle", "once", "lock", "store", "close", "wait", "drained", "gave_up"}]
    /\ emitted \in Nat

CallInv == CallsOK /\ LockInv

\* A step of the server is a step of the bus, of a caller, or leaves both alone.
LEMMA Steps ==
    ASSUME [Next]_vars
    PROVE  \/ \E p \in Emitter : EmitStep(p) \/ EmitCall(p)
           \/ \E c \in Closer : CloseStep(c) \/ CloseCall(c)
           \/ Deliver
           \/ Subscribe
           \/ UNCHANGED busVars
BY ShutdownAssumption, BusAssumption
   DEF Next, Bus, Callers, Closers, Request, Respond, PollEnds, Emits, Signal,
       BusClosed, HttpStopped, vars

LEMMA CallInvInit == Init => CallInv
BY DEF Init, BusInit, CallInv, CallsOK, LockInv, Idle, Readers

LEMMA CallInvStep == CallInv /\ [Next]_vars => CallInv'
<1> SUFFICES ASSUME CallInv, [Next]_vars PROVE CallInv'
    OBVIOUS
<1> USE DEF CallInv, CallsOK, LockInv, Readers, callVars, closeVars, deliverVars
<1>1. ASSUME NEW p \in Emitter, EmitCall(p) PROVE CallInv'
    BY <1>1 DEF EmitCall
<1>2. ASSUME NEW p \in Emitter, EmitLock(p) PROVE CallInv'
    <2>1. \A c \in Closer : close[c] \notin {"store", "close"}
        BY <1>2 DEF EmitLock, WriterHolds
    <2> QED BY <1>2, <2>1 DEF EmitLock, EmitAt
<1>3. ASSUME NEW p \in Emitter, EmitCheck(p) PROVE CallInv'
    BY <1>3 DEF EmitCheck, EmitAt, Returns, Idle
<1>4. ASSUME NEW p \in Emitter, EmitSend(p) PROVE CallInv'
    BY <1>4 DEF EmitSend, Returns, Idle
<1>5. ASSUME NEW c \in Closer, CloseStep(c) \/ CloseCall(c) PROVE CallInv'
    BY <1>5 DEF CloseStep, CloseCall, CloseOnce, CloseLock, CloseStore, CloseChannel,
                CloseReturns, CloseTimesOut, CloseTo
<1>6. ASSUME Deliver PROVE CallInv'
    BY <1>6 DEF Deliver, Receive, Skip, PostAccepted, PostFailed, EventDone, DeliverEnds
<1>7. ASSUME Subscribe PROVE CallInv'
    BY <1>7 DEF Subscribe
<1>8. ASSUME UNCHANGED busVars PROVE CallInv'
    BY <1>8 DEF busVars
<1> QED BY <1>1, <1>2, <1>3, <1>4, <1>5, <1>6, <1>7, <1>8, Steps DEF EmitStep

LEMMA CallInvAlways == Spec => []CallInv
BY CallInvInit, CallInvStep, PTL DEF Spec

\* No interleaving of any number of callers of Emit and Close makes Emit send on
\* the closed channel: the read lock is held from the check of the flag to the send.
THEOREM NeverOnClosed == Spec => []NeverSendsOnClosed
<1>1. CallInv => NeverSendsOnClosed
    BY DEF CallInv, LockInv, NeverSendsOnClosed
<1> QED BY <1>1, CallInvAlways, PTL
----------------------------------------------------------------------------
(* Nothing is lost quietly.                                                *)

\* What is known once deliver, a Close or main are through.
DrainInv ==
    /\ done => chClosed /\ ch = <<>> /\ hand = NoHand
    /\ \A c \in Closer : close[c] = "drained" => done
    /\ main \in {"http", "exited"} => close[Main] \in {"drained", "gave_up"}

LEMMA DrainInvInit == Init => DrainInv
BY ShutdownAssumption, BusAssumption DEF Init, BusInit, DrainInv

\* A step of the bus does not touch main.
LEMMA MainSteps ==
    ASSUME [Next]_vars
    PROVE  UNCHANGED main \/ Signal \/ BusClosed \/ HttpStopped
BY DEF Next, Bus, Request, Respond, PollEnds, Emits, vars, shutdownVars

LEMMA DrainInvStep == CallInv /\ DrainInv /\ [Next]_vars => DrainInv'
<1> SUFFICES ASSUME CallInv, DrainInv, [Next]_vars PROVE DrainInv'
    OBVIOUS
<1> USE ShutdownAssumption, BusAssumption DEF callVars, closeVars, deliverVars
<1> DEFINE DoneOK == done => chClosed /\ ch = <<>> /\ hand = NoHand
           DrainedOK == \A c \in Closer : close[c] = "drained" => done
           MainOK == main \in {"http", "exited"} => close[Main] \in {"drained", "gave_up"}
<1>0. Main \in Closer /\ close \in [Closer -> {"idle", "once", "lock", "store", "close",
                                                "wait", "drained", "gave_up"}]
    BY DEF CallInv, CallsOK
<1>inv. DoneOK /\ DrainedOK /\ MainOK
    BY DEF DrainInv
<1>a. DoneOK'
    <2>1. ASSUME NEW p \in Emitter, EmitStep(p) \/ EmitCall(p) PROVE DoneOK'
        <3>1. ASSUME EmitSend(p) PROVE ~done
            BY <3>1, <1>inv DEF CallInv, LockInv, EmitSend
        <3> QED BY <2>1, <3>1, <1>inv DEF EmitStep, EmitCall, EmitLock, EmitCheck, EmitSend
    <2>2. ASSUME NEW c \in Closer, CloseStep(c) \/ CloseCall(c) PROVE DoneOK'
        BY <2>2, <1>inv DEF CloseStep, CloseCall, CloseOnce, CloseLock, CloseStore,
                            CloseChannel, CloseReturns, CloseTimesOut
    <2>3. ASSUME Deliver PROVE DoneOK'
        <3>1. CASE ~done'
            BY <3>1
        <3>2. CASE done'
            <4>1. DeliverEnds
                BY <2>3, <3>2 DEF Deliver, Receive, Skip, PostAccepted, PostFailed, EventDone
            <4> QED BY <4>1 DEF DeliverEnds
        <3> QED BY <3>1, <3>2
    <2>4. ASSUME Subscribe \/ UNCHANGED busVars PROVE DoneOK'
        BY <2>4, <1>inv DEF Subscribe, busVars
    <2> HIDE DEF DoneOK
    <2> QED BY <2>1, <2>2, <2>3, <2>4, Steps
<1>b. DrainedOK'
    <2>1. ASSUME NEW p \in Emitter, EmitStep(p) \/ EmitCall(p) PROVE DrainedOK'
        BY <2>1, <1>inv DEF EmitStep, EmitCall, EmitLock, EmitCheck, EmitSend
    <2>2. ASSUME NEW c \in Closer, CloseStep(c) \/ CloseCall(c) PROVE DrainedOK'
        BY <2>2, <1>0, <1>inv DEF CloseStep, CloseCall, CloseOnce, CloseLock, CloseStore,
                                  CloseChannel, CloseReturns, CloseTimesOut, CloseTo
    <2>3. ASSUME Deliver PROVE DrainedOK'
        BY <2>3, <1>inv DEF Deliver, Receive, Skip, PostAccepted, PostFailed, EventDone, DeliverEnds
    <2>4. ASSUME Subscribe \/ UNCHANGED busVars PROVE DrainedOK'
        BY <2>4, <1>inv DEF Subscribe, busVars
    <2> HIDE DEF DrainedOK
    <2> QED BY <2>1, <2>2, <2>3, <2>4, Steps
<1> DEFINE Kept == close[Main] \in {"drained", "gave_up"} => close'[Main] = close[Main]
<1>c. Kept
    <2>1. ASSUME NEW p \in Emitter, EmitStep(p) \/ EmitCall(p) PROVE Kept
        BY <2>1 DEF EmitStep, EmitCall, EmitLock, EmitCheck, EmitSend
    <2>2. ASSUME NEW c \in Closer, CloseStep(c) \/ CloseCall(c) PROVE Kept
        BY <2>2, <1>0 DEF CloseStep, CloseCall, CloseOnce, CloseLock, CloseStore,
                    CloseChannel, CloseReturns, CloseTimesOut, CloseTo
    <2>3. ASSUME Deliver PROVE Kept
        BY <2>3 DEF Deliver, Receive, Skip, PostAccepted, PostFailed, EventDone, DeliverEnds
    <2>4. ASSUME Subscribe \/ UNCHANGED busVars PROVE Kept
        BY <2>4 DEF Subscribe, busVars
    <2> HIDE DEF Kept
    <2> QED BY <2>1, <2>2, <2>3, <2>4, Steps
<1>d. MainOK'
    BY <1>c, <1>inv, MainSteps DEF Signal, BusClosed, HttpStopped
<1> QED BY <1>a, <1>b, <1>d DEF DrainInv

LEMMA DrainInvAlways == Spec => []DrainInv
<1>1. Init => CallInv /\ DrainInv
    BY CallInvInit, DrainInvInit
<1>2. CallInv /\ DrainInv /\ [Next]_vars => (CallInv /\ DrainInv)'
    BY CallInvStep, DrainInvStep
<1> QED BY <1>1, <1>2, PTL DEF Spec

\* The server exits with an accepted event unhandled only if CloseWithTimeout has
\* returned its error; whoever else closes the bus, and whatever still emits.
THEOREM NothingLost == Spec => []NothingLostQuietly
<1>1. DrainInv => NothingLostQuietly
    BY ShutdownAssumption, BusAssumption DEF DrainInv, NothingLostQuietly
<1> QED BY <1>1, DrainInvAlways, PTL
----------------------------------------------------------------------------
(* The bus is a queue to its callers.                                      *)

HandRecord == [event : Event \cup {0}, sub : Nat, last : Nat, attempt : Nat]

\* The types of what passes through the bus.
QueueInv ==
    /\ emitted <= MaxEvents
    /\ \A p \in Emitter : emit[p].at # "idle" => emit[p].event \in Event
    /\ ch \in Seq(Event) /\ Len(ch) <= BufferSize
    /\ subscribers \in Nat
    /\ hand \in HandRecord /\ (hand # NoHand => hand.event \in Event)

LEMMA EventNotZero == 0 \notin Event
BY BusAssumption DEF Event

\* An event in hand stays in hand when its subscriber or its attempt changes.
LEMMA HandGoesOn ==
    ASSUME NEW s \in Nat, NEW a \in Nat, hand \in HandRecord, hand.event \in Event,
           hand' = [hand EXCEPT !.sub = s, !.attempt = a]
    PROVE  hand' \in HandRecord /\ hand' # NoHand /\ hand'.event = hand.event
<1>1. hand' = [event |-> hand.event, sub |-> s, last |-> hand.last, attempt |-> a]
    BY DEF HandRecord
<1>2. hand' \in HandRecord /\ hand'.event = hand.event
    BY <1>1 DEF HandRecord
<1>3. NoHand.event = 0
    BY DEF NoHand
<1> QED BY <1>2, <1>3, EventNotZero, Zenon

LEMMA QueueInvInit == Init => QueueInv
BY BusAssumption, EmptySeq DEF Init, BusInit, QueueInv, HandRecord, NoHand, Idle

\* What deliver does to the event in hand between Receive and EventDone.
HandMoves ==
    /\ hand # NoHand /\ hand' # NoHand /\ hand' \in HandRecord
    /\ hand'.event = hand.event
    /\ UNCHANGED <<callVars, ch, closeVars, subscribers, done, handled>>

LEMMA DeliverSteps ==
    ASSUME QueueInv, Deliver
    PROVE  Receive \/ EventDone \/ DeliverEnds \/ HandMoves
<1>1. ASSUME Skip \/ PostAccepted \/ PostFailed PROVE HandMoves
    <2>1. hand \in HandRecord /\ hand # NoHand /\ hand.event \in Event
        BY <1>1 DEF QueueInv, Skip, PostAccepted, PostFailed, Notifies
    <2>2. hand.sub \in Nat /\ hand.attempt \in Nat
        BY <2>1 DEF HandRecord
    <2>3. \E s \in Nat, a \in Nat : hand' = [hand EXCEPT !.sub = s, !.attempt = a]
        <3>1. CASE NextSub
            <4>1. hand.sub + 1 \in Nat /\ 0 \in Nat
                BY <2>2
            <4> QED BY <3>1, <4>1 DEF NextSub
        <3>2. CASE hand' = [hand EXCEPT !.attempt = hand.attempt + 1]
            <4>1. hand.attempt + 1 \in Nat
                BY <2>2
            <4>2. \A a : [hand EXCEPT !.attempt = a] = [hand EXCEPT !.sub = hand.sub, !.attempt = a]
                BY <2>1, Zenon DEF HandRecord
            <4> QED BY <3>2, <4>1, <4>2, <2>2, Zenon
        <3> QED BY <1>1, <3>1, <3>2, Zenon DEF Skip, PostAccepted, PostFailed
    <2>4. hand' # NoHand /\ hand' \in HandRecord /\ hand'.event = hand.event
        BY <2>1, <2>3, HandGoesOn
    <2>5. UNCHANGED <<callVars, ch, closeVars, subscribers, done, handled>>
        BY <1>1 DEF Skip, PostAccepted, PostFailed
    <2> QED BY <2>1, <2>4, <2>5 DEF HandMoves
<1> QED BY <1>1 DEF Deliver

LEMMA QueueInvStep == CallInv /\ QueueInv /\ [Next]_vars => QueueInv'
<1> SUFFICES ASSUME CallInv, QueueInv, [Next]_vars PROVE QueueInv'
    OBVIOUS
<1> USE BusAssumption DEF QueueInv, callVars, closeVars, deliverVars
<1>1. ASSUME NEW p \in Emitter, EmitCall(p) PROVE QueueInv'
    BY <1>1 DEF EmitCall, CallInv, CallsOK, Event
<1>2. ASSUME NEW p \in Emitter, EmitLock(p) \/ EmitCheck(p) PROVE QueueInv'
    <2>1. UNCHANGED <<emitted, ch, subscribers, hand>>
        BY <1>2 DEF EmitLock, EmitCheck
    <2>2. /\ emit' = [emit EXCEPT ![p] = emit'[p]]
          /\ emit'[p].at # "idle" => emit[p].at # "idle" /\ emit'[p].event = emit[p].event
        <3>1. emit \in [Emitter -> [at : {"idle", "lock", "check", "send"}, event : Nat]]
            BY DEF CallInv, CallsOK
        <3>2. emit[p].at \in {"lock", "check"}
            BY <1>2 DEF EmitLock, EmitCheck
        <3>3. emit' \in {[emit EXCEPT ![p].at = "check"], [emit EXCEPT ![p].at = "send"],
                        [emit EXCEPT ![p] = Idle]}
            BY <1>2 DEF EmitLock, EmitCheck, EmitAt, Returns
        <3> QED BY <3>1, <3>2, <3>3 DEF Idle
    <2>3. \A q \in Emitter : emit'[q].at # "idle" =>
            emit[q].at # "idle" /\ emit'[q].event = emit[q].event
        BY <2>2 DEF CallInv, CallsOK
    <2> QED BY <2>1, <2>3
<1>3. ASSUME NEW p \in Emitter, EmitSend(p) PROVE QueueInv'
    <2>1. emit[p].event \in Event
        BY <1>3 DEF EmitSend
    <2>2. (ch \in Seq(Event) /\ Len(ch) <= BufferSize)'
        BY <1>3, <2>1, AppendProperties DEF EmitSend
    <2> QED BY <1>3, <2>2 DEF EmitSend, Returns, Idle, CallInv, CallsOK
<1>4. ASSUME NEW c \in Closer, CloseStep(c) \/ CloseCall(c) PROVE QueueInv'
    BY <1>4 DEF CloseStep, CloseCall, CloseOnce, CloseLock, CloseStore, CloseChannel,
                CloseReturns, CloseTimesOut
<1>5. ASSUME Receive PROVE QueueInv'
    <2>1. Head(ch) \in Event /\ Tail(ch) \in Seq(Event) /\ Len(Tail(ch)) <= BufferSize
        BY <1>5, HeadTailProperties DEF Receive
    <2> QED BY <1>5, <2>1 DEF Receive, HandRecord, NoHand
<1>6. ASSUME EventDone \/ DeliverEnds PROVE QueueInv'
    BY <1>6 DEF EventDone, DeliverEnds, HandRecord, NoHand
<1>7. ASSUME HandMoves PROVE QueueInv'
    BY <1>7 DEF HandMoves
<1>8. ASSUME Subscribe \/ UNCHANGED busVars PROVE QueueInv'
    BY <1>8 DEF Subscribe, busVars
<1> QED BY <1>1, <1>2, <1>3, <1>4, <1>5, <1>6, <1>7, <1>8, Steps, DeliverSteps DEF EmitStep

LEMMA QueueInvAlways == Spec => [](CallInv /\ QueueInv)
<1>1. Init => CallInv /\ QueueInv
    BY CallInvInit, QueueInvInit
<1>2. CallInv /\ QueueInv /\ [Next]_vars => (CallInv /\ QueueInv)'
    BY CallInvStep, QueueInvStep
<1> QED BY <1>1, <1>2, PTL DEF Spec

\* The event in hand is the head of the queue, and the channel its tail.
LEMMA HeadInHand ==
    ASSUME NEW e \in Event, NEW s \in Seq(Event)
    PROVE  /\ <<e>> \o s \in Seq(Event) /\ <<e>> \o s # <<>>
           /\ Len(<<e>> \o s) = Len(s) + 1
           /\ Head(<<e>> \o s) = e /\ Tail(<<e>> \o s) = s
           /\ \A x \in Event : Append(<<e>> \o s, x) = <<e>> \o Append(s, x)
OBVIOUS

LEMMA TakeTheHead ==
    ASSUME NEW s \in Seq(Event), s # <<>>
    PROVE  <<Head(s)>> \o Tail(s) = s
OBVIOUS

queued == IF hand = NoHand THEN ch ELSE <<hand.event>> \o ch

queueVars == <<queued, handled, ~closed, done>>

\* EventQueue with the queue of the channel and the event in hand.
LEMMA QueueStep ==
    ASSUME CallInv, QueueInv, [Next]_vars
    PROVE  Queue!Next \/ UNCHANGED queueVars
<1> USE DEF callVars, closeVars, deliverVars
<1> DEFINE Goal == Queue!Next \/ UNCHANGED queueVars
<1>1. ASSUME NEW p \in Emitter, EmitCall(p) \/ EmitLock(p) \/ EmitCheck(p) PROVE Goal
    BY <1>1 DEF EmitCall, EmitLock, EmitCheck, queueVars, queued
<1>2. ASSUME NEW p \in Emitter, EmitSend(p) PROVE Goal
    <2> DEFINE e == emit[p].event
    <2>1. e \in Event /\ ~closed /\ ch \in Seq(Event)
        BY <1>2 DEF EmitSend, CallInv, LockInv, QueueInv
    <2>2. UNCHANGED <<hand, handled, closed, done>>
        BY <1>2 DEF EmitSend
    <2>3. CASE ch' = ch
        BY <2>2, <2>3 DEF queueVars, queued
    <2>4. CASE Len(ch) < BufferSize /\ ch' = Append(ch, e)
        <3>1. queued' = Append(queued, e)
            BY <2>1, <2>2, <2>4, HeadInHand DEF queued, QueueInv
        <3>2. Len(queued) < BufferSize + 1
            BY <2>1, <2>4, HeadInHand, BusAssumption, LenProperties DEF queued, QueueInv
        <3>3. Queue!Accept(e)
            BY <2>1, <2>2, <3>1, <3>2 DEF Queue!Accept, queued
        <3> QED BY <2>1, <3>3 DEF Queue!Next
    <2> QED BY <1>2, <2>3, <2>4 DEF EmitSend
<1>3. ASSUME NEW c \in Closer, CloseStep(c) \/ CloseCall(c) PROVE Goal
    <2>1. CASE CloseStore(c)
        <3>1. Queue!Close
            BY <2>1 DEF CloseStore, Queue!Close
        <3> QED BY <3>1 DEF Queue!Next
    <2>2. CASE ~CloseStore(c)
        BY <1>3, <2>2 DEF CloseStep, CloseCall, CloseOnce, CloseLock, CloseChannel,
                          CloseReturns, CloseTimesOut, queueVars, queued
    <2> QED BY <2>1, <2>2
<1>4. ASSUME Receive PROVE Goal
    <2>1. Head(ch) \in Event /\ ch \in Seq(Event) /\ ch # <<>>
        BY <1>4 DEF Receive, QueueInv
    <2>2. hand' # NoHand /\ hand'.event = Head(ch)
        BY <1>4, <2>1, EventNotZero DEF Receive, NoHand
    <2>3. queued' = queued
        BY <1>4, <2>1, <2>2, TakeTheHead DEF Receive, queued
    <2> QED BY <1>4, <2>3 DEF Receive, queueVars
<1>5. ASSUME EventDone PROVE Goal
    <2>1. hand # NoHand /\ hand' = NoHand /\ hand.event \in Event /\ ch \in Seq(Event)
        BY <1>5 DEF EventDone, QueueInv
    <2>2. queued # <<>> /\ queued' = Tail(queued) /\ Head(queued) = hand.event
        BY <1>5, <2>1, HeadInHand DEF EventDone, queued
    <2>3. Queue!Handle
        BY <1>5, <2>2 DEF EventDone, Queue!Handle, queued
    <2> QED BY <2>3 DEF Queue!Next
<1>6. ASSUME DeliverEnds PROVE Goal
    <2>1. Queue!Finish
        BY <1>6 DEF DeliverEnds, Queue!Finish, CallInv, LockInv
    <2> QED BY <2>1 DEF Queue!Next
<1>7. ASSUME HandMoves PROVE Goal
    BY <1>7 DEF HandMoves, queueVars, queued
<1>8. ASSUME Subscribe \/ UNCHANGED busVars PROVE Goal
    BY <1>8 DEF Subscribe, busVars, queueVars, queued
<1> HIDE DEF Goal
<1>9. Goal
    BY <1>1, <1>2, <1>3, <1>4, <1>5, <1>6, <1>7, <1>8, Steps, DeliverSteps DEF EmitStep
<1> QED BY <1>9 DEF Goal

\* To its callers the bus is a queue, for any number of them: whatever the locks,
\* the attempts and the order of its steps, each is a step of EventQueue or none.
THEOREM BusIsQueue == Spec => ImplementsQueue
<1>1. Init => Queue!Init
    BY DEF Init, BusInit, Queue!Init
<1>2. CallInv /\ QueueInv /\ [Next]_vars => Queue!Next \/ UNCHANGED queueVars
    BY QueueStep
<1> QED BY <1>1, <1>2, QueueInvAlways, PTL DEF Spec, ImplementsQueue, Queue!Spec, queueVars, queued
----------------------------------------------------------------------------
(* A webhook that has answered does not get the event again.               *)

Active(p) == emit[p].at # "idle"
Handled(e) == \E s \in Sub : e \in acked[s]

\* Each number of an event is in at most one place: with its caller, in the channel
\* or in hand.  Where a webhook has answered it already, it is in hand, and deliver
\* is past that webhook.
OncePerEvent ==
    /\ \A p \in Emitter : Active(p) =>
         /\ emit[p].event <= emitted /\ ~Handled(emit[p].event)
         /\ emit[p].event # hand.event
         /\ \A q \in Emitter \ {p} : Active(q) => emit[q].event # emit[p].event
         /\ \A i \in 1 .. Len(ch) : ch[i] # emit[p].event
    /\ \A i \in 1 .. Len(ch) :
         /\ ch[i] <= emitted /\ ch[i] # hand.event /\ ~Handled(ch[i])
         /\ \A j \in 1 .. Len(ch) : ch[i] = ch[j] => i = j
    /\ hand.event <= emitted
    /\ \A s \in Sub : hand.event \in acked[s] => s < hand.sub

\* Subscribers are counted, and who has answered is one of them.
AckTypes ==
    /\ subscribers \in 0 .. MaxSubscribers
    /\ hand.last <= MaxSubscribers /\ (hand # NoHand => hand.sub >= 1)
    /\ acked \in [Sub -> SUBSET (1 .. emitted)]

AckInv == OncePerEvent /\ AckTypes

LEMMA AckInvInit == Init => AckInv
<1> SUFFICES ASSUME Init PROVE AckInv
    OBVIOUS
<1> USE DEF Init, BusInit
<1>1. OncePerEvent
    BY DEF OncePerEvent, Active, Idle, NoHand
<1>2. AckTypes
    BY BusAssumption DEF AckTypes, NoHand
<1> QED BY <1>1, <1>2 DEF AckInv

\* The number of an event once emitted is below the count of the calls.
LEMMA AckInvEmit ==
    ASSUME CallInv, QueueInv, AckInv, NEW p \in Emitter, EmitCall(p)
    PROVE  AckInv'
<1> USE DEF callVars, closeVars, deliverVars
<1>0. emitted \in Nat /\ emitted' = emitted + 1
    BY DEF EmitCall, CallInv, CallsOK
<1>1. /\ ch' = ch /\ hand' = hand /\ acked' = acked /\ subscribers' = subscribers
      /\ emit' = [emit EXCEPT ![p] = [at |-> "lock", event |-> emitted']]
      /\ emit \in [Emitter -> [at : {"idle", "lock", "check", "send"}, event : Nat]]
    BY DEF EmitCall, CallInv, CallsOK
<1>2. /\ emit'[p].event = emitted + 1
      /\ \A q \in Emitter \ {p} : emit'[q] = emit[q]
    BY <1>0, <1>1
<1>3. AckTypes'
    <2>1. 1 .. emitted \subseteq 1 .. emitted'
        BY <1>0
    <2> QED BY <1>1, <2>1 DEF AckInv, AckTypes
<1>4. /\ \A s \in Sub : \A e \in acked[s] : e <= emitted
      /\ ~Handled(emitted + 1)
    <2>1. \A s \in Sub : acked[s] \subseteq 1 .. emitted
        BY DEF AckInv, AckTypes
    <2> QED BY <1>0, <2>1 DEF Handled
<1>5. /\ hand.event \in Nat /\ \A i \in 1 .. Len(ch) : ch[i] \in Nat
      /\ \A q \in Emitter : emit[q].event \in Nat
    <2>1. \A e \in Event \cup {0} : e \in Nat
        BY BusAssumption DEF Event
    <2>2. \A i \in 1 .. Len(ch) : ch[i] \in Event
        BY ElementOfSeq DEF QueueInv
    <2>3. hand.event \in Event \cup {0}
        BY DEF QueueInv, HandRecord
    <2>4. hand.event \in Nat /\ \A i \in 1 .. Len(ch) : ch[i] \in Nat
        BY <2>1, <2>2, <2>3, Zenon
    <2>5. \A q \in Emitter : emit[q].event \in Nat
        BY <1>1
    <2> QED BY <2>4, <2>5
<1>6. OncePerEvent'
    <2> USE DEF OncePerEvent, AckInv
    <2>1. ASSUME NEW q \in Emitter, emit'[q].at # "idle"
          PROVE  /\ emit'[q].event <= emitted' /\ ~Handled(emit'[q].event)
                 /\ emit'[q].event # hand.event
                 /\ \A i \in 1 .. Len(ch) : ch[i] # emit'[q].event
        <3>1. CASE q = p
            BY <1>0, <1>2, <1>4, <1>5, <3>1
        <3>2. CASE q # p
            BY <1>0, <1>2, <1>5, <2>1, <3>2 DEF Active
        <3> QED BY <3>1, <3>2
    <2>2. ASSUME NEW q \in Emitter, NEW r \in Emitter \ {q},
                 emit'[q].at # "idle", emit'[r].at # "idle"
          PROVE  emit'[r].event # emit'[q].event
        <3>1. CASE q # p /\ r # p
            BY <1>2, <2>2, <3>1 DEF Active
        <3>2. CASE q = p \/ r = p
            BY <1>0, <1>2, <1>5, <2>2, <3>2 DEF Active
        <3> QED BY <3>1, <3>2
    <2>3. ~Handled(hand.event)' <=> ~Handled(hand.event)
        BY <1>1 DEF Handled
    <2>4. hand.event <= emitted' /\ \A i \in 1 .. Len(ch) : ch[i] <= emitted'
        BY <1>0, <1>5
    <2> QED BY <1>1, <2>1, <2>2, <2>4 DEF Active, Handled
<1> QED BY <1>3, <1>6 DEF AckInv

\* A caller that takes the lock or sees the bus closed keeps its event or drops it.
LEMMA AckInvKeeps ==
    ASSUME CallInv, QueueInv, AckInv, NEW p \in Emitter,
           UNCHANGED <<emitted, ch, subscribers, hand, acked>>,
           \/ emit' = [emit EXCEPT ![p] = Idle]
           \/ emit[p].at # "idle" /\ \E at : emit' = [emit EXCEPT ![p].at = at]
    PROVE  AckInv'
<1>1. emit \in [Emitter -> [at : {"idle", "lock", "check", "send"}, event : Nat]]
    BY DEF CallInv, CallsOK
<1>2. \A q \in Emitter : emit'[q].at # "idle" =>
        Active(q) /\ emit'[q].event = emit[q].event
    BY <1>1 DEF Active, Idle
<1>3. OncePerEvent'
    BY <1>2 DEF AckInv, OncePerEvent, Active, Handled
<1>4. AckTypes'
    BY DEF AckInv, AckTypes
<1> QED BY <1>3, <1>4 DEF AckInv

LEMMA AckInvSend ==
    ASSUME CallInv, QueueInv, AckInv, NEW p \in Emitter, EmitSend(p)
    PROVE  AckInv'
<1> USE DEF callVars, closeVars, deliverVars
<1>1. /\ UNCHANGED <<emitted, subscribers, hand, acked>>
      /\ emit' = [emit EXCEPT ![p] = Idle] /\ Active(p)
      /\ emit \in [Emitter -> [at : {"idle", "lock", "check", "send"}, event : Nat]]
    BY DEF EmitSend, Returns, Active, CallInv, CallsOK
<1>2. CASE ch' = ch
    BY <1>1, <1>2, AckInvKeeps
<1>3. CASE ch' = Append(ch, emit[p].event)
    <2>1. ch \in Seq(Event) /\ emit[p].event \in Event
        BY <1>1 DEF QueueInv, Active
    <2>2. /\ Len(ch') = Len(ch) + 1 /\ Len(ch) \in Nat
          /\ ch'[Len(ch) + 1] = emit[p].event
          /\ \A i \in 1 .. Len(ch) : ch'[i] = ch[i]
        BY <1>3, <2>1, AppendProperties, LenProperties
    <2>3. \A i \in 1 .. Len(ch') : i \in 1 .. Len(ch) \/ i = Len(ch) + 1
        BY <2>2
    <2>4. \A q \in Emitter : emit'[q].at # "idle" => q # p /\ emit'[q] = emit[q]
        BY <1>1 DEF Idle
    <2> USE DEF AckInv, OncePerEvent
    <2>5. ASSUME NEW q \in Emitter, emit'[q].at # "idle"
          PROVE  /\ emit'[q].event <= emitted /\ ~Handled(emit'[q].event)
                 /\ emit'[q].event # hand.event
                 /\ \A r \in Emitter \ {q} : emit'[r].at # "idle" => emit'[r].event # emit'[q].event
                 /\ \A i \in 1 .. Len(ch') : ch'[i] # emit'[q].event
        <3>1. /\ q # p /\ emit'[q] = emit[q] /\ Active(q)
              /\ emit[q].event <= emitted /\ ~Handled(emit[q].event)
              /\ emit[q].event # hand.event
            BY <2>4, <2>5 DEF Active
        <3>2. \A r \in Emitter \ {q} : emit'[r].at # "idle" => emit'[r].event # emit'[q].event
            BY <2>4, <3>1 DEF Active
        <3>3. emit[p].event # emit[q].event
            BY <1>1, <3>1
        <3>4. \A i \in 1 .. Len(ch') : ch'[i] # emit'[q].event
            BY <2>2, <2>3, <3>1, <3>3
        <3> QED BY <1>1, <3>1, <3>2, <3>4
    <2>6. ASSUME NEW i \in 1 .. Len(ch')
          PROVE  /\ ch'[i] <= emitted /\ ch'[i] # hand.event /\ ~Handled(ch'[i])
                 /\ \A j \in 1 .. Len(ch') : ch'[i] = ch'[j] => i = j
        BY <1>1, <2>2, <2>3 DEF Active
    <2>7. OncePerEvent'
        BY <1>1, <2>5, <2>6 DEF Active, Handled
    <2> QED BY <1>1, <2>7 DEF AckTypes
<1> QED BY <1>2, <1>3 DEF EmitSend

LEMMA AckInvReceive ==
    ASSUME QueueInv, AckInv, Receive
    PROVE  AckInv'
<1> USE DEF callVars, closeVars, deliverVars
<1>1. /\ UNCHANGED <<emit, emitted, subscribers, acked>> /\ ch # <<>>
      /\ ch' = Tail(ch) /\ ch \in Seq(Event)
      /\ hand' = [event |-> Head(ch), sub |-> 1, last |-> subscribers, attempt |-> 0]
    BY DEF Receive, QueueInv
<1>2. /\ Len(ch) \in Nat \ {0} /\ Head(ch) = ch[1] /\ Len(ch') = Len(ch) - 1
      /\ \A i \in 1 .. Len(ch') : i + 1 \in 1 .. Len(ch) /\ ch'[i] = ch[i + 1]
    BY <1>1, HeadTailProperties, LenProperties
<1>3. 1 \in 1 .. Len(ch) /\ hand'.event = ch[1]
    BY <1>1, <1>2
<1>4. OncePerEvent'
    <2> USE DEF AckInv, OncePerEvent
    <2>1. ASSUME NEW p \in Emitter, Active(p)
          PROVE  /\ emit[p].event # hand'.event
                 /\ \A i \in 1 .. Len(ch') : ch'[i] # emit[p].event
        BY <1>2, <1>3, <2>1
    <2>2. ASSUME NEW i \in 1 .. Len(ch')
          PROVE  /\ ch'[i] <= emitted /\ ch'[i] # hand'.event /\ ~Handled(ch'[i])
                 /\ \A j \in 1 .. Len(ch') : ch'[i] = ch'[j] => i = j
        <3>1. i \in Nat /\ i + 1 # 1 /\ i + 1 \in 1 .. Len(ch) /\ ch'[i] = ch[i + 1]
            BY <1>2, <2>2
        <3>2. ch'[i] <= emitted /\ ~Handled(ch'[i])
            BY <3>1
        <3>3. ch'[i] # hand'.event
            BY <1>3, <3>1
        <3>4. ASSUME NEW j \in 1 .. Len(ch'), ch'[i] = ch'[j] PROVE i = j
            <4>1. j + 1 \in 1 .. Len(ch) /\ ch[i + 1] = ch[j + 1]
                BY <1>2, <3>1, <3>4
            <4>2. i + 1 = j + 1
                BY <3>1, <4>1
            <4> QED BY <3>1, <3>4, <4>2
        <3> QED BY <3>2, <3>3, <3>4
    <2>3. hand'.event <= emitted /\ ~Handled(hand'.event)
        BY <1>3
    <2> QED BY <1>1, <2>1, <2>2, <2>3 DEF Active, Handled
<1>5. AckTypes'
    BY <1>1, BusAssumption DEF AckInv, AckTypes
<1> QED BY <1>4, <1>5 DEF AckInv

\* When an event is through, nobody has its number any more.
LEMMA AckInvDone ==
    ASSUME CallInv, QueueInv, AckInv, EventDone
    PROVE  AckInv'
<1> USE DEF callVars, closeVars, deliverVars
<1>1. /\ UNCHANGED <<emit, emitted, ch, subscribers, acked>>
      /\ hand' = NoHand /\ hand'.event = 0
    BY DEF EventDone, NoHand
<1>2. OncePerEvent'
    <2>1. /\ \A p \in Emitter : Active(p) => emit[p].event # 0
          /\ \A i \in 1 .. Len(ch) : ch[i] # 0
        <3>1. \A i \in 1 .. Len(ch) : ch[i] \in Event
            BY ElementOfSeq DEF QueueInv
        <3> QED BY <3>1, EventNotZero DEF QueueInv, Active
    <2>2. 0 <= emitted
        BY DEF CallInv, CallsOK
    <2>3. \A s \in Sub : 0 \notin acked[s]
        BY DEF AckInv, AckTypes
    <2> QED BY <1>1, <2>1, <2>2, <2>3 DEF AckInv, OncePerEvent, Active, Handled
<1>3. AckTypes'
    BY <1>1, BusAssumption DEF AckInv, AckTypes, NoHand
<1> QED BY <1>2, <1>3 DEF AckInv

\* While a webhook is called, the answers are those of webhooks before it.
LEMMA AckInvNotify ==
    ASSUME QueueInv, AckInv, Skip \/ PostAccepted \/ PostFailed
    PROVE  AckInv'
<1> USE DEF callVars, closeVars, deliverVars
<1>1. /\ UNCHANGED <<emit, emitted, ch, subscribers>> /\ hand # NoHand
      /\ hand \in HandRecord /\ hand.event \in Event /\ hand.sub <= hand.last
    BY DEF Skip, PostAccepted, PostFailed, Notifies, QueueInv
<1>2. hand.sub \in Sub /\ hand.sub \in Nat /\ hand.last \in Nat
    BY <1>1, BusAssumption DEF AckInv, AckTypes, HandRecord, Sub
<1>3. /\ hand'.event = hand.event /\ hand'.last = hand.last
      /\ hand'.sub \in {hand.sub, hand.sub + 1}
    BY <1>1 DEF Skip, PostAccepted, PostFailed, NextSub, HandRecord
<1>4. acked \in [Sub -> SUBSET (1 .. emitted)] /\ hand.event \in 1 .. emitted
    BY <1>1, BusAssumption DEF AckInv, AckTypes, OncePerEvent, Event
<1>5. \/ acked' = acked
      \/ /\ acked' = [acked EXCEPT ![hand.sub] = @ \cup {hand.event}]
         /\ hand'.sub = hand.sub + 1
    BY <1>1 DEF Skip, PostAccepted, PostFailed, NextSub, Succeeds, HandRecord
<1>6. /\ acked' \in [Sub -> SUBSET (1 .. emitted)]
      /\ \A s \in Sub : \A e \in acked'[s] :
           e \in acked[s] \/ (e = hand.event /\ s = hand.sub /\ hand'.sub = hand.sub + 1)
    BY <1>2, <1>4, <1>5
<1>7. OncePerEvent'
    <2> USE DEF AckInv, OncePerEvent
    <2>1. \A e : e # hand.event /\ ~Handled(e) => ~Handled(e)'
        BY <1>6 DEF Handled
    <2>2. \A s \in Sub : hand.event \in acked'[s] => s < hand'.sub
        BY <1>2, <1>3, <1>6 DEF Sub
    <2> QED BY <1>1, <1>3, <2>1, <2>2 DEF Active
<1>8. AckTypes'
    <2>1. hand' # NoHand => hand'.sub >= 1
        BY <1>2, <1>3 DEF Sub
    <2> QED BY <1>1, <1>3, <1>6, <2>1 DEF AckInv, AckTypes
<1> QED BY <1>7, <1>8 DEF AckInv

LEMMA AckInvStep == CallInv /\ QueueInv /\ AckInv /\ [Next]_vars => AckInv'
<1> SUFFICES ASSUME CallInv, QueueInv, AckInv, [Next]_vars PROVE AckInv'
    OBVIOUS
<1> DEFINE Still == UNCHANGED <<emit, emitted, ch, subscribers, hand, acked>>
<1> USE DEF callVars, closeVars, deliverVars
<1>1. ASSUME Still PROVE AckInv'
    BY <1>1 DEF AckInv, OncePerEvent, AckTypes, Active, Handled
<1>2. ASSUME NEW p \in Emitter, EmitLock(p) \/ EmitCheck(p) PROVE AckInv'
    BY <1>2, AckInvKeeps DEF EmitLock, EmitCheck, EmitAt, Returns
<1>3. ASSUME NEW c \in Closer, CloseStep(c) \/ CloseCall(c) PROVE Still
    BY <1>3 DEF CloseStep, CloseCall, CloseOnce, CloseLock, CloseStore, CloseChannel,
                CloseReturns, CloseTimesOut
<1>4. ASSUME DeliverEnds \/ UNCHANGED busVars PROVE Still
    BY <1>4 DEF DeliverEnds, busVars
<1>5. ASSUME Subscribe PROVE AckInv'
    <2>1. subscribers' \in 0 .. MaxSubscribers
        BY <1>5, BusAssumption DEF Subscribe, AckInv, AckTypes
    <2>2. UNCHANGED <<emit, emitted, ch, hand, acked>>
        BY <1>5 DEF Subscribe
    <2> QED BY <2>1, <2>2 DEF AckInv, OncePerEvent, AckTypes, Active, Handled
<1> HIDE DEF Still
<1> QED BY <1>1, <1>2, <1>3, <1>4, <1>5, Steps, AckInvEmit, AckInvSend, AckInvReceive,
           AckInvDone, AckInvNotify DEF EmitStep, Deliver

\* Whatever other callers emit and however often attempts fail, a webhook that has
\* answered an event with success does not get it again: an event is delivered to
\* the subscribers in turn, once, and its number comes back by no other way.
THEOREM AcknowledgedOnceOnly == Spec => []AcknowledgedOnce
<1>1. Init => CallInv /\ QueueInv /\ AckInv
    BY CallInvInit, QueueInvInit, AckInvInit
<1>2. CallInv /\ QueueInv /\ AckInv /\ [Next]_vars => (CallInv /\ QueueInv /\ AckInv)'
    BY CallInvStep, QueueInvStep, AckInvStep
<1>3. QueueInv /\ AckInv => AcknowledgedOnce
    <2> SUFFICES ASSUME QueueInv, AckInv, Notifies, hand.event \in acked[hand.sub]
                 PROVE  FALSE
        BY DEF AcknowledgedOnce
    <2>1. hand.sub \in Sub /\ hand.sub \in Nat
        BY BusAssumption DEF Notifies, QueueInv, HandRecord, AckInv, AckTypes, Sub
    <2> QED BY <2>1 DEF AckInv, OncePerEvent
<1> QED BY <1>1, <1>2, <1>3, PTL DEF Spec
=============================================================================
