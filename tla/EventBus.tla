------------------------------ MODULE EventBus ------------------------------
(***************************************************************************)
(* notify.EventBus: callers of Emit, callers of Close and the goroutine of *)
(* deliver around one buffered channel, and the webhook notifiers behind   *)
(* it.  An event is the number of the Emit call that brought it.           *)
(***************************************************************************)
EXTENDS Naturals, Sequences, FiniteSets

CONSTANTS
    Emitter,           \* goroutines that call Emit
    Closer,            \* calls of Close and CloseWithTimeout
    Timed,             \* those of them that give up waiting
    BufferSize,        \* defaultBufferSize
    MaxEvents,         \* bound: calls of Emit
    MaxSubscribers,    \* bound: calls of Subscribe
    Filtered           \* events of a type the webhooks do not ask for

Event == 1 .. MaxEvents
Sub == 1 .. MaxSubscribers

ASSUME BusAssumption ==
    /\ BufferSize \in Nat \ {0} /\ MaxEvents \in Nat /\ MaxSubscribers \in Nat
    /\ Timed \subseteq Closer /\ Filtered \subseteq Event

VARIABLES
    emit,              \* where each emitter is in Emit, and with which event
    emitted,           \* number of calls of Emit so far
    ch, chClosed,      \* the channel
    closed,            \* the atomic flag
    once,              \* closeOnce
    close,             \* where each closer is
    done,              \* the channel done is closed: deliver has returned
    subscribers,       \* number of subscribers
    hand,              \* the event deliver has received, its subscriber and attempt
    acked,             \* per subscriber, the events it has answered with success
    handled            \* events deliver is through with, in that order

busVars == <<emit, emitted, ch, chClosed, closed, once, close, done,
             subscribers, hand, acked, handled>>
callVars == <<emit, emitted>>
closeVars == <<chClosed, closed, once, close>>
deliverVars == <<done, hand, acked, handled>>

maxAttempts == 3

Idle == [at |-> "idle", event |-> 0]
NoHand == [event |-> 0, sub |-> 0, last |-> 0, attempt |-> 0]

BusTypeOK ==
    /\ emit \in [Emitter -> [at : {"idle", "lock", "check", "send"}, event : Event \cup {0}]]
    /\ emitted \in 0 .. MaxEvents
    /\ ch \in Seq(Event) /\ Len(ch) <= BufferSize
    /\ chClosed \in BOOLEAN /\ closed \in BOOLEAN /\ done \in BOOLEAN
    /\ once \in {"new", "busy", "done"}
    /\ close \in [Closer -> {"idle", "once", "lock", "store", "close", "wait", "drained", "gave_up"}]
    /\ subscribers \in 0 .. MaxSubscribers
    /\ hand \in [event : Event \cup {0}, sub : 0 .. MaxSubscribers + 1,
                 last : 0 .. MaxSubscribers, attempt : 0 .. maxAttempts - 1]
    /\ acked \in [Sub -> SUBSET Event]
    /\ handled \in Seq(Event)

BusInit ==
    /\ emit = [p \in Emitter |-> Idle] /\ emitted = 0
    /\ ch = <<>> /\ chClosed = FALSE
    /\ closed = FALSE /\ once = "new" /\ close = [c \in Closer |-> "idle"]
    /\ done = FALSE /\ subscribers = 0 /\ hand = NoHand
    /\ acked = [s \in Sub |-> {}]
    /\ handled = <<>>

Subscribe ==
    /\ subscribers < MaxSubscribers
    /\ subscribers' = subscribers + 1
    /\ UNCHANGED <<callVars, ch, closeVars, deliverVars>>

----------------------------------------------------------------------------
(* emitMu: emitters hold it for reading, a closer for writing.  A closer   *)
(* that waits for it keeps new readers out (sync.RWMutex).                 *)

Readers == {p \in Emitter : emit[p].at \in {"check", "send"}}
WriterWaits == \E c \in Closer : close[c] = "lock"
WriterHolds == \E c \in Closer : close[c] \in {"store", "close"}

EmitAt(p, at) == emit' = [emit EXCEPT ![p].at = at]
Returns(p) == emit' = [emit EXCEPT ![p] = Idle]

EmitCall(p) ==
    /\ emit[p].at = "idle" /\ emitted < MaxEvents
    /\ emitted' = emitted + 1
    /\ emit' = [emit EXCEPT ![p] = [at |-> "lock", event |-> emitted']]
    /\ UNCHANGED <<ch, closeVars, subscribers, deliverVars>>

EmitLock(p) ==
    /\ emit[p].at = "lock"
    /\ ~WriterWaits /\ ~WriterHolds
    /\ EmitAt(p, "check")
    /\ UNCHANGED <<emitted, ch, closeVars, subscribers, deliverVars>>

\* A closed bus drops the event.
EmitCheck(p) ==
    /\ emit[p].at = "check"
    /\ IF closed THEN Returns(p) ELSE EmitAt(p, "send")
    /\ UNCHANGED <<emitted, ch, closeVars, subscribers, deliverVars>>

\* Mutation: a full buffer blocks the caller.
EmitSend_Blocks(p) ==
    /\ emit[p].at = "send" /\ Len(ch) < BufferSize
    /\ ch' = Append(ch, emit[p].event)
    /\ Returns(p)
    /\ UNCHANGED <<emitted, closeVars, subscribers, deliverVars>>

\* A full buffer drops the event.
EmitSend(p) ==
    /\ emit[p].at = "send"
    /\ ch' = IF Len(ch) < BufferSize THEN Append(ch, emit[p].event) ELSE ch
    /\ Returns(p)
    /\ UNCHANGED <<emitted, closeVars, subscribers, deliverVars>>

EmitStep(p) == EmitLock(p) \/ EmitCheck(p) \/ EmitSend(p)

----------------------------------------------------------------------------
(* Close and CloseWithTimeout                                              *)

CloseTo(c, at) == close' = [close EXCEPT ![c] = at]

CloseCall(c) ==
    /\ close[c] = "idle"
    /\ CloseTo(c, "once")
    /\ UNCHANGED <<callVars, ch, chClosed, closed, once, subscribers, deliverVars>>

\* closeOnce: the first call closes, a later one waits until it has.
CloseOnce(c) ==
    /\ close[c] = "once"
    /\ \/ once = "new" /\ once' = "busy" /\ CloseTo(c, "lock")
       \/ once = "done" /\ UNCHANGED once /\ CloseTo(c, "wait")
    /\ UNCHANGED <<callVars, ch, chClosed, closed, subscribers, deliverVars>>

\* Mutation: the lock is taken although emitters hold it for reading.
CloseLock_Unguarded(c) ==
    /\ close[c] = "lock"
    /\ CloseTo(c, "store")
    /\ UNCHANGED <<callVars, ch, chClosed, closed, once, subscribers, deliverVars>>

CloseLock(c) ==
    /\ close[c] = "lock" /\ Readers = {}
    /\ CloseTo(c, "store")
    /\ UNCHANGED <<callVars, ch, chClosed, closed, once, subscribers, deliverVars>>

CloseStore(c) ==
    /\ close[c] = "store"
    /\ closed' = TRUE
    /\ CloseTo(c, "close")
    /\ UNCHANGED <<callVars, ch, chClosed, once, subscribers, deliverVars>>

CloseChannel(c) ==
    /\ close[c] = "close"
    /\ chClosed' = TRUE /\ once' = "done"
    /\ CloseTo(c, "wait")
    /\ UNCHANGED <<callVars, ch, closed, subscribers, deliverVars>>

CloseReturns(c) ==
    /\ close[c] = "wait" /\ done
    /\ CloseTo(c, "drained")
    /\ UNCHANGED <<callVars, ch, chClosed, closed, once, subscribers, deliverVars>>

\* CloseWithTimeout returns an error, and deliver goes on.
CloseTimesOut(c) ==
    /\ close[c] = "wait" /\ c \in Timed
    /\ CloseTo(c, "gave_up")
    /\ UNCHANGED <<callVars, ch, chClosed, closed, once, subscribers, deliverVars>>

CloseStep(c) ==
    \/ CloseOnce(c) \/ CloseLock(c) \/ CloseStore(c) \/ CloseChannel(c)
    \/ CloseReturns(c) \/ CloseTimesOut(c)

----------------------------------------------------------------------------
(* deliver, and WebhookNotifier.Notify                                     *)

\* The next event, for the subscribers there are now.
Receive ==
    /\ hand = NoHand /\ ch # <<>>
    /\ ch' = Tail(ch)
    /\ hand' = [event |-> Head(ch), sub |-> 1, last |-> subscribers, attempt |-> 0]
    /\ UNCHANGED <<callVars, closeVars, subscribers, done, acked, handled>>

EventDone ==
    /\ hand # NoHand /\ hand.sub > hand.last
    /\ hand' = NoHand
    /\ handled' = Append(handled, hand.event)
    /\ UNCHANGED <<callVars, ch, closeVars, subscribers, done, acked>>

NextSub == hand' = [hand EXCEPT !.sub = @ + 1, !.attempt = 0]

Notifies == hand # NoHand /\ hand.sub <= hand.last

Skip ==
    /\ Notifies /\ hand.event \in Filtered
    /\ NextSub
    /\ UNCHANGED <<callVars, ch, closeVars, subscribers, done, acked, handled>>

Succeeds == acked' = [acked EXCEPT ![hand.sub] = @ \cup {hand.event}]

\* Mutation: after a success the loop goes on to the next attempt.
PostAccepted_GoesOn ==
    /\ Notifies /\ hand.event \notin Filtered
    /\ Succeeds
    /\ IF hand.attempt + 1 < maxAttempts
       THEN hand' = [hand EXCEPT !.attempt = @ + 1]
       ELSE NextSub
    /\ UNCHANGED <<callVars, ch, closeVars, subscribers, done, handled>>

\* The answer is 2xx.
PostAccepted ==
    /\ Notifies /\ hand.event \notin Filtered
    /\ Succeeds
    /\ NextSub
    /\ UNCHANGED <<callVars, ch, closeVars, subscribers, done, handled>>

\* No connection, no answer within the client's timeout, or another status; the
\* request may have reached the webhook all the same.  The third failure is final.
PostFailed ==
    /\ Notifies /\ hand.event \notin Filtered
    /\ IF hand.attempt + 1 < maxAttempts
       THEN hand' = [hand EXCEPT !.attempt = @ + 1]
       ELSE NextSub
    /\ UNCHANGED <<callVars, ch, closeVars, subscribers, done, acked, handled>>

\* Mutation: deliver ends as soon as the channel is closed.
DeliverEnds_Early ==
    /\ hand = NoHand /\ chClosed /\ ~done
    /\ done' = TRUE
    /\ UNCHANGED <<callVars, ch, closeVars, subscribers, hand, acked, handled>>

\* The range over a closed channel ends once the channel is empty.
DeliverEnds ==
    /\ hand = NoHand /\ chClosed /\ ch = <<>> /\ ~done
    /\ done' = TRUE
    /\ UNCHANGED <<callVars, ch, closeVars, subscribers, hand, acked, handled>>

Deliver == ~done /\ (Receive \/ Skip \/ PostAccepted \/ PostFailed \/ EventDone \/ DeliverEnds)

----------------------------------------------------------------------------
(* Properties of the bus.                                                  *)

\* Emit never sends on the closed channel, which would end the process: between
\* its look at the flag and its send no Close can come.
NeverSendsOnClosed == \A p \in Emitter : emit[p].at = "send" => ~chClosed

\* A webhook that has answered an event with success does not get it again.
AcknowledgedOnce == Notifies => hand.event \notin acked[hand.sub]

Queue == INSTANCE EventQueue WITH
    Capacity <- BufferSize + 1,
    queue    <- IF hand = NoHand THEN ch ELSE <<hand.event>> \o ch,
    open     <- ~closed,
    finished <- done

\* To its callers the bus is a queue: what it accepts it handles once, in order,
\* for all subscribers, and nothing is accepted after Close.
ImplementsQueue == Queue!Spec
=============================================================================
