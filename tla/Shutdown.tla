------------------------------ MODULE Shutdown ------------------------------
(***************************************************************************)
(* The orderly end of the server, in the order of main: the orchestrator   *)
(* is told to stop, the event bus is closed with a time limit, and then    *)
(* the HTTP server is shut down; the process does not wait for the         *)
(* orchestrator.                                                           *)
(***************************************************************************)
EXTENDS EventBus

CONSTANTS
    Handler,           \* the emitters that serve requests; the others orchestrate
    Main               \* the call of CloseWithTimeout in main

ASSUME ShutdownAssumption == Handler \subseteq Emitter /\ Main \in Timed

VARIABLES
    main,              \* what main is doing
    serving,           \* handlers with a request
    polling            \* orchestrators whose loop runs

shutdownVars == <<main, serving, polling>>
vars == <<busVars, shutdownVars>>

TypeOK ==
    /\ BusTypeOK
    /\ main \in {"serve", "close", "http", "exited"}
    /\ serving \subseteq Handler
    /\ polling \subseteq Emitter \ Handler

Init ==
    /\ BusInit
    /\ main = "serve" /\ serving = {} /\ polling = Emitter \ Handler

\* The listener takes requests until srv.Shutdown closes it.
Request(h) ==
    /\ main \in {"serve", "close"} /\ h \notin serving
    /\ serving' = serving \cup {h}
    /\ UNCHANGED <<busVars, main, polling>>

Respond(h) ==
    /\ h \in serving /\ emit[h].at = "idle"
    /\ serving' = serving \ {h}
    /\ UNCHANGED <<busVars, main, polling>>

\* A tick that is under way goes on after Stop, and so do its events.
PollEnds(o) ==
    /\ o \in polling /\ main # "serve" /\ emit[o].at = "idle"
    /\ polling' = polling \ {o}
    /\ UNCHANGED <<busVars, main, serving>>

Emits(p) ==
    /\ p \in serving \cup polling
    /\ EmitCall(p)
    /\ UNCHANGED shutdownVars

\* SIGINT or SIGTERM: cancel the context, stop the orchestrator, close the bus.
Signal ==
    /\ main = "serve" /\ main' = "close"
    /\ CloseCall(Main)
    /\ UNCHANGED <<serving, polling>>

\* Mutation: main goes on only when the bus is empty.
BusClosed_WhenDrained ==
    /\ main = "close" /\ close[Main] = "drained"
    /\ main' = "http"
    /\ UNCHANGED <<busVars, serving, polling>>

BusClosed ==
    /\ main = "close" /\ close[Main] \in {"drained", "gave_up"}
    /\ main' = "http"
    /\ UNCHANGED <<busVars, serving, polling>>

\* srv.Shutdown returns when no request is in flight, or after ten seconds.
HttpStopped ==
    /\ main = "http" /\ main' = "exited"
    /\ UNCHANGED <<busVars, serving, polling>>

Callers == \E p \in Emitter : EmitStep(p)
Closers == \E c \in Closer : CloseStep(c)

Bus ==
    /\ main # "exited"
    /\ \/ Callers \/ Closers \/ Deliver \/ Subscribe
       \/ \E c \in Closer \ {Main} : CloseCall(c)
    /\ UNCHANGED shutdownVars

Next ==
    \/ Bus
    \/ /\ main # "exited"
       /\ \/ \E h \in Handler : Request(h) \/ Respond(h)
          \/ \E o \in Emitter : PollEnds(o) \/ Emits(o)
          \/ Signal \/ BusClosed \/ HttpStopped

Spec == Init /\ [][Next]_vars

\* The goroutines of the callers, of Close and of main run.  Nothing is assumed
\* of deliver: an HTTP server can keep a webhook waiting for a long time.
FairSpec ==
    /\ Spec
    /\ \A p \in Emitter : WF_vars(main # "exited" /\ EmitStep(p) /\ UNCHANGED shutdownVars)
    /\ \A c \in Closer : WF_vars(main # "exited" /\ CloseStep(c) /\ UNCHANGED shutdownVars)
    /\ WF_vars(BusClosed) /\ WF_vars(HttpStopped)

----------------------------------------------------------------------------

\* The process ends with an accepted event unhandled only if CloseWithTimeout has
\* reported that it gave up.
NothingLostQuietly ==
    main = "exited" /\ (ch # <<>> \/ hand # NoHand) => close[Main] = "gave_up"

\* Emit never blocks its caller, however long the webhooks take, whatever is
\* closed meanwhile.
EmitReturns == \A p \in Emitter : emit[p].at # "idle" ~> emit[p].at = "idle" \/ main = "exited"

\* After the signal the process exits, whatever the webhooks do.
ProcessExits == main # "serve" ~> main = "exited"
=============================================================================
