----------------------------- MODULE Containers -----------------------------
(***************************************************************************)
(* The Docker host as internal/orchestrator/docker uses it: docker run     *)
(* starts a container, docker inspect (with the agent's status.json, once  *)
(* the container has exited) reports it, docker stop; docker rm removes    *)
(* it.  Containers outlive the server process.  The agent in a container   *)
(* is outside the program: it may exit at any time with any report.        *)
(***************************************************************************)
EXTENDS TaskStore

\* What the orchestrator makes of an exited container (handleCompletion):
\* "code_pr": complete, in code mode, with a pull request;
\* "plain":   complete, without a pull request or not in code mode;
\* "failed":  not complete, needs input, or no readable status.json.
Report == {"code_pr", "plain", "failed"}

VARIABLE ctr   \* ctr[c]: the task c was started for, and its state

Container == [task  : Task \cup {NoTask},
              state : {"unused", "live", "removed"} \cup Report]

ContainersTypeOK == ctr \in [Cid -> Container]
ContainersInit == ctr = [c \in Cid |-> [task |-> NoTask, state |-> "unused"]]

Live(c) == ctr[c].state = "live"

\* The containers docker still knows.
Present == {c \in Cid : ctr[c].state # "removed"}

\* c is the container the next docker run starts.
IsNextContainer(c) ==
    /\ ctr[c].state = "unused"
    /\ \A d \in Cid : d < c => ctr[d].state # "unused"

\* docker run: prints the identifier of a new container.
RunContainer(t, c) ==
    /\ IsNextContainer(c)
    /\ ctr' = [ctr EXCEPT ![c] = [task |-> t, state |-> "live"]]
    /\ Works

\* docker run fails; it must once the bound on containers is reached.
RunFails ==
    /\ \/ Breaks("run")
       \/ (\A c \in Cid : ctr[c].state # "unused") /\ Works
    /\ UNCHANGED ctr

\* docker stop; docker rm.  The error, if any, is only logged by the callers.
\* It fails on a container that is gone and on the empty identifier; a failure
\* may leave the container running, or stopped but not removed.
StopContainer(c) ==
    \/ /\ ctr' = IF c \in Cid THEN [ctr EXCEPT ![c].state = "removed"] ELSE ctr
       /\ Works
    \/ /\ c \in Present
       /\ Breaks("stop")
       /\ \/ UNCHANGED ctr
          \/ Live(c) /\ ctr' = [ctr EXCEPT ![c].state = "failed"]

\* docker inspect, the three answers a caller tells apart.
InspectError(c) ==
    \/ c \notin Present /\ Works
    \/ c \in Present /\ Breaks("inspect")

InspectLive(c) == c \in Present /\ Live(c) /\ Works

\* The report of an exited container; without its status.json, which docker cp
\* may fail to fetch, whatever the agent has done counts as a failure.
InspectDone(c, report) ==
    /\ c \in Present
    /\ \/ ctr[c].state = report /\ Works
       \/ ctr[c].state \in Report /\ report = "failed" /\ Breaks("inspect")

\* The agent writes status.json and its container exits.
AgentExits(c, report) ==
    /\ Live(c)
    /\ ctr' = [ctr EXCEPT ![c].state = report]
=============================================================================
