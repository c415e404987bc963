-------------------------------- MODULE Intake --------------------------------
(***************************************************************************)
(* What becomes of a task request on its way to the agent: validation      *)
(* (models/task.go), defaults (Config), the row, the image and environment *)
(* of each container that is run for it (docker.go), the agent's report,   *)
(* and the review chained to it (monitor.go, chain.go), while the operator *)
(* may restart the server with another environment at any time.            *)
(*                                                                         *)
(* It follows the data that Backlite leaves out, for one request; what     *)
(* Backlite shows of concurrency, cancellation and faults is left out here.*)
(***************************************************************************)
EXTENDS Config, Sequences

CONSTANTS
    Request,       \* the requests that may be sent
    NoName,        \* the names in them that no variable can have
    MaxInt,        \* stands for math.MaxInt32, the bound on runtime and turns
    MaxAttempts,   \* bound: attempts at a task
    MaxRestarts    \* bound: restarts of the server with another environment

ASSUME IntakeAssumption ==
    /\ MaxInt \in Nat /\ MaxAttempts \in Nat \ {0} /\ MaxRestarts \in Nat

VARIABLES
    environ,    \* the environment of the server process
    req,        \* the request that created the first task
    rows,       \* the rows of the tasks, in the order of their creation
    containers, \* containers[t]: what the last container of task t was run with
    restarts    \* restarts so far

vars == <<environ, req, rows, containers, restarts>>

----------------------------------------------------------------------------
(* Requests.                                                               *)

\* The variables of a task that docker.go always passes, the ones it passes for
\* a text the task has, and the credentials from the env file.
AlwaysSet == {"TASK_ID", "TASK_MODE", "HARNESS", "REPO_URL", "BRANCH", "TARGET_BRANCH",
              "PROMPT", "MODEL", "EFFORT", "MAX_BUDGET_USD", "MAX_TURNS", "CREATE_PR",
              "SELF_REVIEW"}
Text == {"PR_TITLE", "PR_BODY", "CLAUDE_MD", "TASK_CONTEXT"}

\* Mutation: the list does not know the variables that are set for some tasks.
Reserved_NoText == AlwaysSet \cup Secret \cup {"BACKFLOW_API_BASE_URL"}

\* reservedEnvVarKeys, a list of its own in task.go.
Reserved ==
    {"TASK_ID", "TASK_MODE", "HARNESS", "REPO_URL", "BRANCH", "TARGET_BRANCH", "PROMPT",
     "MODEL", "EFFORT", "MAX_BUDGET_USD", "MAX_TURNS", "CREATE_PR", "SELF_REVIEW",
     "PR_TITLE", "PR_BODY", "CLAUDE_MD", "TASK_CONTEXT", "BACKFLOW_API_KEY",
     "BACKFLOW_API_BASE_URL", "ANTHROPIC_API_KEY", "OPENAI_API_KEY", "GITHUB_TOKEN"}

\* What a request can say.
RequestFields ==
    [prompt : Word, null : BOOLEAN, harness : Word, model : Word, effort : Word,
     budget : Int, runtime : Int, turns : Int,
     createPR : Choice, selfReview : Choice, save : Choice,
     mode : Word \cup {"unset"}, texts : SUBSET Text, env : SUBSET Word]

\* The parsing of JSON and of the environment sees to the types, and to no more.
ASSUME InputAssumption ==
    Request \subseteq RequestFields /\ Environ \subseteq EnvironVariables

NoRequest ==
    [prompt |-> "", null |-> FALSE, harness |-> "", model |-> "", effort |-> "",
     budget |-> 0, runtime |-> 0, turns |-> 0,
     createPR |-> "unset", selfReview |-> "unset", save |-> "unset",
     mode |-> "unset", texts |-> {}, env |-> {}]

\* Mutation: a negative limit passes for a number.
Validate_NoSigns(r) ==
    /\ r.prompt # "" /\ ~r.null
    /\ r.env \cap (Reserved \cup NoName) = {}
    /\ r.runtime <= MaxInt /\ r.turns <= MaxInt
    /\ r.harness \in {"", "claude_code", "codex"}
    /\ r.effort \in {"", "low", "medium", "high", "xhigh"}
    /\ r.mode \in {"unset", "", "auto"}

Validate(r) ==
    /\ r.prompt # "" /\ ~r.null
    /\ r.env \cap (Reserved \cup NoName) = {}
    /\ r.budget >= 0
    /\ r.runtime \in 0 .. MaxInt /\ r.turns \in 0 .. MaxInt
    /\ r.harness \in {"", "claude_code", "codex"}
    /\ r.effort \in {"", "low", "medium", "high", "xhigh"}
    /\ r.mode \in {"unset", "", "auto"}

\* NewTask: a row, whatever task_mode was given, in mode auto.
NewTask(c, r) ==
    Apply(c, [status |-> "pending", attempt |-> 1, parent |-> 0, mode |-> "auto",
              harness |-> r.harness, model |-> r.model, effort |-> r.effort,
              image |-> "", budget |-> r.budget, runtime |-> r.runtime,
              turns |-> r.turns, createPR |-> FALSE, selfReview |-> FALSE,
              save |-> FALSE, texts |-> r.texts, env |-> r.env], r)

----------------------------------------------------------------------------
(* Containers.                                                             *)

\* buildEnvFlags and buildSecretEnvPairs: the variables the server sets.
ServerKeys(c, task) == AlwaysSet \cup task.texts \cup c.secrets

\* buildRunCommand: the user's flags come last, and -e beats --env-file.
Container(c, task) ==
    [image    |-> EnvOr(task.image, c.agentImage),
     server   |-> ServerKeys(c, task) \ task.env,
     user     |-> task.env,
     secrets  |-> c.secrets,
     createPR |-> task.createPR,
     cpus     |-> c.cpus]

----------------------------------------------------------------------------
(* Reviews.                                                                *)

\* What status.json says: whether the task was completed, whether with a pull
\* request, and the mode the prep stage has inferred, if it says.
Report == [complete : BOOLEAN, pr : BOOLEAN, mode : {"", "code", "review"}]

\* Plan, on the projected parent.
Plans(task, report) ==
    /\ report.complete
    /\ task.selfReview
    /\ report.pr
    /\ EnvOr(report.mode, task.mode) = "code"
    /\ task.parent = 0

\* Mutation: whether the output is saved is left to the default.
ReviewOverrides_NoSave(task) ==
    [createPR |-> "no", selfReview |-> "no", save |-> "unset"]

\* The overrides that handleCompletion gives for the review.
ReviewOverrides(task) ==
    [createPR |-> "no", selfReview |-> "no", save |-> IF task.save THEN "yes" ELSE "no"]

SelfReviewBudget == 2

\* Plan's child, with the defaults of mode review for what Plan leaves zero.
Review(c, t) ==
    LET task == rows[t] IN
    Apply(c, [status |-> "pending", attempt |-> 1, parent |-> t, mode |-> "review",
              harness |-> task.harness, model |-> task.model, effort |-> task.effort,
              image |-> "", budget |-> SelfReviewBudget, runtime |-> 0, turns |-> 0,
              createPR |-> FALSE, selfReview |-> FALSE, save |-> task.save,
              texts |-> task.texts \cap {"TASK_CONTEXT"}, env |-> {}],
          ReviewOverrides(task))

----------------------------------------------------------------------------
(* The server.                                                             *)

\* No container has been run yet.
NoContainer == [image |-> "", server |-> {}, user |-> {}, secrets |-> {},
                createPR |-> FALSE, cpus |-> 1]

Up == Loads(environ)
config == Load(environ)

Init ==
    /\ environ \in Environ
    /\ req = NoRequest
    /\ rows = <<>>
    /\ containers = <<>>
    /\ restarts = 0

\* The process ends and is started with another environment, or is not.
Restart ==
    /\ restarts < MaxRestarts
    /\ restarts' = restarts + 1
    /\ environ' \in Environ \ {environ}
    /\ UNCHANGED <<req, rows, containers>>

\* POST /tasks.
Create ==
    /\ Up /\ rows = <<>>
    /\ \E r \in Request :
         /\ Validate(r)
         /\ req' = r
         /\ rows' = <<NewTask(config, r)>>
    /\ containers' = <<NoContainer>>
    /\ UNCHANGED <<environ, restarts>>

Running == {t \in DOMAIN rows : rows[t].status = "running"}

\* Mutation: the image that the row has stored is used again.
Dispatch_StoredImage(t) ==
    /\ Up /\ rows[t].status = "pending"
    /\ Running = {} /\ config.containers > 0
    /\ rows' = [rows EXCEPT ![t].status = "running"]
    /\ containers' = [containers EXCEPT ![t] = Container(config, rows[t])]
    /\ UNCHANGED <<environ, req, restarts>>

\* dispatch: the image is resolved anew, and stored with the start.  Only one
\* task runs at a time here: the other could only be its parent, which is over.
Dispatch(t) ==
    /\ Up /\ rows[t].status = "pending"
    /\ Running = {} /\ config.containers > 0
    /\ LET task == [rows[t] EXCEPT !.image = Resolve(config, rows[t])] IN
         /\ rows' = [rows EXCEPT ![t] = [task EXCEPT !.status = "running"]]
         /\ containers' = [containers EXCEPT ![t] = Container(config, task)]
    /\ UNCHANGED <<environ, req, restarts>>

\* handleCompletion: the review, if any, is stored with the completion; both are
\* made of the configuration that the server has by now.
Complete(t, report) ==
    /\ Up /\ rows[t].status = "running"
    /\ LET task == [rows[t] EXCEPT
             !.status = IF report.complete THEN "completed" ELSE "failed",
             !.mode   = EnvOr(report.mode, @)]
           done == [rows EXCEPT ![t] = task]
       IN  IF Plans(rows[t], report)
           THEN /\ rows' = Append(done, Review(config, t))
                /\ containers' = Append(containers, NoContainer)
           ELSE rows' = done /\ UNCHANGED containers
    /\ UNCHANGED <<environ, req, restarts>>

\* RetryTask, or a requeue: only the attempt is new.
Retry(t) ==
    /\ Up /\ rows[t].status = "failed"
    /\ rows[t].attempt < MaxAttempts
    /\ rows' = [rows EXCEPT ![t].status = "pending", ![t].attempt = @ + 1]
    /\ UNCHANGED <<environ, req, containers, restarts>>

Next ==
    \/ Restart \/ Create
    \/ \E t \in DOMAIN rows :
         \/ Dispatch(t) \/ Retry(t)
         \/ \E report \in Report : Complete(t, report)

Spec == Init /\ [][Next]_vars

----------------------------------------------------------------------------
Row == [status : {"pending", "running", "completed", "failed"},
        attempt : 1 .. MaxAttempts, parent : {0, 1},
        mode : {"auto", "code", "review"},
        harness : {"claude_code", "codex"},
        model : Word \ {""}, effort : Word \ {""}, image : Word \ {""},
        budget : Int, runtime : Nat \ {0}, turns : Nat \ {0},
        createPR : BOOLEAN, selfReview : BOOLEAN, save : BOOLEAN,
        texts : SUBSET Text, env : SUBSET Word]

\* Rows are complete and bounded: whatever the request left out or got wrong, and
\* as long as the defaults in the environment, which config.go does not check, are
\* known ones, a task has a harness, a model, an image, a positive runtime and number
\* of turns, its containers a CPU, and no task chains further than its review.
TypeOK ==
    /\ environ \in EnvironVariables
    /\ req \in RequestFields
    /\ rows \in Seq(Row) /\ Len(rows) <= 2
    /\ DOMAIN containers = DOMAIN rows
    /\ \A t \in DOMAIN rows : containers[t].cpus >= 1
    /\ restarts \in 0 .. MaxRestarts

\* The agent gets the server's value of every variable that the server sets for
\* it, though the list of reserved names and the flags of docker run are written
\* in two places, and credentials may appear with a restart after creation.
ServerVariablesWin ==
    \A t \in DOMAIN rows :
        LET c == containers[t] IN
        c # NoContainer =>
            AlwaysSet \cup rows[t].texts \cup c.secrets = c.server

Chosen(choice, value) == choice # "unset" => value = (choice = "yes")

\* What the user has chosen stays chosen, through defaults, retries and restarts
\* with other defaults: an explicit "no" is not taken for "not given".
UserChoiceWins ==
    rows # <<>> =>
        /\ Chosen(req.createPR, rows[1].createPR)
        /\ containers[1] # NoContainer => Chosen(req.createPR, containers[1].createPR)
        /\ Chosen(req.selfReview, rows[1].selfReview)
        /\ Chosen(req.save, rows[1].save)
        /\ req.harness # "" => rows[1].harness = req.harness
        /\ req.model # "" => rows[1].model = req.model
        /\ req.runtime # 0 => rows[1].runtime = req.runtime

\* A model of one harness is never given to the other, unless the user says so:
\* not when the request names a harness that is not the default, and not in a
\* review planned under a default that has changed since.
ModelFitsHarness ==
    \A t \in DOMAIN rows :
        rows[t].model \in {req.model, Model(rows[t].harness)}

\* Defaults fill what the user has left open, with values that fit together, and
\* nothing else.
DefaultsFillGaps == UserChoiceWins /\ ModelFitsHarness

\* A review is like its parent where the user may have chosen, cheap where the
\* user cannot choose, and never opens a pull request, in no attempt at it.
ReviewFollowsParent ==
    \A t \in DOMAIN rows :
        LET task == rows[t] IN
        task.parent # 0 =>
            /\ rows[task.parent].status = "completed" /\ rows[task.parent].mode = "code"
            /\ task.harness = rows[task.parent].harness
            /\ task.model = rows[task.parent].model
            /\ task.save = rows[task.parent].save
            /\ task.budget = SelfReviewBudget
            /\ ~task.selfReview /\ ~task.createPR /\ ~containers[t].createPR

\* A container runs in an image of the configuration in force when it is run,
\* whatever the row has stored of an earlier one; the skill image, which only
\* knows claude_code, gets no other harness.
ImageIsCurrent ==
    [][\A t \in DOMAIN rows :
         rows[t].status = "pending" /\ rows'[t].status = "running" =>
            /\ containers'[t].image \in {config.agentImage, config.skillImage}
            /\ containers'[t].image # config.agentImage => rows[t].harness = "claude_code"
            /\ rows'[t].image = containers'[t].image]_vars
=============================================================================
