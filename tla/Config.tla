-------------------------------- MODULE Config --------------------------------
(***************************************************************************)
(* The configuration of the server (config.go) and the defaults that it    *)
(* gives to tasks (defaults.go).                                           *)
(*                                                                         *)
(* An environment variable with a number is the set of the numbers that    *)
(* Atoi finds in it: none when it is unset or not a number.  One with a    *)
(* truth value is "yes", "no" or "unset", which also stands for any other  *)
(* word.  Left out are the variables nothing here depends on: addresses,   *)
(* paths, webhooks, the S3 client, poll interval, models of no harness.    *)
(***************************************************************************)
EXTENDS Integers

Choice == {"unset", "yes", "no"}

CONSTANTS
    Word,      \* the texts that a variable or a request may contain
    Environ    \* the environments that the server may be started with

\* Among them are those that the code has of its own.
ASSUME WordAssumption ==
    {"", "agent", "claude_code", "codex", "claude_model", "codex_model", "xhigh"} \subseteq Word

\* What the server asks of the variables; a set of numbers holds at most one.
EnvironVariables ==
    [anthropic : Word, openai : Word, github : Word, apiKey : Word,
     containers : SUBSET Int, cpus : SUBSET Int, memory : SUBSET Int,
     backups : Choice, interval : SUBSET Int, retention : SUBSET Int,
     agentImage : Word, skillImage : Word, harness : Word, effort : Word,
     budget : SUBSET Int, runtime : SUBSET Int, turns : SUBSET Int,
     createPR : Choice, selfReview : Choice, save : Choice]

EnvOr(value, fallback) == IF value = "" THEN fallback ELSE value

EnvInt(value, fallback) == IF value = {} THEN fallback ELSE CHOOSE n \in value : TRUE

EnvBool(value, fallback) == IF value = "unset" THEN fallback ELSE value = "yes"

MaxLocalContainers == 6

\* The variables that hold a credential, and those of them that are set.
Secret == {"ANTHROPIC_API_KEY", "OPENAI_API_KEY", "GITHUB_TOKEN", "BACKFLOW_API_KEY"}
Secrets(e) ==
    {k \in Secret : LET v == CASE k = "ANTHROPIC_API_KEY" -> e.anthropic
                               [] k = "OPENAI_API_KEY"    -> e.openai
                               [] k = "GITHUB_TOKEN"      -> e.github
                               [] k = "BACKFLOW_API_KEY"  -> e.apiKey
                    IN  v # ""}

\* Load: the configuration an environment gives...
Load(e) ==
    [secrets    |-> Secrets(e),
     containers |-> EnvInt(e.containers, 1),
     cpus       |-> EnvInt(e.cpus, 2),
     memory     |-> EnvInt(e.memory, 8),
     agentImage |-> EnvOr(e.agentImage, "agent"),
     skillImage |-> e.skillImage,
     harness    |-> EnvOr(e.harness, "claude_code"),
     effort     |-> EnvOr(e.effort, "xhigh"),
     budget     |-> EnvInt(e.budget, 10),
     runtime    |-> EnvInt(e.runtime, 90),
     turns      |-> EnvInt(e.turns, 80),
     createPR   |-> EnvBool(e.createPR, TRUE),
     selfReview |-> EnvBool(e.selfReview, FALSE),
     save       |-> EnvBool(e.save, TRUE)]

\* ... and the errors that keep the server from starting with it.
Loads(e) ==
    /\ e.anthropic # ""
    /\ EnvInt(e.containers, 1) <= MaxLocalContainers
    /\ EnvBool(e.backups, TRUE) =>
          /\ EnvInt(e.interval, 24) > 0
          /\ EnvInt(e.retention, 7) >= 0
    /\ EnvInt(e.cpus, 2) >= 1
    /\ EnvInt(e.memory, 8) >= 1

----------------------------------------------------------------------------
(* TaskDefaults(mode).Apply(task, overrides), over the configuration.       *)

\* A zero value stands for "not given".
OrDefault(n, fallback) == IF n = 0 THEN fallback ELSE n

BoolOrDefault(choice, fallback) == IF choice = "unset" THEN fallback ELSE choice = "yes"

Model(harness) == IF harness = "codex" THEN "codex_model" ELSE "claude_model"

\* Mutation: the model is that of the default harness, not of the task's.
ModelFor_DefaultHarness(c, task) == EnvOr(task.model, Model(c.harness))

\* The model goes with the harness that the task has after defaulting.
ModelFor(c, task) == EnvOr(task.model, Model(EnvOr(task.harness, c.harness)))

Apply(c, task, o) ==
    [task EXCEPT
        !.harness    = EnvOr(@, c.harness),
        !.model      = ModelFor(c, task),
        !.effort     = EnvOr(@, c.effort),
        !.image      = EnvOr(@, c.agentImage),
        !.budget     = OrDefault(@, c.budget),
        !.runtime    = OrDefault(@, c.runtime),
        !.turns      = OrDefault(@, c.turns),
        !.createPR   = task.mode # "review" /\ BoolOrDefault(o.createPR, c.createPR),
        !.selfReview = BoolOrDefault(o.selfReview, c.selfReview),
        !.save       = BoolOrDefault(o.save, c.save)]

\* imagerouter.Resolve: codex tasks never run in the skill image.
Resolve(c, task) ==
    IF c.skillImage # "" /\ task.harness = "claude_code" THEN c.skillImage ELSE c.agentImage
=============================================================================
