----------------------------- MODULE IntakeProofs -----------------------------
(***************************************************************************)
(* Proofs about requests and defaults, for every set of requests and of    *)
(* environments: what the server sets, what the user has chosen, and what  *)
(* a review inherits.                                                      *)
(***************************************************************************)
EXTENDS Intake, SequenceTheorems, TLAPS

----------------------------------------------------------------------------
(* Types, with whatever defaults an environment gives.                     *)

Configuration ==
    [secrets : SUBSET Secret, containers : Int, cpus : Int, memory : Int,
     agentImage : Word \ {""}, skillImage : Word,
     harness : Word \ {""}, effort : Word \ {""},
     budget : Int, runtime : Int, turns : Int,
     createPR : BOOLEAN, selfReview : BOOLEAN, save : BOOLEAN]

\* A row before and after its defaults.
Bare ==
    [status : {"pending", "running", "completed", "failed"},
     attempt : 1 .. MaxAttempts, parent : {0, 1}, mode : {"auto", "code", "review"},
     harness : Word, model : Word, effort : Word, image : Word,
     budget : Int, runtime : Int, turns : Int,
     createPR : BOOLEAN, selfReview : BOOLEAN, save : BOOLEAN,
     texts : SUBSET Text, env : SUBSET Word]

Filled == {r \in Bare : r.harness # "" /\ r.model # "" /\ r.effort # "" /\ r.image # ""}

Overrides == [createPR : Choice, selfReview : Choice, save : Choice]

Run == [image : Word, server : SUBSET (AlwaysSet \cup Text \cup Secret), user : SUBSET Word,
        secrets : SUBSET Secret, createPR : BOOLEAN, cpus : Nat \ {0}]

TypeInv ==
    /\ environ \in EnvironVariables
    /\ req \in RequestFields
    /\ rows \in Seq(Filled) /\ Len(rows) <= 2
    /\ containers \in Seq(Run) /\ Len(containers) = Len(rows)
    /\ restarts \in 0 .. MaxRestarts

\* The second row is the review of the first.
ChainInv ==
    /\ Len(rows) >= 1 => rows[1].parent = 0
    /\ Len(rows) = 2 => rows[2].parent = 1 /\ rows[1].status = "completed"

LEMMA EnvIntType == \A v, n : v \subseteq Int /\ n \in Int => EnvInt(v, n) \in Int
BY DEF EnvInt

LEMMA ConfigType ==
    ASSUME NEW e \in EnvironVariables
    PROVE  Load(e) \in Configuration /\ (Loads(e) => Load(e).cpus >= 1)
<1>1. e \in EnvironVariables
  OBVIOUS
<1>2. /\ Load(e).containers \in Int /\ Load(e).cpus \in Int /\ Load(e).memory \in Int
      /\ Load(e).budget \in Int /\ Load(e).runtime \in Int /\ Load(e).turns \in Int
  <2>1. /\ e.containers \subseteq Int /\ e.cpus \subseteq Int /\ e.memory \subseteq Int
        /\ e.budget \subseteq Int /\ e.runtime \subseteq Int /\ e.turns \subseteq Int
    BY <1>1 DEF EnvironVariables
  <2>2. /\ EnvInt(e.containers, 1) \in Int /\ EnvInt(e.cpus, 2) \in Int
        /\ EnvInt(e.memory, 8) \in Int /\ EnvInt(e.budget, 10) \in Int
        /\ EnvInt(e.runtime, 90) \in Int /\ EnvInt(e.turns, 80) \in Int
    BY <2>1, EnvIntType
  <2> QED  BY <2>2 DEF Load
<1>3. Load(e).secrets \subseteq Secret
  <2>1. Secrets(e) \subseteq Secret
    BY Zenon DEF Secrets
  <2> QED  BY <2>1 DEF Load
<1>4. /\ Load(e).agentImage \in Word \ {""} /\ Load(e).skillImage \in Word
      /\ Load(e).harness \in Word \ {""} /\ Load(e).effort \in Word \ {""}
  BY <1>1, WordAssumption DEF Load, EnvironVariables, EnvOr
<1>5. /\ Load(e).createPR \in BOOLEAN /\ Load(e).selfReview \in BOOLEAN
      /\ Load(e).save \in BOOLEAN
  BY <1>1 DEF Load, EnvironVariables, EnvBool
<1>6. Load(e) \in Configuration
  BY <1>2, <1>3, <1>4, <1>5 DEF Load, Configuration
<1>7. Loads(e) => Load(e).cpus >= 1
  BY DEF Loads, Load
<1> QED  BY <1>6, <1>7

\* What Apply gives a row, and what it leaves alone.
LEMMA ApplyFields ==
    ASSUME NEW c \in Configuration, NEW task \in Bare, NEW o \in Overrides
    PROVE  LET r == Apply(c, task, o) IN
           /\ r \in Filled
           /\ r.status = task.status /\ r.parent = task.parent /\ r.mode = task.mode
           /\ r.texts = task.texts /\ r.env = task.env
           /\ r.harness = EnvOr(task.harness, c.harness)
           /\ r.model = EnvOr(task.model, Model(r.harness))
           /\ r.budget = OrDefault(task.budget, c.budget)
           /\ r.runtime = OrDefault(task.runtime, c.runtime)
           /\ r.turns = OrDefault(task.turns, c.turns)
           /\ r.createPR = (task.mode # "review" /\ BoolOrDefault(o.createPR, c.createPR))
           /\ r.selfReview = BoolOrDefault(o.selfReview, c.selfReview)
           /\ r.save = BoolOrDefault(o.save, c.save)
<1> DEFINE r == Apply(c, task, o)
<1>1. /\ DOMAIN r = DOMAIN task
      /\ r.status = task.status /\ r.parent = task.parent /\ r.mode = task.mode
      /\ r.attempt = task.attempt
      /\ r.texts = task.texts /\ r.env = task.env
      /\ r.harness = EnvOr(task.harness, c.harness)
      /\ r.model = ModelFor(c, task)
      /\ r.effort = EnvOr(task.effort, c.effort)
      /\ r.image = EnvOr(task.image, c.agentImage)
      /\ r.budget = OrDefault(task.budget, c.budget)
      /\ r.runtime = OrDefault(task.runtime, c.runtime)
      /\ r.turns = OrDefault(task.turns, c.turns)
      /\ r.createPR = (task.mode # "review" /\ BoolOrDefault(o.createPR, c.createPR))
      /\ r.selfReview = BoolOrDefault(o.selfReview, c.selfReview)
      /\ r.save = BoolOrDefault(o.save, c.save)
  BY DEF Apply, Bare
<1>2. r.model = EnvOr(task.model, Model(r.harness))
  BY <1>1 DEF ModelFor
<1>3. r \in Bare
  <2>1. /\ EnvOr(task.harness, c.harness) \in Word
        /\ ModelFor(c, task) \in Word
        /\ EnvOr(task.effort, c.effort) \in Word
        /\ EnvOr(task.image, c.agentImage) \in Word
    BY WordAssumption DEF EnvOr, ModelFor, Model, Bare, Configuration
  <2>2. /\ OrDefault(task.budget, c.budget) \in Int
        /\ OrDefault(task.runtime, c.runtime) \in Int
        /\ OrDefault(task.turns, c.turns) \in Int
    BY DEF OrDefault, Bare, Configuration
  <2>3. /\ BoolOrDefault(o.createPR, c.createPR) \in BOOLEAN
        /\ BoolOrDefault(o.selfReview, c.selfReview) \in BOOLEAN
        /\ BoolOrDefault(o.save, c.save) \in BOOLEAN
    BY DEF BoolOrDefault, Overrides, Configuration
  <2>4. (task.mode # "review" /\ BoolOrDefault(o.createPR, c.createPR)) \in BOOLEAN
    OBVIOUS
  <2>5. /\ r.harness \in Word /\ r.model \in Word /\ r.effort \in Word /\ r.image \in Word
        /\ r.budget \in Int /\ r.runtime \in Int /\ r.turns \in Int
        /\ r.createPR \in BOOLEAN /\ r.selfReview \in BOOLEAN /\ r.save \in BOOLEAN
    BY <1>1, <2>1, <2>2, <2>3, <2>4
  <2> QED  BY <1>1, <2>5 DEF Apply, Bare
<1>4. r.harness # "" /\ r.model # "" /\ r.effort # "" /\ r.image # ""
  BY <1>1 DEF EnvOr, ModelFor, Model, Bare, Configuration
<1> QED  BY <1>1, <1>2, <1>3, <1>4 DEF Filled

LEMMA ContainerFields ==
    ASSUME NEW c \in Configuration, c.cpus >= 1, NEW task \in Filled
    PROVE  LET k == Container(c, task) IN
           /\ k \in Run
           /\ k.image = task.image /\ k.createPR = task.createPR
           /\ k.user = task.env /\ k.secrets = c.secrets
           /\ k.server = (AlwaysSet \cup task.texts \cup c.secrets) \ task.env
<1> DEFINE k == Container(c, task)
<1>1. /\ k.image = task.image /\ k.createPR = task.createPR
      /\ k.user = task.env /\ k.secrets = c.secrets /\ k.cpus = c.cpus
      /\ k.server = (AlwaysSet \cup task.texts \cup c.secrets) \ task.env
  BY DEF Container, ServerKeys, EnvOr, Filled
<1>2. /\ task.image \in Word /\ task.createPR \in BOOLEAN /\ task.env \subseteq Word
      /\ task.texts \subseteq Text
  BY DEF Filled, Bare
<1>3. c.secrets \subseteq Secret /\ c.cpus \in Nat \ {0}
  <2>1. c.secrets \subseteq Secret /\ c.cpus \in Int
    BY DEF Configuration
  <2> QED  BY <2>1
<1>4. k.server \subseteq AlwaysSet \cup Text \cup Secret
  BY <1>1, <1>2, <1>3
<1>5. k \in Run
  BY <1>1, <1>2, <1>3, <1>4 DEF Container, Run
<1> QED  BY <1>1, <1>5

\* What a row keeps for good.
Like(q, r) ==
    /\ q.parent = r.parent /\ q.harness = r.harness /\ q.model = r.model
    /\ q.budget = r.budget /\ q.runtime = r.runtime /\ q.turns = r.turns
    /\ q.createPR = r.createPR /\ q.selfReview = r.selfReview /\ q.save = r.save
    /\ q.texts = r.texts /\ q.env = r.env

LEMMA DispatchedRow ==
    ASSUME NEW r \in Filled, NEW image \in Word \ {""}
    PROVE  LET q == [[r EXCEPT !.image = image] EXCEPT !.status = "running"] IN
           /\ q \in Filled /\ Like(q, r)
           /\ q.status = "running" /\ q.image = image /\ q.mode = r.mode
<1> DEFINE q == [[r EXCEPT !.image = image] EXCEPT !.status = "running"]
<1>1. /\ Like(q, r) /\ q.status = "running" /\ q.image = image /\ q.mode = r.mode
      /\ q.attempt = r.attempt /\ q.effort = r.effort
  BY DEF Like, Filled, Bare
<1>2. q \in Bare
  BY DEF Filled, Bare
<1>3. q.harness # "" /\ q.model # "" /\ q.effort # "" /\ q.image # ""
  BY <1>1 DEF Like, Filled
<1> QED  BY <1>1, <1>2, <1>3 DEF Filled

LEMMA CompletedRow ==
    ASSUME NEW r \in Filled, NEW report \in Report
    PROVE  LET q == [r EXCEPT
                       !.status = IF report.complete THEN "completed" ELSE "failed",
                       !.mode   = EnvOr(report.mode, @)]
           IN  /\ q \in Filled /\ Like(q, r)
               /\ q.status = (IF report.complete THEN "completed" ELSE "failed")
               /\ q.mode = EnvOr(report.mode, r.mode)
<1> DEFINE q == [r EXCEPT
                   !.status = IF report.complete THEN "completed" ELSE "failed",
                   !.mode   = EnvOr(report.mode, @)]
<1>1. /\ Like(q, r)
      /\ q.status = (IF report.complete THEN "completed" ELSE "failed")
      /\ q.mode = EnvOr(report.mode, r.mode)
      /\ q.image = r.image /\ q.effort = r.effort
  BY DEF Like, Filled, Bare
<1>2. EnvOr(report.mode, r.mode) \in {"auto", "code", "review"}
  BY DEF Report, EnvOr, Filled, Bare
<1>3. q \in Bare
  BY <1>1, <1>2 DEF Filled, Bare
<1>4. q.harness # "" /\ q.model # "" /\ q.effort # "" /\ q.image # ""
  BY <1>1 DEF Like, Filled
<1> QED  BY <1>1, <1>3, <1>4 DEF Filled

LEMMA RetriedRow ==
    ASSUME NEW r \in Filled, r.attempt < MaxAttempts
    PROVE  LET q == [r EXCEPT !.status = "pending", !.attempt = @ + 1] IN
           q \in Filled /\ Like(q, r) /\ q.status = "pending"
<1> DEFINE q == [r EXCEPT !.status = "pending", !.attempt = @ + 1]
<1>1. /\ Like(q, r) /\ q.status = "pending" /\ q.mode = r.mode
      /\ q.image = r.image /\ q.effort = r.effort
  BY DEF Like, Filled, Bare
<1>2. r.attempt + 1 \in 1 .. MaxAttempts
  <2>1. r.attempt \in 1 .. MaxAttempts
    BY DEF Filled, Bare
  <2> QED  BY <2>1, IntakeAssumption
<1>3. q \in Bare
  BY <1>1, <1>2 DEF Filled, Bare
<1>4. q.harness # "" /\ q.model # "" /\ q.effort # "" /\ q.image # ""
  BY <1>1 DEF Like, Filled
<1> QED  BY <1>1, <1>3, <1>4 DEF Filled

LEMMA NoContainerType == NoContainer \in Run
<1>1. "" \in Word
  BY WordAssumption
<1>2. 1 \in Nat \ {0}
  OBVIOUS
<1> QED  BY <1>1, <1>2 DEF NoContainer, Run

\* The container of a review is one that has not been run.
LEMMA Appended ==
    ASSUME NEW S, NEW s \in Seq(S), NEW e \in S
    PROVE  Len(s) = 1 =>
             /\ Append(s, e) \in Seq(S) /\ Len(Append(s, e)) = 2
             /\ Append(s, e)[1] = s[1] /\ Append(s, e)[2] = e
<1>1. /\ Append(s, e) \in Seq(S) /\ Len(Append(s, e)) = Len(s) + 1
      /\ \A i \in 1 .. Len(s) : Append(s, e)[i] = s[i]
      /\ Append(s, e)[Len(s) + 1] = e
  BY AppendProperties
<1>2. HAVE Len(s) = 1
<1>3. 1 \in 1 .. Len(s) /\ Len(s) + 1 = 2
  BY <1>2
<1>4. Append(s, e)[1] = s[1]
  BY <1>1, <1>3
<1> QED  BY <1>1, <1>2, <1>3, <1>4

LEMMA OneMore ==
    ASSUME containers \in Seq(Run), Len(containers) = 1,
           containers' = Append(containers, NoContainer)
    PROVE  /\ containers' \in Seq(Run) /\ Len(containers') = 2
           /\ containers'[1] = containers[1] /\ containers'[2] = NoContainer
BY NoContainerType, Appended

\* The row that a valid request gets.
LEMMA NewTaskFields ==
    ASSUME NEW c \in Configuration, NEW r \in RequestFields, Validate(r)
    PROVE  LET q == NewTask(c, r) IN
           /\ q \in Filled
           /\ q.parent = 0 /\ q.status = "pending" /\ q.texts = r.texts /\ q.env = r.env
           /\ q.harness = EnvOr(r.harness, c.harness)
           /\ q.model = EnvOr(r.model, Model(q.harness))
           /\ q.runtime = OrDefault(r.runtime, c.runtime)
           /\ q.turns = OrDefault(r.turns, c.turns)
           /\ q.createPR = BoolOrDefault(r.createPR, c.createPR)
           /\ q.selfReview = BoolOrDefault(r.selfReview, c.selfReview)
           /\ q.save = BoolOrDefault(r.save, c.save)
<1> DEFINE b == [status |-> "pending", attempt |-> 1, parent |-> 0, mode |-> "auto",
              harness |-> r.harness, model |-> r.model, effort |-> r.effort,
              image |-> "", budget |-> r.budget, runtime |-> r.runtime,
              turns |-> r.turns, createPR |-> FALSE, selfReview |-> FALSE,
              save |-> FALSE, texts |-> r.texts, env |-> r.env]
           o == [createPR |-> r.createPR, selfReview |-> r.selfReview, save |-> r.save]
<1>1. b \in Bare
  <2>1. 1 \in 1 .. MaxAttempts
    BY IntakeAssumption
  <2>2. "" \in Word
    BY WordAssumption
  <2>3. /\ r.harness \in Word /\ r.model \in Word /\ r.effort \in Word
        /\ r.budget \in Int /\ r.runtime \in Int /\ r.turns \in Int
        /\ r.texts \in SUBSET Text /\ r.env \in SUBSET Word
    BY DEF RequestFields
  <2> QED  BY <2>1, <2>2, <2>3 DEF Bare
<1>2. o \in Overrides
  BY DEF Overrides, RequestFields
<1>3. NewTask(c, r) = Apply(c, b, o)
  BY DEF NewTask, Apply
<1>4. /\ b.mode = "auto" /\ b.parent = 0 /\ b.status = "pending"
      /\ b.texts = r.texts /\ b.env = r.env
      /\ b.harness = r.harness /\ b.model = r.model
      /\ b.runtime = r.runtime /\ b.turns = r.turns
      /\ o.createPR = r.createPR /\ o.selfReview = r.selfReview /\ o.save = r.save
  OBVIOUS
<1> HIDE DEF b, o
<1> DEFINE q == Apply(c, b, o)
<1>5. /\ q \in Filled
      /\ q.status = b.status /\ q.parent = b.parent
      /\ q.texts = b.texts /\ q.env = b.env
      /\ q.harness = EnvOr(b.harness, c.harness)
      /\ q.model = EnvOr(b.model, Model(q.harness))
      /\ q.runtime = OrDefault(b.runtime, c.runtime)
      /\ q.turns = OrDefault(b.turns, c.turns)
      /\ q.createPR = (b.mode # "review" /\ BoolOrDefault(o.createPR, c.createPR))
      /\ q.selfReview = BoolOrDefault(o.selfReview, c.selfReview)
      /\ q.save = BoolOrDefault(o.save, c.save)
  BY <1>1, <1>2, ApplyFields
<1>6. BoolOrDefault(r.createPR, c.createPR) \in BOOLEAN
  BY DEF BoolOrDefault, RequestFields, Configuration
<1> HIDE DEF q
<1>7. q = NewTask(c, r)
  BY <1>3 DEF q
<1>8. q.createPR = BoolOrDefault(r.createPR, c.createPR)
  <2>1. q.createPR = (TRUE /\ BoolOrDefault(r.createPR, c.createPR))
    BY <1>4, <1>5
  <2> QED  BY <2>1, <1>6
<1> QED  BY <1>4, <1>5, <1>7, <1>8

\* The row of a review.
LEMMA ReviewFields ==
    ASSUME NEW c \in Configuration, rows[1] \in Filled
    PROVE  LET q == Review(c, 1) IN
           /\ q \in Filled
           /\ q.parent = 1 /\ q.status = "pending" /\ q.env = {}
           /\ q.harness = rows[1].harness /\ q.model = rows[1].model
           /\ q.runtime = OrDefault(0, c.runtime) /\ q.turns = OrDefault(0, c.turns)
           /\ q.save = rows[1].save /\ q.budget = SelfReviewBudget
           /\ q.selfReview = FALSE /\ q.createPR = FALSE
<1> DEFINE r == rows[1]
           b == [status |-> "pending", attempt |-> 1, parent |-> 1, mode |-> "review",
                 harness |-> r.harness, model |-> r.model, effort |-> r.effort,
                 image |-> "", budget |-> SelfReviewBudget, runtime |-> 0, turns |-> 0,
                 createPR |-> FALSE, selfReview |-> FALSE, save |-> r.save,
                 texts |-> r.texts \cap {"TASK_CONTEXT"}, env |-> {}]
           o == ReviewOverrides(r)
           q == Apply(c, b, o)
<1>1. b \in Bare
  <2>1. 1 \in 1 .. MaxAttempts
    BY IntakeAssumption
  <2>2. "" \in Word
    BY WordAssumption
  <2>3. /\ r.harness \in Word /\ r.model \in Word /\ r.effort \in Word
        /\ r.save \in BOOLEAN /\ r.texts \cap {"TASK_CONTEXT"} \in SUBSET Text
    BY DEF Filled, Bare
  <2>4. SelfReviewBudget \in Int /\ 0 \in Int
    BY DEF SelfReviewBudget
  <2> QED  BY <2>1, <2>2, <2>3, <2>4 DEF Bare
<1>2. o \in Overrides
  BY DEF Overrides, ReviewOverrides, Choice
<1>3. Review(c, 1) = q
  BY DEF Review
<1>4. /\ b.mode = "review" /\ b.parent = 1 /\ b.status = "pending" /\ b.env = {}
      /\ b.harness = r.harness /\ b.model = r.model
      /\ b.runtime = 0 /\ b.turns = 0 /\ b.budget = SelfReviewBudget
  OBVIOUS
<1>5. /\ r.harness # "" /\ r.model # "" /\ r.save \in BOOLEAN
      /\ o.createPR = "no" /\ o.selfReview = "no"
      /\ o.save = (IF r.save THEN "yes" ELSE "no")
  BY DEF Filled, Bare, ReviewOverrides
<1> HIDE DEF b, o, r
<1>6. /\ q \in Filled
      /\ q.status = b.status /\ q.parent = b.parent /\ q.env = b.env
      /\ q.harness = EnvOr(b.harness, c.harness)
      /\ q.model = EnvOr(b.model, Model(q.harness))
      /\ q.budget = OrDefault(b.budget, c.budget)
      /\ q.runtime = OrDefault(b.runtime, c.runtime)
      /\ q.turns = OrDefault(b.turns, c.turns)
      /\ q.createPR = (b.mode # "review" /\ BoolOrDefault(o.createPR, c.createPR))
      /\ q.selfReview = BoolOrDefault(o.selfReview, c.selfReview)
      /\ q.save = BoolOrDefault(o.save, c.save)
  BY <1>1, <1>2, ApplyFields
<1> HIDE DEF q
<1>7. q.createPR = FALSE
  BY <1>4, <1>6
<1>8. q.selfReview = FALSE /\ q.save = r.save
  BY <1>5, <1>6 DEF BoolOrDefault
<1>9. q.harness = r.harness /\ q.model = r.model /\ q.budget = SelfReviewBudget
  <2>1. q.harness = r.harness /\ q.model = r.model
    BY <1>4, <1>5, <1>6 DEF EnvOr
  <2>2. q.budget = OrDefault(SelfReviewBudget, c.budget)
    BY <1>4, <1>6
  <2>3. q.budget = SelfReviewBudget
    BY <2>2 DEF OrDefault, SelfReviewBudget
  <2> QED  BY <2>1, <2>3
<1>10. /\ q \in Filled /\ q.parent = 1 /\ q.status = "pending" /\ q.env = {}
       /\ q.runtime = OrDefault(0, c.runtime) /\ q.turns = OrDefault(0, c.turns)
  BY <1>4, <1>6
<1> QED  BY <1>3, <1>7, <1>8, <1>9, <1>10 DEF r

----------------------------------------------------------------------------
(* What a step does to the rows and the containers.                        *)

\* A row that is there stays what it was made, and one that is completed stays.
Stays(t) ==
    /\ t \in DOMAIN rows' /\ rows'[t] \in Filled /\ Like(rows'[t], rows[t])
    /\ rows[t].status = "completed" => rows'[t] = rows[t]

\* A container is the one that was there, or is run for the row as it is now.
RunFor(t) ==
    \/ containers'[t] = containers[t]
    \/ Up /\ containers'[t] = Container(config, rows'[t])

Created ==
    /\ Up /\ rows = <<>> /\ req' \in Request /\ Validate(req')
    /\ rows' = <<NewTask(config, req')>> /\ containers' = <<NoContainer>>

Reviewed ==
    /\ Up /\ Len(rows) = 1 /\ rows[1].status = "running"
    /\ rows'[1].status = "completed" /\ rows'[1].mode = "code"
    /\ Len(rows') = 2 /\ rows'[2] = Review(config, 1)
    /\ containers' = Append(containers, NoContainer)

\* Rows and containers are numbered together.
LEMMA Numbered ==
    ASSUME TypeInv
    PROVE  /\ DOMAIN rows = 1 .. Len(rows) /\ DOMAIN containers = 1 .. Len(rows)
           /\ Len(rows) \in 0 .. 2
           /\ \A t \in DOMAIN rows : rows[t] \in Filled /\ containers[t] \in Run
<1>1. rows \in Seq(Filled) /\ containers \in Seq(Run) /\ Len(containers) = Len(rows) /\ Len(rows) <= 2
  BY DEF TypeInv
<1>2. Len(rows) \in Nat /\ DOMAIN rows = 1 .. Len(rows) /\ DOMAIN containers = 1 .. Len(containers)
  BY <1>1, LenProperties
<1>3. \A t \in 1 .. Len(rows) : rows[t] \in Filled
  BY <1>1, ElementOfSeq
<1>4. \A t \in 1 .. Len(containers) : containers[t] \in Run
  BY <1>1, ElementOfSeq
<1> QED  BY <1>1, <1>2, <1>3, <1>4

\* A new value for one row leaves the others and the length alone.
LEMMA OneRow ==
    ASSUME TypeInv, NEW t \in DOMAIN rows, NEW q \in Filled,
           rows' = [rows EXCEPT ![t] = q]
    PROVE  /\ rows' \in Seq(Filled) /\ Len(rows') = Len(rows) /\ DOMAIN rows' = DOMAIN rows
           /\ \A u \in DOMAIN rows : rows'[u] = IF u = t THEN q ELSE rows[u]
<1>1. rows \in Seq(Filled) /\ t \in 1 .. Len(rows) /\ DOMAIN rows = 1 .. Len(rows)
  BY Numbered DEF TypeInv
<1>2. /\ [rows EXCEPT ![t] = q] \in Seq(Filled) /\ Len([rows EXCEPT ![t] = q]) = Len(rows)
      /\ \A u \in 1 .. Len(rows) : [rows EXCEPT ![t] = q][u] = IF u = t THEN q ELSE rows[u]
  BY <1>1, ExceptSeq
<1> QED  BY <1>1, <1>2

LEMMA OneContainer ==
    ASSUME TypeInv, NEW t \in DOMAIN rows, NEW k \in Run,
           containers' = [containers EXCEPT ![t] = k]
    PROVE  /\ containers' \in Seq(Run) /\ Len(containers') = Len(containers)
           /\ \A u \in DOMAIN rows : containers'[u] = IF u = t THEN k ELSE containers[u]
<1>1. /\ containers \in Seq(Run) /\ t \in 1 .. Len(containers)
      /\ DOMAIN rows = 1 .. Len(containers)
  BY Numbered DEF TypeInv
<1>2. /\ [containers EXCEPT ![t] = k] \in Seq(Run)
      /\ Len([containers EXCEPT ![t] = k]) = Len(containers)
      /\ \A u \in 1 .. Len(containers) :
           [containers EXCEPT ![t] = k][u] = IF u = t THEN k ELSE containers[u]
  BY <1>1, ExceptSeq
<1> QED  BY <1>1, <1>2

\* What a step can do to a row that is there.
Changes ==
    /\ DOMAIN rows' = DOMAIN rows /\ UNCHANGED req
    /\ \A t \in DOMAIN rows : Stays(t) /\ RunFor(t)

LEMMA DispatchStep ==
    ASSUME TypeInv, NEW t \in DOMAIN rows, Dispatch(t)
    PROVE  /\ TypeInv' /\ Changes /\ rows'[t].status = "running"
           /\ rows'[t].image = Resolve(config, rows[t])
           /\ containers'[t].image = Resolve(config, rows[t])
           /\ \A u \in DOMAIN rows \ {t} : rows'[u] = rows[u]
<1> DEFINE task == [rows[t] EXCEPT !.image = Resolve(config, rows[t])]
           q == [task EXCEPT !.status = "running"]
           k == Container(config, task)
<1>1. /\ Up /\ rows[t].status = "pending"
      /\ rows' = [rows EXCEPT ![t] = q] /\ containers' = [containers EXCEPT ![t] = k]
      /\ UNCHANGED <<environ, req, restarts>>
  BY DEF Dispatch
<1>2. rows[t] \in Filled /\ environ \in EnvironVariables
  BY Numbered DEF TypeInv
<1>3. config \in Configuration /\ config.cpus >= 1
  BY <1>1, <1>2, ConfigType DEF Up, config
<1>4. Resolve(config, rows[t]) \in Word \ {""}
  BY <1>3 DEF Resolve, Configuration
<1>5. /\ q \in Filled /\ Like(q, rows[t]) /\ q.status = "running"
      /\ q.image = Resolve(config, rows[t])
  BY <1>2, <1>4, DispatchedRow
<1>6. task \in Filled /\ k = Container(config, q)
  <2>1. task \in Bare
    BY <1>2, <1>4 DEF Filled, Bare
  <2>2. /\ task.harness = rows[t].harness /\ task.model = rows[t].model
        /\ task.effort = rows[t].effort /\ task.image = Resolve(config, rows[t])
        /\ q.image = task.image /\ q.texts = task.texts /\ q.env = task.env
        /\ q.createPR = task.createPR
    BY <1>2 DEF Filled, Bare
  <2>3. task \in Filled
    BY <1>2, <1>4, <2>1, <2>2 DEF Filled
  <2>4. k = Container(config, q)
    <3> HIDE DEF task, q
    <3>1. /\ q.image = task.image /\ q.texts = task.texts /\ q.env = task.env
          /\ q.createPR = task.createPR
      BY <2>2
    <3>2. ServerKeys(config, task) = ServerKeys(config, q)
      BY <3>1 DEF ServerKeys
    <3>3. Container(config, task) = Container(config, q)
      BY <3>1, <3>2 DEF Container
    <3> QED  BY <3>3 DEF k
  <2> QED  BY <2>3, <2>4
<1> HIDE DEF q, k
<1>7. k \in Run /\ k.image = q.image
  BY <1>3, <1>5, <1>6, ContainerFields
<1>8. /\ rows' \in Seq(Filled) /\ Len(rows') = Len(rows) /\ DOMAIN rows' = DOMAIN rows
      /\ \A u \in DOMAIN rows : rows'[u] = IF u = t THEN q ELSE rows[u]
  BY <1>1, <1>5, OneRow
<1>9. /\ containers' \in Seq(Run) /\ Len(containers') = Len(containers)
      /\ \A u \in DOMAIN rows : containers'[u] = IF u = t THEN k ELSE containers[u]
  BY <1>1, <1>7, OneContainer
<1>10. TypeInv'
  BY <1>1, <1>8, <1>9 DEF TypeInv
<1>11. \A u \in DOMAIN rows : rows[u] \in Filled /\ Like(rows[u], rows[u])
  BY Numbered DEF Like
<1>12. Changes
  BY <1>1, <1>5, <1>6, <1>8, <1>9, <1>11 DEF Changes, Stays, RunFor
<1> QED  BY <1>1, <1>5, <1>7, <1>8, <1>9, <1>10, <1>12

LEMMA RetryStep ==
    ASSUME TypeInv, NEW t \in DOMAIN rows, Retry(t)
    PROVE  /\ TypeInv' /\ Changes /\ rows'[t].status = "pending"
           /\ \A u \in DOMAIN rows \ {t} : rows'[u] = rows[u]
<1> DEFINE q == [rows[t] EXCEPT !.status = "pending", !.attempt = @ + 1]
<1>1. /\ rows[t].status = "failed" /\ rows[t].attempt < MaxAttempts
      /\ UNCHANGED <<environ, req, containers, restarts>>
  BY DEF Retry
<1>2. rows[t] \in Filled
  BY Numbered
<1>3. q \in Filled /\ Like(q, rows[t]) /\ q.status = "pending"
  BY <1>1, <1>2, RetriedRow
<1>4. rows' = [rows EXCEPT ![t] = q]
  BY DEF Retry
<1> HIDE DEF q
<1>5. /\ rows' \in Seq(Filled) /\ Len(rows') = Len(rows) /\ DOMAIN rows' = DOMAIN rows
      /\ \A u \in DOMAIN rows : rows'[u] = IF u = t THEN q ELSE rows[u]
  BY <1>3, <1>4, OneRow
<1>6. TypeInv'
  BY <1>1, <1>5 DEF TypeInv
<1>7. \A u \in DOMAIN rows : rows[u] \in Filled /\ Like(rows[u], rows[u])
  BY Numbered DEF Like
<1>8. Changes
  BY <1>1, <1>3, <1>5, <1>7 DEF Changes, Stays, RunFor
<1> QED  BY <1>3, <1>5, <1>6, <1>8

\* The row of a completed parent, and what comes with it.
LEMMA CompleteStep ==
    ASSUME TypeInv, ChainInv, NEW t \in DOMAIN rows, NEW report \in Report,
           Complete(t, report)
    PROVE  /\ TypeInv' /\ UNCHANGED req /\ rows'[t].status \in {"completed", "failed"}
           /\ \A u \in DOMAIN rows : Stays(u) /\ containers'[u] = containers[u]
           /\ \A u \in DOMAIN rows \ {t} : rows'[u] = rows[u]
           /\ Changes \/ Reviewed
<1> DEFINE q == [rows[t] EXCEPT
                   !.status = IF report.complete THEN "completed" ELSE "failed",
                   !.mode   = EnvOr(report.mode, @)]
           done == [rows EXCEPT ![t] = q]
<1>1. /\ Up /\ rows[t].status = "running" /\ UNCHANGED <<environ, req, restarts>>
      /\ IF Plans(rows[t], report)
         THEN /\ rows' = Append(done, Review(config, t))
              /\ containers' = Append(containers, NoContainer)
         ELSE rows' = done /\ UNCHANGED containers
  BY DEF Complete
<1>2. rows[t] \in Filled /\ environ \in EnvironVariables
  BY Numbered DEF TypeInv
<1>3. /\ q \in Filled /\ Like(q, rows[t])
      /\ q.status = (IF report.complete THEN "completed" ELSE "failed")
      /\ q.mode = EnvOr(report.mode, rows[t].mode)
  BY <1>2, CompletedRow
<1> HIDE DEF q
<1>4. /\ done \in Seq(Filled) /\ Len(done) = Len(rows) /\ DOMAIN done = DOMAIN rows
      /\ \A u \in DOMAIN rows : done[u] = IF u = t THEN q ELSE rows[u]
  <2>1. rows \in Seq(Filled) /\ t \in 1 .. Len(rows) /\ DOMAIN rows = 1 .. Len(rows)
    BY Numbered DEF TypeInv
  <2>2. /\ done \in Seq(Filled) /\ Len(done) = Len(rows)
        /\ \A u \in 1 .. Len(rows) : done[u] = IF u = t THEN q ELSE rows[u]
    BY <1>3, <2>1, ExceptSeq
  <2> QED  BY <2>1, <2>2
<1>5. /\ DOMAIN rows = 1 .. Len(rows) /\ DOMAIN containers = 1 .. Len(rows)
      /\ Len(rows) \in 0 .. 2
      /\ \A u \in DOMAIN rows : rows[u] \in Filled /\ Like(rows[u], rows[u])
  BY Numbered DEF Like
<1> HIDE DEF done
<1>6. CASE ~Plans(rows[t], report)
  <2>1. rows' = done /\ UNCHANGED containers
    BY <1>1, <1>6
  <2>2. TypeInv'
    BY <1>1, <1>4, <2>1 DEF TypeInv
  <2>3. \A u \in DOMAIN rows : Stays(u) /\ containers'[u] = containers[u]
    BY <1>1, <1>3, <1>4, <1>5, <2>1 DEF Stays
  <2>4. Changes
    BY <1>1, <1>4, <2>1, <2>3 DEF Changes, RunFor
  <2> QED  BY <1>1, <1>3, <1>4, <2>1, <2>2, <2>3, <2>4
<1>7. CASE Plans(rows[t], report)
  <2>1. /\ report.complete /\ rows[t].parent = 0
        /\ EnvOr(report.mode, rows[t].mode) = "code"
    BY <1>7 DEF Plans
  <2>2. t = 1 /\ Len(rows) = 1
    BY <1>1, <1>5, <2>1 DEF ChainInv
  <2>3. /\ rows' = Append(done, Review(config, 1))
        /\ containers' = Append(containers, NoContainer)
    BY <1>1, <1>7, <2>2
  <2>4. config \in Configuration
    BY <1>2, ConfigType DEF config
  <2>5. Review(config, 1) \in Filled
    BY <1>2, <2>2, <2>4, ReviewFields
  <2>6. /\ rows' \in Seq(Filled) /\ Len(rows') = 2 /\ DOMAIN rows' = 1 .. 2
        /\ rows'[1] = q /\ rows'[2] = Review(config, 1)
    <3>1. done \in Seq(Filled) /\ Len(done) = 1
      BY <1>4, <2>2
    <3>2. /\ Append(done, Review(config, 1)) \in Seq(Filled)
          /\ Len(Append(done, Review(config, 1))) = 2
          /\ Append(done, Review(config, 1))[1] = done[1]
          /\ Append(done, Review(config, 1))[2] = Review(config, 1)
      BY <2>5, <3>1, Appended
    <3>3. done[1] = q
      BY <1>4, <2>2
    <3>4. DOMAIN rows' = 1 .. Len(rows')
      BY <2>3, <3>2, LenProperties
    <3> QED  BY <2>3, <3>2, <3>3, <3>4
  <2>7. /\ containers' \in Seq(Run) /\ Len(containers') = 2
        /\ containers'[1] = containers[1] /\ containers'[2] = NoContainer
    <3>1. containers \in Seq(Run) /\ Len(containers) = 1
      BY <2>2 DEF TypeInv
    <3> QED  BY <2>3, <3>1, OneMore
  <2>8. TypeInv'
    BY <1>1, <2>6, <2>7 DEF TypeInv
  <2>9. \A u \in DOMAIN rows : u = 1
    BY <1>5, <2>2
  <2>10. Stays(1)
    BY <1>1, <1>3, <2>2, <2>6 DEF Stays
  <2>11. Reviewed
    BY <1>1, <1>3, <2>1, <2>2, <2>3, <2>6 DEF Reviewed
  <2> QED  BY <1>1, <1>3, <2>1, <2>2, <2>6, <2>7, <2>8, <2>9, <2>10, <2>11
<1> QED  BY <1>6, <1>7

LEMMA CreateStep ==
    ASSUME TypeInv, Create
    PROVE  TypeInv' /\ Created /\ UNCHANGED environ
<1>1. PICK r \in Request : Validate(r) /\ req' = r /\ rows' = <<NewTask(config, r)>>
  BY DEF Create
<1>2. /\ Up /\ rows = <<>> /\ containers' = <<NoContainer>> /\ UNCHANGED <<environ, restarts>>
  BY DEF Create
<1>3. r \in RequestFields /\ config \in Configuration
  BY InputAssumption, ConfigType DEF TypeInv, config
<1>4. NewTask(config, r) \in Filled
  BY <1>1, <1>3, NewTaskFields
<1>5. rows' \in Seq(Filled) /\ Len(rows') = 1
  BY <1>1, <1>4
<1>6. containers' \in Seq(Run) /\ Len(containers') = 1
  BY <1>2, NoContainerType
<1>7. Created
  BY <1>1, <1>2 DEF Created
<1>8. TypeInv'
  BY <1>1, <1>2, <1>3, <1>5, <1>6 DEF TypeInv
<1> QED  BY <1>2, <1>7, <1>8

LEMMA OtherSteps ==
    ASSUME TypeInv, Restart \/ UNCHANGED vars
    PROVE  TypeInv' /\ UNCHANGED <<req, rows, containers>> /\ Changes
<1>1. UNCHANGED <<req, rows, containers>>
  BY DEF Restart, vars
<1>2. environ' \in EnvironVariables /\ restarts' \in 0 .. MaxRestarts
  BY InputAssumption, IntakeAssumption DEF Restart, vars, TypeInv
<1>3. \A t \in DOMAIN rows : rows[t] \in Filled /\ Like(rows[t], rows[t])
  BY Numbered DEF Like
<1>4. TypeInv'
  BY <1>1, <1>2 DEF TypeInv
<1>5. Changes
  BY <1>1, <1>3 DEF Changes, Stays, RunFor
<1> QED  BY <1>1, <1>4, <1>5

\* A step makes the row of a request, or that of a review, or changes what is there.
LEMMA Steps ==
    ASSUME TypeInv, ChainInv, [Next]_vars
    PROVE  /\ TypeInv'
           /\ \/ Created
              \/ Reviewed /\ UNCHANGED req
                 /\ \A t \in DOMAIN rows : Stays(t) /\ containers'[t] = containers[t]
              \/ Changes
<1>1. CASE Create
  BY <1>1, CreateStep
<1>2. CASE Restart \/ UNCHANGED vars
  BY <1>2, OtherSteps
<1>3. CASE \E t \in DOMAIN rows : Dispatch(t)
  BY <1>3, DispatchStep
<1>4. CASE \E t \in DOMAIN rows : Retry(t)
  BY <1>4, RetryStep
<1>5. CASE \E t \in DOMAIN rows, report \in Report : Complete(t, report)
  BY <1>5, CompleteStep
<1> QED  BY <1>1, <1>2, <1>3, <1>4, <1>5 DEF Next

LEMMA TypeInvInit == Init => TypeInv /\ ChainInv
<1> SUFFICES ASSUME Init PROVE TypeInv /\ ChainInv
  OBVIOUS
<1>1. rows = <<>> /\ containers = <<>> /\ restarts = 0 /\ environ \in Environ /\ req = NoRequest
  BY DEF Init
<1>2. NoRequest \in RequestFields
  <2>1. "" \in Word
    BY WordAssumption
  <2>2. 0 \in Int
    OBVIOUS
  <2>3. "unset" \in Choice
    BY DEF Choice
  <2> QED  BY <2>1, <2>2, <2>3 DEF NoRequest, RequestFields
<1>3. rows \in Seq(Filled) /\ containers \in Seq(Run) /\ Len(rows) = 0 /\ Len(containers) = 0
  BY <1>1
<1> QED  BY <1>1, <1>2, <1>3, InputAssumption, IntakeAssumption DEF TypeInv, ChainInv

LEMMA ChainStep ==
    ASSUME TypeInv, ChainInv, [Next]_vars
    PROVE  ChainInv'
<1>1. Len(rows) \in 0 .. 2 /\ DOMAIN rows = 1 .. Len(rows)
  BY Numbered
<1>2. CASE Created
  <2>1. rows' = <<NewTask(config, req')>> /\ NewTask(config, req').parent = 0
    BY <1>2, InputAssumption, ConfigType, NewTaskFields DEF Created, TypeInv, config
  <2> QED  BY <2>1 DEF ChainInv
<1>3. CASE Reviewed /\ \A t \in DOMAIN rows : Stays(t)
  <2>1. rows[1] \in Filled /\ config \in Configuration /\ 1 \in DOMAIN rows
    BY <1>1, <1>3, Numbered, ConfigType DEF Reviewed, TypeInv, config
  <2>2. rows'[2].parent = 1
    BY <1>3, <2>1, ReviewFields DEF Reviewed
  <2> QED  BY <1>3, <2>1, <2>2 DEF Reviewed, Stays, Like, ChainInv
<1>4. CASE Changes
  <2>1. DOMAIN rows' = 1 .. Len(rows') /\ Len(rows') \in 0 .. 2
    <3>1. TypeInv'
      BY Steps
    <3> QED  BY <3>1, Numbered, LenProperties DEF TypeInv
  <2>2. Len(rows') = Len(rows)
    BY <1>1, <1>4, <2>1 DEF Changes
  <2>3. \A t \in 1 .. Len(rows) : Stays(t)
    BY <1>1, <1>4 DEF Changes
  <2> QED  BY <1>1, <2>2, <2>3 DEF ChainInv, Stays, Like
<1> QED  BY <1>2, <1>3, <1>4, Steps

Shape == TypeInv /\ ChainInv

LEMMA ShapeAlways == Spec => []Shape
<1>1. Shape /\ [Next]_vars => Shape'
  BY Steps, ChainStep DEF Shape
<1> QED  BY TypeInvInit, <1>1, PTL DEF Spec, Shape

----------------------------------------------------------------------------
(* The server's variables.                                                 *)

\* Two lists in two files: what docker.go sets is what task.go reserves.
LEMMA ListsAgree == AlwaysSet \cup Text \cup Secret \subseteq Reserved
BY DEF AlwaysSet, Text, Secret, Reserved

\* No row has the user's value of a reserved variable.
ReservedInv == \A t \in DOMAIN rows : rows[t].env \cap Reserved = {}

LEMMA ServerKept ==
    ASSUME Shape, ReservedInv, ServerVariablesWin, [Next]_vars
    PROVE  ReservedInv' /\ ServerVariablesWin'
<1>1. TypeInv /\ ChainInv
  BY DEF Shape
<1>2. config \in Configuration
  BY <1>1, ConfigType DEF TypeInv, config
<1>3. CASE Created
  <2>1. /\ rows' = <<NewTask(config, req')>> /\ containers' = <<NoContainer>>
        /\ req' \in RequestFields /\ Validate(req')
    BY <1>3, InputAssumption DEF Created
  <2>2. NewTask(config, req').env = req'.env
    BY <1>2, <2>1, NewTaskFields
  <2>3. req'.env \cap Reserved = {}
    BY <2>1 DEF Validate
  <2> QED  BY <2>1, <2>2, <2>3 DEF ReservedInv, ServerVariablesWin
<1>4. CASE Reviewed /\ \A t \in DOMAIN rows : Stays(t) /\ containers'[t] = containers[t]
  <2>1. /\ Len(rows) = 1 /\ DOMAIN rows = 1 .. 1 /\ DOMAIN rows' = 1 .. 2
        /\ rows[1] \in Filled
    <3>1. TypeInv'
      BY <1>1, Steps
    <3>2. rows' \in Seq(Filled) /\ Len(rows') = 2 /\ Len(rows) = 1
      BY <1>4, <3>1 DEF Reviewed, TypeInv
    <3> QED  BY <1>1, <3>2, Numbered, LenProperties
  <2>2. rows'[2].env = {}
    BY <1>2, <1>4, <2>1, ReviewFields DEF Reviewed
  <2>3. containers'[2] = NoContainer
    <3>1. containers \in Seq(Run) /\ Len(containers) = 1
      BY <1>1, <2>1 DEF TypeInv
    <3> QED  BY <1>4, <3>1, OneMore DEF Reviewed
  <2>4. Stays(1) /\ containers'[1] = containers[1]
    BY <1>4, <2>1
  <2> QED  BY <2>1, <2>2, <2>3, <2>4 DEF Stays, Like, ReservedInv, ServerVariablesWin
<1>5. CASE Changes
  <2>1. DOMAIN rows' = DOMAIN rows /\ \A t \in DOMAIN rows : Stays(t) /\ RunFor(t)
    BY <1>5 DEF Changes
  <2>2. ReservedInv'
    BY <2>1 DEF Stays, Like, ReservedInv
  <2>3. ASSUME NEW t \in DOMAIN rows, containers'[t] # NoContainer
        PROVE  containers'[t].server = AlwaysSet \cup rows'[t].texts \cup containers'[t].secrets
    <3>1. CASE containers'[t] = containers[t]
      BY <2>1, <2>3, <3>1 DEF Stays, Like, ServerVariablesWin
    <3>2. CASE Up /\ containers'[t] = Container(config, rows'[t])
      <4>1. config.cpus >= 1
        BY <1>1, <3>2, ConfigType DEF TypeInv, config, Up
      <4>2. rows'[t] \in Filled /\ rows'[t].env \cap Reserved = {}
        BY <2>1, <2>2 DEF Stays, ReservedInv
      <4>3. /\ containers'[t].secrets = config.secrets
            /\ containers'[t].server = (AlwaysSet \cup rows'[t].texts \cup config.secrets) \ rows'[t].env
        BY <1>2, <3>2, <4>1, <4>2, ContainerFields
      <4>4. rows'[t].texts \subseteq Text /\ config.secrets \subseteq Secret
        BY <1>2, <4>2 DEF Filled, Bare, Configuration
      <4> QED  BY <4>2, <4>3, <4>4, ListsAgree
    <3> QED  BY <2>1, <3>1, <3>2 DEF RunFor
  <2> QED  BY <2>1, <2>2, <2>3 DEF ServerVariablesWin
<1> QED  BY <1>1, <1>3, <1>4, <1>5, Steps

\* For any request and any two environments, no variable that the server sets reaches
\* the agent with the user's value: the lists of task.go and docker.go agree, and what
\* the one refuses at creation covers what the other sets at every later start.
THEOREM ServerWins == Spec => []ServerVariablesWin
<1>1. Init => ReservedInv /\ ServerVariablesWin
  BY DEF Init, ReservedInv, ServerVariablesWin
<1>2. Shape /\ ReservedInv /\ ServerVariablesWin /\ [Next]_vars =>
        (ReservedInv /\ ServerVariablesWin)'
  BY ServerKept
<1> QED  BY <1>1, <1>2, ShapeAlways, PTL DEF Spec

----------------------------------------------------------------------------
(* Choices and defaults.                                                   *)

LEMMA ChoiceKept ==
    ASSUME NEW choice \in Choice, NEW default \in BOOLEAN
    PROVE  Chosen(choice, BoolOrDefault(choice, default))
BY DEF Chosen, BoolOrDefault

LEMMA ChoicesAtCreation ==
    ASSUME Shape, Created
    PROVE  UserChoiceWins' /\ ModelFitsHarness'
<1>1. config \in Configuration
  BY ConfigType DEF Shape, TypeInv, config
<1>2. /\ rows' = <<NewTask(config, req')>> /\ containers' = <<NoContainer>>
      /\ req' \in RequestFields /\ Validate(req')
  BY InputAssumption DEF Created
<1> DEFINE q == rows'[1]
<1>3. /\ q.createPR = BoolOrDefault(req'.createPR, config.createPR)
      /\ q.selfReview = BoolOrDefault(req'.selfReview, config.selfReview)
      /\ q.save = BoolOrDefault(req'.save, config.save)
      /\ q.harness = EnvOr(req'.harness, config.harness)
      /\ q.model = EnvOr(req'.model, Model(q.harness))
      /\ q.runtime = OrDefault(req'.runtime, config.runtime)
  BY <1>1, <1>2, NewTaskFields
<1>4. /\ req'.createPR \in Choice /\ req'.selfReview \in Choice /\ req'.save \in Choice
  BY <1>2 DEF RequestFields
<1>5. /\ config.createPR \in BOOLEAN /\ config.selfReview \in BOOLEAN
      /\ config.save \in BOOLEAN
  BY <1>1 DEF Configuration
<1>6. /\ Chosen(req'.createPR, q.createPR) /\ Chosen(req'.selfReview, q.selfReview)
      /\ Chosen(req'.save, q.save)
  BY <1>3, <1>4, <1>5, ChoiceKept
<1>7. containers'[1] = NoContainer
  BY <1>2
<1>8. /\ req'.harness # "" => q.harness = req'.harness
      /\ req'.model # "" => q.model = req'.model
  BY <1>3 DEF EnvOr
<1>9. req'.runtime # 0 => q.runtime = req'.runtime
  BY <1>3 DEF OrDefault
<1>10. UserChoiceWins'
  BY <1>6, <1>7, <1>8, <1>9 DEF UserChoiceWins
<1>11. q.model \in {req'.model, Model(q.harness)}
  BY <1>3 DEF EnvOr
<1>12. DOMAIN rows' = {1}
  BY <1>2
<1> QED  BY <1>10, <1>11, <1>12 DEF ModelFitsHarness

LEMMA ChoicesKept ==
    ASSUME Shape, UserChoiceWins, ModelFitsHarness, [Next]_vars
    PROVE  UserChoiceWins' /\ ModelFitsHarness'
<1>1. TypeInv /\ ChainInv /\ config \in Configuration
  BY ConfigType DEF Shape, TypeInv, config
<1>2. DOMAIN rows = 1 .. Len(rows) /\ Len(rows) \in 0 .. 2 /\ (rows # <<>> => 1 \in DOMAIN rows)
  <2>1. DOMAIN rows = 1 .. Len(rows) /\ Len(rows) \in 0 .. 2
    BY <1>1, Numbered
  <2>2. rows # <<>> => Len(rows) # 0
    BY <1>1, EmptySeq DEF TypeInv
  <2> QED  BY <2>1, <2>2
<1>3. CASE Created
  BY <1>3, ChoicesAtCreation
<1>4. CASE /\ Reviewed /\ UNCHANGED req
           /\ \A t \in DOMAIN rows : Stays(t) /\ containers'[t] = containers[t]
  <2>1. /\ DOMAIN rows = 1 .. 1 /\ rows # <<>> /\ DOMAIN rows' = 1 .. 2 /\ rows[1] \in Filled
    <3>1. TypeInv'
      BY <1>1, Steps
    <3>2. rows' \in Seq(Filled) /\ Len(rows') = 2 /\ Len(rows) = 1
      BY <1>4, <3>1 DEF Reviewed, TypeInv
    <3>3. DOMAIN rows' = 1 .. 2
      BY <3>2, LenProperties
    <3>4. DOMAIN rows = 1 .. 1 /\ rows # <<>>
      <4>1. DOMAIN rows = 1 .. 1
        BY <1>2, <3>2
      <4>2. Len(<<>>) = 0
        BY EmptySeq
      <4> QED  BY <3>2, <4>1, <4>2
    <3>5. rows[1] \in Filled
      BY <1>1, <3>4, Numbered
    <3> QED  BY <3>3, <3>4, <3>5
  <2>2. /\ Like(rows'[1], rows[1]) /\ containers'[1] = containers[1] /\ req' = req
    BY <1>4, <2>1 DEF Stays
  <2>3. rows'[2].harness = rows[1].harness /\ rows'[2].model = rows[1].model
    BY <1>1, <1>4, <2>1, ReviewFields DEF Reviewed
  <2>4. UserChoiceWins'
    BY <2>1, <2>2 DEF UserChoiceWins, Like
  <2>5. rows[1].model \in {req.model, Model(rows[1].harness)}
    BY <2>1 DEF ModelFitsHarness
  <2>6. \A t \in 1 .. 2 : rows'[t].model \in {req'.model, Model(rows'[t].harness)}
    BY <2>2, <2>3, <2>5 DEF Like
  <2> QED  BY <2>1, <2>4, <2>6 DEF ModelFitsHarness
<1>5. CASE Changes
  <2>1. /\ DOMAIN rows' = DOMAIN rows /\ req' = req
        /\ \A t \in DOMAIN rows : Stays(t) /\ RunFor(t)
    BY <1>5 DEF Changes
  <2>2. ModelFitsHarness'
    BY <2>1 DEF ModelFitsHarness, Stays, Like
  <2>3. CASE rows = <<>>
    <3>1. rows' \in Seq(Filled) /\ DOMAIN rows' = 1 .. 0
      BY <1>1, <1>2, <2>1, <2>3, Steps DEF TypeInv
    <3>2. rows' = <<>>
      BY <3>1, LenProperties, EmptySeq
    <3> QED  BY <2>2, <3>2 DEF UserChoiceWins
  <2>4. CASE rows # <<>>
    <3>1. Like(rows'[1], rows[1]) /\ rows'[1] \in Filled /\ RunFor(1)
      BY <1>2, <2>1, <2>4 DEF Stays
    <3>2. containers'[1] = containers[1] \/ containers'[1].createPR = rows'[1].createPR
      <4>1. SUFFICES ASSUME Up, containers'[1] = Container(config, rows'[1])
                     PROVE  containers'[1].createPR = rows'[1].createPR
        BY <3>1 DEF RunFor
      <4>2. config.cpus >= 1
        BY <1>1, <4>1, ConfigType DEF TypeInv, config, Up
      <4> QED  BY <1>1, <3>1, <4>1, <4>2, ContainerFields
    <3>3. containers'[1] # NoContainer => Chosen(req'.createPR, containers'[1].createPR)
      BY <2>1, <2>4, <3>1, <3>2 DEF UserChoiceWins, Like
    <3>4. /\ Chosen(req'.createPR, rows'[1].createPR)
          /\ Chosen(req'.selfReview, rows'[1].selfReview)
          /\ Chosen(req'.save, rows'[1].save)
          /\ req'.harness # "" => rows'[1].harness = req'.harness
          /\ req'.model # "" => rows'[1].model = req'.model
          /\ req'.runtime # 0 => rows'[1].runtime = req'.runtime
      BY <2>1, <2>4, <3>1 DEF UserChoiceWins, Like
    <3> QED  BY <2>2, <3>3, <3>4 DEF UserChoiceWins
  <2> QED  BY <2>3, <2>4
<1> QED  BY <1>1, <1>3, <1>4, <1>5, Steps

\* Whatever defaults the operator sets and changes, a choice of the user is carried out,
\* an explicit "no" too, and a model that the user has not chosen fits the harness.
THEOREM DefaultsOnlyFill == Spec => []DefaultsFillGaps
<1>1. Init => UserChoiceWins /\ ModelFitsHarness
  BY DEF Init, UserChoiceWins, ModelFitsHarness
<1>2. Shape /\ UserChoiceWins /\ ModelFitsHarness /\ [Next]_vars =>
        (UserChoiceWins /\ ModelFitsHarness)'
  BY ChoicesKept
<1> QED  BY <1>1, <1>2, ShapeAlways, PTL DEF Spec, DefaultsFillGaps

----------------------------------------------------------------------------
(* Reviews.                                                                *)

\* The parent has ended as a code task, and its review is made after it.
LEMMA ReviewKept ==
    ASSUME Shape, ReviewFollowsParent, [Next]_vars
    PROVE  ReviewFollowsParent'
<1>1. TypeInv /\ ChainInv /\ config \in Configuration /\ TypeInv' /\ ChainInv'
  BY ConfigType, Steps, ChainStep DEF Shape, TypeInv, config
<1>2. /\ DOMAIN rows = 1 .. Len(rows) /\ Len(rows) \in 0 .. 2
      /\ DOMAIN rows' = 1 .. Len(rows') /\ Len(rows') \in 0 .. 2
  <2>1. DOMAIN rows = 1 .. Len(rows) /\ Len(rows) \in 0 .. 2
    BY <1>1, Numbered
  <2>2. rows' \in Seq(Filled) /\ Len(rows') <= 2
    BY <1>1 DEF TypeInv
  <2>3. Len(rows') \in Nat /\ DOMAIN rows' = 1 .. Len(rows')
    BY <2>2, LenProperties
  <2> QED  BY <2>1, <2>2, <2>3
<1>3. SUFFICES ASSUME Len(rows') = 2, rows'[2].parent = 1
      PROVE  /\ rows'[1].status = "completed" /\ rows'[1].mode = "code"
             /\ rows'[2].harness = rows'[1].harness /\ rows'[2].model = rows'[1].model
             /\ rows'[2].save = rows'[1].save /\ rows'[2].budget = SelfReviewBudget
             /\ ~rows'[2].selfReview /\ ~rows'[2].createPR /\ ~containers'[2].createPR
  <2>1. Len(rows') = 2 => rows'[2].parent = 1
    BY <1>1 DEF ChainInv
  <2>2. Len(rows') >= 1 => rows'[1].parent = 0
    BY <1>1 DEF ChainInv
  <2>3. \A t \in DOMAIN rows' : rows'[t].parent # 0 => t = 2 /\ Len(rows') = 2
    BY <1>2, <2>2
  <2> QED  BY <1>3, <2>1, <2>3 DEF ReviewFollowsParent
<1>4. CASE Created
  BY <1>3, <1>4 DEF Created
<1>5. CASE /\ Reviewed
           /\ \A t \in DOMAIN rows : Stays(t) /\ containers'[t] = containers[t]
  <2>1. 1 \in DOMAIN rows /\ rows[1] \in Filled
    BY <1>1, <1>2, <1>5, Numbered DEF Reviewed
  <2>2. /\ rows'[2].harness = rows[1].harness /\ rows'[2].model = rows[1].model
        /\ rows'[2].save = rows[1].save /\ rows'[2].budget = SelfReviewBudget
        /\ rows'[2].selfReview = FALSE /\ rows'[2].createPR = FALSE
    BY <1>1, <1>5, <2>1, ReviewFields DEF Reviewed
  <2>3. Like(rows'[1], rows[1])
    BY <1>5, <2>1 DEF Stays
  <2>4. containers'[2].createPR = FALSE
    <3>1. containers \in Seq(Run) /\ Len(containers) = 1
      BY <1>1, <1>5 DEF TypeInv, Reviewed
    <3>2. containers'[2] = NoContainer
      BY <1>5, <3>1, OneMore DEF Reviewed
    <3>3. NoContainer.createPR = FALSE
      BY DEF NoContainer
    <3> QED  BY <3>2, <3>3
  <2> QED  BY <1>5, <2>2, <2>3, <2>4 DEF Reviewed, Like
<1>6. CASE Changes
  <2>1. /\ DOMAIN rows' = DOMAIN rows
        /\ \A t \in DOMAIN rows : Stays(t) /\ RunFor(t)
    BY <1>6 DEF Changes
  <2>2. Len(rows) = 2 /\ 1 \in DOMAIN rows /\ 2 \in DOMAIN rows
    BY <1>2, <1>3, <2>1
  <2>3. rows[2].parent = 1 /\ rows[1].status = "completed"
    BY <1>1, <2>2 DEF ChainInv
  <2>4. /\ rows[1].mode = "code"
        /\ rows[2].harness = rows[1].harness /\ rows[2].model = rows[1].model
        /\ rows[2].save = rows[1].save /\ rows[2].budget = SelfReviewBudget
        /\ ~rows[2].selfReview /\ ~rows[2].createPR /\ ~containers[2].createPR
    BY <2>2, <2>3 DEF ReviewFollowsParent
  <2>5. rows'[1] = rows[1] /\ Like(rows'[2], rows[2]) /\ rows'[2] \in Filled
    BY <2>1, <2>2, <2>3 DEF Stays
  <2>6. containers'[2] = containers[2] \/ containers'[2].createPR = rows'[2].createPR
    <3>1. SUFFICES ASSUME Up, containers'[2] = Container(config, rows'[2])
                   PROVE  containers'[2].createPR = rows'[2].createPR
      BY <2>1, <2>2 DEF RunFor
    <3>2. config.cpus >= 1
      BY <1>1, <3>1, ConfigType DEF TypeInv, config, Up
    <3> QED  BY <1>1, <2>5, <3>1, <3>2, ContainerFields
  <2>7. ~rows'[2].createPR
    BY <2>4, <2>5 DEF Like
  <2>8. ~containers'[2].createPR
    BY <2>4, <2>6, <2>7
  <2> QED  BY <2>3, <2>4, <2>5, <2>7, <2>8 DEF Like
<1> QED  BY <1>1, <1>4, <1>5, <1>6, Steps

\* A review is chained to a completed code task only, and has its parent's harness, model
\* and saving for good, though it is filled up from the defaults of another day; none of
\* its attempts opens a pull request.
THEOREM ReviewsFollow == Spec => []ReviewFollowsParent
<1>1. Init => ReviewFollowsParent
  BY DEF Init, ReviewFollowsParent
<1>2. Shape /\ ReviewFollowsParent /\ [Next]_vars => ReviewFollowsParent'
  BY ReviewKept
<1> QED  BY <1>1, <1>2, ShapeAlways, PTL DEF Spec

----------------------------------------------------------------------------
(* Images.                                                                 *)

\* A task starts in no step but its dispatch.
LEMMA OnlyDispatchStarts ==
    ASSUME Shape, [Next]_vars, NEW t \in DOMAIN rows,
           rows[t].status = "pending", rows'[t].status = "running"
    PROVE  Dispatch(t)
<1>1. TypeInv /\ ChainInv
  BY DEF Shape
<1>2. CASE Create
  BY <1>2, <1>1, Numbered DEF Create
<1>3. CASE Restart \/ UNCHANGED vars
  BY <1>1, <1>3, OtherSteps
<1>4. ASSUME NEW u \in DOMAIN rows, Dispatch(u) PROVE Dispatch(t)
  BY <1>1, <1>4, DispatchStep
<1>5. ASSUME NEW u \in DOMAIN rows, Retry(u) PROVE FALSE
  BY <1>1, <1>5, RetryStep
<1>6. ASSUME NEW u \in DOMAIN rows, NEW report \in Report, Complete(u, report) PROVE FALSE
  BY <1>1, <1>6, CompleteStep
<1> QED  BY <1>2, <1>3, <1>4, <1>5, <1>6 DEF Next

\* Whatever image a row has stored, and however the images were changed since, a container
\* runs in one of those configured when it is run, and codex in no other than the
\* agent's.
THEOREM ImagesAreCurrent == Spec => ImageIsCurrent
<1>1. ASSUME Shape, [Next]_vars, NEW t \in DOMAIN rows,
             rows[t].status = "pending", rows'[t].status = "running"
      PROVE  /\ containers'[t].image \in {config.agentImage, config.skillImage}
             /\ containers'[t].image # config.agentImage => rows[t].harness = "claude_code"
             /\ rows'[t].image = containers'[t].image
  <2>1. TypeInv
    BY <1>1 DEF Shape
  <2>2. Dispatch(t)
    BY <1>1, OnlyDispatchStarts
  <2>3. /\ rows'[t].image = Resolve(config, rows[t])
        /\ containers'[t].image = Resolve(config, rows[t])
    BY <2>1, <2>2, DispatchStep
  <2> QED  BY <2>3 DEF Resolve
<1>2. Shape /\ [Next]_vars =>
        [\A t \in DOMAIN rows :
           rows[t].status = "pending" /\ rows'[t].status = "running" =>
              /\ containers'[t].image \in {config.agentImage, config.skillImage}
              /\ containers'[t].image # config.agentImage => rows[t].harness = "claude_code"
              /\ rows'[t].image = containers'[t].image]_vars
  BY <1>1
<1> QED  BY <1>2, ShapeAlways, PTL DEF Spec, ImageIsCurrent

----------------------------------------------------------------------------
(* Complete rows.                                                          *)

\* Defaults that the server takes from its environment without a check are such as
\* the agent image knows: a harness of the two, a positive runtime and number of turns.
KnownDefaults ==
    \A e \in Environ :
        /\ e.harness \in {"", "claude_code", "codex"}
        /\ e.runtime \subseteq Nat \ {0} /\ e.turns \subseteq Nat \ {0}

Known(r) ==
    r.harness \in {"claude_code", "codex"} /\ r.runtime \in Nat \ {0} /\ r.turns \in Nat \ {0}

KnownInv == environ \in Environ /\ \A t \in DOMAIN rows : Known(rows[t])

LEMMA KnownConfig ==
    ASSUME KnownDefaults, environ \in Environ
    PROVE  /\ config.harness \in {"claude_code", "codex"}
           /\ config.runtime \in Nat \ {0} /\ config.turns \in Nat \ {0}
<1>1. /\ environ.harness \in {"", "claude_code", "codex"}
      /\ environ.runtime \subseteq Nat \ {0} /\ environ.turns \subseteq Nat \ {0}
  BY DEF KnownDefaults
<1>2. \A v, n : v \subseteq Nat \ {0} /\ n \in Nat \ {0} => EnvInt(v, n) \in Nat \ {0}
  BY DEF EnvInt
<1>3. EnvInt(environ.runtime, 90) \in Nat \ {0} /\ EnvInt(environ.turns, 80) \in Nat \ {0}
  <2>1. 90 \in Nat \ {0} /\ 80 \in Nat \ {0}
    OBVIOUS
  <2> QED  BY <1>1, <1>2, <2>1
<1>4. config.harness \in {"claude_code", "codex"}
  BY <1>1 DEF config, Load, EnvOr
<1> QED  BY <1>3, <1>4 DEF config, Load

LEMMA KnownKept ==
    ASSUME KnownDefaults, Shape, KnownInv, [Next]_vars
    PROVE  KnownInv'
<1>1. TypeInv /\ ChainInv /\ TypeInv' /\ config \in Configuration
  BY ConfigType, Steps DEF Shape, TypeInv, config
<1>2. environ' \in Environ
  BY DEF KnownInv, Next, Restart, Create, Dispatch, Retry, Complete, vars
<1>3. /\ config.harness \in {"claude_code", "codex"}
      /\ config.runtime \in Nat \ {0} /\ config.turns \in Nat \ {0}
  BY KnownConfig DEF KnownInv
<1>4. CASE Created
  <2>1. /\ rows' = <<NewTask(config, req')>> /\ req' \in RequestFields /\ Validate(req')
    BY <1>4, InputAssumption DEF Created
  <2> DEFINE q == rows'[1]
  <2>2. /\ q.harness = EnvOr(req'.harness, config.harness)
        /\ q.runtime = OrDefault(req'.runtime, config.runtime)
        /\ q.turns = OrDefault(req'.turns, config.turns)
    BY <1>1, <2>1, NewTaskFields
  <2>3. /\ req'.harness \in {"", "claude_code", "codex"}
        /\ req'.runtime \in 0 .. MaxInt /\ req'.turns \in 0 .. MaxInt
    BY <2>1 DEF Validate
  <2>4. q.harness \in {"claude_code", "codex"}
    BY <1>3, <2>2, <2>3 DEF EnvOr
  <2>5. q.runtime \in Nat \ {0} /\ q.turns \in Nat \ {0}
    <3>1. \A n \in 0 .. MaxInt, d \in Nat \ {0} : OrDefault(n, d) \in Nat \ {0}
      BY IntakeAssumption DEF OrDefault
    <3>2. req'.runtime \in 0 .. MaxInt /\ req'.turns \in 0 .. MaxInt
      BY <2>3
    <3>3. config.runtime \in Nat \ {0} /\ config.turns \in Nat \ {0}
      BY <1>3
    <3>4. /\ q.runtime = OrDefault(req'.runtime, config.runtime)
          /\ q.turns = OrDefault(req'.turns, config.turns)
      BY <2>2
    <3> HIDE DEF q
    <3> QED  BY <3>1, <3>2, <3>3, <3>4
  <2>6. DOMAIN rows' = {1}
    BY <2>1
  <2> QED  BY <1>2, <2>4, <2>5, <2>6 DEF KnownInv, Known
<1>5. CASE Reviewed /\ \A t \in DOMAIN rows : Stays(t)
  <2>1. 1 \in DOMAIN rows /\ rows[1] \in Filled
    BY <1>1, <1>5, Numbered DEF Reviewed
  <2>2. /\ rows'[2].harness = rows[1].harness
        /\ rows'[2].runtime = OrDefault(0, config.runtime)
        /\ rows'[2].turns = OrDefault(0, config.turns)
    BY <1>1, <1>5, <2>1, ReviewFields DEF Reviewed
  <2>3. rows'[2].runtime = config.runtime /\ rows'[2].turns = config.turns
    BY <2>2 DEF OrDefault
  <2>4. Like(rows'[1], rows[1]) /\ Known(rows[1])
    BY <1>5, <2>1 DEF Stays, KnownInv
  <2>5. Known(rows'[1]) /\ Known(rows'[2])
    BY <1>3, <2>2, <2>3, <2>4 DEF Known, Like
  <2>6. DOMAIN rows' = 1 .. 2
    <3>1. rows' \in Seq(Filled) /\ Len(rows') = 2
      BY <1>1, <1>5 DEF TypeInv, Reviewed
    <3> QED  BY <3>1, LenProperties
  <2>7. \A t \in DOMAIN rows' : t = 1 \/ t = 2
    BY <2>6
  <2> QED  BY <1>2, <2>5, <2>7 DEF KnownInv
<1>6. CASE Changes
  BY <1>2, <1>6 DEF Changes, Stays, Like, Known, KnownInv
<1> QED  BY <1>1, <1>4, <1>5, <1>6, Steps

\* Every row is complete, whatever the request has left out: a harness, a model, an image,
\* an effort, a positive runtime and number of turns; no container is without a CPU,
\* and no chain longer than a task and its review.  config.go does not check the
\* defaults for tasks, so that these have to be known ones.
THEOREM RowsComplete ==
    ASSUME KnownDefaults
    PROVE  Spec => []TypeOK
<1>1. Init => KnownInv
  BY DEF Init, KnownInv
<1>2. Shape /\ KnownInv /\ [Next]_vars => KnownInv'
  BY KnownKept
<1>3. ASSUME Shape, KnownInv PROVE TypeOK
  <2>1. TypeInv
    BY <1>3 DEF Shape
  <2>2. /\ DOMAIN rows = 1 .. Len(rows) /\ DOMAIN containers = 1 .. Len(rows)
        /\ Len(rows) \in 0 .. 2
        /\ \A t \in DOMAIN rows : rows[t] \in Filled /\ containers[t] \in Run
    BY <2>1, Numbered
  <2>3. ASSUME NEW t \in DOMAIN rows PROVE rows[t] \in Row
    <3>1. rows[t] \in Bare /\ Known(rows[t])
      BY <1>3, <2>2 DEF KnownInv, Filled
    <3>2. /\ rows[t].model # "" /\ rows[t].effort # "" /\ rows[t].image # ""
      BY <2>2 DEF Filled
    <3> QED  BY <3>1, <3>2 DEF Bare, Known, Row
  <2>4. rows \in Seq(Row)
    <3>1. rows \in [1 .. Len(rows) -> Row]
      <4>1. rows \in [1 .. Len(rows) -> Filled]
        BY <2>1, LenProperties DEF TypeInv
      <4> QED  BY <2>2, <2>3, <4>1
    <3>2. Len(rows) \in Nat
      BY <2>2
    <3> QED  BY <3>1, <3>2, SeqDef
  <2>5. \A t \in DOMAIN rows : containers[t].cpus >= 1
    BY <2>2 DEF Run
  <2> QED  BY <2>1, <2>2, <2>4, <2>5 DEF TypeInv, TypeOK
<1> QED  BY <1>1, <1>2, <1>3, ShapeAlways, PTL DEF Spec
===============================================================================
