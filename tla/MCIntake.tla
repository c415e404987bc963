------------------------------- MODULE MCIntake -------------------------------
(***************************************************************************)
(* Requests that differ from a plain one in a few fields, and environments *)
(* that differ from a plain one in one variable.                           *)
(***************************************************************************)
EXTENDS Intake

CONSTANT Deviations   \* bound: fields in which a request differs from a plain one

Words ==
    {"", "key", "text", "agent", "agent2", "skill", "claude_code", "codex", "other",
     "claude_model", "codex_model", "user_model", "low", "high", "xhigh", "huge",
     "auto", "code", "EXTRA"}
    \cup NoName \cup Reserved \cup AlwaysSet \cup Text \cup Secret

\* The records that differ from a plain one in at most one field.
Variants(plain, values) ==
    {plain} \cup UNION {{[plain EXCEPT ![f] = v] : v \in values[f]} : f \in DOMAIN plain}

\* Everything unset but the key that is required.
PlainEnviron ==
    [anthropic |-> "key", openai |-> "", github |-> "", apiKey |-> "",
     containers |-> {}, cpus |-> {}, memory |-> {},
     backups |-> "unset", interval |-> {}, retention |-> {},
     agentImage |-> "", skillImage |-> "", harness |-> "", effort |-> "",
     budget |-> {}, runtime |-> {}, turns |-> {},
     createPR |-> "unset", selfReview |-> "unset", save |-> "unset"]

EnvironValues ==
    [anthropic |-> {""}, openai |-> {"key"}, github |-> {"key"}, apiKey |-> {"key"},
     containers |-> {{0}, {7}}, cpus |-> {{0}}, memory |-> {{0}},
     backups |-> {"no"}, interval |-> {{0}}, retention |-> {{-1}},
     agentImage |-> {"agent2"}, skillImage |-> {"skill"}, harness |-> {"codex"},
     effort |-> {"high"},
     budget |-> {{5}}, runtime |-> {{60}}, turns |-> {{50}},
     createPR |-> {"no"}, selfReview |-> {"yes"}, save |-> {"no"}]

Environs == Variants(PlainEnviron, EnvironValues)

PlainRequest == [NoRequest EXCEPT !.prompt = "text"]

RequestValues ==
    [prompt |-> {""}, null |-> {TRUE}, harness |-> {"claude_code", "codex", "other"},
     model |-> {"user_model"}, effort |-> {"low", "huge"},
     budget |-> {7, -1}, runtime |-> {30, -1, MaxInt + 1}, turns |-> {3, -1, MaxInt + 1},
     createPR |-> {"yes", "no"}, selfReview |-> {"yes", "no"}, save |-> {"yes", "no"},
     mode |-> {"auto", "code"}, texts |-> {Text},
     env |-> {{k} : k \in Reserved \cup AlwaysSet \cup Text \cup Secret \cup NoName
                           \cup {"EXTRA"}}]

Differing(plain, n) ==
    LET within[i \in 0 .. n] ==
          IF i = 0 THEN {plain}
          ELSE UNION {Variants(r, RequestValues) : r \in within[i - 1]}
    IN  within[n]

Requests == Differing(PlainRequest, Deviations)
=============================================================================
