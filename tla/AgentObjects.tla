---------------------------- MODULE AgentObjects -----------------------------
(***************************************************************************)
(* The sixteen workflow objects: JSON records under a common header, filled *)
(* in through setters, written once, and loaded by from_bytes of whichever  *)
(* type the caller asks for.  The header's own object_type is never compared*)
(* with that type, so what keeps one object from loading as another is the  *)
(* schema alone: its required fields, its labels, and the refusal of unknown*)
(* fields.                                                                  *)
(*                                                                          *)
(* A schema names the fields: need (always written, and required), keep     *)
(* (written even when empty, but defaulted when missing), opt (written only *)
(* when set), many (lists written only when they hold something), json (opt *)
(* fields of any JSON value, null included), and the labels of its enums.   *)
(***************************************************************************)
EXTENDS SequencesExt, Integers, FiniteSetsExt

CONSTANTS AgentTypes,      \* the types of the objects to build
          AgentCalls,      \* setter calls on one object
          MaxPlans         \* plans in the ledger

VARIABLES draft,           \* the object in memory
          stored,          \* what to_data wrote
          plans            \* plans, each built from earlier ones

Null == "null"
Unset == "unset"
NoDraft == [type |-> Unset]

\* An enum field: its labels; open when any other string is a label too (an
\* untagged Other), tagged when another label is written as {"other": label}.
Closed(ls) == [labels |-> ls, open |-> FALSE, tagged |-> FALSE]
Open(ls) == [labels |-> ls, open |-> TRUE, tagged |-> FALSE]
Tagged(ls) == [labels |-> ls, open |-> FALSE, tagged |-> TRUE]
NoEnums == [f \in {} |-> Closed({})]
Enum(f, e) == [x \in {f} |-> e]

Plain(v) == [v |-> v]

-----------------------------------------------------------------------------
(* The enums                                                                *)

GoalType == Tagged({"feature", "bugfix", "refactor", "docs", "perf", "test", "chore", "build",
                    "ci", "style"})
DiffFormat == Closed({"unified_diff", "git_diff"})
SelectionStrategy == Closed({"explicit", "heuristic"})
FrameKind == Tagged({"intent_analysis", "step_summary", "code_change", "system_state",
                     "error_recovery", "checkpoint", "tool_call"})
IntentEventKind == Open({"analyzed", "completed", "cancelled"})
TaskEventKind == Closed({"created", "running", "blocked", "done", "failed", "cancelled"})
RunEventKind == Closed({"created", "patching", "validating", "completed", "failed", "checkpointed"})
PlanStepStatus == Closed({"pending", "progressing", "completed", "failed", "skipped"})
ToolStatus == Closed({"ok", "error"})
EvidenceKind == Open({"test", "lint", "build"})
DecisionType == Open({"commit", "checkpoint", "abandon", "retry", "rollback"})

-----------------------------------------------------------------------------
(* The schemas: a struct with its serde attributes, and with them the arguments *)
(* of its new (need) and the fields it has setters for (the others)            *)

Intent == [need |-> {"prompt"}, keep |-> {}, opt |-> {}, json |-> {"spec"},
           many |-> {"parents", "analysis_context_frames"}, enums |-> NoEnums]

Plan == [need |-> {"intent"}, keep |-> {"steps"}, opt |-> {}, json |-> {},
         many |-> {"parents", "context_frames"}, enums |-> NoEnums]

Task == [need |-> {"title"}, keep |-> {}, json |-> {},
         opt |-> {"description", "goal", "requester", "parent", "intent", "origin_step_id"},
         many |-> {"constraints", "acceptance_criteria", "dependencies"},
         enums |-> Enum("goal", GoalType)]

Run == [need |-> {"task", "commit"}, keep |-> {}, opt |-> {"plan", "snapshot", "environment"},
        json |-> {}, many |-> {}, enums |-> NoEnums]

PatchSet == [need |-> {"run", "sequence", "commit", "format"}, keep |-> {"touched"},
             opt |-> {"artifact", "rationale"}, json |-> {}, many |-> {},
             enums |-> Enum("format", DiffFormat)]

Provenance == [need |-> {"run_id", "provider", "model"}, keep |-> {}, opt |-> {"temperature", "max_tokens"},
               json |-> {"parameters"}, many |-> {}, enums |-> NoEnums]

ContextSnapshot == [need |-> {"selection_strategy"}, keep |-> {}, opt |-> {"summary"}, json |-> {},
                    many |-> {"items"},
                    enums |-> Enum("selection_strategy", SelectionStrategy)]

ContextFrame == [need |-> {"kind", "summary"}, keep |-> {}, json |-> {"data"}, many |-> {},
                 opt |-> {"intent_id", "run_id", "plan_id", "step_id", "token_estimate"},
                 enums |-> Enum("kind", FrameKind)]

IntentEvent == [need |-> {"intent_id", "kind"}, keep |-> {}, json |-> {}, many |-> {},
                opt |-> {"reason", "result_commit", "next_intent_id"},
                enums |-> Enum("kind", IntentEventKind)]

TaskEvent == [need |-> {"task_id", "kind"}, keep |-> {}, opt |-> {"reason", "run_id"}, json |-> {},
              many |-> {},
              enums |-> Enum("kind", TaskEventKind)]

RunEvent == [need |-> {"run_id", "kind"}, keep |-> {}, opt |-> {"reason", "error", "patchset_id"},
             json |-> {"metrics"}, many |-> {},
             enums |-> Enum("kind", RunEventKind)]

RunUsage == [need |-> {"run_id", "input_tokens", "output_tokens", "total_tokens"}, keep |-> {},
             opt |-> {"cost_usd"}, json |-> {}, many |-> {}, enums |-> NoEnums]

PlanStepEvent == [need |-> {"plan_id", "step_id", "run_id", "status"}, keep |-> {},
                  opt |-> {"reason", "spawned_task_id"}, json |-> {"outputs"},
                  many |-> {"consumed_frames", "produced_frames"},
                  enums |-> Enum("status", PlanStepStatus)]

ToolInvocation == [need |-> {"run_id", "tool_name", "status"}, keep |-> {"args"},
                   opt |-> {"io_footprint", "result_summary"}, json |-> {}, many |-> {"artifacts"},
                   enums |-> Enum("status", ToolStatus)]

Evidence == [need |-> {"run_id", "kind", "tool"}, keep |-> {}, json |-> {},
             opt |-> {"patchset_id", "command", "exit_code", "summary"}, many |-> {"report_artifacts"},
             enums |-> Enum("kind", EvidenceKind)]

Decision == [need |-> {"run_id", "decision_type"}, keep |-> {}, json |-> {}, many |-> {},
             opt |-> {"chosen_patchset_id", "result_commit_sha", "checkpoint_id", "rationale"},
             enums |-> Enum("decision_type", DecisionType)]

Schemas ==
  [Intent |-> Intent, Plan |-> Plan, Task |-> Task, Run |-> Run, PatchSet |-> PatchSet,
   Provenance |-> Provenance, ContextSnapshot |-> ContextSnapshot, ContextFrame |-> ContextFrame,
   IntentEvent |-> IntentEvent, TaskEvent |-> TaskEvent, RunEvent |-> RunEvent, RunUsage |-> RunUsage,
   PlanStepEvent |-> PlanStepEvent, ToolInvocation |-> ToolInvocation, Evidence |-> Evidence,
   Decision |-> Decision]

\* Every object starts with the header, all of it required.
Header == {"object_id", "object_type", "version", "created_at", "created_by"}
Required(s) == s.need \union Header

Fields(s) == Required(s) \union s.keep \union s.opt \union s.many \union s.json

\* What new always starts with, the options only new sets, and the required
\* fields with a setter.
Fixed(t) ==
  CASE t = "Run" -> [environment |-> Plain("x")]
    [] t = "PatchSet" -> [format |-> [variant |-> "unified_diff"]]
    [] t = "ToolInvocation" -> [status |-> [variant |-> "ok"]]
    [] OTHER -> << >>
Ctor(t) ==
  CASE t = "Run" -> {"environment"} [] t = "Task" -> {"goal"} [] t = "RunUsage" -> {"cost_usd"}
    [] OTHER -> {}
Reset(t) == CASE t = "PatchSet" -> {"sequence"} [] t = "ToolInvocation" -> {"status"} [] OTHER -> {}

-----------------------------------------------------------------------------
(* JSON and back                                                            *)

\* A label as From<&str> and serde put it in the enum: its own variant, or Other.
Variant(e, label) == IF label \in e.labels THEN [variant |-> label] ELSE [other |-> label]

\* What a caller can hold in an enum field: Other may repeat a known label.
Values(e) ==
  {[variant |-> l] : l \in e.labels}
    \union IF e.open \/ e.tagged THEN {[other |-> l] : l \in e.labels \union {"custom"}} ELSE {}

\* The value of a field on the wire.  Numbers are finite: serde_json writes
\* another f64 as null.
Wire(s, f, x) ==
  IF f \notin DOMAIN s.enums \/ x = Plain(Unset) THEN x
  ELSE LET label == IF "variant" \in DOMAIN x THEN x.variant ELSE x.other
       IN IF s.enums[f].tagged /\ "other" \in DOMAIN x THEN [tag |-> label] ELSE [v |-> label]

\* serde refuses a label no variant takes, and takes null for an absent option.
Accepts(s, f, w) ==
  f \in DOMAIN s.enums =>
    \/ "tag" \in DOMAIN w /\ s.enums[f].tagged
    \/ "v" \in DOMAIN w /\ (w.v \in s.enums[f].labels \/ s.enums[f].open \/ (w.v = Null /\ f \in s.opt))

ReadField(s, f, w) ==
  IF f \notin DOMAIN s.enums THEN IF w = Plain(Null) THEN Plain(Unset) ELSE w
  ELSE IF "tag" \in DOMAIN w THEN [other |-> w.tag] ELSE Variant(s.enums[f], w.v)

Written(s, obj) ==
  {f \in Fields(s) : f \in Required(s) \union s.keep \/ obj[f] # Plain(Unset)}

ToJson(t, obj) ==
  LET s == Schemas[t] IN [f \in Written(s, obj) |-> Wire(s, f, obj[f])]

\* Fault: fields the schema does not know are skipped.
FromJson_Lenient(t, data) ==
  LET s == Schemas[t]
  IN IF ~(Required(s) \subseteq DOMAIN data /\ \A f \in Fields(s) \intersect DOMAIN data : Accepts(s, f, data[f]))
     THEN NoDraft
     ELSE [type |-> t, obj |-> [f \in Fields(s) |-> IF f \in DOMAIN data THEN ReadField(s, f, data[f])
                                                    ELSE Plain(Unset)]]

\* deny_unknown_fields: every field is one of the schema, required ones are there.
FromJson(t, data) ==
  LET s == Schemas[t]
  IN IF ~(/\ Required(s) \subseteq DOMAIN data /\ DOMAIN data \subseteq Fields(s)
          /\ \A f \in DOMAIN data : Accepts(s, f, data[f]))
     THEN NoDraft
     ELSE [type |-> t, obj |-> [f \in Fields(s) |-> IF f \in DOMAIN data THEN ReadField(s, f, data[f])
                                                    ELSE Plain(Unset)]]

-----------------------------------------------------------------------------

AgentInit ==
  /\ draft = NoDraft /\ stored = << >>
  /\ plans = << >>

\* What a caller may pass to new for a field.
Offered(s, f) ==
  (IF f \in DOMAIN s.enums THEN Values(s.enums[f]) ELSE {Plain("x")})
    \union (IF f \in s.opt THEN {Plain(Unset)} ELSE {})

\* new: the required fields, and the options only it can set; lists empty, the
\* other options unset.
New(t) ==
  /\ draft = NoDraft /\ plans = << >>
  /\ LET s == Schemas[t]
         asked == ((DOMAIN s.enums \intersect s.need) \union Ctor(t)) \ DOMAIN Fixed(t)
         start == [f \in Fields(s) |->
                     CASE f = "object_type" -> Plain(t)
                       [] f \in s.keep -> Plain("empty")
                       [] f \in s.opt \union s.many \union s.json -> Plain(Unset)
                       [] OTHER -> Plain("x")]
     IN \E given \in [asked -> UNION {Offered(s, f) : f \in asked}] :
          /\ \A f \in asked : given[f] \in Offered(s, f)
          /\ draft' = [type |-> t, calls |-> 0, obj |-> given @@ Fixed(t) @@ start]
  /\ UNCHANGED <<stored, plans>>

Editable == draft # NoDraft /\ stored = << >> /\ draft.calls < AgentCalls
Assign(f, x) == draft' = [draft EXCEPT !.obj[f] = x, !.calls = @ + 1]

\* A setter or an appender.
SetField(f) ==
  /\ Editable /\ f \notin Ctor(draft.type)
  /\ LET s == Schemas[draft.type]
     IN /\ f \notin Required(s) \/ f \in Reset(draft.type)
        /\ \E x \in IF f \in DOMAIN s.enums THEN Values(s.enums[f]) ELSE {Plain("x")} :
             Assign(f, x) \/ (f \in s.opt \union s.json /\ Assign(f, Plain(Unset)))
  /\ UNCHANGED <<stored, plans>>

\* An option of any JSON value may be set to null, which the wire cannot tell from unset.
SetNull(f) ==
  /\ Editable /\ f \in Schemas[draft.type].json
  /\ Assign(f, Plain(Null))
  /\ UNCHANGED <<stored, plans>>

Store ==
  /\ draft # NoDraft /\ stored = << >>
  /\ stored' = <<ToJson(draft.type, draft.obj)>>
  /\ UNCHANGED <<draft, plans>>

-----------------------------------------------------------------------------
(* Plan lineage                                                             *)

AddParent(parents, self, id) == IF id = self \/ id \in Range(parents) THEN parents ELSE Append(parents, id)

NewPlan(intent) ==
  /\ draft = NoDraft /\ Len(plans) < MaxPlans
  /\ plans' = Append(plans, [intent |-> intent, parents |-> << >>, by |-> "new"])
  /\ UNCHANGED <<draft, stored>>

\* new_revision_chain: at least one parent, all of the first one's intent.
NewRevisionChain(parents) ==
  /\ draft = NoDraft /\ Len(plans) < MaxPlans
  /\ parents # << >> /\ \A i \in DOMAIN parents : plans[parents[i]].intent = plans[parents[1]].intent
  /\ plans' = Append(plans, [intent |-> plans[parents[1]].intent, by |-> "new",
                             parents |-> FoldLeft(LAMBDA acc, p : AddParent(acc, Len(plans) + 1, p),
                                                  << >>, parents)])
  /\ UNCHANGED <<draft, stored>>

\* add_parent and set_parents on a plan in hand compare no intents; set_parents
\* takes the list as it is.
AddPlanParent(i, j) ==
  /\ plans[i].by # "set"
  /\ plans' = [plans EXCEPT ![i].parents = AddParent(@, i, j), ![i].by = "add"]
  /\ UNCHANGED <<draft, stored>>

SetPlanParents(i, parents) ==
  /\ plans' = [plans EXCEPT ![i].parents = parents, ![i].by = "set"]
  /\ UNCHANGED <<draft, stored>>

AgentNext ==
  \/ \E t \in AgentTypes : New(t)
  \/ draft # NoDraft /\ \E f \in Fields(Schemas[draft.type]) : SetField(f) \/ SetNull(f)
  \/ Store
  \/ \E i \in {"i1", "i2"} : NewPlan(i)
  \/ \E ps \in BoundedSeq(DOMAIN plans, 2) : NewRevisionChain(ps)
  \/ \E i, j \in DOMAIN plans : AddPlanParent(i, j) \/ SetPlanParents(i, <<j, j>>)

agentVars == <<draft, stored, plans>>

-----------------------------------------------------------------------------

\* What a reader sees of a field: a null option reads as unset, and a known
\* label in an untagged Other as its variant.
Seen(s, f, x) ==
  IF x = Plain(Null) THEN Plain(Unset)
  ELSE IF f \in DOMAIN s.enums /\ "other" \in DOMAIN x /\ s.enums[f].open THEN Variant(s.enums[f], x.other)
  ELSE x

\* A stored object loads as its own type with every field as it was set, and as
\* no other type, whatever options were set and whatever custom label it has:
\* the header is not compared, so the schemas must keep the types apart.  A plan
\* made by new_revision_chain has one intent with all its parents, and no plan
\* has itself or a parent twice, but through set_parents.
AgentHistory ==
  /\ stored # << >> =>
       /\ LET back == FromJson(draft.type, stored[1])
          IN /\ back.type = draft.type
             /\ \A f \in DOMAIN back.obj : back.obj[f] = Seen(Schemas[draft.type], f, draft.obj[f])
       /\ \A t \in DOMAIN Schemas \ {draft.type} : FromJson(t, stored[1]) = NoDraft
  /\ \A i \in DOMAIN plans :
       /\ plans[i].by = "new" => \A j \in Range(plans[i].parents) : plans[j].intent = plans[i].intent
       /\ plans[i].by # "set" => IsInjective(plans[i].parents) /\ i \notin Range(plans[i].parents)
=============================================================================
