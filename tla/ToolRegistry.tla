----------------------------- MODULE ToolRegistry -----------------------------
(***************************************************************************)
(* The tool registry of twinflow.agent (tools.py) and the two adapters     *)
(* that turn a model's emission into a bound call: the pydantic one and    *)
(* the constrained local one (local_model.py).                             *)
(*                                                                         *)
(* A tier is its rank.  An emission is what the loop makes of it: valid,   *)
(* invalid against the args model, no JSON document at all, no prompt, or  *)
(* a daemon that does not answer.  The metrics file is a function from the *)
(* declared ids to their grains, and may be edited while a session runs.   *)
(***************************************************************************)
EXTENDS Integers, Sequences, SequencesExt, FiniteSetsExt

CONSTANTS
    ToolSpecs,         \* declarations callers try to construct and register
    Selections,        \* argument records of query_metric callers emit
    MetricFiles,       \* contents the metrics file may have
    Adapters,          \* pydantic, or ollama with a scheme and a host
    LoopbackHosts,
    MaxRetries,        \* the retry budgets callers pass, -1 included
    MaxCalls

VARIABLES
    specs,             \* _specs and _fns: sequence of ToolSpecs
    metrics_file,      \* what metrics_path holds now
    document,          \* what build_default_registry closed over
    loop,              \* structured() under way, or Quiet
    bound,             \* history: the calls bound, [tool, args, emissions]
    results,           \* history: the results, [tool, tier, side_effects, args, answer]
    model_calls        \* history: how structured() loops ended

tool_vars == <<specs, metrics_file, document, loop, bound, results, model_calls>>

\* SideEffects is one of three, and a retry budget is a number of whatever sign.
ASSUME ToolAssumption ==
    /\ \A spec \in ToolSpecs : spec.side_effects \in {"none", "simulate", "write_config"}
    /\ MaxRetries \subseteq Int

Exchanges == {"refused", "timeout", "os_error", "http_status", "redirect", "no_json",
              "no_object", "no_content", "prose", "document"}
Quiet == [tool |-> "none"]
NoBudget == "none"
Unloaded == <<>>
-----------------------------------------------------------------------------
(* ToolSpec                                                                *)

\* _side_effects_agree_with_tier_and_budget
EffectsAgree(spec) ==
    CASE spec.side_effects = "write_config" -> spec.tier = 3 /\ spec.sim_budget = NoBudget
      [] spec.side_effects = "simulate"     -> spec.tier = 1 /\ spec.sim_budget # NoBudget
      [] spec.side_effects = "none"         -> spec.tier = 1 /\ spec.sim_budget = NoBudget

ToolSpec(spec) == spec.deadline_sim_s >= 1 /\ EffectsAgree(spec)

Names == {specs[i].name : i \in DOMAIN specs}
SpecOf(name) == specs[CHOOSE i \in DOMAIN specs : specs[i].name = name]

\* AutonomyTier.permits
Permits(held, needed) == held >= needed

\* allowed(): the tools a session at this tier may call.
Allowed(tier) == {name \in Names : Permits(tier, SpecOf(name).tier)}

\* register(): one name is one contract, unknown arguments are forbidden, and
\* every result can be cited.
RegisterTool(spec) ==
    /\ document # Unloaded
    /\ ToolSpec(spec)
    /\ spec.name \notin Names
    /\ spec.args_forbid_extra
    /\ spec.has_result_ids
    /\ specs' = Append(specs, spec)
    /\ UNCHANGED <<metrics_file, document, loop, bound, results, model_calls>>
-----------------------------------------------------------------------------
(* query_metric                                                            *)

\* The validators of TimeWindow and MetricSelection.
ValidSelection(s) ==
    /\ s.start_sim_ticks >= 0 /\ s.end_sim_ticks > s.start_sim_ticks
    /\ 1 <= s.limit /\ s.limit <= 5000

\* MetricQueryResult: a value is measured, or awaited from a named requirement.
MetricQueryResult(r) ==
    IF r.status = "measured" THEN r.value # <<>> /\ r.required_by = "none"
                             ELSE r.value = <<>> /\ r.required_by # "none"

QUERY_METRIC_SPEC ==
    [name |-> "query_metric", tier |-> 1, side_effects |-> "none", sim_budget |-> NoBudget,
     deadline_sim_s |-> 30, args_forbid_extra |-> TRUE, has_result_ids |-> TRUE]

\* _resolve over the declared metrics: a metric nobody declared, a dimension or
\* a grain outside the declared ones, is a refusal and never an empty answer.
ResolveMetric(s, declared) ==
    IF \/ s.metric \notin DOMAIN declared
       \/ ~(s.dimensions \subseteq declared[s.metric])
       \/ s.grain # "none" /\ s.grain \notin declared[s.metric]
    THEN [status |-> "refused", required_by |-> "none", value |-> <<>>]
    ELSE [status |-> "awaiting_subsystem", required_by |-> "E26", value |-> <<>>,
          grain |-> declared[s.metric]]

\* The function build_default_registry registers: it closes over the document.
Answer(s) == ResolveMetric(s, document)

\* build_default_registry: the file is loaded once.
BuildDefaultRegistry ==
    /\ document = Unloaded
    /\ document' = metrics_file
    /\ specs' = <<QUERY_METRIC_SPEC>>
    /\ UNCHANGED <<metrics_file, loop, bound, results, model_calls>>

EditMetrics(file) ==
    /\ metrics_file' = file
    /\ UNCHANGED <<specs, document, loop, bound, results, model_calls>>
-----------------------------------------------------------------------------
(* bind() and bind_structured().                                           *)

ToolRoom == Len(bound) + Len(model_calls) < MaxCalls

Bound(tool, args, emissions) ==
    Append(bound, [tool |-> tool, args |-> args, emissions |-> emissions])

\* bind(): the constructor of ToolCall is the validation.
Bind(tool, args) ==
    /\ ToolRoom /\ loop = Quiet /\ tool \in Names
    /\ ValidSelection(args)
    /\ bound' = Bound(tool, args, 0)
    /\ UNCHANGED <<specs, metrics_file, document, loop, results, model_calls>>

\* _chat_url: the local adapter is constructed over http to this machine only.
AdapterConstructible(adapter) ==
    adapter.kind = "ollama" =>
        adapter.scheme \in {"http", "https"} /\ adapter.host \in LoopbackHosts

BindStructured(tool, adapter, retries) ==
    /\ ToolRoom /\ loop = Quiet /\ tool \in Names
    /\ AdapterConstructible(adapter)
    /\ retries >= 0
    /\ loop' = [tool |-> tool, adapter |-> adapter, retries |-> retries, attempt |-> 0,
                feedback |-> FALSE]
    /\ UNCHANGED <<specs, metrics_file, document, bound, results, model_calls>>

\* The first emission gets no feedback, each later one the repair text.
Emissions == loop.attempt + 1

EmitValid(args) ==
    /\ loop # Quiet /\ ValidSelection(args)
    /\ loop' = Quiet
    /\ bound' = Bound(loop.tool, args, Emissions)
    /\ model_calls' = Append(model_calls, [ended |-> "bound", emissions |-> Emissions,
                                           retries |-> loop.retries, repaired |-> loop.feedback])
    /\ UNCHANGED <<specs, metrics_file, document, results>>

\* What post_json and _ask of the local adapter make of one exchange.
Ask(exchange) ==
    CASE exchange \in {"refused", "timeout", "os_error"}                 -> "unavailable"
      [] exchange \in {"http_status", "redirect", "no_json", "no_object"} -> "ollama_error"
      [] exchange \in {"no_content", "prose"}                            -> "not_honored"
      [] exchange = "document"                                           -> "invalid"

\* How an emission fails: the pydantic adapter only validates it, the local one
\* asks its callback for a prompt first and makes the exchange itself.
Failures(adapter) ==
    IF adapter.kind = "pydantic" THEN {"invalid"}
    ELSE {"not_prompt"} \cup {Ask(exchange) : exchange \in Exchanges}

\* The failures the loop repairs: ValidationError and ConstraintNotHonored.
Repairable == {"invalid", "not_honored"}

GiveUp(kind) ==
    /\ loop' = Quiet
    /\ model_calls' = Append(model_calls, [ended |-> kind, emissions |-> Emissions,
                                           retries |-> loop.retries, repaired |-> loop.feedback])

\* Mutant: one more attempt than the budget and the first one allow.
RetryOnce(kind) ==
    IF loop.attempt > loop.retries THEN GiveUp(kind)
    ELSE /\ loop' = [loop EXCEPT !.attempt = @ + 1, !.feedback = TRUE]
         /\ UNCHANGED model_calls

Retry(kind) ==
    IF loop.attempt = loop.retries THEN GiveUp(kind)
    ELSE /\ loop' = [loop EXCEPT !.attempt = @ + 1, !.feedback = TRUE]
         /\ UNCHANGED model_calls

EmitFailed ==
    /\ loop # Quiet
    /\ \E kind \in Failures(loop.adapter) \cap Repairable : Retry(kind)
    /\ UNCHANGED <<specs, metrics_file, document, bound, results>>

\* Nothing else is caught: a daemon that does not answer is asked once.
EmitFatal ==
    /\ loop # Quiet
    /\ \E kind \in Failures(loop.adapter) \ Repairable : GiveUp(kind)
    /\ UNCHANGED <<specs, metrics_file, document, bound, results>>
-----------------------------------------------------------------------------
\* invoke(): the floor is checked here whatever a session allowed before; a
\* tool that refuses or answers outside its result model contributes nothing.
\* What another tool than query_metric answers is its subsystem's.
Invoke(n, tier) ==
    /\ Len(results) < MaxCalls
    /\ LET call == bound[n]
           answer == IF call.tool = QUERY_METRIC_SPEC.name THEN Answer(call.args)
                     ELSE [status |-> "measured", required_by |-> "none", value |-> <<1>>]
       IN  /\ Permits(tier, SpecOf(call.tool).tier)
           /\ answer.status # "refused" /\ MetricQueryResult(answer)
           /\ results' = Append(results, [tool |-> call.tool, tier |-> tier,
                                          side_effects |-> SpecOf(call.tool).side_effects,
                                          args |-> call.args, answer |-> answer])
    /\ UNCHANGED <<specs, metrics_file, document, loop, bound, model_calls>>

ToolInit ==
    /\ specs = <<>> /\ metrics_file \in MetricFiles /\ document = Unloaded
    /\ loop = Quiet /\ bound = <<>> /\ results = <<>> /\ model_calls = <<>>

ToolNext ==
    \/ BuildDefaultRegistry
    \/ \E file \in MetricFiles : EditMetrics(file)
    \/ \E spec \in ToolSpecs : RegisterTool(spec)
    \/ \E tool \in Names, args \in Selections : Bind(tool, args)
    \/ \E tool \in Names, adapter \in Adapters, retries \in MaxRetries :
          BindStructured(tool, adapter, retries)
    \/ \E args \in Selections : EmitValid(args)
    \/ EmitFailed \/ EmitFatal
    \/ \E n \in DOMAIN bound, tier \in 1..3 : Invoke(n, tier)
-----------------------------------------------------------------------------
\* ToolSpec, register and invoke together: nothing that ran wrote configuration
\* below L3, and nothing without that effect needed more than L1.
EffectsNeedTheirTier ==
    /\ \A i \in DOMAIN results :
          results[i].side_effects = "write_config" => results[i].tier = 3
    /\ \A name \in Names : SpecOf(name).side_effects # "write_config" => name \in Allowed(1)

\* structured(): at most max_retries repairs, a repair text with each of them
\* and only with them, nothing after a daemon that did not answer, and no bound
\* call that no valid emission stands behind.
RetriesAreBounded ==
    /\ \A i \in DOMAIN model_calls :
          LET m == model_calls[i]
          IN  /\ m.emissions <= m.retries + 1
              /\ m.repaired <=> m.emissions > 1
              /\ m.ended \in Repairable => m.emissions = m.retries + 1
    /\ loop # Quiet => loop.attempt <= loop.retries
    /\ \A i \in DOMAIN bound : ValidSelection(bound[i].args)

\* build_default_registry: every answer of a session is of one version of the
\* governed metrics, whatever happens to the file meanwhile.
OneVersionPerSession ==
    \A i, j \in DOMAIN results :
        results[i].tool = results[j].tool /\ results[i].args = results[j].args =>
            results[i].answer = results[j].answer

\* The registry: safe declarations, bounded repair, one governed version.
ToolsKeepTheirContract == EffectsNeedTheirTier /\ RetriesAreBounded /\ OneVersionPerSession
=============================================================================
