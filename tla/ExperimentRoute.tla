---------------------------- MODULE ExperimentRoute ---------------------------
(***************************************************************************)
(* build_optimization_profile and route_optimization_profile of            *)
(* mission-center-policy: which way of searching is advised for a task,    *)
(* from what is known of it.  An agent revises the profile one field at a  *)
(* time; the advice is a function of the profile as it is.                 *)
(***************************************************************************)
EXTENDS Naturals, FiniteSets

VARIABLE profile    \* what is known of the task

\* Numbers on both sides of the limits that the routes look at.
Fields == [task |-> {"research", "deterministic"},
           shape |-> {"none", "discrete", "categorical", "mixed", "continuous",
                      "multi_objective"},
           measurement |-> {"none", "subjective", "expensive", "cheap"},
           noise |-> {"unknown", "high"},
           risk |-> {"low", "medium", "high"},
           trials |-> {0, 1, 19, 20},
           objectives |-> {0, 2},
           factors |-> {0, 4, 13},
           differentiable |-> BOOLEAN,
           cases |-> BOOLEAN]

RouteTypeOK == /\ DOMAIN profile = DOMAIN Fields
               /\ \A f \in DOMAIN Fields : profile[f] \in Fields[f]

-------------------------------------------------------------------------------
Unmeasured(p) == p.measurement \in {"none", "subjective"}

\* build_optimization_profile: what is not given has these values.
DefaultProfile == [task |-> "research", shape |-> "none", measurement |-> "none",
                   noise |-> "unknown", risk |-> "medium", trials |-> 0,
                   objectives |-> 0, factors |-> 0, differentiable |-> FALSE,
                   cases |-> FALSE]

Advice(mode, strategy, missing) ==
    [mode |-> mode, strategy |-> strategy, missing |-> missing]

(* route_optimization_profile: the first that applies. *)

\* What cannot be measured or paid for is looked into, or decided on examples.
Spikes(p) ==
    IF p.shape = "discrete" /\ Unmeasured(p)
    THEN IF p.cases THEN Advice("decision", "trade_study_scenario_stress", {})
         ELSE Advice("research_spike", "evidence_collection",
                     {"comparable_decision_evidence"})
    ELSE IF Unmeasured(p)
    THEN Advice("research_spike", "evidence_collection", {"repeatable_metric"})
    ELSE IF p.trials < 1
    THEN Advice("research_spike", "budget_definition", {"positive_trial_budget"})
    ELSE Advice("none", "none", {})

\* What can be measured and paid for is tried.
Experiments(p) ==
    IF p.objectives > 1 \/ p.shape = "multi_objective"
    THEN Advice("experimental",
                IF p.trials >= 20 THEN "pareto_nsga2" ELSE "pareto_trade_study", {})
    ELSE IF p.noise = "high" THEN Advice("experimental", "robust_doe_taguchi", {})
    ELSE IF p.risk = "high" THEN Advice("hybrid", "bounded_trade_study", {})
    ELSE IF p.shape \in {"mixed", "categorical"} THEN Advice("experimental", "tpe", {})
    ELSE IF p.shape = "continuous" /\ p.differentiable
    THEN Advice("experimental", "gradient_method", {})
    ELSE IF p.shape = "continuous" /\ p.measurement = "expensive" /\ p.factors <= 12
    THEN Advice("experimental", "bayesian_optimization", {})
    ELSE IF p.factors >= 4 THEN Advice("experimental", "screening_doe", {})
    ELSE IF p.shape = "discrete"
    THEN Advice(IF p.risk = "low" THEN "decision" ELSE "hybrid",
                "trade_study_scenario_stress", {})
    ELSE Advice("hybrid", "bounded_trade_study", {})

Route(p) == IF p.task = "deterministic" \/ p.shape = "none"
            THEN Advice("skip", "direct_verification", {})
            ELSE IF Spikes(p).mode # "none" THEN Spikes(p)
            ELSE Experiments(p)

-------------------------------------------------------------------------------
RouteEmpty == profile = DefaultProfile

RouteInit == RouteEmpty

Revise(f, value) == /\ profile[f] # value
                    /\ profile' = [profile EXCEPT ![f] = value]

RouteNext == \E f \in DOMAIN Fields : \E value \in Fields[f] : Revise(f, value)

RouteSpec == RouteInit /\ [][RouteNext]_profile

-------------------------------------------------------------------------------
\* No numbers are made up: an experiment is only advised for a task with
\* parameters, a repeatable measurement and a budget; advice without them is a
\* comparison of recorded cases, or names what is missing.
RouteJustified ==
    LET advice == Route(profile)
    IN  /\ advice.mode \in {"experimental", "hybrid"} =>
              profile.trials >= 1 /\ ~Unmeasured(profile) /\ profile.shape # "none"
        /\ advice.mode = "decision" => ~Unmeasured(profile) \/ profile.cases
        /\ (advice.mode = "research_spike") <=> (advice.missing # {})
===============================================================================
