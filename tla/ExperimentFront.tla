---------------------------- MODULE ExperimentFront ---------------------------
(***************************************************************************)
(* evaluate_optimization of mission-center-policy: the rows that an        *)
(* experiment has observed are taken in their order within the budget of   *)
(* the manifest, and the candidates that no other one beats are put        *)
(* forward for review.                                                     *)
(*                                                                         *)
(* Rows come one after the other here; the function is given all of them   *)
(* and its loop takes them in that order, so what it returns after n rows  *)
(* is what the definitions say of the state after n steps.  Tokens stand   *)
(* for seconds as well.  Composite losses and differences to a baseline    *)
(* are sums nobody decides on; they are left out.                          *)
(***************************************************************************)
EXTENDS Naturals, Sequences, FiniteSetsExt

CONSTANTS
    Candidates,     \* what is compared
    Cases,          \* what it is tried on
    Metrics,        \* what is measured
    Maximized,      \* the metrics of which more is better
    Constrained,    \* metrics with a lower bound among the hard constraints
    MaxValue,       \* bound on what is measured
    MaxTokens,      \* bound on the cost of a row
    NoValue,        \* a metric that a row does not give
    Trials,         \* budget: rows
    TokenLimit,     \* budget: tokens
    Retries,        \* budget: repetitions of a candidate on a case
    MaxRows         \* bound on the number of rows

\* What validate_optimization_manifest asks for.
ASSUME ManifestAssumption ==
    /\ Metrics # {} /\ Maximized \subseteq Metrics /\ Constrained \subseteq Metrics
    /\ {Trials, TokenLimit} \subseteq Nat \ {0}
    /\ Retries \in 0 .. 1
    /\ {MaxValue, MaxTokens, MaxRows} \subseteq Nat

VARIABLES
    attempts,   \* rows of every candidate and case, the skipped ones included
    accepted,   \* the rows within the budget
    exhausted,  \* the budget has stopped the loop
    rows        \* number of rows so far

experimentVars == <<attempts, accepted, exhausted, rows>>

\* A row of candidate and case, its cost, and what was measured.
Observation == [candidate : Candidates, case : Cases, tokens : 0 .. MaxTokens,
        metrics : [Metrics -> (0 .. MaxValue) \cup {NoValue}]]

ExperimentTypeOK == /\ attempts \in [Candidates \X Cases -> 0 .. MaxRows]
                    /\ accepted \in Seq(Observation)
                    /\ exhausted \in BOOLEAN
                    /\ rows \in 0 .. MaxRows

-------------------------------------------------------------------------------
AcceptedRows == {accepted[n] : n \in 1 .. Len(accepted)}

Cost(l) == MapThenSumSet(LAMBDA n : l[n].tokens, 1 .. Len(l))

Used == Cost(accepted)

Complete(r) == \A m \in Metrics : r.metrics[m] # NoValue

\* A hard constraint asks for at least 1.
Passes(r) == \A m \in Constrained : r.metrics[m] >= 1

ValidRows == {r \in AcceptedRows : Complete(r) /\ Passes(r)}

NoWorse(r, s) == \A m \in Metrics : IF m \in Maximized
                                    THEN r.metrics[m] >= s.metrics[m]
                                    ELSE r.metrics[m] <= s.metrics[m]

Dominates(r, s) ==
    /\ NoWorse(r, s)
    /\ \E m \in Metrics : IF m \in Maximized
                          THEN r.metrics[m] > s.metrics[m]
                          ELSE r.metrics[m] < s.metrics[m]

ParetoFront == {r \in ValidRows : \A s \in ValidRows : s # r => ~Dominates(s, r)}

Pareto == {r.candidate : r \in ParetoFront}

Recommendation == IF Pareto # {} /\ \A r \in AcceptedRows : Complete(r)
                  THEN "review" ELSE "insufficient_evidence"

-------------------------------------------------------------------------------
ExperimentEmpty == /\ attempts = [k \in Candidates \X Cases |-> 0]
                   /\ accepted = <<>>
                   /\ exhausted = FALSE
                   /\ rows = 0

ExperimentInit == ExperimentEmpty

Attempt(r) == attempts' = [attempts EXCEPT ![<<r.candidate, r.case>>] = @ + 1]

\* Mutant of Exhausts: the cost of the row itself is not looked at.
ExhaustsLate(r) == Len(accepted) >= Trials \/ Used > TokenLimit

Exhausts(r) == Len(accepted) >= Trials \/ Used + r.tokens > TokenLimit

\* Repetitions beyond the retries are passed over, and cost nothing.
Skip(r) == /\ attempts[<<r.candidate, r.case>>] > Retries
           /\ Attempt(r)
           /\ UNCHANGED <<accepted, exhausted>>

Accept(r) == /\ attempts[<<r.candidate, r.case>>] <= Retries
             /\ ~Exhausts(r)
             /\ Attempt(r)
             /\ accepted' = Append(accepted, r)
             /\ UNCHANGED exhausted

\* The first row beyond the budget ends the loop.
Exhaust(r) == /\ attempts[<<r.candidate, r.case>>] <= Retries
              /\ Exhausts(r)
              /\ Attempt(r)
              /\ exhausted' = TRUE
              /\ UNCHANGED accepted

Observe(r) == /\ rows < MaxRows
              /\ ~exhausted
              /\ rows' = rows + 1
              /\ Skip(r) \/ Accept(r) \/ Exhaust(r)

ExperimentNext == \E r \in Observation : Observe(r)

ExperimentSpec == ExperimentInit /\ [][ExperimentNext]_experimentVars

-------------------------------------------------------------------------------
\* Whatever is observed, in whatever order, what counts stays within the budget.
BudgetKept ==
    /\ Len(accepted) <= Trials
    /\ Used <= TokenLimit
    /\ \A c \in Candidates, k \in Cases :
          Cardinality({n \in 1 .. Len(accepted) :
             accepted[n].candidate = c /\ accepted[n].case = k}) <= Retries + 1

\* No result is lost on the way to the front: a row that passes is matched or
\* beaten by a row of a candidate that is put forward; so a review is never
\* asked for without a candidate, and never about one that something beats.
FrontCovers ==
    /\ \A r \in ValidRows : \E s \in ParetoFront : NoWorse(s, r) /\ s.candidate \in Pareto
    /\ Recommendation = "review" => ValidRows # {}
===============================================================================
