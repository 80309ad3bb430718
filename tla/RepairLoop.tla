------------------------------- MODULE RepairLoop -------------------------------
(***************************************************************************)
(* The loop that validates an authored harness and repairs it until it     *)
(* passes: validate_and_repair of                                          *)
(* src/src/fi/alk/harness/authoring_runtime_validation.py with the policy  *)
(* engine it asks, RepairController of repair_controller.py.               *)
(*                                                                         *)
(* A validation passes or reports a phase and a set of diagnostics; a      *)
(* repair, made by a language model, changes the candidate, leaves it as   *)
(* it is, fails or raises.  All of these are choices.  A diagnostic is its *)
(* kind, which stands for what the policy reads of it (owner, retryable,   *)
(* code), and an id, which stands for the rest of its fingerprint.         *)
(* Guidance, certificates and the files a repair edits are left out.       *)
(***************************************************************************)
EXTENDS Naturals, FiniteSets

CONSTANTS
  Candidates,   \* candidate hashes
  Ids,          \* fingerprints of diagnostics of one kind
  MaxReport,    \* bound: diagnostics of one report
  CompilerCandidates, RuntimePatches, EnvironmentPatches, ScenarioPatches,
  InfrastructureRetries   \* RepairBudgets

ASSUME BudgetsAssumption ==
  /\ CompilerCandidates \in Nat /\ RuntimePatches \in Nat
  /\ EnvironmentPatches \in Nat /\ ScenarioPatches \in Nat
  /\ InfrastructureRetries \in Nat

VARIABLES
  mode,        \* "legacy", "readiness" or "full": the generic flag and readiness_only
  step,        \* where the loop is
  attempts,    \* rounds of the loop begun
  candidate,   \* candidate_hash
  used,        \* _compiler_candidates, _runtime_patches, ...; repairs in legacy
  retries,     \* _infrastructure_retries
  signatures,  \* _repair_signatures
  asked,       \* history: what repairs were asked for
  phase,       \* exc.phase of the report being repaired
  corrections, \* scenario repairs undone in this round
  decisions,   \* len(_history)
  results,     \* len(_results)
  outcome

controllerVars == <<used, retries, signatures, asked, decisions>>
vars == <<mode, step, attempts, candidate, controllerVars, phase, corrections,
          results, outcome>>

Phases == {"runtime", "environment", "scenarios"}
Budgets == Phases \cup {"compiler"}

Budget == [b \in Budgets |->
  CASE b = "compiler" -> CompilerCandidates [] b = "runtime" -> RuntimePatches
    [] b = "environment" -> EnvironmentPatches [] OTHER -> ScenarioPatches]

\* The owner is the compiler or the author; infrastructure, retryable with a code
\* the runtime plan can mend, retryable, or not; one kind of chat setup failure;
\* the agent, the source, an unsupported construct or another setup failure.
Kinds == {"compiler", "authoring", "wiring", "outage", "egress", "chat", "foreign"}
Diagnostics == Kinds \X Ids
Reports == {D \in SUBSET Diagnostics : D # {} /\ Cardinality(D) <= MaxReport}

Of(D, kinds) == {d \in D : d[1] \in kinds}
Infrastructure(D) == Of(D, {"wiring", "outage", "egress"})

\* Rounds of the loop.  Mutant: one allowance of retries for all candidates.
CandidateRepairs ==
  CompilerCandidates + RuntimePatches + EnvironmentPatches + ScenarioPatches
BoundOneAllowance == 1 + CandidateRepairs + InfrastructureRetries
DecisionBound == 1 + CandidateRepairs + (CandidateRepairs + 1) * InfrastructureRetries

LegacyRounds == 5
LegacyRepairs == 2

Generic == mode # "legacy"
Rounds == IF Generic THEN DecisionBound ELSE LegacyRounds

Init ==
  /\ mode \in {"legacy", "readiness", "full"}
  /\ step = "validating" /\ attempts = 0
  /\ candidate \in Candidates
  /\ used = [b \in Budgets |-> 0]
  /\ retries = [c \in Candidates |-> 0]
  /\ signatures = {} /\ asked = {}
  /\ phase = "runtime" /\ corrections = 0
  /\ decisions = 0 /\ results = 0 /\ outcome = "none"

--------------------------------------------------------------------------------
(* RepairController.decide(), branch by branch. *)

Signed(D) == <<candidate, D>> \in signatures

Blocks(D) == Of(D, {"chat", "foreign"}) # {}

Affordable(b) == used[b] < Budget[b]

\* is_chat_setup_investigation: every diagnostic has the one code
Investigates(p, D) ==
  /\ p = "environment" /\ D = Of(D, {"chat"})
  /\ Affordable("environment") /\ ~Signed(D)

RetryAllowed == retries[candidate] < InfrastructureRetries

Transient(D) ==
  ~Blocks(D) /\ Infrastructure(D) # {} /\ Of(D, {"egress"}) = {}

RevisesRuntimePlan(p, D) ==
  /\ Transient(D) /\ ~RetryAllowed
  /\ Infrastructure(D) = Of(D, {"wiring"})
  /\ p # "scenarios" /\ Affordable(p) /\ ~Signed(Infrastructure(D))

Repairable(D) == ~Blocks(D) /\ Infrastructure(D) = {} /\ ~Signed(D)

Recompiles(D) == Repairable(D) /\ Of(D, {"compiler"}) # {} /\ Affordable("compiler")

Patches(p, D) == Repairable(D) /\ Of(D, {"compiler"}) = {} /\ Affordable(p)

Rejects(p, D) ==
  /\ ~Investigates(p, D) /\ ~RevisesRuntimePlan(p, D)
  /\ ~(Transient(D) /\ RetryAllowed) /\ ~Recompiles(D) /\ ~Patches(p, D)

\* The signature a repair of report D leaves.  Mutant: it leaves none.
SignNothing(D) == signatures
Sign(D) ==
  signatures \cup
    {<<candidate, IF Infrastructure(D) # {} THEN Infrastructure(D) ELSE D>>}

Charge(b, D) ==
  /\ used' = [used EXCEPT ![b] = @ + 1]
  /\ signatures' = Sign(D)
  /\ asked' = asked \cup {<<candidate, D>>}
  /\ decisions' = decisions + 1
  /\ UNCHANGED retries

--------------------------------------------------------------------------------
(* The loop. *)

Over(o) == step' = "over" /\ outcome' = o

Round == step = "validating" /\ attempts < Rounds /\ attempts' = attempts + 1

\* The validation reports D in phase p, and the controller is asked.
Reported(p, D) == Generic /\ Round /\ ~(mode = "readiness" /\ p = "scenarios")

\* The validation passes.
Certify ==
  /\ Round /\ Over("certified")
  /\ decisions' = IF Generic THEN decisions + 1 ELSE decisions
  /\ UNCHANGED <<mode, candidate, used, retries, signatures, asked, phase,
                 corrections, results>>

\* The validation raises something the controller is not asked about; or no round is
\* left, and the loop raises, or without a controller returns.
Stop ==
  /\ step = "validating"
  /\ IF attempts < Rounds THEN Round /\ Over("raised")
     ELSE Over("exhausted") /\ UNCHANGED attempts
  /\ UNCHANGED <<mode, candidate, controllerVars, phase, corrections, results>>

Reject(p, D) ==
  /\ Reported(p, D) /\ Rejects(p, D) /\ Over("rejected")
  /\ decisions' = decisions + 1
  /\ UNCHANGED <<mode, candidate, used, retries, signatures, asked, phase,
                 corrections, results>>

\* The loop sleeps, records the retry as applied and validates again.  Mutant: the
\* retry leaves no result.
RetryUnrecorded(p, D) ==
  /\ Reported(p, D) /\ Transient(D) /\ RetryAllowed
  /\ retries' = [retries EXCEPT ![candidate] = @ + 1]
  /\ decisions' = decisions + 1
  /\ UNCHANGED <<mode, step, candidate, used, signatures, asked, phase, corrections,
                 results, outcome>>
Retry(p, D) ==
  /\ Reported(p, D) /\ Transient(D) /\ RetryAllowed
  /\ retries' = [retries EXCEPT ![candidate] = @ + 1]
  /\ decisions' = decisions + 1 /\ results' = results + 1
  /\ UNCHANGED <<mode, step, candidate, used, signatures, asked, phase, corrections,
                 outcome>>

\* Validating again compiles again; the candidate is the same.
Recompile(p, D) ==
  /\ Reported(p, D) /\ Recompiles(D)
  /\ Charge("compiler", D)
  /\ results' = results + 1
  /\ UNCHANGED <<mode, step, candidate, phase, corrections, outcome>>

AskForPatch(p, D) ==
  /\ Reported(p, D)
  /\ Investigates(p, D) \/ RevisesRuntimePlan(p, D) \/ Patches(p, D)
  /\ Charge(p, D)
  /\ step' = "repairing" /\ phase' = p /\ corrections' = 0
  /\ UNCHANGED <<mode, candidate, results, outcome>>

\* The loop without a controller.
AskLegacy(p) ==
  /\ ~Generic /\ Round
  /\ p # "runtime" /\ used[p] < LegacyRepairs
  /\ used' = [used EXCEPT ![p] = @ + 1]
  /\ step' = "repairing" /\ phase' = p
  /\ UNCHANGED <<mode, candidate, retries, signatures, asked, decisions, corrections,
                 results, outcome>>

RaiseLegacy(p) ==
  /\ ~Generic /\ Round
  /\ p = "runtime" \/ used[p] >= LegacyRepairs
  /\ Over("raised")
  /\ UNCHANGED <<mode, candidate, controllerVars, phase, corrections, results>>

\* The repair left candidate h (the old one: "no material change").
RepairApplied(h) ==
  /\ step = "repairing" /\ step' = "validating"
  /\ candidate' = h
  /\ results' = IF Generic THEN results + 1 ELSE results
  /\ UNCHANGED <<mode, attempts, controllerVars, phase, corrections, outcome>>

\* It raised, or was refused: recorded as failed, and the report is raised.
RepairFailed ==
  /\ step = "repairing" /\ Over("raised")
  /\ results' = IF Generic THEN results + 1 ELSE results
  /\ UNCHANGED <<mode, attempts, candidate, controllerVars, phase, corrections>>

\* A runtime plan patch that cannot be applied, the last correction of scenarios
\* that cannot be certified, and a correction that raises leave the loop with no
\* result recorded.
PatchRaises ==
  /\ step = "repairing" /\ Generic
  /\ phase = "scenarios" => corrections > 0
  /\ Over("raised")
  /\ UNCHANGED <<mode, attempts, candidate, controllerVars, phase, corrections, results>>

\* Scenarios that cannot be certified are undone and asked for again.
CorrectScenarios ==
  /\ step = "repairing" /\ Generic
  /\ phase = "scenarios" /\ corrections < ScenarioPatches
  /\ corrections' = corrections + 1
  /\ UNCHANGED <<mode, step, attempts, candidate, controllerVars, phase, results, outcome>>

Done == step = "over" /\ UNCHANGED vars

Next ==
  \/ Certify \/ Stop
  \/ \E p \in Phases, D \in Reports :
       Reject(p, D) \/ Retry(p, D) \/ Recompile(p, D) \/ AskForPatch(p, D)
  \/ \E p \in Phases : AskLegacy(p) \/ RaiseLegacy(p)
  \/ \E h \in Candidates : RepairApplied(h)
  \/ RepairFailed \/ PatchRaises \/ CorrectScenarios \/ Done

Spec == Init /\ [][Next]_vars

--------------------------------------------------------------------------------

TypeOK ==
  /\ mode \in {"legacy", "readiness", "full"}
  /\ step \in {"validating", "repairing", "over"}
  /\ outcome \in {"none", "certified", "rejected", "raised", "exhausted"}
  /\ candidate \in Candidates /\ phase \in Phases
  /\ used \in [Budgets -> Nat] /\ retries \in [Candidates -> Nat]
  /\ attempts \in Nat /\ corrections \in Nat /\ decisions \in Nat /\ results \in Nat
  /\ signatures \subseteq Candidates \X SUBSET Diagnostics
  /\ asked \subseteq Candidates \X SUBSET Diagnostics

\* The last candidate is always validated.  "Derive the guard from the controller's
\* real budgets so increasing autonomous repair depth cannot make this outer loop
\* terminate before the final candidate is validated": whatever the budgets, the
\* controller refuses before the rounds run out, so that a passing repair is never
\* raised as "decision bound exhausted", and the loop without a controller never
\* falls through its five rounds and returns as if it had passed.
NeverExhausted == outcome # "exhausted"

Spent ==
  used["compiler"] + used["runtime"] + used["environment"] + used["scenarios"]

\* No repair is asked for twice for the same report on the same candidate, although
\* the candidate may return to what it was before, a report may mix owners, and
\* three branches of decide() each keep their own signatures in the one set.
EachQuestionOnce == Generic => Cardinality(asked) = Spent

\* The history is complete: however the loop ends, every decision but the last has the
\* result of its execution, whatever was retried, recompiled, patched or corrected on
\* the way.  The last has none if it certifies or rejects, and may have none if what
\* it asked for raised.
OnlyLastUnanswered ==
  Generic /\ step = "over" =>
    /\ outcome \in {"certified", "rejected"} => decisions = results + 1
    /\ decisions \in {results, results + 1}

\* "Persist complete candidate and repair history": only a decision that certifies or
\* rejects has no result (the code does not keep this).
PersistedHistoryComplete ==
  Generic /\ step = "over" =>
    decisions = results + IF outcome \in {"certified", "rejected"} THEN 1 ELSE 0

================================================================================
