---------------------------- MODULE RepairLoopProofs ----------------------------
(***************************************************************************)
(* RepairLoop for every choice of the budgets: the loop never runs out of  *)
(* rounds, never asks the same question twice, and certifies with a        *)
(* complete history.                                                       *)
(***************************************************************************)
EXTENDS RepairLoop, FiniteSetTheorems, TLAPS

\* The rounds of the loop with a controller are its retries and its repairs; each
\* repair may bring a candidate with an allowance of its own.
RoundsCounted ==
  Generic =>
    /\ \A b \in Budgets : used[b] <= Budget[b]
    /\ \A c \in Candidates : retries[c] <= InfrastructureRetries
    /\ step # "over" =>
         attempts <= Spent + Spent * InfrastructureRetries + retries[candidate]
    /\ step = "repairing" =>
         attempts + InfrastructureRetries
           <= Spent + Spent * InfrastructureRetries + retries[candidate]

\* Those of the loop without one are its repairs.
LegacyCounted ==
  ~Generic =>
    /\ used["environment"] <= LegacyRepairs /\ used["scenarios"] <= LegacyRepairs
    /\ step # "over" => attempts <= used["environment"] + used["scenarios"]

\* What the signature of a repair keeps of the report.
Key(D) == IF Infrastructure(D) # {} THEN Infrastructure(D) ELSE D

\* Every question that was asked has left its signature.
QuestionsSigned ==
  Generic =>
    /\ \A q \in asked : <<q[1], Key(q[2])>> \in signatures
    /\ IsFiniteSet(asked) /\ Cardinality(asked) = Spent

ResultsFollow ==
  Generic =>
    /\ step = "validating" => decisions = results
    /\ step = "repairing" => decisions = results + 1
    /\ outcome \in {"certified", "rejected"} => decisions = results + 1
    /\ step = "over" => decisions \in {results, results + 1}

Open == step # "over" <=> outcome = "none"

Inv ==
  /\ TypeOK /\ NeverExhausted /\ Open
  /\ RoundsCounted /\ LegacyCounted /\ QuestionsSigned /\ ResultsFollow

--------------------------------------------------------------------------------

LEMMA BudgetTypes ==
  /\ Budget \in [Budgets -> Nat]
  /\ Budget["compiler"] = CompilerCandidates /\ Budget["runtime"] = RuntimePatches
  /\ Budget["environment"] = EnvironmentPatches /\ Budget["scenarios"] = ScenarioPatches
  /\ CandidateRepairs \in Nat /\ DecisionBound \in Nat /\ InfrastructureRetries \in Nat
<1>1. \A x, y \in Nat : x * y \in Nat
  BY SMT
<1>2. CandidateRepairs \in Nat
  BY BudgetsAssumption DEF CandidateRepairs
<1>3. (CandidateRepairs + 1) * InfrastructureRetries \in Nat
  BY <1>1, <1>2, BudgetsAssumption
<1> QED
  BY <1>2, <1>3, BudgetsAssumption DEF Budget, Budgets, Phases, DecisionBound

\* One more repair is one more round and one more allowance of retries.
LEMMA OneMoreRepair ==
  ASSUME NEW n \in Nat, NEW r \in Nat
  PROVE  /\ n * r \in Nat /\ (n + 1) * r = n * r + r
BY SMT

LEMMA MoreRepairs ==
  ASSUME NEW m \in Nat, NEW n \in Nat, NEW r \in Nat, m <= n
  PROVE  m * r <= n * r
<1>1. PICK k \in Nat : n = m + k
  <2>1. n - m \in Nat /\ n = m + (n - m)
    OBVIOUS
  <2> QED
    BY <2>1
<1>2. n * r = m * r + k * r /\ m * r \in Nat /\ k * r \in Nat
  BY <1>1, SMT
<1> QED
  BY <1>2

LEMMA SpentIsNat ==
  ASSUME TypeOK
  PROVE  Spent \in Nat
BY DEF TypeOK, Spent, Budgets, Phases

\* The controller refuses before the rounds run out.
LEMMA RoundsSuffice ==
  ASSUME TypeOK, RoundsCounted, LegacyCounted, step # "over"
  PROVE  attempts < Rounds
<1> USE BudgetTypes
<1>1. CASE Generic
  <2>1. Spent \in Nat /\ Spent <= CandidateRepairs
    BY <1>1 DEF RoundsCounted, TypeOK, Spent, Budgets, Phases, CandidateRepairs
  <2>2. /\ Spent * InfrastructureRetries <= CandidateRepairs * InfrastructureRetries
        /\ Spent * InfrastructureRetries \in Nat
        /\ CandidateRepairs * InfrastructureRetries \in Nat
        /\ (CandidateRepairs + 1) * InfrastructureRetries
             = CandidateRepairs * InfrastructureRetries + InfrastructureRetries
    BY <2>1, MoreRepairs, OneMoreRepair
  <2>3. /\ retries[candidate] \in Nat /\ retries[candidate] <= InfrastructureRetries
        /\ attempts \in Nat
        /\ attempts <= Spent + Spent * InfrastructureRetries + retries[candidate]
    BY <1>1 DEF RoundsCounted, TypeOK
  <2>4. attempts < DecisionBound
    BY <2>1, <2>2, <2>3 DEF DecisionBound
  <2> QED
    BY <1>1, <2>4 DEF Rounds
<1>2. CASE ~Generic
  BY <1>2 DEF LegacyCounted, TypeOK, Rounds, LegacyRounds, LegacyRepairs, Budgets, Phases
<1> QED
  BY <1>1, <1>2

--------------------------------------------------------------------------------

LEMMA InitInv == Init => Inv
<1> SUFFICES ASSUME Init PROVE Inv
  OBVIOUS
<1> USE BudgetTypes DEF Init
<1>1. TypeOK
  BY DEF TypeOK, Phases
<1>2. Spent = 0
  BY DEF Spent, Budgets, Phases
<1>3. RoundsCounted
  <2>1. 0 * InfrastructureRetries = 0
    BY OneMoreRepair
  <2> QED
    BY <1>2, <2>1 DEF RoundsCounted, Budgets, Phases
<1>4. LegacyCounted
  BY DEF LegacyCounted, LegacyRepairs, Budgets, Phases
<1>5. QuestionsSigned
  BY <1>2, FS_EmptySet DEF QuestionsSigned
<1>6. ResultsFollow /\ Open /\ NeverExhausted
  BY DEF ResultsFollow, Open, NeverExhausted
<1> QED
  BY <1>1, <1>3, <1>4, <1>5, <1>6 DEF Inv

\* One unit of budget b, once.
LEMMA ChargeCounts ==
  ASSUME Inv, Generic, NEW b \in Budgets, NEW D \in Reports, Charge(b, D),
         used[b] < Budget[b], <<candidate, Key(D)>> \notin signatures
  PROVE  /\ used' \in [Budgets -> Nat] /\ \A x \in Budgets : used'[x] <= Budget[x]
         /\ Spent' = Spent + 1
         /\ signatures' \subseteq Candidates \X SUBSET Diagnostics
         /\ asked' \subseteq Candidates \X SUBSET Diagnostics
         /\ \A q \in asked' : <<q[1], Key(q[2])>> \in signatures'
         /\ IsFiniteSet(asked') /\ Cardinality(asked') = Spent'
         /\ decisions' = decisions + 1 /\ retries' = retries
<1> USE BudgetTypes
<1> USE DEF Inv
<1>1. used' = [used EXCEPT ![b] = @ + 1] /\ used \in [Budgets -> Nat]
  BY DEF Charge, TypeOK
<1>2. used' \in [Budgets -> Nat] /\ \A x \in Budgets : used'[x] <= Budget[x]
  BY <1>1 DEF RoundsCounted
<1>3. Spent' = Spent + 1
  BY <1>1 DEF Spent, Budgets, Phases
<1>4. D \in SUBSET Diagnostics /\ Infrastructure(D) \in SUBSET Diagnostics
  BY DEF Reports, Infrastructure, Of
<1>5. signatures' = signatures \cup {<<candidate, Key(D)>>}
  BY DEF Charge, Sign, Key
<1>6. asked' = asked \cup {<<candidate, D>>}
  BY DEF Charge
<1>7. candidate \in Candidates /\ Key(D) \in SUBSET Diagnostics
  BY <1>4 DEF TypeOK, Key
<1>8. signatures' \subseteq Candidates \X SUBSET Diagnostics
  BY <1>5, <1>7 DEF TypeOK
<1>9. asked' \subseteq Candidates \X SUBSET Diagnostics
  BY <1>4, <1>6, <1>7 DEF TypeOK
<1>10. \A q \in asked' : <<q[1], Key(q[2])>> \in signatures'
  BY <1>5, <1>6 DEF QuestionsSigned
<1>11. <<candidate, D>> \notin asked
  BY DEF QuestionsSigned
<1>12. IsFiniteSet(asked') /\ Cardinality(asked') = Spent'
  BY <1>3, <1>6, <1>11, FS_AddElement DEF QuestionsSigned
<1> QED
  BY <1>2, <1>3, <1>8, <1>9, <1>10, <1>12 DEF Charge

\* A round that ends in a repair.
LEMMA RepairRound ==
  ASSUME Inv, Generic, step = "validating", attempts' = attempts + 1,
         NEW b \in Budgets, NEW D \in Reports, Charge(b, D),
         used[b] < Budget[b], <<candidate, Key(D)>> \notin signatures,
         UNCHANGED <<mode, candidate, outcome>>
  PROVE  RoundsCounted' /\ LegacyCounted' /\ QuestionsSigned'
<1> USE BudgetTypes DEF Inv
<1>1. Generic'
  BY DEF Generic
<1>2. Spent \in Nat
  BY SpentIsNat
<1>3. /\ Spent' = Spent + 1 /\ retries' = retries
      /\ \A x \in Budgets : used'[x] <= Budget[x]
  BY ChargeCounts
<1>4. /\ Spent * InfrastructureRetries \in Nat
      /\ (Spent + 1) * InfrastructureRetries
           = Spent * InfrastructureRetries + InfrastructureRetries
  BY <1>2, OneMoreRepair
<1>5. /\ attempts \in Nat /\ retries[candidate] \in Nat
      /\ attempts <= Spent + Spent * InfrastructureRetries + retries[candidate]
  BY DEF TypeOK, RoundsCounted
<1>6. attempts' + InfrastructureRetries
        <= Spent' + Spent' * InfrastructureRetries + retries'[candidate']
  BY <1>2, <1>3, <1>4, <1>5
<1>7. RoundsCounted'
  <2>1. /\ Spent' * InfrastructureRetries \in Nat /\ Spent' \in Nat
        /\ retries'[candidate'] \in Nat /\ attempts' \in Nat
    BY <1>2, <1>3, <1>4, <1>5
  <2>2. attempts' <= Spent' + Spent' * InfrastructureRetries + retries'[candidate']
    BY <1>6, <2>1
  <2> QED
    BY <1>1, <1>3, <1>6, <2>2 DEF RoundsCounted
<1>8. QuestionsSigned'
  BY <1>1, ChargeCounts DEF QuestionsSigned
<1> QED
  BY <1>1, <1>7, <1>8 DEF LegacyCounted

LEMMA NextInv == Inv /\ [Next]_vars => Inv'
<1> SUFFICES ASSUME Inv, [Next]_vars PROVE Inv'
  OBVIOUS
<1> USE BudgetTypes
<1> USE DEF Inv
<1>s. Spent \in Nat
  BY SpentIsNat
<1>1. CASE Certify
  <2> USE <1>1 DEF Certify, Round, Over
  <2>1. TypeOK'
    BY DEF TypeOK
  <2>2. NeverExhausted' /\ Open' /\ RoundsCounted' /\ LegacyCounted'
    BY DEF NeverExhausted, Open, RoundsCounted, LegacyCounted, Generic
  <2>3. QuestionsSigned'
    BY DEF QuestionsSigned, Generic, Spent, Key
  <2>4. ResultsFollow'
    BY DEF ResultsFollow, Generic
  <2> QED
    BY <2>1, <2>2, <2>3, <2>4
<1>2. CASE Stop
  <2>0. attempts < Rounds
    BY <1>2, RoundsSuffice DEF Stop
  <2> USE <1>2, <2>0 DEF Stop, Round, Over, controllerVars
  <2>1. TypeOK'
    BY DEF TypeOK
  <2>2. NeverExhausted' /\ Open' /\ RoundsCounted' /\ LegacyCounted'
    BY DEF NeverExhausted, Open, RoundsCounted, LegacyCounted, Generic
  <2>3. QuestionsSigned' /\ ResultsFollow'
    BY DEF QuestionsSigned, Generic, Spent, Key, ResultsFollow
  <2> QED
    BY <2>1, <2>2, <2>3
<1>3. ASSUME NEW p \in Phases, NEW D \in Reports, Reject(p, D) PROVE Inv'
  <2> USE <1>3 DEF Reject, Reported, Round, Over
  <2>1. TypeOK'
    BY DEF TypeOK
  <2>2. NeverExhausted' /\ Open' /\ RoundsCounted' /\ LegacyCounted'
    BY DEF NeverExhausted, Open, RoundsCounted, LegacyCounted, Generic
  <2>3. QuestionsSigned' /\ ResultsFollow'
    BY DEF QuestionsSigned, Generic, Spent, Key, ResultsFollow
  <2> QED
    BY <2>1, <2>2, <2>3
<1>4. ASSUME NEW p \in Phases, NEW D \in Reports, Retry(p, D) PROVE Inv'
  <2> USE <1>4 DEF Retry, Reported, Round
  <2>1. TypeOK'
    BY DEF TypeOK
  <2>2. NeverExhausted' /\ Open'
    BY DEF NeverExhausted, Open
  <2>3. Spent' = Spent /\ Generic' /\ step' = "validating"
    BY DEF Spent, Generic
  <2>4. RoundsCounted'
    <3>1. /\ retries \in [Candidates -> Nat] /\ candidate \in Candidates
          /\ retries[candidate] < InfrastructureRetries
          /\ attempts \in Nat
      BY DEF TypeOK, RetryAllowed
    <3>2. /\ \A c \in Candidates : retries'[c] <= InfrastructureRetries
          /\ retries'[candidate'] = retries[candidate] + 1
      BY <3>1 DEF RoundsCounted
    <3>3. Spent * InfrastructureRetries \in Nat
      BY <1>s, OneMoreRepair
    <3>4. attempts' <= Spent' + Spent' * InfrastructureRetries + retries'[candidate']
      BY <1>s, <2>3, <3>1, <3>2, <3>3 DEF RoundsCounted
    <3> QED
      BY <2>3, <3>2, <3>4 DEF RoundsCounted
  <2>5. LegacyCounted'
    BY <2>3 DEF LegacyCounted
  <2>6. QuestionsSigned'
    BY <2>3 DEF QuestionsSigned, Key
  <2>7. ResultsFollow'
    BY <2>3 DEF ResultsFollow, TypeOK, Open
  <2> QED
    BY <2>1, <2>2, <2>4, <2>5, <2>6, <2>7
<1>5. ASSUME NEW p \in Phases, NEW D \in Reports, Recompile(p, D) PROVE Inv'
  <2> USE <1>5 DEF Recompile, Reported, Round
  <2>1. <<candidate, Key(D)>> \notin signatures /\ used["compiler"] < Budget["compiler"]
    BY DEF Recompiles, Repairable, Signed, Key, Affordable
  <2>2. "compiler" \in Budgets
    BY DEF Budgets
  <2>3. RoundsCounted' /\ LegacyCounted' /\ QuestionsSigned'
    BY <2>1, <2>2, RepairRound
  <2>4. TypeOK'
    BY <2>1, <2>2, ChargeCounts DEF TypeOK
  <2>5. NeverExhausted' /\ Open' /\ ResultsFollow'
    BY <2>1, <2>2, ChargeCounts DEF NeverExhausted, Open, ResultsFollow, TypeOK, Generic
  <2> QED
    BY <2>3, <2>4, <2>5
<1>6. ASSUME NEW p \in Phases, NEW D \in Reports, AskForPatch(p, D) PROVE Inv'
  <2> USE <1>6 DEF AskForPatch, Reported, Round
  <2>1. <<candidate, Key(D)>> \notin signatures /\ used[p] < Budget[p]
    <3>1. CASE Investigates(p, D)
      <4>1. Infrastructure(D) = {}
        BY <3>1 DEF Investigates, Infrastructure, Of
      <4> QED
        BY <3>1, <4>1 DEF Investigates, Signed, Key, Affordable
    <3>2. CASE RevisesRuntimePlan(p, D)
      BY <3>2 DEF RevisesRuntimePlan, Transient, Signed, Key, Affordable
    <3>3. CASE Patches(p, D)
      BY <3>3 DEF Patches, Repairable, Signed, Key, Affordable
    <3> QED
      BY <3>1, <3>2, <3>3
  <2>2. p \in Budgets
    BY DEF Budgets
  <2>3. RoundsCounted' /\ LegacyCounted' /\ QuestionsSigned'
    BY <2>1, <2>2, RepairRound
  <2>4. TypeOK'
    BY <2>1, <2>2, ChargeCounts DEF TypeOK
  <2>5. NeverExhausted' /\ Open' /\ ResultsFollow'
    BY <2>1, <2>2, ChargeCounts DEF NeverExhausted, Open, ResultsFollow, TypeOK, Generic
  <2> QED
    BY <2>3, <2>4, <2>5
<1>7. ASSUME NEW p \in Phases, AskLegacy(p) PROVE Inv'
  <2> USE <1>7 DEF AskLegacy, Round
  <2>0. used \in [Budgets -> Nat] /\ p \in Budgets /\ ~Generic'
    BY DEF TypeOK, Budgets, Generic
  <2>1. TypeOK'
    BY <2>0 DEF TypeOK
  <2>2. NeverExhausted' /\ Open' /\ RoundsCounted' /\ QuestionsSigned' /\ ResultsFollow'
    BY <2>0 DEF NeverExhausted, Open, RoundsCounted, QuestionsSigned, ResultsFollow
  <2>3. LegacyCounted'
    BY <2>0 DEF LegacyCounted, LegacyRepairs, TypeOK, Budgets, Phases
  <2> QED
    BY <2>1, <2>2, <2>3
<1>8. ASSUME NEW p \in Phases, RaiseLegacy(p) PROVE Inv'
  <2> USE <1>8 DEF RaiseLegacy, Round, Over, controllerVars
  <2>1. TypeOK'
    BY DEF TypeOK
  <2>2. NeverExhausted' /\ Open' /\ RoundsCounted' /\ LegacyCounted'
    BY DEF NeverExhausted, Open, RoundsCounted, LegacyCounted, Generic
  <2>3. QuestionsSigned' /\ ResultsFollow'
    BY DEF QuestionsSigned, ResultsFollow, Generic
  <2> QED
    BY <2>1, <2>2, <2>3
<1>9. ASSUME NEW h \in Candidates, RepairApplied(h) PROVE Inv'
  <2> USE <1>9 DEF RepairApplied, controllerVars
  <2>1. TypeOK'
    BY DEF TypeOK
  <2>2. NeverExhausted' /\ Open' /\ LegacyCounted'
    BY DEF NeverExhausted, Open, LegacyCounted, Generic
  <2>3. Spent' = Spent /\ Generic' = Generic
    BY DEF Spent, Generic
  <2>4. QuestionsSigned' /\ ResultsFollow'
    BY <2>3 DEF QuestionsSigned, ResultsFollow, Key, TypeOK, Open
  <2>5. RoundsCounted'
    <3>1. CASE ~Generic
      BY <3>1, <2>3 DEF RoundsCounted
    <3>2. CASE Generic
      <4>1. /\ attempts \in Nat /\ retries[candidate] \in Nat /\ retries[h] \in Nat
            /\ retries[candidate] <= InfrastructureRetries
            /\ attempts + InfrastructureRetries
                 <= Spent + Spent * InfrastructureRetries + retries[candidate]
        BY <3>2 DEF TypeOK, RoundsCounted
      <4>2. Spent * InfrastructureRetries \in Nat
        BY <1>s, OneMoreRepair
      <4>3. attempts <= Spent + Spent * InfrastructureRetries + retries[h]
        BY <1>s, <4>1, <4>2
      <4> QED
        BY <3>2, <2>3, <4>3 DEF RoundsCounted
    <3> QED
      BY <3>1, <3>2
  <2> QED
    BY <2>1, <2>2, <2>4, <2>5
<1>10. CASE RepairFailed \/ PatchRaises
  <2> USE <1>10 DEF RepairFailed, PatchRaises, Over, controllerVars
  <2>1. TypeOK'
    BY DEF TypeOK
  <2>2. NeverExhausted' /\ Open' /\ RoundsCounted' /\ LegacyCounted'
    BY DEF NeverExhausted, Open, RoundsCounted, LegacyCounted, Generic
  <2>3. QuestionsSigned' /\ ResultsFollow'
    BY DEF QuestionsSigned, Generic, Spent, Key, ResultsFollow
  <2> QED
    BY <2>1, <2>2, <2>3
<1>11. CASE CorrectScenarios
  <2> USE <1>11 DEF CorrectScenarios, controllerVars
  <2>1. TypeOK'
    BY DEF TypeOK
  <2>2. NeverExhausted' /\ Open' /\ RoundsCounted' /\ LegacyCounted'
    BY DEF NeverExhausted, Open, RoundsCounted, LegacyCounted, Generic, Spent
  <2>3. QuestionsSigned' /\ ResultsFollow'
    BY DEF QuestionsSigned, Generic, Spent, Key, ResultsFollow
  <2> QED
    BY <2>1, <2>2, <2>3
<1>12. CASE Done \/ UNCHANGED vars
  <2> USE <1>12 DEF Done, vars, controllerVars
  <2>1. TypeOK'
    BY DEF TypeOK
  <2>2. NeverExhausted' /\ Open' /\ RoundsCounted' /\ LegacyCounted'
    BY DEF NeverExhausted, Open, RoundsCounted, LegacyCounted, Generic, Spent
  <2>3. QuestionsSigned' /\ ResultsFollow'
    BY DEF QuestionsSigned, Generic, Spent, Key, ResultsFollow
  <2> QED
    BY <2>1, <2>2, <2>3
<1> QED
  BY <1>1, <1>2, <1>3, <1>4, <1>5, <1>6, <1>7, <1>8, <1>9, <1>10, <1>11, <1>12
  DEF Next

LEMMA Invariant == Spec => []Inv
BY InitInv, NextInv, PTL DEF Spec

--------------------------------------------------------------------------------

\* Every variable keeps its type, whatever the budgets.
THEOREM TypeCorrect == Spec => []TypeOK
<1>1. Inv => TypeOK
  BY DEF Inv
<1> QED
  BY <1>1, Invariant, PTL

\* Whatever the budgets, and whatever validations report and repairs do, the loop
\* stops by certifying or by raising a report, never by running out of rounds.
THEOREM BoundSuffices == Spec => []NeverExhausted
<1>1. Inv => NeverExhausted
  BY DEF Inv
<1> QED
  BY <1>1, Invariant, PTL

\* The controller asks for no repair twice for one report on one candidate.
THEOREM NeverAsksAgain == Spec => []EachQuestionOnce
<1>1. Inv => EachQuestionOnce
  BY DEF Inv, QuestionsSigned, EachQuestionOnce
<1> QED
  BY <1>1, Invariant, PTL

\* However the loop ends, every decision but the last has its result in the history.
THEOREM HistoryComplete == Spec => []OnlyLastUnanswered
<1>1. Inv => OnlyLastUnanswered
  BY DEF Inv, ResultsFollow, OnlyLastUnanswered
<1> QED
  BY <1>1, Invariant, PTL

================================================================================
