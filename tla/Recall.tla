------------------------------- MODULE Recall -------------------------------
(***************************************************************************)
(* One recall: the hard filters, the two halves of retrieval, their        *)
(* fusion, the scoring of what survived, and what is recommended. The      *)
(* three queries see the registry as it is at three moments, and the third *)
(* reads the candidates by id alone. Shares are percents, scores hundredths *)
(* of a percent; a lexical rank is in hundredths.                          *)
(***************************************************************************)
EXTENDS Integers, Sequences, FiniteSets, FiniteSetsExt, SequencesExt, Intent

CONSTANTS
  CandidatePool,
  MinOrganizations  \* EVIDENCE_MIN_PROMOTION_ORGANIZATIONS

ASSUME RecallAssumption == CandidatePool \in Nat \ {0}

-----------------------------------------------------------------------------
(* Who may see what, and what could run there.                             *)

\* visibility_clause, the SQL predicate.
VisibilityClause(who, row) ==
  \/ row.visibility = "public"
  \/ row.org = who.org /\ row.visibility = "organization"
  \/ row.org = who.org /\ row.visibility = "private" /\ row.author = who.agent

\* policy.visible_to, the check in memory.
VisibleTo(who, row) ==
  \/ row.visibility = "public"
  \/ who.org = row.org /\ (row.visibility = "private" => who.agent = row.author)

\* ExperienceRepository.get, of the row with the id, if there is one: what
\* another organization keeps to itself is not told from what is not there.
Get(who, rows) ==
  CASE \E row \in rows : VisibleTo(who, row) -> "found"
    [] \E row \in rows : ~VisibleTo(who, row) /\ row.org = who.org -> "forbidden"
    [] \A row \in rows : ~VisibleTo(who, row) /\ row.org # who.org -> "not found"

\* base_query: the hard filters. A runtime is a name and a major version.
Fits(query, row) ==
  /\ VisibilityClause(query.who, row)
  /\ row.status \notin {"deprecated", "quarantined"}
  /\ row.current
  /\ row.platform = query.platform
  /\ query.runtime = "" \/ row.runtime \in {"", query.runtime}
  /\ query.network \/ ~row.network
  /\ row.capabilities \subseteq query.capabilities

\* compatibility: how well a survivor's environment matches.
Compatibility(query, row) ==
  IF \/ row.platform # query.platform
     \/ row.runtime # "" /\ query.runtime # "" /\ row.runtime # query.runtime
  THEN 0
  ELSE IF row.major # 0 /\ query.major # 0 /\ row.major # query.major THEN 50 ELSE 100

-----------------------------------------------------------------------------
(* Retrieval.                                                              *)

Least(a, b) == IF a < b THEN a ELSE b
Most(a, b) == IF a > b THEN a ELSE b

\* Ids with a score, best first, as the query returns them: ties in any order
\* (here: by id), and no more than the pool.
Cut(ids, score) ==
  LET before == {e \in ids \X ids :
                   \/ score[e[1]] > score[e[2]]
                   \/ score[e[1]] = score[e[2]] /\ e[1] < e[2]}
      best == Sorted(ids, before)
  IN  SubSeq(best, 1, Least(CandidatePool, Len(best)))

Lexical(query, corpus) ==
  Cut({i \in DOMAIN corpus : Fits(query, corpus[i]) /\ corpus[i].lexical # 0}, [i \in DOMAIN corpus |-> corpus[i].lexical])

\* Every version has an embedding; a cosine distance of one is a similarity
\* of none.
Vector(query, corpus) ==
  Cut({i \in DOMAIN corpus : Fits(query, corpus[i]) /\ corpus[i].cosine # 0}, [i \in DOMAIN corpus |-> corpus[i].cosine])

\* reciprocal_rank_fusion of the two, with k = 60.
Fusion(lexical, vector, i) ==
  LET share(ranking) == IF i \in Range(ranking) THEN 1000000 \div (60 + (CHOOSE p \in DOMAIN ranking : ranking[p] = i)) ELSE 0
  IN  share(lexical) + share(vector)

Candidates(lexical, vector) ==
  LET ids == Range(lexical) \cup Range(vector)
  IN  Range(Cut(ids, [i \in ids |-> Fusion(lexical, vector, i)]))

-----------------------------------------------------------------------------
(* Scoring.                                                                *)

\* What each signal is worth, of what relevance leaves.
QualityWeights == [compatibility |-> 30, confidence |-> 34, usage |-> 10, corroboration |-> 7,
                   recency |-> 12, latency |-> 5, risk |-> 2]
VerificationStrength == [unverified |-> 0, claimed |-> 60, proven |-> 100]
RunsPerOrganizationCap == 10
CorroborationSaturation == 3
RelevanceFloor == 45
LexicalScale == 12
IntentMatchBonus == 15
IntentMismatchFactor == 80
FreshHours == 24
StaleAfterDays == 90
UseThreshold == 7000
ConsiderThreshold == 4000
MinScore == 3000

\* relevance_of: the stronger claim of the two halves.
RelevanceOf(lexical, cosine, top) == Most(Least(100, (100 * lexical) \div Most(LexicalScale, top)), cosine)

\* intent_relevance: a bonus for the same job, a malus for another product.
IntentRelevance(relevance, wanted, label) ==
  CASE wanted = label /\ wanted # UNKNOWN -> Least(100, relevance + IntentMatchBonus)
    [] wanted # label /\ Produces(wanted) # {} /\ Produces(label) # {} /\ Produces(wanted) # Produces(label)
         -> (relevance * IntentMismatchFactor) \div 100
    [] OTHER -> relevance

\* The square root, rounded down, of a number below 2^30.
Root(n) ==
  FoldLeft(LAMBDA r, b : IF (r + b) * (r + b) <= n THEN r + b ELSE r, 0,
           <<16384, 8192, 4096, 2048, 1024, 512, 256, 128, 64, 32, 16, 8, 4, 2, 1>>)

\* wilson_lower_bound, for z = 1.96 and up to some dozens of runs: with n runs
\* of which s passed, (s + z^2/2 - z * sqrt(s * f / n + z^2/4)) / (n + z^2).
Wilson(s, f) ==
  IF s + f = 0 THEN 0
  ELSE Most(0, (10000 * s + 19208 - (196 * Root(1000 * ((1000 * s * f) \div (s + f)) + 960400)) \div 10)
                 \div (100 * (s + f) + 384))

\* corroborated_successes and confidence_score.
CorroboratedSuccesses(stat) == Least(stat.good, Most(stat.orgs, 1) * RunsPerOrganizationCap)
Confidence(stat) == (Wilson(CorroboratedSuccesses(stat), stat.bad) * VerificationStrength[stat.level]) \div 100

\* corroboration_score, recency_score of an age in hours and latency_score of
\* a median in milliseconds, -1 being None.
Corroboration(orgs) == Least(100, (100 * orgs) \div CorroborationSaturation)
Recency(age) ==
  IF age = -1 THEN 0
  ELSE IF age <= FreshHours THEN 100
  ELSE Most(0, 100 - (100 * (age - FreshHours)) \div (StaleAfterDays * 24))
Latency(median) == IF median = -1 THEN 50 ELSE 500000 \div (5000 + median)

\* usage_score: a third for every digit.
Usage(good) == CASE good = 0 -> 0 [] good \in 1..8 -> 15 [] good \in 9..98 -> 40 [] OTHER -> 66

\* risk_score, as what is left of it.
Safety(row) == 100 - Least(100, (IF row.network THEN 60 ELSE 0) + Least(40, 10 * Cardinality(row.capabilities)))

Quality(query, row) ==
  QualityWeights.compatibility * Compatibility(query, row)
    + QualityWeights.confidence * Confidence(row.stat) + QualityWeights.usage * Usage(row.stat.good)
    + QualityWeights.corroboration * Corroboration(row.stat.orgs) + QualityWeights.recency * Recency(row.stat.age)
    + QualityWeights.latency * Latency(row.stat.median) + QualityWeights.risk * Safety(row)

\* Variant: relevance counts once.
ScoreLinear(relevance, quality) == (relevance * (100 * RelevanceFloor + ((100 - RelevanceFloor) * quality) \div 100)) \div 100

\* score: relevance multiplies, and counts twice.
ScoreOf(relevance, quality) == (relevance * relevance * (100 * RelevanceFloor + ((100 - RelevanceFloor) * quality) \div 100)) \div 10000

\* recommend.
Recommend(final, compatibility, orgs) ==
  CASE compatibility # 0 /\ final >= UseThreshold /\ orgs >= MinOrganizations -> "use"
    [] compatibility # 0 /\ final >= ConsiderThreshold /\ ~(final >= UseThreshold /\ orgs >= MinOrganizations) -> "consider"
    [] OTHER -> "avoid"

-----------------------------------------------------------------------------
(* The answer.                                                             *)

\* _ranked: the score, then the successes, then the id.
Ranked(a, b) ==
  \/ a.final > b.final
  \/ a.final = b.final /\ a.good > b.good
  \/ a.final = b.final /\ a.good = b.good /\ a.id < b.id

\* One candidate, scored on the row the third query read.
Scored(query, lexical, vector, seen, corpus, i) ==
  LET row == corpus[i]
      top == IF lexical = <<>> THEN 0 ELSE seen[1][lexical[1]].lexical
      had(ranking, score) == IF i \in Range(ranking) THEN score ELSE 0
      relevance == IntentRelevance(
        RelevanceOf(had(lexical, seen[1][i].lexical), had(vector, seen[2][i].cosine), top),
        query.intent, row.intent)
      final == ScoreOf(relevance, Quality(query, row))
  IN  [id |-> i, final |-> final, good |-> row.stat.good, relevance |-> relevance,
       recommendation |-> Recommend(final, Compatibility(query, row), row.stat.orgs)]

\* A stable sort of what came back at some places of a list.
StablySorted(rows, places) ==
  LET before == {e \in places \X places :
                   \/ Ranked(rows[e[1]], rows[e[2]])
                   \/ ~Ranked(rows[e[2]], rows[e[1]]) /\ e[1] < e[2]}
      sorted == Sorted(places, before)
  IN  [p \in DOMAIN sorted |-> rows[sorted[p]]]

\* recall and _merge_and_rank, with the rows of the third query in one order
\* or the other: seen is the registry at the three moments.
Outcome(query, seen, upwards) ==
  LET lexical == Lexical(query, seen[1])
      vector == Vector(query, seen[2])
      ids == Candidates(lexical, vector)
      rows == Sorted(ids, {e \in ids \X ids : IF upwards THEN e[1] < e[2] ELSE e[1] > e[2]})
      scored == [p \in DOMAIN rows |-> Scored(query, lexical, vector, seen, seen[3], rows[p])]
      sorted == StablySorted(scored, {p \in DOMAIN scored : scored[p].final >= MinScore})
  IN  [matches |-> SubSeq(sorted, 1, Least(query.limit, Len(sorted))),
       considered |-> Len(rows), cleared |-> Len(sorted),
       best |-> Max({0} \cup {scored[p].final : p \in DOMAIN scored})]

-----------------------------------------------------------------------------
(* Properties, of one recall.                                              *)

\* The same question gets the same answer, in whatever order the database
\* returns the rows of the third query.
SameAnswer(query, seen) == Outcome(query, seen, TRUE) = Outcome(query, seen, FALSE)

\* Everything offered passed every hard filter at one of the two moments it
\* was looked for, can be read by its id by whoever asked, and is recommended
\* for use only when enough organizations proved it by then.
OnlyTheFit(query, seen) ==
  \A m \in Range(Outcome(query, seen, TRUE).matches) :
    /\ \E moment \in 1..2 : Fits(query, seen[moment][m.id])
    /\ Get(query.who, {seen[3][m.id]}) = "found"
    /\ m.recommendation = "use" => seen[3][m.id].stat.orgs >= MinOrganizations

\* No evidence lifts what answers another question: a match that is less than
\* two thirds as relevant as another never comes before it.
RelevanceWins(query, seen) ==
  LET matches == Outcome(query, seen, TRUE).matches
  IN  \A p, q \in DOMAIN matches : p < q => 3 * matches[p].relevance >= 2 * matches[q].relevance

\* What a miss is remembered with is true: nothing cleared the threshold, and
\* the best score says so.
MissesAreMisses(query, seen) ==
  LET outcome == Outcome(query, seen, TRUE)
  IN  outcome.matches = <<>> <=> outcome.cleared = 0 /\ outcome.best < MinScore

=============================================================================
