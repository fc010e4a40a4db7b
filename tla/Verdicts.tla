------------------------------ MODULE Verdicts ------------------------------
(***************************************************************************)
(* What a run proves. The artifact ends somehow and leaves a file behind;  *)
(* the runtime makes a result of that, the verifier that its version       *)
(* declares judges the result, now or later from what was stored of it,    *)
(* and the parties whose runs passed are counted. A file is told apart by  *)
(* what verifiers see in it: absent, no text, no JSON, other JSON, or the  *)
(* right one, which matches the schema and has the digest declared.        *)
(***************************************************************************)
EXTENDS Integers, FiniteSets

\* STRONG_VERIFIERS: those that check what the run produced.
Strong == {"json_schema", "sha256"}

-----------------------------------------------------------------------------
(* From the run to the result.                                             *)

\* A run is how it ended, with which status, and the file it left. Outputs are
\* collected from an artifact that succeeded, and only then; -1 is None.
Collected(run) ==
  CASE run.end = "exit" /\ run.code = 0 -> [status |-> "SUCCEEDED", code |-> 0, file |-> run.file]
    [] run.end = "exit" /\ run.code # 0 -> [status |-> "FAILED", code |-> run.code, file |-> "absent"]
    [] run.end = "timeout" -> [status |-> "TIMEOUT", code |-> -1, file |-> "absent"]
    [] run.end = "error" -> [status |-> "FAILED", code |-> -1, file |-> "absent"]

\* The outputs have an object of their own, unless there are none.
Stored(result) ==
  [status |-> result.status, code |-> result.code,
   outputs |-> IF result.file = "absent" THEN {} ELSE {result.file}]

\* _reconstruct_result: what a later verification goes by.
Reconstructed(row) ==
  [status |-> row.status, code |-> row.code,
   file |-> IF row.outputs = {} THEN "absent" ELSE CHOOSE f \in row.outputs : TRUE]

-----------------------------------------------------------------------------
(* From the result to the verdict. A declaration is the verifier's name and *)
(* what its configuration has: a status, a file, a schema, a digest.        *)

Fail == [passed |-> FALSE, level |-> "unverified"]
\* No verdict: the verifier raises, and with it the request that asked.
Raises == [passed |-> FALSE, level |-> "none"]
Pass(level) == [passed |-> TRUE, level |-> level]

\* exit_code: the floor, a claim.
ExitCode(result, declared) ==
  IF \/ result.status # "SUCCEEDED" /\ declared.expected = 0
     \/ result.code # declared.expected
  THEN Fail ELSE Pass("claimed")

\* Variant: a document that parses is enough, with a schema or without.
JsonSchemaParsed(result, declared) ==
  CASE declared.file /\ result.file = "binary" -> Raises
    [] ~declared.file \/ result.file \in {"absent", "garbage"} -> Fail
    [] declared.file /\ result.file \in {"other", "right"} -> Pass("proven")

\* json_schema: that it parses is a claim, that it matches a schema a proof.
\* Bytes that are no text are not the JSONDecodeError it waits for.
JsonSchema(result, declared) ==
  CASE declared.file /\ result.file = "binary" -> Raises
    [] ~declared.file \/ result.file \in {"absent", "garbage"} -> Fail
    [] declared.file /\ result.file \in {"other", "right"} /\ ~declared.schema -> Pass("claimed")
    [] declared.file /\ result.file = "other" /\ declared.schema -> Fail
    [] declared.file /\ result.file = "right" /\ declared.schema -> Pass("proven")

\* sha256: the bytes themselves.
Sha256(result, declared) ==
  IF declared.file /\ declared.digest /\ result.file = "right" THEN Pass("proven") ELSE Fail

\* RegistryVerifier.
Verdict(result, declared) ==
  CASE declared.verifier = "exit_code" -> ExitCode(result, declared)
    [] declared.verifier = "json_schema" -> JsonSchema(result, declared)
    [] declared.verifier = "sha256" -> Sha256(result, declared)
    [] OTHER -> Fail

-----------------------------------------------------------------------------
(* From the verdicts to the parties behind them.                           *)

\* independent_organizations, with what a trailing * matches: the operator's
\* own organizations among these.
FirstParty(organizations, exact, prefixed) == organizations \cap (exact \cup prefixed)

\* collapse: they count once between them, together.
Parties(organizations, exact, prefixed) ==
  LET ours == FirstParty(organizations, exact, prefixed)
  IN  IF organizations = {} THEN 0
      ELSE Cardinality(organizations \ ours) + (IF ours = {} THEN 0 ELSE 1)

Corroborated(parties, minimum) == parties >= minimum

-----------------------------------------------------------------------------
(* Properties.                                                             *)

\* Nobody proves anything by the way they end: a proof takes an artifact that
\* ended well and left the right file where a strong verifier looks for it,
\* although no strong verifier looks at how it ended. What passes without
\* having ended well is an exit status that was asked for, as a claim.
ProofsAreEarned(run, declared) ==
  LET verdict == Verdict(Collected(run), declared)
      endedWell == run.end = "exit" /\ run.code = 0
  IN  /\ verdict.level = "proven" => endedWell /\ run.file = "right" /\ declared.verifier \in Strong
      /\ verdict.passed /\ declared.verifier \in Strong => endedWell /\ run.file \in {"other", "right"}
      /\ verdict.passed /\ ~endedWell =>
           /\ run.end = "exit" /\ run.code = declared.expected /\ declared.expected # 0
           /\ declared.verifier = "exit_code" /\ verdict.level = "claimed"

\* A verification that is run again, from what was stored, says the same.
VerdictsAreRepeatable(run, declared) ==
  Verdict(Reconstructed(Stored(Collected(run))), declared) = Verdict(Collected(run), declared)

\* One more organization never lowers the count of parties, nor adds more than
\* one to it; the operator alone is one party at most, however many of its
\* organizations run a thing, and never corroborates itself.
PartiesAreIndependent(organizations, exact, prefixed, another) ==
  LET parties == Parties(organizations, exact, prefixed)
  IN  /\ Parties(organizations \cup {another}, exact, prefixed) \in {parties, parties + 1}
      /\ organizations \subseteq exact \cup prefixed => ~Corroborated(parties, 2)
      /\ parties <= Cardinality(organizations)
      /\ Corroborated(parties, 2) => \E o \in organizations : o \notin exact \cup prefixed

=============================================================================
