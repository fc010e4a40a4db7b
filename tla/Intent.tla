------------------------------- MODULE Intent -------------------------------
(***************************************************************************)
(* What job a task is about: the label that a query and a recorded         *)
(* Experience are compared by. A text is a sequence of words, a label the  *)
(* sequence of its parts; plurals, hyphens and the words that carry no     *)
(* meaning here are left out, and the tables keep the entries that can     *)
(* interfere with one another.                                             *)
(***************************************************************************)
EXTENDS Integers, Sequences, FiniteSets, SequencesExt

\* FORMATS and ACTIONS.
FormatTable == [csv   |-> {<<"csv">>},
                json  |-> {<<"json">>},
                jsonl |-> {<<"jsonl">>, <<"newline", "delimited", "json">>},
                xlsx  |-> {<<"xlsx">>, <<"spreadsheet">>}]

ActionTable == [convert  |-> {<<"convert">>, <<"export">>},
                extract  |-> {<<"extract">>},
                validate |-> {<<"validate">>, <<"check">>},
                test     |-> {<<"run", "tests">>, <<"pytest">>}]

DirectionWords == {"to", "into", "from", "as", "in"}
CompoundWordGap == 2
UNKNOWN == <<"unknown">>

\* The first place an alias stands, as the span of its words.
Places(text, alias) ==
  {[first |-> i, last |-> i + Len(alias) - 1] : i \in
     {j \in 1..(Len(text) - Len(alias) + 1) : SubSeq(text, j, j + Len(alias) - 1) = alias}}

\* A label stands where it is mentioned first, in the longest reading there.
Mentions(text, aliases) == UNION {Places(text, alias) : alias \in aliases}
Best(spans) == CHOOSE s \in spans : \A t \in spans :
                 s.first < t.first \/ (s.first = t.first /\ s.last >= t.last)

\* The members of S in a total order of it, a set of pairs: each is preceded by
\* all that come before it.
Sorted(S, before) ==
  [p \in 1..Cardinality(S) |-> CHOOSE x \in S : Cardinality({y \in S : <<y, x>> \in before}) = p - 1]

\* _matches: a reading inside the span of a longer one is dropped.
Matches(text, table) ==
  LET spans == {[at |-> Best(Mentions(text, table[label])), label |-> label] :
                  label \in {l \in DOMAIN table : Mentions(text, table[l]) # {}}}
      inside(s, t) == /\ t.at.first <= s.at.first /\ s.at.last <= t.at.last
                      /\ t.at.last - t.at.first > s.at.last - s.at.first
      kept == {s \in spans : \A t \in spans : ~inside(s, t)}
  IN  Sorted(kept, {e \in kept \X kept : e[1].at.first < e[2].at.first})

\* _collapse_compounds: of two formats in one phrase the later is the head.
Collapsed(hits, text) ==
  LET compound(p, hit) == /\ hit.at.first - p.at.first <= CompoundWordGap
                          /\ \A i \in (p.at.first + 1)..(hit.at.first - 1) : text[i] \notin DirectionWords
      take(kept, hit) == IF kept # <<>> /\ compound(Last(kept), hit)
                         THEN Append(Front(kept), hit) ELSE Append(kept, hit)
  IN  FoldLeft(take, <<>>, hits)

\* The first "from", between the two formats, turns them around.
TurnedAround(hits, text) ==
  \E i \in (hits[1].at.first + 1)..(hits[2].at.first - 1) :
    text[i] = "from" /\ \A j \in 1..(i - 1) : text[j] # "from"

\* normalize, and the canonical label of the Intent it makes.
Normalize(text) ==
  LET formats == Collapsed(Matches(text, FormatTable), text)
      actions == Matches(text, ActionTable)
      f(i) == formats[i].label
  IN  CASE Len(formats) >= 2 /\ TurnedAround(formats, text) -> <<f(2), "to", f(1)>>
        [] Len(formats) >= 2 /\ ~TurnedAround(formats, text) -> <<f(1), "to", f(2)>>
        [] Len(formats) = 1 /\ actions # <<>> -> <<actions[1].label, f(1)>>
        [] Len(formats) = 0 /\ actions # <<>> -> <<actions[1].label>>
        [] OTHER -> UNKNOWN

\* canonical_label: a recorded label, read as if it had been asked.
CanonicalLabel(label) == Normalize(label)

\* What a conversion emits, or nothing.
Produces(label) == IF Len(label) = 3 THEN {label[3]} ELSE {}

-----------------------------------------------------------------------------
(* Properties, of one task.                                                *)

\* A label normalize produced is left alone by canonical_label, as its
\* docstring has it.
FixedPoint(text) == CanonicalLabel(Normalize(text)) = Normalize(text)

\* That much holds of every task that does not run tests: whatever stands
\* between, before or around its formats, its recorded label reads back.
FixedButForTests(text) == Normalize(text)[1] # "test" => FixedPoint(text)

\* Words that are only part of a longer name are not read as a name of their
\* own: without a JSON that stands alone, no label has JSON in it. Only the
\* first mention of a format is looked at, so the longer name must be it: of
\* "jsonl newline delimited json" the JSON is read, for all that the comment on
\* FORMATS says.
LongestReading(text) ==
  /\ \A i \in DOMAIN text : text[i] = "json" => i > 2 /\ text[i - 2] = "newline" /\ text[i - 1] = "delimited"
  /\ \A i \in DOMAIN text : text[i] = "jsonl" => \E j \in 1..(i - 1) : text[j] = "json"
  => "json" \notin Range(Normalize(text))

=============================================================================
