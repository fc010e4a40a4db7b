------------------------------- MODULE MCRules ------------------------------
(***************************************************************************)
(* Every kind of question, over small answers.                             *)
(***************************************************************************)
EXTENDS Rules, TLC

-----------------------------------------------------------------------------
(* Recall: three versions, seen at three moments.                          *)

Unproven == [good |-> 0, bad |-> 0, orgs |-> 0, level |-> "unverified", age |-> -1, median |-> -1]
OwnProof == [good |-> 30, bad |-> 0, orgs |-> 1, level |-> "claimed", age |-> 3, median |-> 500]
Proven == [good |-> 30, bad |-> 1, orgs |-> 3, level |-> "proven", age |-> 3, median |-> 500]

Plain == [visibility |-> "public", org |-> "mine", author |-> "me", status |-> "verified", current |-> TRUE,
          platform |-> "linux", runtime |-> "", major |-> 0, network |-> FALSE, capabilities |-> {},
          intent |-> <<"csv", "to", "json">>, lexical |-> 6, cosine |-> 70, stat |-> Unproven]

\* The version the question is about, and two it competes with.
Shapes ==
  UNION {{[Plain EXCEPT !.lexical = l, !.cosine = c, !.stat = s] : l \in {0, 6, 30}, c \in {0, 55, 95}, s \in {Unproven, OwnProof, Proven}},
         {[Plain EXCEPT !.visibility = v, !.org = o, !.author = a, !.stat = Proven] :
            v \in {"public", "organization", "private"}, o \in {"mine", "theirs"}, a \in {"me", "other"}},
         {[Plain EXCEPT !.runtime = r, !.major = m, !.stat = Proven] : r \in {"", "python", "node"}, m \in {0, 2, 3}},
         {[Plain EXCEPT !.stat = [Proven EXCEPT !.age = a, !.median = m]] : a \in {24, 25, 2184, 5000}, m \in {-1, 0, 5000}},
         {[Plain EXCEPT !.network = TRUE], [Plain EXCEPT !.platform = "mac"], [Plain EXCEPT !.capabilities = {"gpu"}],
          [Plain EXCEPT !.status = "deprecated"], [Plain EXCEPT !.intent = <<"json", "to", "csv">>],
          [Plain EXCEPT !.runtime = "python", !.major = 2, !.cosine = 95]}}
Rivals == {Plain, [Plain EXCEPT !.stat = Proven, !.cosine = 95], [Plain EXCEPT !.stat = Proven, !.cosine = 0],
           [Plain EXCEPT !.intent = <<"json", "to", "csv">>, !.stat = Proven], [Plain EXCEPT !.lexical = 30]}

\* What may have changed by the next of the three queries.
Moves(row) == {row, [row EXCEPT !.status = "quarantined"], [row EXCEPT !.current = FALSE], [row EXCEPT !.stat = OwnProof]}

MCQuery == [who |-> [org |-> "mine", agent |-> "me"], platform |-> "linux", runtime |-> "python", major |-> 3,
            network |-> FALSE, capabilities |-> {}, intent |-> <<"csv", "to", "json">>, limit |-> 2]

-----------------------------------------------------------------------------
(* The other questions.                                                    *)

Words == {"csv", "json", "jsonl", "newline", "delimited", "spreadsheet", "from", "to", "validate", "pytest"}

\* a is the root; b may be seen, c and d as the graph has it.
Ids == {"a", "b", "c", "d"}
Graphs == {[edges |-> [i \in Ids |-> IF i = "a" THEN <<"b", "c">> ELSE e[i]], visible |-> v] :
             e \in [{"b", "c", "d"} -> {<<>>, <<"a", "d">>, <<"d", "c">>, <<"b">>}], v \in {{"b"}, {"b", "c"}, {"b", "c", "d"}}}

Calendars == {[weekend |-> w, holidays |-> {g, h}, observe |-> o] :
                w \in {{5, 6}, {4, 5}, {6}, {0, 6}}, g \in 0..6, h \in 4..7, o \in BOOLEAN}

Zone == [offset |-> 1, changes |-> <<[at |-> 50, offset |-> 2], [at |-> 100, offset |-> 1], [at |-> 140, offset |-> 3]>>]

Runs == [end : {"exit", "timeout", "error"}, code : 0..2, file : {"absent", "binary", "garbage", "other", "right"}]
Declarations == [verifier : {"exit_code", "json_schema", "sha256", "http"}, expected : 0..2,
                 file : BOOLEAN, schema : BOOLEAN, digest : BOOLEAN]

Lines == [kind : {"row"}, tenths : {10, 15, 27}, credit : BOOLEAN, status : {"P", "H"}]
           \cup {[kind |-> "short", tenths |-> 10, credit |-> FALSE, status |-> "P"]}

\* Groups of so many digits, and what separates them.
Written(groups, separators) ==
  FlattenSeq([i \in DOMAIN groups |->
    (IF i = 1 THEN <<>> ELSE <<separators[i - 1]>>) \o [d \in 1..groups[i] |-> "0"]])

-----------------------------------------------------------------------------
(* The questions.                                                          *)

MCQueries ==
  {[query |-> MCQuery, seen |-> <<<<row, rival, Plain>>, <<later, rival, Plain>>, <<last, rival, Plain>>>>] :
     <<row, rival, later, last>> \in
       UNION {{row} \X Rivals \X Moves(row) \X Moves(row) : row \in Shapes}}
MCTasks == UNION {[1..n -> Words] : n \in 1..4}
MCLookups ==
  {[graph |-> graph, root |-> "a", depth |-> depth,
    other |-> [graph EXCEPT !.edges = [i \in Ids |-> IF i \in graph.visible \cup {"a"} THEN @[i] ELSE hidden]]] :
     graph \in Graphs, depth \in {1, 3}, hidden \in {<<>>, <<"b", "d">>}}
MCTrials == [run : Runs, declared : Declarations]
MCAlliances == [organizations : SUBSET (1..3), exact : SUBSET (1..3), prefixed : SUBSET (1..3), another : 1..4]

\* A numeric date may be written with any numbers, a textual one names a month.
MCWrittenDates ==
  {[form |-> form, a |-> a, b |-> b, c |-> c, short |-> c < 100, rest |-> rest] :
     a, b \in {0, 1, 2, 4, 11, 12, 13, 29, 30, 31, 32}, c \in {0, 23, 68, 69, 2023, 2024},
     form \in {"numeric"}, rest \in {"none", "time", "beyond", "other"}}
  \cup
  {[form |-> "textual", a |-> a, b |-> b, c |-> c, short |-> FALSE, rest |-> rest] :
     a \in {0, 1, 2, 4, 11, 12, 13, 29, 30, 31, 32}, b \in {0, 1, 2, 4, 11, 12}, c \in {2023, 2024},
     rest \in {"none", "time", "beyond", "other"}}
  \cup
  {[form |-> "ymd", a |-> year, b |-> month, c |-> day, short |-> FALSE, rest |-> "none"] :
     year \in {0, 1900, 2000, 2023}, month, day \in {0, 2, 4, 12, 13, 28, 29, 30, 31}}
MCDeadlines == [calendar : Calendars, from : 0..7, n : -2..2]
MCShifts == [zone : {Zone}, start : 47..146, delta : {-48, -24, -1, 0, 1, 2, 24, 49}]
MCAppointments == [zone : {Zone}, start : 47..146, days : {1, 2}, count : {3}]
MCCycles ==
  [start : {date \in [year : {2023, 2024}, month : 1..12 \ {2}, day : {1, 28, 29, 30, 31}] :
              date.day = 31 => date.month \notin {4, 6, 9, 11}},
   interval : 1..5, count : {6}]
MCDivisions == [weights : UNION {[1..n -> 0..3] : n \in 1..3}, units : {0, 1, 2, 5, 10, 100}]
MCAdvices == UNION {[1..n -> Lines] : n \in 1..2}
MCWrittenAmounts ==
  UNION {{Written(groups, separators) :
            groups \in [1..n -> IF n < 4 THEN 0..4 ELSE 1..3], separators \in [1..(n - 1) -> {".", ","}]} : n \in 1..4}

=============================================================================
