-------------------------- MODULE QuestionsProofs --------------------------
(***************************************************************************)
(* Proofs about Questions for any number of agents, organizations, halts,  *)
(* answers and edits.                                                      *)
(***************************************************************************)
EXTENDS Questions, FiniteSetTheorems, SequenceTheorems, WellFoundedInduction, TLAPS

-----------------------------------------------------------------------------
(* The operators.                                                          *)

\* A set of places of a list, when it is not empty, has a last one.
LEMMA LastOne ==
  ASSUME NEW n \in Nat, NEW S \in SUBSET (1..n), S # {}
  PROVE  Max(S) \in S
<1> DEFINE T == {n - x : x \in S}
<1>1. T \in SUBSET Nat /\ T # {}
  <2>1. \A x \in S : n - x \in Nat
    OBVIOUS
  <2> QED
    BY <2>1
<1>2. PICK t \in T : \A u \in T : <<u, t>> \notin OpToRel(<, Nat)
  BY <1>1, NatLessThanWellFounded, WFMin
<1>3. PICK x \in S : t = n - x
  BY <1>2
<1>4. ASSUME NEW y \in S PROVE x >= y
  <2>1. x \in Nat /\ y \in Nat /\ n - y \in Nat /\ n - x \in Nat /\ n - y \in T
    BY <1>1
  <2>2. ~(n - y < n - x)
    <3> SUFFICES ASSUME n - y < n - x PROVE FALSE
      OBVIOUS
    <3>1. <<n - y, n - x>> \in OpToRel(<, Nat)
      BY <2>1 DEF OpToRel
    <3> QED
      BY <1>2, <1>3, <2>1, <3>1
  <2> QED
    BY <2>1, <2>2
<1> QED
  BY <1>4 DEF Max

\* What a caller is served is a committed answer that stands and that nobody
\* disputes, verified or its own; and it is nothing only if there is none.
LEMMA Current ==
  ASSUME TypeOK, NEW q, NEW agent
  PROVE  /\ \/ CurrentAnswer(q, agent) = None
            \/ /\ CurrentAnswer(q, agent) \in StandingOn(q)
               /\ ~answer[CurrentAnswer(q, agent)].disputed
         /\ CurrentAnswer(q, agent) = None => \A i \in DOMAIN written :
              ~(/\ written[i] \in StandingOn(q) /\ ~answer[written[i]].disputed
                /\ answer[written[i]].verified \/ answer[written[i]].by = agent)
<1> DEFINE usable == {i \in DOMAIN written :
                        /\ written[i] \in StandingOn(q)
                        /\ ~answer[written[i]].disputed
                        /\ answer[written[i]].verified \/ answer[written[i]].by = agent}
<1>1. CurrentAnswer(q, agent) = IF usable = {} THEN None ELSE written[Max(usable)]
  BY DEF CurrentAnswer
<1>2. CASE usable = {}
  BY <1>1, <1>2
<1>3. CASE usable # {}
  <2>1. Len(written) \in Nat /\ usable \in SUBSET (1..Len(written))
    BY DEF TypeOK
  <2> HIDE DEF usable
  <2>2. Max(usable) \in usable
    BY <1>3, <2>1, LastOne
  <2>3. CurrentAnswer(q, agent) \in StandingOn(q) /\ ~answer[CurrentAnswer(q, agent)].disputed
    BY <1>1, <1>3, <2>2 DEF usable
  <2>4. CurrentAnswer(q, agent) # None
    BY <2>3, QuestionsAssumption DEF StandingOn, AnswersTo
  <2> QED
    BY <2>3, <2>4
<1> QED
  BY <1>2, <1>3

\* One out of a list leaves the others in it.
LEMMA OneLeaves ==
  ASSUME NEW s \in Seq(Replies), NEW i \in DOMAIN s
  PROVE  /\ RemoveAt(s, i) \in Seq(Replies)
         /\ \A a \in Replies : a # s[i] /\ (\E j \in DOMAIN s : s[j] = a) =>
              \E j \in DOMAIN RemoveAt(s, i) : RemoveAt(s, i)[j] = a
<1> DEFINE t == RemoveAt(s, i)
           u == SubSeq(s, 1, i - 1)
           v == SubSeq(s, i + 1, Len(s))
<1>0. i \in 1..Len(s) /\ Len(s) \in Nat
  OBVIOUS
<1>1. /\ t \in Seq(Replies) /\ Len(t) = Len(s) - 1
      /\ \A j \in 1..Len(t) : t[j] = IF j < i THEN s[j] ELSE s[j + 1]
  <2>1. u \in Seq(Replies) /\ Len(u) = i - 1 /\ \A j \in 1..(i - 1) : u[j] = s[j]
    BY <1>0
  <2>2. v \in Seq(Replies) /\ Len(v) = Len(s) - i /\ \A j \in 1..(Len(s) - i) : v[j] = s[j + i]
    BY <1>0
  <2>3. t = u \o v
    BY DEF RemoveAt
  <2> HIDE DEF t, u, v
  <2>4. t \in Seq(Replies) /\ Len(t) = Len(s) - 1
    BY <1>0, <2>1, <2>2, <2>3
  <2>5. ASSUME NEW j \in 1..Len(t) PROVE t[j] = IF j < i THEN s[j] ELSE s[j + 1]
    <3>1. CASE j < i
      BY <1>0, <2>1, <2>2, <2>3, <2>4, <3>1
    <3>2. CASE ~(j < i)
      <4>1. j - (i - 1) \in 1..(Len(s) - i) /\ j \in (Len(u) + 1)..(Len(u) + Len(v))
        BY <1>0, <2>1, <2>2, <2>4, <3>2
      <4>2. t[j] = v[j - Len(u)]
        <5>1. \A k \in 1..(Len(u) + Len(v)) : (u \o v)[k] = IF k <= Len(u) THEN u[k] ELSE v[k - Len(u)]
          BY <2>1, <2>2, ConcatProperties
        <5>2. Len(u) \in Nat /\ Len(v) \in Nat
          BY <2>1, <2>2
        <5>3. j \in 1..(Len(u) + Len(v)) /\ ~(j <= Len(u))
          BY <4>1, <5>2
        <5> QED
          BY <2>3, <5>1, <5>3
      <4>3. s[(j - (i - 1)) + i] = s[j + 1]
        BY <1>0
      <4> QED
        BY <2>1, <2>2, <3>2, <4>1, <4>2, <4>3
    <3> QED
      BY <3>1, <3>2
  <2> QED
    BY <2>4, <2>5
<1> HIDE DEF t
<1>2. ASSUME NEW j \in DOMAIN s, j # i PROVE \E k \in DOMAIN t : t[k] = s[j]
  <2>1. i \in 1..Len(s) /\ j \in 1..Len(s) /\ Len(s) \in Nat
    OBVIOUS
  <2>2. CASE j < i
    <3>1. j \in 1..Len(t) /\ t[j] = s[j]
      BY <1>1, <2>1, <2>2
    <3> QED
      BY <1>1, <3>1
  <2>3. CASE j > i
    <3>1. j - 1 \in 1..Len(t) /\ t[j - 1] = s[j]
      BY <1>1, <2>1, <2>3
    <3> QED
      BY <1>1, <3>1
  <2> QED
    BY <1>2, <2>1, <2>2, <2>3
<1>3. \A a \in Replies : a # s[i] /\ (\E j \in DOMAIN s : s[j] = a) => \E j \in DOMAIN t : t[j] = a
  BY <1>2
<1> QED
  BY <1>1, <1>3 DEF t

-----------------------------------------------------------------------------
(* The types.                                                              *)

\* What a halt, a reply, an edit and the rows they write become.
LEMMA RowTypes ==
  /\ NoAnswer \in AnswerRows
  /\ \A q \in QuestionRows : /\ [q EXCEPT !.asked = @ + 1] \in QuestionRows
                             /\ [q EXCEPT !.assumed = TRUE] \in QuestionRows
  /\ \A a \in AnswerRows : /\ [a EXCEPT !.served = @ + 1] \in AnswerRows
                           /\ [a EXCEPT !.verified = TRUE] \in AnswerRows
                           /\ [a EXCEPT !.disputed = TRUE] \in AnswerRows
                           /\ [a EXCEPT !.state = "in"] \in AnswerRows
  /\ \A a \in AnswerRows, r \in Replies : [a EXCEPT !.superseded = r, !.state = "in"] \in AnswerRows
  /\ \A h \in HaltRows : [h EXCEPT !.pc = "told"] \in HaltRows
  /\ \A r \in ReplyRows : [r EXCEPT !.pc = "inserted"] \in ReplyRows
  /\ \A e \in EditRows : [e EXCEPT !.pc = "done"] \in EditRows
<1>1. NoAnswer \in AnswerRows
  BY DEF NoAnswer, AnswerRows
<1>2. \A q \in QuestionRows : /\ [q EXCEPT !.asked = @ + 1] \in QuestionRows
                              /\ [q EXCEPT !.assumed = TRUE] \in QuestionRows
  <2> SUFFICES ASSUME NEW q \in QuestionRows
               PROVE  [q EXCEPT !.asked = @ + 1] \in QuestionRows /\ [q EXCEPT !.assumed = TRUE] \in QuestionRows
    OBVIOUS
  <2>1. q.asked + 1 \in Nat
    BY DEF QuestionRows
  <2> QED
    BY <2>1 DEF QuestionRows
<1>3. \A a \in AnswerRows : /\ [a EXCEPT !.served = @ + 1] \in AnswerRows
                            /\ [a EXCEPT !.verified = TRUE] \in AnswerRows
  <2> SUFFICES ASSUME NEW a \in AnswerRows
               PROVE  [a EXCEPT !.served = @ + 1] \in AnswerRows /\ [a EXCEPT !.verified = TRUE] \in AnswerRows
    OBVIOUS
  <2>1. a.served + 1 \in Nat
    BY DEF AnswerRows
  <2> QED
    BY <2>1 DEF AnswerRows
<1>4. \A a \in AnswerRows : /\ [a EXCEPT !.disputed = TRUE] \in AnswerRows
                            /\ [a EXCEPT !.state = "in"] \in AnswerRows
  BY DEF AnswerRows
<1>5. \A a \in AnswerRows, r \in Replies : [a EXCEPT !.superseded = r, !.state = "in"] \in AnswerRows
  BY DEF AnswerRows
<1>6. \A h \in HaltRows : [h EXCEPT !.pc = "told"] \in HaltRows
  BY DEF HaltRows
<1>7. \A r \in ReplyRows : [r EXCEPT !.pc = "inserted"] \in ReplyRows
  BY DEF ReplyRows
<1>8. \A e \in EditRows : [e EXCEPT !.pc = "done"] \in EditRows
  BY DEF EditRows
<1> QED
  BY <1>1, <1>2, <1>3, <1>4, <1>5, <1>6, <1>7, <1>8

\* The halts.
LEMMA HaltTypes ==
  ASSUME TypeOK, HaltInv, NEW h \in Halts, RecordQuestion(h)
  PROVE  TypeOK'
<1>1. ASSUME HaltLooks(h) PROVE TypeOK'
  <2>1. PICK agent \in Agents, need \in Needs :
          \E q \in IF Nearest(OrgOf[agent], need) = {} THEN {None} ELSE Nearest(OrgOf[agent], need) :
            halt' = [halt EXCEPT ![h] =
                       [pc |-> "looked", agent |-> agent, need |-> need, found |-> q,
                        asked |-> IF q = None THEN 0 ELSE question[q].asked,
                        answer |-> IF q = None THEN None ELSE CurrentAnswer(q, agent)]]
    BY <1>1 DEF HaltLooks
  <2>2. PICK q \in IF Nearest(OrgOf[agent], need) = {} THEN {None} ELSE Nearest(OrgOf[agent], need) :
            halt' = [halt EXCEPT ![h] =
                       [pc |-> "looked", agent |-> agent, need |-> need, found |-> q,
                        asked |-> IF q = None THEN 0 ELSE question[q].asked,
                        answer |-> IF q = None THEN None ELSE CurrentAnswer(q, agent)]]
    BY <2>1
  <2>3. q \in Halts \cup {None}
    BY DEF Nearest, OwnedBy, Asked
  <2>4. (IF q = None THEN 0 ELSE question[q].asked) \in Nat
    BY <2>3 DEF TypeOK, QuestionRows
  <2>5. (IF q = None THEN None ELSE CurrentAnswer(q, agent)) \in Replies \cup {None}
    BY Current DEF StandingOn, AnswersTo
  <2>6. halt' \in [Halts -> HaltRows]
    BY <2>2, <2>3, <2>4, <2>5 DEF TypeOK, HaltRows
  <2> QED
    BY <1>1, <2>6 DEF HaltLooks, TypeOK
<1>2. ASSUME HaltCounts(h) PROVE TypeOK'
  <2>1. question' \in [Halts -> QuestionRows]
    BY <1>2, RowTypes DEF HaltCounts, TypeOK
  <2>2. answer' \in [Replies -> AnswerRows]
    BY <1>2, RowTypes DEF HaltCounts, TypeOK
  <2>3. halt' \in [Halts -> HaltRows]
    BY <1>2, RowTypes DEF HaltCounts, TypeOK
  <2> QED
    BY <1>2, <2>1, <2>2, <2>3 DEF HaltCounts, TypeOK
<1>3. ASSUME HaltAsks(h) PROVE TypeOK'
  <2>1. question' \in [Halts -> QuestionRows]
    <3>1. halt[h] \in HaltRows
      BY DEF TypeOK
    <3>2. [asked |-> 1, agent |-> halt[h].agent, need |-> halt[h].need, assumed |-> FALSE] \in QuestionRows
      BY <3>1 DEF HaltRows, QuestionRows
    <3> QED
      BY <1>3, <3>2 DEF HaltAsks, TypeOK
  <2>2. halt' \in [Halts -> HaltRows]
    BY <1>3, RowTypes DEF HaltAsks, TypeOK
  <2> QED
    BY <1>3, <2>1, <2>2 DEF HaltAsks, TypeOK
<1> QED
  BY <1>1, <1>2, <1>3 DEF RecordQuestion

\* The answers.
LEMMA ReplyTypes ==
  ASSUME TypeOK, NEW r \in Replies, AnswerQuestion(r)
  PROVE  TypeOK'
<1>1. ASSUME ReplyInserts(r) PROVE TypeOK'
  <2>0. PICK agent \in Agents : \E q \in OwnedBy(OrgOf[agent]) :
          answer' = [answer EXCEPT ![r] = [NoAnswer EXCEPT
                       !.state = "open", !.question = q, !.by = question[q].agent, !.typed = agent,
                       !.knew = AnswersTo(q)]]
    BY <1>1 DEF ReplyInserts
  <2>1. PICK q \in OwnedBy(OrgOf[agent]) :
          answer' = [answer EXCEPT ![r] = [NoAnswer EXCEPT
                       !.state = "open", !.question = q, !.by = question[q].agent, !.typed = agent,
                       !.knew = AnswersTo(q)]]
    BY <2>0
  <2>2. q \in Halts /\ question[q].agent \in Agents \cup {None} /\ AnswersTo(q) \subseteq Replies
    BY DEF OwnedBy, Asked, AnswersTo, TypeOK, QuestionRows
  <2>3. [NoAnswer EXCEPT !.state = "open", !.question = q, !.by = question[q].agent, !.typed = agent,
                         !.knew = AnswersTo(q)] \in AnswerRows
    BY <2>2 DEF NoAnswer, AnswerRows
  <2>4. answer' \in [Replies -> AnswerRows]
    BY <2>1, <2>3 DEF TypeOK
  <2>5. reply' \in [Replies -> ReplyRows]
    BY <1>1, RowTypes DEF ReplyInserts, TypeOK
  <2>6. written' \in Seq(Replies)
    BY <1>1 DEF ReplyInserts, TypeOK
  <2> QED
    BY <1>1, <2>4, <2>5, <2>6 DEF ReplyInserts, TypeOK
<1>2. ASSUME ReplySupersedes(r) PROVE TypeOK'
  <2>1. [pc |-> "updated", sees |-> StandingOn(answer[r].question)] \in ReplyRows
    BY DEF StandingOn, AnswersTo, ReplyRows
  <2> QED
    BY <1>2, <2>1 DEF ReplySupersedes, TypeOK
<1>3. ASSUME ReplyCommits(r) PROVE TypeOK'
  <2>1. answer' \in [Replies -> AnswerRows]
    BY <1>3, RowTypes DEF ReplyCommits, TypeOK
  <2>2. [pc |-> "done", sees |-> {}] \in ReplyRows
    BY DEF ReplyRows
  <2> QED
    BY <1>3, <2>1, <2>2 DEF ReplyCommits, TypeOK
<1>4. ASSUME ReplyDies(r) PROVE TypeOK'
  <2>1. [pc |-> "dead", sees |-> {}] \in ReplyRows
    BY DEF ReplyRows
  <2>2. answer' \in [Replies -> AnswerRows]
    BY <1>4, RowTypes DEF ReplyDies, TypeOK
  <2>3. written' \in Seq(Replies)
    BY <1>4, OneLeaves DEF ReplyDies, TypeOK
  <2> QED
    BY <1>4, <2>1, <2>2, <2>3 DEF ReplyDies, TypeOK
<1> QED
  BY <1>1, <1>2, <1>3, <1>4 DEF AnswerQuestion

\* The second humans, and the guesses.
LEMMA EditTypes ==
  ASSUME TypeOK,
         \/ \E e \in Edits : VerifyAnswer(e) \/ DisputeAnswer(e)
         \/ \E q \in Halts : Assume(q)
         \/ UNCHANGED vars
  PROVE  TypeOK'
<1>1. ASSUME NEW e \in Edits, VerifyReads(e) \/ DisputeReads(e) PROVE TypeOK'
  <2>1. PICK a \in Replies, what \in {"verify", "dispute"} :
          edit' = [edit EXCEPT ![e] = [pc |-> "read", what |-> what, answer |-> a]]
    BY <1>1 DEF VerifyReads, DisputeReads, StandingOn, AnswersTo
  <2>2. [pc |-> "read", what |-> what, answer |-> a] \in EditRows
    BY DEF EditRows
  <2> QED
    BY <1>1, <2>1, <2>2 DEF VerifyReads, DisputeReads, TypeOK
<1>2. ASSUME NEW e \in Edits, Verify(e) \/ Dispute(e) PROVE TypeOK'
  <2>1. answer' \in [Replies -> AnswerRows]
    <3>1. CASE Verify(e)
      BY <3>1, RowTypes DEF Verify, TypeOK
    <3>2. CASE Dispute(e)
      BY <3>2, RowTypes DEF Dispute, TypeOK
    <3> QED
      BY <1>2, <3>1, <3>2
  <2>2. edit' \in [Edits -> EditRows]
    <3>1. edit' = [edit EXCEPT ![e].pc = "done"]
      BY <1>2 DEF Verify, Dispute
    <3> QED
      BY <3>1, RowTypes DEF TypeOK
  <2> QED
    BY <1>2, <2>1, <2>2 DEF Verify, Dispute, TypeOK
<1>3. ASSUME NEW q \in Halts, Assume(q) PROVE TypeOK'
  BY <1>3, RowTypes DEF Assume, TypeOK
<1>4. CASE UNCHANGED vars
  BY <1>4 DEF vars, TypeOK
<1> QED
  BY <1>1, <1>2, <1>3, <1>4 DEF VerifyAnswer, DisputeAnswer

\* Every row keeps its type.
LEMMA TypeStep ==
  ASSUME TypeOK, HaltInv, [Next]_vars
  PROVE  TypeOK'
BY HaltTypes, ReplyTypes, EditTypes DEF Next

-----------------------------------------------------------------------------
(* What is committed stays.                                                *)

\* An answer that is counted, verified or disputed is the answer it was.
LEMMA MarkedStays ==
  ASSUME TypeOK, NEW a \in Replies, NEW b,
         \/ answer' = answer
         \/ answer' = [answer EXCEPT ![b].served = @ + 1]
         \/ answer' = [answer EXCEPT ![b].verified = TRUE]
         \/ answer' = [answer EXCEPT ![b].disputed = TRUE]
  PROVE  /\ answer'[a].state = answer[a].state /\ answer'[a].question = answer[a].question
         /\ answer'[a].by = answer[a].by /\ answer'[a].knew = answer[a].knew
         /\ answer'[a].superseded = answer[a].superseded
<1>1. answer[a] \in AnswerRows
  BY DEF TypeOK
<1>2. CASE answer' = answer
  BY <1>2
<1>3. CASE answer' = [answer EXCEPT ![b].served = @ + 1]
  BY <1>1, <1>3 DEF TypeOK, AnswerRows
<1>4. CASE answer' = [answer EXCEPT ![b].verified = TRUE]
  BY <1>1, <1>4 DEF TypeOK, AnswerRows
<1>5. CASE answer' = [answer EXCEPT ![b].disputed = TRUE]
  BY <1>1, <1>5 DEF TypeOK, AnswerRows
<1> QED
  BY <1>2, <1>3, <1>4, <1>5

\* The steps of which that is all there is to say about the answers.
Elsewhere ==
  \/ \E h \in Halts : RecordQuestion(h)
  \/ \E e \in Edits : VerifyAnswer(e) \/ DisputeAnswer(e)
  \/ \E q \in Halts : Assume(q)
  \/ UNCHANGED vars

\* None of those puts up, moves or takes back an answer.
LEMMA ElsewhereStays ==
  ASSUME TypeOK, Elsewhere, NEW a \in Replies
  PROVE  /\ answer'[a].state = answer[a].state /\ answer'[a].question = answer[a].question
         /\ answer'[a].by = answer[a].by /\ answer'[a].knew = answer[a].knew
         /\ answer'[a].superseded = answer[a].superseded
         /\ written' = written /\ reply' = reply
<1>1. written' = written /\ reply' = reply
  BY DEF Elsewhere, RecordQuestion, HaltLooks, HaltCounts, HaltAsks, VerifyAnswer, VerifyReads, Verify,
         DisputeAnswer, DisputeReads, Dispute, Assume, vars
<1>2. \E b : \/ answer' = answer
             \/ answer' = [answer EXCEPT ![b].served = @ + 1]
             \/ answer' = [answer EXCEPT ![b].verified = TRUE]
             \/ answer' = [answer EXCEPT ![b].disputed = TRUE]
  BY DEF Elsewhere, RecordQuestion, HaltLooks, HaltCounts, HaltAsks, VerifyAnswer, VerifyReads, Verify,
         DisputeAnswer, DisputeReads, Dispute, Assume, vars
<1> QED
  BY <1>1, <1>2, MarkedStays

\* What the four steps of an answer do to the answers.
LEMMA InsertsRow ==
  ASSUME TypeOK, NEW r \in Replies, ReplyInserts(r)
  PROVE  /\ \A a \in Replies \ {r} : answer'[a] = answer[a] /\ reply'[a] = reply[a]
         /\ answer'[r].state = "open" /\ answer'[r].superseded = None /\ answer'[r].served = 0
         /\ reply[r].pc = "new" /\ reply'[r].pc = "inserted" /\ reply'[r].sees = reply[r].sees
         /\ \E agent \in Agents : /\ answer'[r].question \in OwnedBy(OrgOf[agent])
                                  /\ answer'[r].by = question[answer'[r].question].agent
         /\ answer'[r].knew = AnswersTo(answer'[r].question)
<1>1. PICK agent \in Agents : \E q \in OwnedBy(OrgOf[agent]) :
        answer' = [answer EXCEPT ![r] = [NoAnswer EXCEPT
                     !.state = "open", !.question = q, !.by = question[q].agent, !.typed = agent,
                     !.knew = AnswersTo(q)]]
  BY DEF ReplyInserts
<1>2. PICK q \in OwnedBy(OrgOf[agent]) :
        answer' = [answer EXCEPT ![r] = [NoAnswer EXCEPT
                     !.state = "open", !.question = q, !.by = question[q].agent, !.typed = agent,
                     !.knew = AnswersTo(q)]]
  BY <1>1
<1> DEFINE row == [NoAnswer EXCEPT !.state = "open", !.question = q, !.by = question[q].agent, !.typed = agent,
                                   !.knew = AnswersTo(q)]
<1>3. /\ row.state = "open" /\ row.question = q /\ row.by = question[q].agent /\ row.knew = AnswersTo(q)
      /\ row.superseded = None /\ row.served = 0
  BY DEF NoAnswer
<1>4. answer' = [answer EXCEPT ![r] = row]
  BY <1>2
<1> HIDE DEF row
<1>5. answer'[r] = row /\ \A a \in Replies \ {r} : answer'[a] = answer[a]
  BY <1>4 DEF TypeOK
<1>6. /\ \A a \in Replies \ {r} : reply'[a] = reply[a]
      /\ reply[r].pc = "new" /\ reply'[r].pc = "inserted" /\ reply'[r].sees = reply[r].sees
  BY DEF ReplyInserts, TypeOK, ReplyRows
<1> QED
  BY <1>3, <1>5, <1>6

\* A commit makes its answer stand, and those it had seen fall.
LEMMA CommitsRow ==
  ASSUME TypeOK, NEW r \in Replies, ReplyCommits(r), r \notin reply[r].sees,
         \A a \in reply[r].sees : answer[a].state = "in"
  PROVE  /\ \A a \in Replies : /\ answer'[a].question = answer[a].question /\ answer'[a].by = answer[a].by
                               /\ answer'[a].knew = answer[a].knew /\ answer'[a].served = answer[a].served
         /\ \A a \in Replies \ {r} : reply'[a] = reply[a]
         /\ answer'[r].state = "in" /\ answer'[r].superseded = answer[r].superseded
         /\ \A a \in reply[r].sees : answer'[a].state = "in" /\ answer'[a].superseded # None
         /\ \A a \in Replies \ (reply[r].sees \cup {r}) : answer'[a] = answer[a]
         /\ \A a \in Replies : answer[a].superseded # None => answer'[a].superseded = answer[a].superseded
         /\ reply[r].pc = "updated" /\ reply'[r] = [pc |-> "done", sees |-> {}]
<1>1. reply[r].pc = "updated" /\ reply' = [reply EXCEPT ![r] = [pc |-> "done", sees |-> {}]]
  BY DEF ReplyCommits
<1>2. (\A a \in Replies \ {r} : reply'[a] = reply[a]) /\ reply'[r] = [pc |-> "done", sees |-> {}]
  BY <1>1 DEF TypeOK
<1>3. /\ \A a \in Replies : answer[a] \in AnswerRows /\ reply[r].sees \subseteq Replies
      /\ None \notin Replies
  BY QuestionsAssumption DEF TypeOK, ReplyRows
<1> DEFINE Over(a) == [answer[a] EXCEPT !.superseded = r, !.state = "in"]
           In(a) == [answer[a] EXCEPT !.state = "in"]
<1>4. \A a \in Replies : answer'[a] = IF a \in reply[r].sees /\ answer[a].superseded = None THEN Over(a)
                                     ELSE IF a = r THEN In(a) ELSE answer[a]
  BY DEF ReplyCommits
<1>5. \A a \in Replies : /\ Over(a).state = "in" /\ Over(a).superseded = r /\ Over(a).question = answer[a].question
                         /\ Over(a).by = answer[a].by /\ Over(a).knew = answer[a].knew
                         /\ Over(a).served = answer[a].served
  BY <1>3 DEF AnswerRows
<1>6. \A a \in Replies : /\ In(a).state = "in" /\ In(a).superseded = answer[a].superseded
                         /\ In(a).question = answer[a].question /\ In(a).by = answer[a].by
                         /\ In(a).knew = answer[a].knew /\ In(a).served = answer[a].served
  BY <1>3 DEF AnswerRows
<1> HIDE DEF Over, In
<1>7. \A a \in Replies : /\ answer'[a].question = answer[a].question /\ answer'[a].by = answer[a].by
                         /\ answer'[a].knew = answer[a].knew /\ answer'[a].served = answer[a].served
  BY <1>4, <1>5, <1>6
<1>8. answer'[r].state = "in" /\ answer'[r].superseded = answer[r].superseded
  BY <1>4, <1>6
<1>9. ASSUME NEW a \in reply[r].sees PROVE answer'[a].state = "in" /\ answer'[a].superseded # None
  <2>1. a \in Replies /\ a # r /\ answer[a].state = "in"
    BY <1>3
  <2>2. CASE answer[a].superseded = None
    BY <1>3, <1>4, <1>5, <2>1, <2>2
  <2>3. CASE answer[a].superseded # None
    BY <1>4, <2>1, <2>3
  <2> QED
    BY <2>2, <2>3
<1>10. ASSUME NEW a \in Replies, answer[a].superseded # None PROVE answer'[a].superseded = answer[a].superseded
  BY <1>4, <1>6, <1>10
<1>11. \A a \in Replies \ (reply[r].sees \cup {r}) : answer'[a] = answer[a]
  BY <1>4
<1> QED
  BY <1>1, <1>2, <1>7, <1>8, <1>9, <1>10, <1>11

\* An answer whose request dies leaves nothing, and nobody else's changes.
LEMMA DiesRow ==
  ASSUME TypeOK, NEW r \in Replies, ReplyDies(r)
  PROVE  /\ answer'[r] = NoAnswer /\ reply'[r] = [pc |-> "dead", sees |-> {}]
         /\ reply[r].pc \in {"inserted", "updated"}
         /\ \A a \in Replies \ {r} : /\ answer'[a] = answer[a] /\ reply'[a] = reply[a]
                                     /\ (\E i \in DOMAIN written : written[i] = a) =>
                                          \E i \in DOMAIN written' : written'[i] = a
<1>1. /\ answer'[r] = NoAnswer /\ reply'[r] = [pc |-> "dead", sees |-> {}]
      /\ reply[r].pc \in {"inserted", "updated"}
      /\ \A a \in Replies \ {r} : answer'[a] = answer[a] /\ reply'[a] = reply[a]
  BY DEF ReplyDies, TypeOK
<1>2. PICK i \in DOMAIN written : written[i] = r /\ written' = RemoveAt(written, i)
  BY DEF ReplyDies
<1>3. written \in Seq(Replies)
  BY DEF TypeOK
<1>4. \A a \in Replies \ {r} : (\E j \in DOMAIN written : written[j] = a) =>
                               \E j \in DOMAIN written' : written'[j] = a
  BY <1>2, <1>3, OneLeaves
<1> QED
  BY <1>1, <1>4

\* The questions and the halts, which none of these touches.
LEMMA AnswersAside ==
  ASSUME NEW r \in Replies, AnswerQuestion(r)
  PROVE  question' = question /\ halt' = halt /\ edit' = edit
BY DEF AnswerQuestion, ReplyInserts, ReplySupersedes, ReplyCommits, ReplyDies

\* A question stays asked, by whom it was.
LEMMA AskedStays ==
  ASSUME TypeOK, HaltInv, [Next]_vars, NEW q \in Asked
  PROVE  q \in Asked' /\ question'[q].agent = question[q].agent
<1>1. q \in Halts /\ question[q] \in QuestionRows /\ question[q].asked > 0
  BY DEF Asked, TypeOK
<1>2. ASSUME NEW h \in Halts, RecordQuestion(h) PROVE q \in Asked' /\ question'[q].agent = question[q].agent
  <2>1. CASE HaltLooks(h)
    BY <1>1, <2>1 DEF HaltLooks, Asked
  <2>2. CASE HaltCounts(h)
    <3>1. question' = [question EXCEPT ![halt[h].found].asked = @ + 1]
      BY <2>2 DEF HaltCounts
    <3>2. question'[q].agent = question[q].agent /\ question'[q].asked > 0
      BY <1>1, <3>1 DEF TypeOK, QuestionRows
    <3> QED
      BY <1>1, <3>2 DEF Asked
  <2>3. CASE HaltAsks(h)
    <3>1. q # h
      BY <1>1, <2>3 DEF HaltAsks, HaltInv
    <3> QED
      BY <1>1, <2>3, <3>1 DEF HaltAsks, Asked, TypeOK
  <2> QED
    BY <1>2, <2>1, <2>2, <2>3 DEF RecordQuestion
<1>3. ASSUME NEW p \in Halts, Assume(p) PROVE q \in Asked' /\ question'[q].agent = question[q].agent
  <2>1. question' = [question EXCEPT ![p].assumed = TRUE]
    BY <1>3 DEF Assume
  <2>2. question'[q].agent = question[q].agent /\ question'[q].asked > 0
    BY <1>1, <2>1 DEF TypeOK, QuestionRows
  <2> QED
    BY <1>1, <2>2 DEF Asked
<1>4. CASE question' = question
  BY <1>1, <1>4 DEF Asked
<1> QED
  BY <1>2, <1>3, <1>4, AnswersAside
     DEF Next, vars, VerifyAnswer, VerifyReads, Verify, DisputeAnswer, DisputeReads, Dispute

\* What is committed stays committed, and superseded if it was.
LEMMA InStays ==
  ASSUME TypeOK, \A b \in Replies : AnswerInv(b), [Next]_vars, NEW a \in Replies, answer[a].state = "in"
  PROVE  /\ answer'[a].state = "in" /\ answer'[a].question = answer[a].question
         /\ answer'[a].knew = answer[a].knew
         /\ answer[a].superseded # None => answer'[a].superseded # None
<1>1. CASE Elsewhere
  BY <1>1, ElsewhereStays
<1>2. ASSUME NEW r \in Replies, ReplyInserts(r) PROVE answer'[a] = answer[a]
  BY <1>2, InsertsRow DEF AnswerInv
<1>3. ASSUME NEW r \in Replies, ReplySupersedes(r) PROVE answer'[a] = answer[a]
  BY <1>3 DEF ReplySupersedes
<1>4. ASSUME NEW r \in Replies, ReplyCommits(r)
      PROVE  /\ answer'[a].state = "in" /\ answer'[a].question = answer[a].question
             /\ answer'[a].knew = answer[a].knew
             /\ answer[a].superseded # None => answer'[a].superseded # None
  <2>1. AnswerInv(r)
    OBVIOUS
  <2>2. r \notin reply[r].sees /\ \A b \in reply[r].sees : answer[b].state = "in"
    BY <2>1 DEF AnswerInv, AnswersTo
  <2> QED
    BY <1>4, <2>2, CommitsRow
<1>5. ASSUME NEW r \in Replies, ReplyDies(r) PROVE answer'[a] = answer[a]
  BY <1>5, DiesRow DEF AnswerInv
<1> QED
  BY <1>1, <1>2, <1>3, <1>4, <1>5 DEF Next, AnswerQuestion, Elsewhere

-----------------------------------------------------------------------------
(* The halts.                                                              *)

\* What a halt that looks takes with it.
LEMMA LooksRow ==
  ASSUME TypeOK, NEW h \in Halts, HaltLooks(h)
  PROVE  /\ \A g \in Halts \ {h} : halt'[g] = halt[g]
         /\ halt[h].pc = "new" /\ halt'[h].pc = "looked" /\ halt'[h].agent \in Agents
         /\ \/ halt'[h].found = None /\ halt'[h].answer = None
            \/ /\ halt'[h].found \in OwnedBy(OrgOf[halt'[h].agent])
               /\ halt'[h].answer = None \/ halt'[h].answer \in StandingOn(halt'[h].found)
<1>1. PICK agent \in Agents, need \in Needs :
        \E q \in IF Nearest(OrgOf[agent], need) = {} THEN {None} ELSE Nearest(OrgOf[agent], need) :
          halt' = [halt EXCEPT ![h] =
                     [pc |-> "looked", agent |-> agent, need |-> need, found |-> q,
                      asked |-> IF q = None THEN 0 ELSE question[q].asked,
                      answer |-> IF q = None THEN None ELSE CurrentAnswer(q, agent)]]
  BY DEF HaltLooks
<1>2. PICK q \in IF Nearest(OrgOf[agent], need) = {} THEN {None} ELSE Nearest(OrgOf[agent], need) :
          halt' = [halt EXCEPT ![h] =
                     [pc |-> "looked", agent |-> agent, need |-> need, found |-> q,
                      asked |-> IF q = None THEN 0 ELSE question[q].asked,
                      answer |-> IF q = None THEN None ELSE CurrentAnswer(q, agent)]]
  BY <1>1
<1>3. /\ \A g \in Halts \ {h} : halt'[g] = halt[g]
      /\ halt[h].pc = "new" /\ halt'[h].pc = "looked" /\ halt'[h].agent = agent /\ halt'[h].found = q
      /\ halt'[h].answer = IF q = None THEN None ELSE CurrentAnswer(q, agent)
  BY <1>2 DEF HaltLooks, TypeOK
<1>4. q = None \/ q \in OwnedBy(OrgOf[agent])
  BY DEF Nearest
<1> QED
  BY <1>3, <1>4, Current

\* What a halt that is counted, or recorded, changes.
LEMMA CountsRow ==
  ASSUME TypeOK, HaltInv, NEW h \in Halts, HaltCounts(h) \/ HaltAsks(h),
         NEW q, q = IF halt[h].found = None THEN h ELSE halt[h].found
  PROVE  /\ halt[h].pc = "looked" /\ q \in Halts
         /\ \A g \in Halts \ {h} : halt'[g] = halt[g]
         /\ halt'[h].pc = "told" /\ halt'[h].found = halt[h].found /\ halt'[h].answer = halt[h].answer
         /\ halt'[h].agent = halt[h].agent
         /\ question'[q].asked = question[q].asked + 1 /\ \A p \in Halts \ {q} : question'[p] = question[p]
         /\ HaltCounts(h) => question[q].asked > 0 /\ question'[q].agent = question[q].agent
         /\ HaltAsks(h) => q = h /\ question[q].asked = 0 /\ question'[q].agent = halt[h].agent
<1>1. /\ halt[h].pc = "looked" /\ halt' = [halt EXCEPT ![h].pc = "told"] /\ halt[h] \in HaltRows
      /\ None \notin Halts
  BY QuestionsAssumption DEF HaltCounts, HaltAsks, TypeOK
<1>2. /\ \A g \in Halts \ {h} : halt'[g] = halt[g]
      /\ halt'[h].pc = "told" /\ halt'[h].found = halt[h].found /\ halt'[h].answer = halt[h].answer
      /\ halt'[h].agent = halt[h].agent
  BY <1>1 DEF TypeOK, HaltRows
<1>3. CASE HaltCounts(h)
  <2>1. halt[h].found # None /\ q \in Asked /\ q \in Halts /\ q = halt[h].found
    BY <1>3 DEF HaltCounts, HaltInv, Asked
  <2>2. ~HaltAsks(h) /\ question' = [question EXCEPT ![q].asked = @ + 1] /\ question[q] \in QuestionRows
    BY <1>3, <2>1 DEF HaltCounts, HaltAsks, TypeOK
  <2>3. /\ question'[q].asked = question[q].asked + 1 /\ \A p \in Halts \ {q} : question'[p] = question[p]
        /\ question'[q].agent = question[q].agent
    BY <2>1, <2>2 DEF TypeOK, QuestionRows
  <2> QED
    BY <1>1, <1>2, <2>1, <2>2, <2>3 DEF Asked
<1>4. CASE HaltAsks(h)
  <2>1. q = h /\ halt[h].found = None /\ ~HaltCounts(h)
    BY <1>4 DEF HaltAsks, HaltCounts
  <2>2. question[h].asked = 0
    <3>1. question[h].asked \in Nat /\ ~(question[h].asked > 0)
      BY <1>1 DEF HaltInv, TypeOK, QuestionRows
    <3> QED
      BY <3>1
  <2>3. /\ question'[h].asked = 1 /\ \A p \in Halts \ {h} : question'[p] = question[p]
        /\ question'[h].agent = halt[h].agent
    BY <1>4 DEF HaltAsks, TypeOK
  <2> QED
    BY <1>1, <1>2, <2>1, <2>2, <2>3
<1> QED
  BY <1>3, <1>4

\* What is known of a halt of which nothing changes but what others do.
LEMMA HaltKeeps ==
  ASSUME TypeOK, HaltInv, [Next]_vars, \A b \in Replies : AnswerInv(b), NEW h \in Halts
  PROVE  /\ halt[h].found # None =>
              halt[h].found \in Asked' /\ OrgOf[question'[halt[h].found].agent] = OrgOf[halt[h].agent]
         /\ halt[h].answer # None => answer'[halt[h].answer].state = "in"
<1>1. halt[h].answer # None => halt[h].answer \in Replies
  BY DEF TypeOK, HaltRows
<1>2. halt[h].answer # None => answer'[halt[h].answer].state = "in"
  BY <1>1, InStays DEF HaltInv
<1>3. halt[h].found # None =>
        halt[h].found \in Asked' /\ OrgOf[question'[halt[h].found].agent] = OrgOf[halt[h].agent]
  BY AskedStays DEF HaltInv
<1> QED
  BY <1>2, <1>3

\* Every halt is in the count of one question, of its own organization.
LEMMA HaltInvStep ==
  ASSUME TypeOK, HaltInv, [Next]_vars, \A b \in Replies : AnswerInv(b)
  PROVE  HaltInv'
<1>f. /\ IsFiniteSet(Halts) /\ None \notin Halts
      /\ \A h \in Halts : question[h].asked \in Nat
  BY QuestionsAssumption DEF TypeOK, QuestionRows
<1>1. CASE halt' = halt
  <2>1. \A q \in Halts : question'[q].asked = question[q].asked /\ question'[q].agent = question[q].agent
    <3>1. \/ question' = question
          \/ \E p \in Halts : question' = [question EXCEPT ![p].assumed = TRUE]
      <4>1. \A h \in Halts : ~RecordQuestion(h)
        BY <1>1, LooksRow, CountsRow DEF RecordQuestion
      <4> QED
        BY <4>1, AnswersAside DEF Next, vars, VerifyAnswer, VerifyReads, Verify, DisputeAnswer, DisputeReads, Dispute, Assume
    <3>2. \A q \in Halts : question[q] \in QuestionRows
      BY DEF TypeOK
    <3>3. CASE question' = question
      BY <3>3
    <3>4. ASSUME NEW p \in Halts, question' = [question EXCEPT ![p].assumed = TRUE], NEW q \in Halts
          PROVE  question'[q].asked = question[q].asked /\ question'[q].agent = question[q].agent
      BY <3>2, <3>4 DEF TypeOK, QuestionRows
    <3> QED
      BY <3>1, <3>3, <3>4
  <2>2. \A q \in Halts : ToldOf(q)' = ToldOf(q)
    BY <1>1 DEF ToldOf
  <2>3. \A q \in Halts : question'[q].asked = Cardinality(ToldOf(q)')
    BY <2>1, <2>2 DEF HaltInv
  <2>4. \A q \in Asked' : question'[q].agent \in Agents
    BY <2>1 DEF HaltInv, Asked
  <2>5. ASSUME NEW h \in Halts
        PROVE  /\ halt'[h].pc # "new" => halt'[h].agent \in Agents
               /\ halt'[h].pc = "new" => halt'[h].found = None
               /\ halt'[h].found # None =>
                    halt'[h].found \in Asked' /\ OrgOf[question'[halt'[h].found].agent] = OrgOf[halt'[h].agent]
               /\ question'[h].asked > 0 =>
                    halt'[h].pc = "told" /\ halt'[h].found = None /\ question'[h].agent = halt'[h].agent
               /\ halt'[h].found = None => halt'[h].answer = None
               /\ halt'[h].answer # None => answer'[halt'[h].answer].state = "in"
    BY <1>1, <2>1, HaltKeeps DEF HaltInv
  <2> QED
    BY <2>3, <2>4, <2>5 DEF HaltInv
<1>2. ASSUME NEW h \in Halts, HaltLooks(h) PROVE HaltInv'
  <2>1. question' = question /\ answer' = answer /\ Asked' = Asked
    BY <1>2 DEF HaltLooks, Asked
  <2>2. question[h].asked = 0
    BY <1>2, <1>f, LooksRow DEF HaltInv
  <2>3. \A q \in Halts : ToldOf(q)' = ToldOf(q)
    BY <1>2, LooksRow DEF ToldOf
  <2>4. ASSUME NEW g \in Halts
        PROVE  /\ halt'[g].pc # "new" => halt'[g].agent \in Agents
               /\ halt'[g].pc = "new" => halt'[g].found = None
               /\ halt'[g].found # None =>
                    halt'[g].found \in Asked /\ OrgOf[question[halt'[g].found].agent] = OrgOf[halt'[g].agent]
               /\ question[g].asked > 0 =>
                    halt'[g].pc = "told" /\ halt'[g].found = None /\ question[g].agent = halt'[g].agent
               /\ halt'[g].found = None => halt'[g].answer = None
               /\ halt'[g].answer # None => answer[halt'[g].answer].state = "in"
    <3>1. CASE g # h
      BY <1>2, <3>1, LooksRow DEF HaltInv
    <3>2. CASE g = h
      <4>1. /\ halt'[h].pc = "looked" /\ halt'[h].agent \in Agents
            /\ \/ halt'[h].found = None /\ halt'[h].answer = None
               \/ halt'[h].found \in OwnedBy(OrgOf[halt'[h].agent])
            /\ halt'[h].answer = None \/ answer[halt'[h].answer].state = "in"
        BY <1>2, LooksRow DEF StandingOn, AnswersTo
      <4>2. \A q \in OwnedBy(OrgOf[halt'[h].agent]) :
              q # None /\ q \in Asked /\ OrgOf[question[q].agent] = OrgOf[halt'[h].agent]
        BY <1>f DEF OwnedBy, Asked
      <4> QED
        BY <2>2, <3>2, <4>1, <4>2
    <3> QED
      BY <3>1, <3>2
  <2> QED
    BY <2>1, <2>3, <2>4 DEF HaltInv
<1>3. ASSUME NEW h \in Halts, HaltCounts(h) \/ HaltAsks(h) PROVE HaltInv'
  <2> DEFINE q == IF halt[h].found = None THEN h ELSE halt[h].found
  <2>1. /\ halt[h].pc = "looked" /\ q \in Halts
        /\ \A g \in Halts \ {h} : halt'[g] = halt[g]
        /\ halt'[h].pc = "told" /\ halt'[h].found = halt[h].found /\ halt'[h].answer = halt[h].answer
        /\ halt'[h].agent = halt[h].agent
        /\ question'[q].asked = question[q].asked + 1 /\ \A p \in Halts \ {q} : question'[p] = question[p]
        /\ HaltCounts(h) => question[q].asked > 0 /\ question'[q].agent = question[q].agent
        /\ HaltAsks(h) => q = h /\ question[q].asked = 0 /\ question'[q].agent = halt[h].agent
    BY <1>3, CountsRow
  <2>2. ASSUME NEW p \in Halts PROVE question'[p].asked = Cardinality(ToldOf(p)')
    <3>1. question[p].asked = Cardinality(ToldOf(p)) /\ IsFiniteSet(ToldOf(p))
      <4>1. ToldOf(p) \subseteq Halts
        BY DEF ToldOf
      <4> QED
        BY <1>f, <4>1, FS_Subset DEF HaltInv
    <3>2. CASE p = q
      <4>1. h \notin ToldOf(p) /\ ToldOf(p)' = ToldOf(p) \cup {h}
        BY <1>f, <2>1, <3>2 DEF ToldOf
      <4>2. Cardinality(ToldOf(p) \cup {h}) = Cardinality(ToldOf(p)) + 1
        BY <3>1, <4>1, FS_AddElement
      <4> QED
        BY <2>1, <3>1, <3>2, <4>1, <4>2
    <3>3. CASE p # q
      <4>1. ToldOf(p)' = ToldOf(p)
        BY <1>f, <2>1, <3>3 DEF ToldOf
      <4> QED
        BY <2>1, <3>1, <3>3, <4>1
    <3> QED
      BY <3>2, <3>3
  <2>3. halt[h].agent \in Agents
    BY <2>1 DEF HaltInv
  <2>4. \A p \in Asked' : question'[p].agent \in Agents
    BY <1>3, <2>1, <2>3 DEF HaltInv, Asked
  <2>5. ASSUME NEW g \in Halts
        PROVE  /\ halt'[g].pc # "new" => halt'[g].agent \in Agents
               /\ halt'[g].pc = "new" => halt'[g].found = None
               /\ halt'[g].found # None =>
                    halt'[g].found \in Asked' /\ OrgOf[question'[halt'[g].found].agent] = OrgOf[halt'[g].agent]
               /\ halt'[g].found = None => halt'[g].answer = None
               /\ halt'[g].answer # None => answer'[halt'[g].answer].state = "in"
    <3>1. /\ halt'[g].found = halt[g].found /\ halt'[g].answer = halt[g].answer /\ halt'[g].agent = halt[g].agent
          /\ halt'[g].pc = "new" => halt[g].pc = "new"
          /\ halt'[g].pc # "new" => halt[g].pc # "new"
      BY <2>1
    <3> QED
      BY <3>1, HaltKeeps DEF HaltInv
  <2>6. ASSUME NEW g \in Halts, question'[g].asked > 0
        PROVE  halt'[g].pc = "told" /\ halt'[g].found = None /\ question'[g].agent = halt'[g].agent
    <3>1. CASE g = h
      <4>1. CASE HaltAsks(h)
        BY <2>1, <3>1, <4>1, <1>f DEF HaltAsks
      <4>2. CASE HaltCounts(h)
        <5>1. q # h
          <6>1. question[q].asked > 0 /\ halt[h].pc # "told"
            BY <2>1, <4>2
          <6> QED
            BY <6>1 DEF HaltInv
        <5>2. question'[h] = question[h]
          BY <2>1, <5>1
        <5> QED
          BY <2>1, <2>6, <3>1, <5>2 DEF HaltInv
      <4> QED
        BY <1>3, <4>1, <4>2
    <3>2. CASE g # h
      <4>1. question[g].asked > 0 /\ question'[g].agent = question[g].agent
        BY <1>3, <2>1, <2>6, <3>2
      <4> QED
        BY <2>1, <3>2, <4>1 DEF HaltInv
    <3> QED
      BY <3>1, <3>2
  <2> QED
    BY <2>2, <2>4, <2>5, <2>6 DEF HaltInv
<1>4. CASE \E r \in Replies : AnswerQuestion(r)
  BY <1>1, <1>4, AnswersAside
<1>5. CASE \/ \E e \in Edits : VerifyAnswer(e) \/ DisputeAnswer(e)
           \/ \E q \in Halts : Assume(q)
           \/ UNCHANGED vars
  BY <1>1, <1>5 DEF VerifyAnswer, VerifyReads, Verify, DisputeAnswer, DisputeReads, Dispute, Assume, vars
<1> QED
  BY <1>2, <1>3, <1>4, <1>5 DEF Next, RecordQuestion

\* And an answer in the count of those it was handed to.
LEMMA ServedStep ==
  ASSUME TypeOK, HaltInv, ServedIsTheBlastRadius, [Next]_vars, \A b \in Replies : AnswerInv(b)
  PROVE  ServedIsTheBlastRadius'
<1>f. IsFiniteSet(Halts) /\ None \notin Replies
  BY QuestionsAssumption
<1>1. ASSUME NEW a \in Replies, halt' = halt, answer'[a].served = answer[a].served
      PROVE  answer'[a].served = Cardinality(ServedTo(a)')
  <2>1. ServedTo(a)' = ServedTo(a)
    BY <1>1 DEF ServedTo
  <2> QED
    BY <1>1, <2>1 DEF ServedIsTheBlastRadius
<1>2. ASSUME NEW a \in Replies, halt' = halt, answer[a].state # "in", answer'[a].served = 0
      PROVE  answer'[a].served = Cardinality(ServedTo(a)')
  <2>1. ServedTo(a) = {} /\ ServedTo(a)' = ServedTo(a)
    BY <1>f, <1>2 DEF ServedTo, HaltInv
  <2> QED
    BY <1>2, <2>1, FS_EmptySet
<1>3. ASSUME NEW h \in Halts, HaltLooks(h) PROVE ServedIsTheBlastRadius'
  <2>1. \A a \in Replies : ServedTo(a)' = ServedTo(a)
    BY <1>3, LooksRow DEF ServedTo
  <2> QED
    BY <1>3, <2>1 DEF HaltLooks, ServedIsTheBlastRadius
<1>4. ASSUME NEW h \in Halts, HaltCounts(h) \/ HaltAsks(h) PROVE ServedIsTheBlastRadius'
  <2>1. /\ halt[h].pc = "looked" /\ \A g \in Halts \ {h} : halt'[g] = halt[g]
        /\ halt'[h].pc = "told" /\ halt'[h].answer = halt[h].answer
    BY <1>4, CountsRow
  <2>2. /\ halt[h].answer # None => halt[h].answer \in Replies
        /\ answer' = IF halt[h].answer = None THEN answer ELSE [answer EXCEPT ![halt[h].answer].served = @ + 1]
    BY <1>4 DEF HaltCounts, HaltAsks, HaltInv, TypeOK, HaltRows
  <2>3. ASSUME NEW a \in Replies PROVE answer'[a].served = Cardinality(ServedTo(a)')
    <3>1. answer[a].served = Cardinality(ServedTo(a)) /\ IsFiniteSet(ServedTo(a))
      <4>1. ServedTo(a) \subseteq Halts
        BY DEF ServedTo
      <4> QED
        BY <1>f, <4>1, FS_Subset DEF ServedIsTheBlastRadius
    <3>2. CASE a = halt[h].answer
      <4>1. h \notin ServedTo(a) /\ ServedTo(a)' = ServedTo(a) \cup {h}
        BY <2>1, <3>2 DEF ServedTo
      <4>2. Cardinality(ServedTo(a) \cup {h}) = Cardinality(ServedTo(a)) + 1
        BY <3>1, <4>1, FS_AddElement
      <4>3. answer'[a].served = answer[a].served + 1
        BY <1>f, <2>2, <3>2 DEF TypeOK, AnswerRows
      <4> QED
        BY <3>1, <4>1, <4>2, <4>3
    <3>3. CASE a # halt[h].answer
      <4>1. ServedTo(a)' = ServedTo(a)
        BY <2>1, <3>3 DEF ServedTo
      <4>2. answer'[a] = answer[a]
        BY <2>2, <3>3 DEF TypeOK
      <4> QED
        BY <3>1, <4>1, <4>2
    <3> QED
      BY <3>2, <3>3
  <2> QED
    BY <2>3 DEF ServedIsTheBlastRadius
<1>5. ASSUME NEW r \in Replies, ReplyInserts(r) PROVE ServedIsTheBlastRadius'
  <2>1. halt' = halt /\ answer[r].state # "in"
    BY <1>5, InsertsRow DEF ReplyInserts, AnswerInv
  <2> QED
    BY <1>1, <1>2, <1>5, <2>1, InsertsRow DEF ServedIsTheBlastRadius
<1>6. ASSUME NEW r \in Replies, ReplySupersedes(r) PROVE ServedIsTheBlastRadius'
  BY <1>1, <1>6 DEF ReplySupersedes, ServedIsTheBlastRadius
<1>7. ASSUME NEW r \in Replies, ReplyCommits(r) PROVE ServedIsTheBlastRadius'
  <2>1. halt' = halt /\ r \notin reply[r].sees /\ \A a \in reply[r].sees : answer[a].state = "in"
    BY <1>7 DEF ReplyCommits, AnswerInv, AnswersTo
  <2> QED
    BY <1>1, <1>7, <2>1, CommitsRow DEF ServedIsTheBlastRadius
<1>8. ASSUME NEW r \in Replies, ReplyDies(r) PROVE ServedIsTheBlastRadius'
  <2>1. halt' = halt /\ answer'[r].served = 0
    <3>1. halt' = halt
      BY <1>8 DEF ReplyDies
    <3>2. answer'[r].served = 0
      BY <1>8, DiesRow DEF NoAnswer
    <3> QED
      BY <3>1, <3>2
  <2>2. answer[r].state # "in"
    BY <1>8, DiesRow DEF AnswerInv
  <2> QED
    BY <1>1, <1>2, <1>8, <2>1, <2>2, DiesRow DEF ServedIsTheBlastRadius
<1>9. CASE \/ \E e \in Edits : VerifyAnswer(e) \/ DisputeAnswer(e)
           \/ \E q \in Halts : Assume(q)
           \/ UNCHANGED vars
  <2>1. /\ halt' = halt
        /\ \/ answer' = answer
           \/ \E b : answer' = [answer EXCEPT ![b].verified = TRUE]
           \/ \E b : answer' = [answer EXCEPT ![b].disputed = TRUE]
    BY <1>9 DEF VerifyAnswer, VerifyReads, Verify, DisputeAnswer, DisputeReads, Dispute, Assume, vars
  <2>2. \A a \in Replies : answer[a] \in AnswerRows
    BY DEF TypeOK
  <2>3. \A a \in Replies : answer'[a].served = answer[a].served
    BY <2>1, <2>2 DEF TypeOK, AnswerRows
  <2> QED
    BY <1>1, <2>1, <2>3 DEF ServedIsTheBlastRadius
<1> QED
  BY <1>3, <1>4, <1>5, <1>6, <1>7, <1>8, <1>9 DEF Next, RecordQuestion, AnswerQuestion

-----------------------------------------------------------------------------
(* The answers.                                                            *)

\* What answers and supersessions there are, as far as questions and halts see.
LEMMA AnswersToStays ==
  ASSUME TypeOK, \A b \in Replies : AnswerInv(b), [Next]_vars, NEW q
  PROVE  AnswersTo(q) \subseteq AnswersTo(q)'
BY InStays DEF AnswersTo

\* Each step keeps what is known of the answers.
LEMMA AnswerInvStep ==
  ASSUME TypeOK, HaltInv, \A b \in Replies : AnswerInv(b), [Next]_vars, NEW a \in Replies
  PROVE  AnswerInv(a)'
<1>k. AnswerInv(a) /\ None \notin Replies /\ None \notin Agents
  BY QuestionsAssumption
<1>s. ASSUME answer'[a].state = answer[a].state, answer'[a].question = answer[a].question,
             answer'[a].by = answer[a].by, answer'[a].knew = answer[a].knew,
             answer'[a].superseded = answer[a].superseded, reply'[a] = reply[a],
             (\E i \in DOMAIN written : written[i] = a) => \E i \in DOMAIN written' : written'[i] = a
      PROVE  AnswerInv(a)'
  <2>1. answer'[a].state # "absent" =>
          /\ answer'[a].question \in Asked' /\ answer'[a].by \in Agents
          /\ \E i \in DOMAIN written' : written'[i] = a
    BY <1>k, <1>s, AskedStays DEF AnswerInv
  <2>2. reply'[a].sees \cup answer'[a].knew \subseteq AnswersTo(answer[a].question)'
    BY <1>k, <1>s, AnswersToStays DEF AnswerInv
  <2>3. reply'[a].pc = "updated" =>
          \A b \in answer'[a].knew : answer'[b].superseded # None \/ b \in reply'[a].sees
    <3>1. \A b \in answer[a].knew : b \in Replies /\ answer[b].state = "in"
      BY <1>k DEF AnswerInv, AnswersTo
    <3> QED
      BY <1>k, <1>s, <3>1, InStays DEF AnswerInv
  <2> QED
    BY <1>k, <1>s, <2>1, <2>2, <2>3 DEF AnswerInv
<1>1. CASE Elsewhere
  BY <1>1, <1>s, ElsewhereStays
<1>2. ASSUME NEW r \in Replies, ReplyInserts(r) PROVE AnswerInv(a)'
  <2>1. /\ written' = Append(written, r) /\ written \in Seq(Replies) /\ question' = question
    BY <1>2 DEF ReplyInserts, TypeOK
  <2>2. CASE a # r
    <3>1. (\E i \in DOMAIN written : written[i] = a) => \E i \in DOMAIN written' : written'[i] = a
      BY <2>1
    <3> QED
      BY <1>2, <1>s, <2>2, <3>1, InsertsRow
  <2>3. CASE a = r
    <3>1. \E i \in DOMAIN written' : written'[i] = a
      <4>1. Len(written) + 1 \in DOMAIN written' /\ written'[Len(written) + 1] = a
        BY <2>1, <2>3
      <4> QED
        BY <4>1
    <3>2. answer'[a].question \in Asked' /\ answer'[a].by \in Agents
      <4>1. answer'[a].question \in Asked /\ answer'[a].by = question[answer'[a].question].agent
        BY <1>2, <2>3, InsertsRow DEF OwnedBy
      <4> QED
        BY <2>1, <4>1 DEF HaltInv, Asked
    <3>3. reply[a].sees = {}
      BY <1>2, <2>3, <1>k, InsertsRow DEF AnswerInv
    <3>4. reply'[a].sees \cup answer'[a].knew \subseteq AnswersTo(answer[a].question)'
      BY <1>2, <2>3, <3>3, InsertsRow, AnswersToStays
    <3>5. a \notin reply'[a].sees
      BY <1>2, <2>3, <3>3, InsertsRow
    <3> QED
      BY <1>2, <2>3, <3>1, <3>2, <3>4, <3>5, InsertsRow DEF AnswerInv
  <2> QED
    BY <2>2, <2>3
<1>3. ASSUME NEW r \in Replies, ReplySupersedes(r) PROVE AnswerInv(a)'
  <2>1. /\ answer' = answer /\ written' = written /\ question' = question
        /\ reply[r].pc = "inserted"
        /\ reply' = [reply EXCEPT ![r] = [pc |-> "updated", sees |-> StandingOn(answer[r].question)]]
    BY <1>3 DEF ReplySupersedes
  <2>2. CASE a # r
    <3>1. reply'[a] = reply[a]
      BY <2>1, <2>2 DEF TypeOK
    <3> QED
      BY <1>s, <2>1, <3>1
  <2>3. CASE a = r
    <3>1. reply'[a].pc = "updated" /\ reply'[a].sees = StandingOn(answer[a].question)
      BY <2>1, <2>3 DEF TypeOK
    <3>2. answer[a].state = "open"
      BY <1>k, <2>1, <2>3 DEF AnswerInv
    <3>3. /\ a \notin StandingOn(answer[a].question)
          /\ StandingOn(answer[a].question) \subseteq AnswersTo(answer[a].question)
      BY <3>2 DEF StandingOn, AnswersTo
    <3>4. \A b \in answer[a].knew : answer[b].superseded # None \/ b \in StandingOn(answer[a].question)
      BY <1>k DEF AnswerInv, StandingOn
    <3>5. AnswersTo(answer[a].question)' = AnswersTo(answer[a].question) /\ Asked' = Asked
      BY <2>1 DEF AnswersTo, Asked
    <3> QED
      BY <1>k, <2>1, <3>1, <3>2, <3>3, <3>4, <3>5 DEF AnswerInv
  <2> QED
    BY <2>2, <2>3
<1>4. ASSUME NEW r \in Replies, ReplyCommits(r) PROVE AnswerInv(a)'
  <2>1. AnswerInv(r) /\ r \notin reply[r].sees /\ \A b \in reply[r].sees : answer[b].state = "in"
    BY DEF AnswerInv, AnswersTo
  <2>2. written' = written /\ question' = question
    BY <1>4 DEF ReplyCommits
  <2>3. CASE a = r
    <3>1. /\ answer'[a].state = "in" /\ reply'[a].pc = "done" /\ reply'[a].sees = {}
          /\ answer'[a].question = answer[a].question /\ answer'[a].by = answer[a].by
          /\ answer'[a].knew = answer[a].knew /\ reply[a].pc = "updated"
      BY <1>4, <2>1, <2>3, CommitsRow
    <3>2. answer[a].state = "open" /\ Asked' = Asked
      BY <1>k, <2>2, <3>1 DEF AnswerInv, Asked
    <3>3. answer'[a].knew \subseteq AnswersTo(answer[a].question)'
      BY <1>k, <3>1, AnswersToStays DEF AnswerInv
    <3> QED
      BY <1>k, <2>2, <3>1, <3>2, <3>3 DEF AnswerInv
  <2>4. CASE a # r /\ a \in reply[r].sees
    <3>1. /\ answer'[a].state = "in" /\ answer[a].state = "in" /\ reply'[a] = reply[a]
          /\ answer'[a].question = answer[a].question /\ answer'[a].by = answer[a].by
          /\ answer'[a].knew = answer[a].knew
      BY <1>4, <2>1, <2>4, CommitsRow
    <3>2. reply[a].pc = "done"
      BY <1>k, <3>1 DEF AnswerInv, TypeOK, ReplyRows
    <3>3. reply'[a].sees \cup answer'[a].knew \subseteq AnswersTo(answer[a].question)' /\ Asked' = Asked
      BY <1>k, <2>2, <3>1, AnswersToStays DEF AnswerInv, Asked
    <3> QED
      BY <1>k, <2>2, <3>1, <3>2, <3>3 DEF AnswerInv
  <2>5. CASE a # r /\ a \notin reply[r].sees
    BY <1>4, <1>s, <2>1, <2>2, <2>5, CommitsRow
  <2> QED
    BY <2>3, <2>4, <2>5
<1>5. ASSUME NEW r \in Replies, ReplyDies(r) PROVE AnswerInv(a)'
  <2>1. CASE a # r
    BY <1>5, <1>s, <2>1, DiesRow
  <2>2. CASE a = r
    <3>1. answer'[a] = NoAnswer /\ reply'[a].pc = "dead" /\ reply'[a].sees = {}
      BY <1>5, <2>2, DiesRow
    <3>2. NoAnswer.state = "absent" /\ NoAnswer.superseded = None /\ NoAnswer.knew = {}
      BY DEF NoAnswer
    <3> QED
      BY <3>1, <3>2 DEF AnswerInv
  <2> QED
    BY <2>1, <2>2
<1> QED
  BY <1>1, <1>2, <1>3, <1>4, <1>5 DEF Next, AnswerQuestion, Elsewhere

\* What a human is about to mark stays committed.
LEMMA EditInvStep ==
  ASSUME TypeOK, EditInv, \A b \in Replies : AnswerInv(b), [Next]_vars
  PROVE  EditInv'
<1>1. ASSUME NEW e \in Edits, edit'[e] = edit[e] \/ edit'[e].pc # "read"
      PROVE  edit'[e].pc = "read" => edit'[e].answer \in Replies /\ answer'[edit'[e].answer].state = "in"
  BY <1>1, InStays DEF EditInv
<1>2. CASE edit' = edit
  BY <1>1, <1>2 DEF EditInv
<1>3. ASSUME NEW e \in Edits, VerifyReads(e) \/ DisputeReads(e) PROVE EditInv'
  <2>1. PICK b \in Replies, what \in {"verify", "dispute"} :
          /\ edit' = [edit EXCEPT ![e] = [pc |-> "read", what |-> what, answer |-> b]]
          /\ answer[b].state = "in"
    BY <1>3 DEF VerifyReads, DisputeReads, StandingOn, AnswersTo
  <2>2. edit'[e].answer \in Replies /\ answer'[edit'[e].answer].state = "in"
    BY <2>1, InStays DEF AnswersTo, TypeOK
  <2>3. \A d \in Edits \ {e} : edit'[d] = edit[d]
    BY <2>1 DEF TypeOK
  <2> QED
    BY <1>1, <2>2, <2>3 DEF EditInv
<1>4. ASSUME NEW e \in Edits, Verify(e) \/ Dispute(e) PROVE EditInv'
  <2>1. edit' = [edit EXCEPT ![e].pc = "done"] /\ edit[e] \in EditRows
    BY <1>4 DEF Verify, Dispute, TypeOK
  <2>2. edit'[e].pc # "read" /\ \A d \in Edits \ {e} : edit'[d] = edit[d]
    BY <2>1 DEF TypeOK, EditRows
  <2> QED
    BY <1>1, <2>2 DEF EditInv
<1> QED
  BY <1>2, <1>3, <1>4, AnswersAside
     DEF Next, RecordQuestion, HaltLooks, HaltCounts, HaltAsks, VerifyAnswer, DisputeAnswer, Assume, vars

\* Whatever answers supersede each other, one of them still stands.
LEMMA AnsweredStep ==
  ASSUME TypeOK, HaltInv, \A b \in Replies : AnswerInv(b), AnsweredStaysAnswered, [Next]_vars
  PROVE  AnsweredStaysAnswered'
<1>1. \A q : AnswersTo(q) # {} => StandingOn(q) # {}
  BY DEF AnsweredStaysAnswered, AnswerInv, AnswersTo
<1>2. SUFFICES ASSUME NEW q, AnswersTo(q)' # {} PROVE StandingOn(q)' # {}
  BY DEF AnsweredStaysAnswered
<1>3. CASE Elsewhere
  <2>1. AnswersTo(q)' = AnswersTo(q) /\ StandingOn(q)' = StandingOn(q)
    BY <1>3, ElsewhereStays DEF AnswersTo, StandingOn
  <2> QED
    BY <1>1, <1>2, <2>1
<1>4. ASSUME NEW r \in Replies, ReplyInserts(r) \/ ReplySupersedes(r) \/ ReplyDies(r) PROVE StandingOn(q)' # {}
  <2>1. \A a \in Replies : \/ answer'[a] = answer[a]
                           \/ answer'[a].state # "in" /\ answer[a].state # "in"
    <3>1. CASE ReplyInserts(r)
      BY <3>1, InsertsRow DEF AnswerInv
    <3>2. CASE ReplySupersedes(r)
      BY <3>2 DEF ReplySupersedes
    <3>3. CASE ReplyDies(r)
      <4>1. NoAnswer.state # "in"
        BY DEF NoAnswer
      <4> QED
        BY <3>3, <4>1, DiesRow DEF AnswerInv
    <3> QED
      BY <1>4, <3>1, <3>2, <3>3
  <2>2. AnswersTo(q)' = AnswersTo(q) /\ StandingOn(q)' = StandingOn(q)
    BY <2>1 DEF AnswersTo, StandingOn
  <2> QED
    BY <1>1, <1>2, <2>2
<1>5. ASSUME NEW r \in Replies, ReplyCommits(r) PROVE StandingOn(q)' # {}
  <2>1. /\ AnswerInv(r) /\ r \notin reply[r].sees
        /\ \A b \in reply[r].sees : answer[b].state = "in" /\ answer[b].question = answer[r].question
    BY DEF AnswerInv, AnswersTo
  <2>2. answer'[r].state = "in" /\ answer'[r].superseded = None /\ answer'[r].question = answer[r].question
    <3>1. answer[r].state # "in"
      BY <1>5, <2>1 DEF AnswerInv, ReplyCommits
    <3> QED
      BY <1>5, <2>1, <3>1, CommitsRow DEF AnswerInv
  <2>3. CASE q = answer[r].question
    BY <2>2, <2>3 DEF StandingOn, AnswersTo
  <2>4. CASE q # answer[r].question
    <3>1. \A a \in Replies : answer'[a].question = q => answer'[a] = answer[a]
      BY <1>5, <2>1, <2>4, CommitsRow
    <3>2. \A a \in Replies : answer[a].question = q => answer'[a] = answer[a]
      BY <1>5, <2>1, <2>4, CommitsRow
    <3>3. AnswersTo(q)' = AnswersTo(q) /\ StandingOn(q)' = StandingOn(q)
      BY <3>1, <3>2 DEF AnswersTo, StandingOn
    <3> QED
      BY <1>1, <1>2, <3>3
  <2> QED
    BY <2>3, <2>4
<1> QED
  BY <1>3, <1>4, <1>5 DEF Next, AnswerQuestion, Elsewhere

\* An answer, once committed, has superseded all it knew.
LEMMA LastWordStep ==
  ASSUME TypeOK, \A b \in Replies : AnswerInv(b), LastWordStands, [Next]_vars
  PROVE  LastWordStands'
<1> SUFFICES ASSUME NEW a \in Replies, NEW b \in Replies, answer'[b].state = "in", a \in answer'[b].knew
             PROVE  answer'[a].superseded # None
  BY DEF LastWordStands
<1>1. CASE answer[b].state = "in"
  <2>1. a \in answer[b].knew
    BY <1>1, InStays
  <2>2. answer[a].state = "in" /\ answer[a].superseded # None
    BY <1>1, <2>1 DEF LastWordStands, AnswerInv, AnswersTo
  <2> QED
    BY <2>2, InStays
<1>2. CASE answer[b].state # "in"
  <2>1. ReplyCommits(b)
    <3>1. CASE Elsewhere
      BY <1>2, <3>1, ElsewhereStays
    <3>2. ASSUME NEW r \in Replies, ReplyInserts(r) PROVE FALSE
      BY <1>2, <3>2, InsertsRow
    <3>3. ASSUME NEW r \in Replies, ReplySupersedes(r) PROVE FALSE
      BY <1>2, <3>3 DEF ReplySupersedes
    <3>4. ASSUME NEW r \in Replies, ReplyDies(r) PROVE FALSE
      <4>1. NoAnswer.state # "in"
        BY DEF NoAnswer
      <4> QED
        BY <1>2, <3>4, <4>1, DiesRow
    <3>5. ASSUME NEW r \in Replies, ReplyCommits(r) PROVE r = b
      <4>1. r \notin reply[r].sees /\ \A c \in reply[r].sees : answer[c].state = "in"
        BY DEF AnswerInv, AnswersTo
      <4> QED
        BY <1>2, <3>5, <4>1, CommitsRow
    <3> QED
      BY <3>1, <3>2, <3>3, <3>4, <3>5 DEF Next, AnswerQuestion, Elsewhere
  <2>2. b \notin reply[b].sees /\ \A c \in reply[b].sees : answer[c].state = "in"
    BY DEF AnswerInv, AnswersTo
  <2>3. a \in answer[b].knew /\ reply[b].pc = "updated"
    BY <2>1, <2>2, CommitsRow
  <2>4. answer[a].superseded # None \/ a \in reply[b].sees
    BY <2>3 DEF AnswerInv
  <2> QED
    BY <2>1, <2>2, <2>4, CommitsRow
<1> QED
  BY <1>1, <1>2

\* As it is at the beginning.
LEMMA InitHolds ==
  Init => TypeOK /\ QuestionInv /\ ServedIsTheBlastRadius /\ AnsweredStaysAnswered /\ LastWordStands
<1> SUFFICES ASSUME Init
             PROVE  TypeOK /\ QuestionInv /\ ServedIsTheBlastRadius /\ AnsweredStaysAnswered /\ LastWordStands
  OBVIOUS
<1> USE DEF Init
<1>1. TypeOK
  <2>1. NoQuestion \in QuestionRows /\ NoAnswer \in AnswerRows
    BY DEF NoQuestion, QuestionRows, NoAnswer, AnswerRows
  <2>2. [pc |-> "new", agent |-> None, need |-> None, found |-> None, asked |-> 0, answer |-> None] \in HaltRows
    BY DEF HaltRows
  <2>3. [pc |-> "new", sees |-> {}] \in ReplyRows /\ [pc |-> "new", what |-> "none", answer |-> None] \in EditRows
    BY DEF ReplyRows, EditRows
  <2>4. <<>> \in Seq(Replies)
    OBVIOUS
  <2> QED
    BY <2>1, <2>2, <2>3, <2>4 DEF TypeOK
<1>2. /\ \A q \in Halts : question[q].asked = 0 /\ ToldOf(q) = {}
      /\ \A a \in Replies : /\ ServedTo(a) = {} /\ answer[a].state = "absent" /\ answer[a].served = 0
                            /\ answer[a].knew = {} /\ answer[a].superseded = None
      /\ Asked = {}
  BY DEF NoQuestion, NoAnswer, ToldOf, ServedTo, Asked
<1>3. HaltInv
  <2>1. \A q \in Halts : question[q].asked = Cardinality(ToldOf(q))
    BY <1>2, FS_EmptySet
  <2>2. \A h \in Halts : halt[h].pc = "new" /\ halt[h].found = None /\ halt[h].answer = None
    OBVIOUS
  <2> QED
    BY <1>2, <2>1, <2>2 DEF HaltInv
<1>4. \A a \in Replies : AnswerInv(a)
  BY <1>2 DEF AnswerInv
<1>5. EditInv
  BY DEF EditInv
<1>6. ServedIsTheBlastRadius /\ AnsweredStaysAnswered /\ LastWordStands
  BY <1>2, FS_EmptySet DEF ServedIsTheBlastRadius, AnsweredStaysAnswered, LastWordStands
<1> QED
  BY <1>1, <1>3, <1>4, <1>5, <1>6 DEF QuestionInv

\* Each step keeps the types and what the properties rest on.
LEMMA QuestionInvStep ==
  ASSUME TypeOK, QuestionInv, [Next]_vars
  PROVE  TypeOK' /\ QuestionInv'
<1>1. TypeOK' /\ HaltInv' /\ EditInv'
  BY TypeStep, HaltInvStep, EditInvStep DEF QuestionInv
<1>2. \A a \in Replies : AnswerInv(a)'
  BY AnswerInvStep DEF QuestionInv
<1> QED
  BY <1>1, <1>2 DEF QuestionInv

-----------------------------------------------------------------------------
(* The theorems.                                                           *)

\* Every row is of its type, every halt is counted once, on one question and
\* of its own organization (tenants do not see each other's questions), and
\* every answer is to a question that was asked.
THEOREM QuestionsCorrect == Spec => [](TypeOK /\ QuestionInv)
<1>1. Init => TypeOK /\ QuestionInv
  BY InitHolds
<1>2. TypeOK /\ QuestionInv /\ [Next]_vars => (TypeOK /\ QuestionInv)'
  BY QuestionInvStep
<1> QED
  BY <1>1, <1>2, PTL DEF Spec

\* The blast radius of an answer is the number of halts it was handed to,
\* whichever of them are counted at once: the UPDATE adds to the row it finds.
THEOREM BlastRadius == Spec => []ServedIsTheBlastRadius
<1>1. Init => ServedIsTheBlastRadius
  BY InitHolds
<1>2. TypeOK /\ QuestionInv /\ ServedIsTheBlastRadius /\ [Next]_vars => ServedIsTheBlastRadius'
  BY ServedStep DEF QuestionInv
<1> QED
  BY <1>1, <1>2, QuestionsCorrect, PTL DEF Spec

\* A question that has been answered keeps an answer that stands, however many
\* answers are given at once and supersede each other.
THEOREM StaysAnswered == Spec => []AnsweredStaysAnswered
<1>1. Init => AnsweredStaysAnswered
  BY InitHolds
<1>2. TypeOK /\ QuestionInv /\ AnsweredStaysAnswered /\ [Next]_vars => AnsweredStaysAnswered'
  BY AnsweredStep DEF QuestionInv
<1> QED
  BY <1>1, <1>2, QuestionsCorrect, PTL DEF Spec

\* Two answers stand on one question only when neither could see the other.
THEOREM LastWord == Spec => []LastWordStands
<1>1. Init => LastWordStands
  BY InitHolds
<1>2. TypeOK /\ QuestionInv /\ LastWordStands /\ [Next]_vars => LastWordStands'
  BY LastWordStep DEF QuestionInv
<1> QED
  BY <1>1, <1>2, QuestionsCorrect, PTL DEF Spec

\* Every question of an organization is served to all of it, or is on a list
\* that says who has to look: unanswered, awaiting a second human, or stale.
THEOREM OnSomeList == Spec => []NothingFallsBetween
<1>1. TypeOK /\ QuestionInv => NothingFallsBetween
  <2> SUFFICES ASSUME TypeOK, QuestionInv, NEW org \in Orgs, NEW q \in OwnedBy(org)
               PROVE  IF CurrentAnswer(q, None) = None THEN q \in Reports(org)
                      ELSE q \notin Unanswered(org) \cup Stale(org)
    BY DEF NothingFallsBetween
  <2>1. CASE CurrentAnswer(q, None) # None
    BY <2>1, Current DEF Unanswered, Stale
  <2>2. CASE CurrentAnswer(q, None) = None
    <3>1. \A a \in StandingOn(q) : \E i \in DOMAIN written : written[i] = a
      BY DEF StandingOn, AnswersTo, QuestionInv, AnswerInv
    <3>2. \A a \in StandingOn(q) : answer[a].disputed \/ ~answer[a].verified
      BY <2>2, <3>1, Current
    <3>3. CASE \E a \in StandingOn(q) : ~answer[a].verified
      <4>1. PICK a \in StandingOn(q) : ~answer[a].verified
        BY <3>3
      <4>2. a \in AwaitingVerification(org) /\ answer[a].question = q
        BY <4>1 DEF AwaitingVerification, StandingOn, AnswersTo
      <4> QED
        BY <2>2, <4>2 DEF Reports
    <3>4. CASE \A a \in StandingOn(q) : answer[a].verified
      <4>1. q \in Stale(org)
        BY <3>2, <3>4 DEF Stale
      <4> QED
        BY <2>2, <4>1 DEF Reports
    <3> QED
      BY <3>3, <3>4
  <2> QED
    BY <2>1, <2>2
<1> QED
  BY <1>1, QuestionsCorrect, PTL

-----------------------------------------------------------------------------
(* The numbers of an organization.                                         *)

\* Of any sets of members of a finite set there is one with none of the others
\* an element below it: what holds of a set if it holds of those below it holds
\* of every set.
LEMMA Smallest ==
  ASSUME NEW S, IsFiniteSet(S), NEW Bad \in SUBSET SUBSET S, Bad # {}
  PROVE  \E T \in Bad : \A x \in T : T \ {x} \notin Bad
<1>1. Bad \subseteq FiniteSubsetsOf(S)
  BY FS_Subset DEF FiniteSubsetsOf
<1>2. PICK T \in Bad : \A U \in Bad : <<U, T>> \notin StrictSubsetOrdering(S)
  BY <1>1, FS_StrictSubsetOrderingWellFounded, WFMin
<1>3. ASSUME NEW x \in T, T \ {x} \in Bad PROVE FALSE
  <2>1. <<T \ {x}, T>> \in StrictSubsetOrdering(S)
    BY <1>3 DEF StrictSubsetOrdering
  <2> QED
    BY <1>2, <1>3, <2>1
<1> QED
  BY <1>3

\* The halts that any of some questions has been told of.
ToldOfAny(S) == UNION {ToldOf(q) : q \in S}

\* Halts are told once, and of one question: one question more is its halts more.
LEMMA OneQuestionMore ==
  ASSUME HaltInv, NEW S \in SUBSET Halts, NEW q \in S
  PROVE  Cardinality(ToldOfAny(S)) = question[q].asked + Cardinality(ToldOfAny(S \ {q}))
<1> DEFINE more == ToldOf(q)
           rest == ToldOfAny(S \ {q})
<1>1. more \in SUBSET Halts /\ rest \in SUBSET Halts
  BY DEF ToldOf, ToldOfAny
<1>2. IsFiniteSet(more) /\ IsFiniteSet(rest)
  BY <1>1, FS_Subset, QuestionsAssumption
<1>3. ToldOfAny(S) = rest \cup more
  BY DEF ToldOfAny
<1>4. rest \cap more = {}
  <2> SUFFICES ASSUME NEW h \in rest, h \in more PROVE FALSE
    OBVIOUS
  <2>1. PICK p \in S \ {q} : h \in ToldOf(p)
    BY DEF ToldOfAny
  <2> QED
    BY <2>1, QuestionsAssumption DEF ToldOf
<1>5. question[q].asked = Cardinality(more)
  BY DEF HaltInv
<1> HIDE DEF more, rest
<1>6. Cardinality(rest \cup more) = Cardinality(rest) + Cardinality(more) - 0
  BY <1>2, <1>4, FS_Union, FS_EmptySet
<1>7. Cardinality(rest) \in Nat /\ Cardinality(more) \in Nat
  BY <1>2, FS_CardinalityType
<1> QED
  BY <1>3, <1>5, <1>6, <1>7 DEF rest

\* What the fold of the questions' numbers adds up, in whatever order, is the
\* halts that they were told of.
LEMMA HaltsAre ==
  ASSUME HaltInv, NEW S \in SUBSET Halts
  PROVE  MapThenSumSet(LAMBDA q : question[q].asked, S) = Cardinality(ToldOfAny(S))
<1> DEFINE Picked(s) == CHOOSE x \in s : TRUE
           Step(g) == [s \in SUBSET S |-> IF s = {} THEN 0 ELSE question[Picked(s)].asked + g[s \ {Picked(s)}]]
           G == [s \in SUBSET S |-> Cardinality(ToldOfAny(s))]
           iter == CHOOSE g : g = Step(g)
<1>1. MapThenSumSet(LAMBDA q : question[q].asked, S) = iter[S]
  BY DEF MapThenSumSet, MapThenFoldSet
<1>2. IsFiniteSet(S)
  BY FS_Subset, QuestionsAssumption
<1>3. G = Step(G)
  <2>1. ASSUME NEW s \in SUBSET S, s # {} PROVE G[s] = question[Picked(s)].asked + G[s \ {Picked(s)}]
    <3>1. Picked(s) \in s /\ s \ {Picked(s)} \in SUBSET S /\ s \in SUBSET Halts
      BY <2>1
    <3> HIDE DEF Picked
    <3> QED
      BY <3>1, OneQuestionMore
  <2>2. G[{}] = 0
    <3>1. ToldOfAny({}) = {}
      BY DEF ToldOfAny
    <3> QED
      BY <3>1, FS_EmptySet
  <2> HIDE DEF Picked
  <2> QED
    BY <2>1, <2>2
<1>4. iter = Step(iter)
  <2> HIDE DEF G, Step
  <2> QED
    BY <1>3
<1>5. \A s \in SUBSET S : iter[s] = G[s]
  <2> HIDE DEF iter
  <2> DEFINE Bad == {s \in SUBSET S : iter[s] # G[s]}
  <2>1. SUFFICES ASSUME Bad # {} PROVE FALSE
    OBVIOUS
  <2>2. PICK T \in Bad : \A x \in T : T \ {x} \notin Bad
    BY <1>2, <2>1, Smallest
  <2>3. CASE T = {}
    BY <1>3, <1>4, <2>2, <2>3
  <2>4. CASE T # {}
    <3>1. Picked(T) \in T /\ T \ {Picked(T)} \in SUBSET S /\ T \in SUBSET S
      BY <2>4
    <3>2. iter[T \ {Picked(T)}] = G[T \ {Picked(T)}]
      BY <2>2, <3>1
    <3> HIDE DEF Picked, G
    <3>3. iter[T] = question[Picked(T)].asked + iter[T \ {Picked(T)}]
      BY <1>4, <2>4, <3>1
    <3>4. G[T] = question[Picked(T)].asked + G[T \ {Picked(T)}]
      BY <1>3, <2>4, <3>1
    <3> QED
      BY <2>2, <3>2, <3>3, <3>4
  <2> QED
    BY <2>3, <2>4
<1> QED
  BY <1>1, <1>5

\* The questions of an organization were told of the halts of its agents.
LEMMA HaltsOfOrg ==
  ASSUME HaltInv, NEW org \in Orgs
  PROVE  ToldOfAny(OwnedBy(org)) = {h \in Halts : halt[h].pc = "told" /\ OrgOf[halt[h].agent] = org}
<1>1. ASSUME NEW q \in Halts, NEW h \in ToldOf(q)
      PROVE  /\ h \in Halts /\ halt[h].pc = "told" /\ q \in Asked
             /\ OrgOf[question[q].agent] = OrgOf[halt[h].agent]
  <2>1. h \in Halts /\ halt[h].pc = "told"
    BY DEF ToldOf
  <2>2. q \in Asked
    <3>1. IsFiniteSet(ToldOf(q))
      <4>1. ToldOf(q) \in SUBSET Halts
        BY DEF ToldOf
      <4> QED
        BY <4>1, FS_Subset, QuestionsAssumption
    <3>2. Cardinality(ToldOf(q)) \in Nat /\ Cardinality(ToldOf(q)) # 0
      BY <3>1, FS_CardinalityType, FS_EmptySet
    <3> QED
      BY <3>2 DEF HaltInv, Asked
  <2>3. CASE halt[h].found = None
    <3>1. h = q /\ question[h].asked > 0
      BY <2>2, <2>3 DEF ToldOf, Asked
    <3>2. question[h].agent = halt[h].agent
      BY <2>1, <3>1 DEF HaltInv
    <3> QED
      BY <2>1, <2>2, <3>1, <3>2
  <2>4. CASE halt[h].found # None
    <3>1. halt[h].found = q
      BY <2>4 DEF ToldOf
    <3>2. OrgOf[question[halt[h].found].agent] = OrgOf[halt[h].agent]
      BY <2>1, <2>4 DEF HaltInv
    <3> QED
      BY <2>1, <2>2, <3>1, <3>2
  <2> QED
    BY <2>3, <2>4
<1>2. ASSUME NEW h \in Halts, halt[h].pc = "told" PROVE \E q \in Halts : h \in ToldOf(q)
  <2>1. CASE halt[h].found = None
    BY <1>2, <2>1 DEF ToldOf
  <2>2. CASE halt[h].found # None
    <3>1. halt[h].found \in Halts
      BY <2>2 DEF HaltInv, Asked
    <3> QED
      BY <1>2, <2>2, <3>1 DEF ToldOf
  <2> QED
    BY <2>1, <2>2
<1>3. OwnedBy(org) = {q \in Asked : OrgOf[question[q].agent] = org} /\ Asked \subseteq Halts
  BY DEF OwnedBy, Asked
<1>4. ASSUME NEW h \in ToldOfAny(OwnedBy(org))
      PROVE  h \in Halts /\ halt[h].pc = "told" /\ OrgOf[halt[h].agent] = org
  <2>1. PICK q \in OwnedBy(org) : h \in ToldOf(q)
    BY DEF ToldOfAny
  <2> QED
    BY <1>1, <1>3, <2>1
<1>5. ASSUME NEW h \in Halts, halt[h].pc = "told", OrgOf[halt[h].agent] = org
      PROVE  h \in ToldOfAny(OwnedBy(org))
  <2>1. PICK q \in Halts : h \in ToldOf(q)
    BY <1>2, <1>5
  <2>2. q \in OwnedBy(org)
    BY <1>1, <1>3, <1>5, <2>1
  <2> QED
    BY <2>1, <2>2 DEF ToldOfAny
<1> QED
  BY <1>4, <1>5

\* The number of halts that an organization is shown is the number of its
\* agents' halts that were told: no increment is lost, however many are counted
\* at once.
THEOREM EveryHaltCounts == Spec => []HaltsAddUp
<1>1. TypeOK /\ QuestionInv => HaltsAddUp
  <2> SUFFICES ASSUME HaltInv, NEW org \in Orgs
               PROVE  Convergence(org).halts =
                        Cardinality({h \in Halts : halt[h].pc = "told" /\ OrgOf[halt[h].agent] = org})
    BY DEF HaltsAddUp, QuestionInv
  <2>1. OwnedBy(org) \in SUBSET Halts
    BY DEF OwnedBy, Asked
  <2>2. Convergence(org).halts = MapThenSumSet(LAMBDA q : question[q].asked, OwnedBy(org))
    BY DEF Convergence
  <2>3. MapThenSumSet(LAMBDA q : question[q].asked, OwnedBy(org)) = Cardinality(ToldOfAny(OwnedBy(org)))
    BY <2>1, HaltsAre
  <2> QED
    BY <2>2, <2>3, HaltsOfOrg
<1> QED
  BY <1>1, QuestionsCorrect, PTL
=============================================================================
