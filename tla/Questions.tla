----------------------------- MODULE Questions -----------------------------
(***************************************************************************)
(* Halts recorded as questions, and the answers that close them.           *)
(*                                                                         *)
(* Every request is a READ COMMITTED transaction without a lock on what it *)
(* has read: a halt looks for the same question and then counts against    *)
(* it, an answer is inserted and then supersedes the answers it can see, a *)
(* verification or a dispute reads the answer it will mark. An UPDATE and  *)
(* the commit after it are one step: the row lock between them delays      *)
(* others and shows them nothing. A row carries the request that inserts   *)
(* it as its id.                                                           *)
(***************************************************************************)
EXTENDS Naturals, Sequences, FiniteSets, FiniteSetsExt, SequencesExt

CONSTANTS
  Agents,    \* the agents whose keys sign the requests
  OrgOf,     \* the organization of each
  Needs,     \* the classes of needs that are one question: within SAME_QUESTION
  Halts,     \* POST /questions
  Replies,   \* POST /questions/{id}/answer
  Edits,     \* POST /answers/{id}/verify and .../dispute
  None       \* SQL's NULL

Orgs == {OrgOf[a] : a \in Agents}

ASSUME QuestionsAssumption ==
  /\ DOMAIN OrgOf = Agents
  /\ None \notin Agents \cup Orgs \cup Needs \cup Halts \cup Replies \cup Edits
  /\ IsFiniteSet(Halts) /\ IsFiniteSet(Replies)

VARIABLES
  question,  \* the committed questions
  answer,    \* the answers: absent, inserted and not committed, committed
  written,   \* answers in the order of their answered_at
  halt,      \* the halts under way or done
  reply,     \* the answers under way or done
  edit       \* the verifications and disputes under way or done

vars == <<question, answer, written, halt, reply, edit>>

-----------------------------------------------------------------------------

NoQuestion == [asked |-> 0, agent |-> None, need |-> None, assumed |-> FALSE]

QuestionRows == [asked: Nat, agent: Agents \cup {None}, need: Needs \cup {None}, assumed: BOOLEAN]

\* by: asked_by_agent; knew (auxiliary): the answers that were committed when
\* this one was inserted; typed (auxiliary): whose request it came with.
NoAnswer == [state |-> "absent", question |-> None, by |-> None, typed |-> None, knew |-> {},
             verified |-> FALSE, disputed |-> FALSE, superseded |-> None, served |-> 0]

AnswerRows ==
  [state: {"absent", "open", "in"}, question: Halts \cup {None},
   by: Agents \cup {None}, typed: Agents \cup {None}, knew: SUBSET Replies,
   verified: BOOLEAN, disputed: BOOLEAN, superseded: Replies \cup {None}, served: Nat]

Asked == {q \in Halts : question[q].asked > 0}
OwnedBy(org) == {q \in Asked : OrgOf[question[q].agent] = org}
AnswersTo(q) == {a \in Replies : answer[a].state = "in" /\ answer[a].question = q}
StandingOn(q) == {a \in AnswersTo(q) : answer[a].superseded = None}

\* The questions of an organization within the distance. Several are as near
\* as each other when two halts recorded one need at once: ORDER BY d takes any.
Nearest(org, need) == {q \in OwnedBy(org) : question[q].need = need}

\* The answer a caller may act on: the latest standing one that nobody disputes
\* and that is verified, or was asked for by the caller.
CurrentAnswer(q, agent) ==
  LET usable == {i \in DOMAIN written :
                   /\ written[i] \in StandingOn(q)
                   /\ ~answer[written[i]].disputed
                   /\ answer[written[i]].verified \/ answer[written[i]].by = agent}
  IN  IF usable = {} THEN None ELSE written[Max(usable)]

-----------------------------------------------------------------------------

Init ==
  /\ question = [q \in Halts |-> NoQuestion]
  /\ answer = [a \in Replies |-> NoAnswer]
  /\ written = <<>>
  /\ halt = [h \in Halts |-> [pc |-> "new", agent |-> None, need |-> None,
                              found |-> None, asked |-> 0, answer |-> None]]
  /\ reply = [r \in Replies |-> [pc |-> "new", sees |-> {}]]
  /\ edit = [e \in Edits |-> [pc |-> "new", what |-> "none", answer |-> None]]

\* A halt embeds its need and looks for it among the questions of its
\* organization, with the answer this agent may act on. One that dies before
\* its commit has shown nothing to anybody: it stays here.
HaltLooks(h) ==
  /\ halt[h].pc = "new"
  /\ \E agent \in Agents, need \in Needs :
       \E q \in IF Nearest(OrgOf[agent], need) = {} THEN {None} ELSE Nearest(OrgOf[agent], need) :
         halt' = [halt EXCEPT ![h] =
                    [pc |-> "looked", agent |-> agent, need |-> need, found |-> q,
                     asked |-> IF q = None THEN 0 ELSE question[q].asked,
                     answer |-> IF q = None THEN None ELSE CurrentAnswer(q, agent)]]
  /\ UNCHANGED <<question, answer, written, reply, edit>>

\* Variant: the count is written from the row that was read.
CountsStale(h) ==
  /\ halt[h].pc = "looked" /\ halt[h].found # None
  /\ question' = [question EXCEPT ![halt[h].found].asked = halt[h].asked + 1]
  /\ answer' = IF halt[h].answer = None THEN answer
               ELSE [answer EXCEPT ![halt[h].answer].served = @ + 1]
  /\ halt' = [halt EXCEPT ![h].pc = "told"]
  /\ UNCHANGED <<written, reply, edit>>

\* Variant: only the first halt that is answered is counted as served.
CountsOnce(h) ==
  /\ halt[h].pc = "looked" /\ halt[h].found # None
  /\ question' = [question EXCEPT ![halt[h].found].asked = @ + 1]
  /\ answer' = IF halt[h].answer = None THEN answer
               ELSE [answer EXCEPT ![halt[h].answer].served = 1]
  /\ halt' = [halt EXCEPT ![h].pc = "told"]
  /\ UNCHANGED <<written, reply, edit>>

\* The same question: it is counted, and so is the answer that is handed out.
HaltCounts(h) ==
  /\ halt[h].pc = "looked" /\ halt[h].found # None
  /\ question' = [question EXCEPT ![halt[h].found].asked = @ + 1]
  /\ answer' = IF halt[h].answer = None THEN answer
               ELSE [answer EXCEPT ![halt[h].answer].served = @ + 1]
  /\ halt' = [halt EXCEPT ![h].pc = "told"]
  /\ UNCHANGED <<written, reply, edit>>

\* A new question. Nothing in the table keeps out a second one for the need.
HaltAsks(h) ==
  /\ halt[h].pc = "looked" /\ halt[h].found = None
  /\ question' = [question EXCEPT ![h] = [asked |-> 1, agent |-> halt[h].agent,
                                          need |-> halt[h].need, assumed |-> FALSE]]
  /\ halt' = [halt EXCEPT ![h].pc = "told"]
  /\ UNCHANGED <<answer, written, reply, edit>>

\* An answer to a question of the caller's organization, kept for the agent
\* that first asked it.
ReplyInserts(r) ==
  /\ reply[r].pc = "new"
  /\ \E agent \in Agents : \E q \in OwnedBy(OrgOf[agent]) :
       answer' = [answer EXCEPT ![r] = [NoAnswer EXCEPT
                    !.state = "open", !.question = q, !.by = question[q].agent, !.typed = agent,
                    !.knew = AnswersTo(q)]]
  /\ written' = Append(written, r)
  /\ reply' = [reply EXCEPT ![r].pc = "inserted"]
  /\ UNCHANGED <<question, halt, edit>>

\* Variant: the UPDATE does not leave out the row just inserted.
SupersedesItself(r) ==
  /\ reply[r].pc = "inserted"
  /\ reply' = [reply EXCEPT ![r] = [pc |-> "updated", sees |-> {r} \cup StandingOn(answer[r].question)]]
  /\ UNCHANGED <<question, answer, written, halt, edit>>

\* Variant: only the answer that is being served is superseded.
SupersedesTheServed(r) ==
  /\ reply[r].pc = "inserted"
  /\ reply' = [reply EXCEPT ![r] =
       [pc |-> "updated", sees |-> StandingOn(answer[r].question) \cap {CurrentAnswer(answer[r].question, None)}]]
  /\ UNCHANGED <<question, answer, written, halt, edit>>

\* The UPDATE of what stood before sees the committed rows of this moment.
ReplySupersedes(r) ==
  /\ reply[r].pc = "inserted"
  /\ reply' = [reply EXCEPT ![r] = [pc |-> "updated", sees |-> StandingOn(answer[r].question)]]
  /\ UNCHANGED <<question, answer, written, halt, edit>>

\* The commit. A row another answer superseded meanwhile, while this UPDATE
\* waited for its lock, no longer qualifies.
ReplyCommits(r) ==
  /\ reply[r].pc = "updated"
  /\ answer' = [a \in Replies |->
       IF a \in reply[r].sees /\ answer[a].superseded = None
       THEN [answer[a] EXCEPT !.superseded = r, !.state = "in"]
       ELSE IF a = r THEN [answer[a] EXCEPT !.state = "in"]
       ELSE answer[a]]
  /\ reply' = [reply EXCEPT ![r] = [pc |-> "done", sees |-> {}]]
  /\ UNCHANGED <<question, written, halt, edit>>

ReplyDies(r) ==
  /\ reply[r].pc \in {"inserted", "updated"}
  /\ answer' = [answer EXCEPT ![r] = NoAnswer]
  /\ \E i \in DOMAIN written : written[i] = r /\ written' = RemoveAt(written, i)
  /\ reply' = [reply EXCEPT ![r] = [pc |-> "dead", sees |-> {}]]
  /\ UNCHANGED <<question, halt, edit>>

\* verify reads an answer that still stands, ...
VerifyReads(e) ==
  /\ edit[e].pc = "new"
  /\ \E q \in Asked : \E a \in StandingOn(q) :
       edit' = [edit EXCEPT ![e] = [pc |-> "read", what |-> "verify", answer |-> a]]
  /\ UNCHANGED <<question, answer, written, halt, reply>>

\* ... dispute reads any.
DisputeReads(e) ==
  /\ edit[e].pc = "new"
  /\ \E q \in Asked : \E a \in AnswersTo(q) :
       edit' = [edit EXCEPT ![e] = [pc |-> "read", what |-> "dispute", answer |-> a]]
  /\ UNCHANGED <<question, answer, written, halt, reply>>

\* The second human's word. The UPDATE is by primary key.
Verify(e) ==
  /\ edit[e].pc = "read" /\ edit[e].what = "verify"
  /\ answer' = [answer EXCEPT ![edit[e].answer].verified = TRUE]
  /\ edit' = [edit EXCEPT ![e].pc = "done"]
  /\ UNCHANGED <<question, written, halt, reply>>

\* Somebody says it did damage.
Dispute(e) ==
  /\ edit[e].pc = "read" /\ edit[e].what = "dispute"
  /\ answer' = [answer EXCEPT ![edit[e].answer].disputed = TRUE]
  /\ edit' = [edit EXCEPT ![e].pc = "done"]
  /\ UNCHANGED <<question, written, halt, reply>>

\* An agent proceeds on a guess: recorded, and nothing is retired by it.
Assume(q) ==
  /\ q \in Asked
  /\ question' = [question EXCEPT ![q].assumed = TRUE]
  /\ UNCHANGED <<answer, written, halt, reply, edit>>

\* The requests, as sequences of these steps.
RecordQuestion(h) == HaltLooks(h) \/ HaltCounts(h) \/ HaltAsks(h)
AnswerQuestion(r) == ReplyInserts(r) \/ ReplySupersedes(r) \/ ReplyCommits(r) \/ ReplyDies(r)
VerifyAnswer(e) == VerifyReads(e) \/ Verify(e)
DisputeAnswer(e) == DisputeReads(e) \/ Dispute(e)

Next ==
  \/ \E h \in Halts : RecordQuestion(h)
  \/ \E r \in Replies : AnswerQuestion(r)
  \/ \E e \in Edits : VerifyAnswer(e) \/ DisputeAnswer(e)
  \/ \E q \in Halts : Assume(q)

Spec == Init /\ [][Next]_vars

-----------------------------------------------------------------------------
\* The reports a human reads, over what is committed.

Unanswered(org) == {q \in OwnedBy(org) : StandingOn(q) = {}}

AwaitingVerification(org) ==
  {a \in Replies : \E q \in OwnedBy(org) : a \in StandingOn(q) /\ ~answer[a].verified}

\* Variant: a disputed answer still keeps its question off the list.
StaleUnlessAnswered(org) == {q \in OwnedBy(org) : StandingOn(q) = {}}

\* Once it is old enough: no standing answer, or only disputed ones.
Stale(org) == {q \in OwnedBy(org) : \A a \in StandingOn(q) : answer[a].disputed}

\* Is the loop paying back?
Convergence(org) ==
  [distinct |-> Cardinality(OwnedBy(org)),
   halts |-> MapThenSumSet(LAMBDA q : question[q].asked, OwnedBy(org)),
   answered |-> Cardinality({q \in OwnedBy(org) : \E a \in StandingOn(q) : ~answer[a].disputed}),
   reused |-> MapThenSumSet(LAMBDA a : answer[a].served,
                            {a \in Replies : answer[a].question \in OwnedBy(org)}),
   assumed |-> Cardinality({q \in OwnedBy(org) : question[q].assumed})]

\* What a team reads to find the questions that need somebody.
Reports(org) ==
  Unanswered(org) \cup Stale(org) \cup {answer[a].question : a \in AwaitingVerification(org)}

-----------------------------------------------------------------------------

HaltRows == [pc: {"new", "looked", "told"}, agent: Agents \cup {None}, need: Needs \cup {None},
             found: Halts \cup {None}, asked: Nat, answer: Replies \cup {None}]
ReplyRows == [pc: {"new", "inserted", "updated", "done", "dead"}, sees: SUBSET Replies]
EditRows == [pc: {"new", "read", "done"}, what: {"none", "verify", "dispute"}, answer: Replies \cup {None}]

TypeOK ==
  /\ question \in [Halts -> QuestionRows]
  /\ answer \in [Replies -> AnswerRows]
  /\ written \in Seq(Replies)
  /\ halt \in [Halts -> HaltRows]
  /\ reply \in [Replies -> ReplyRows]
  /\ edit \in [Edits -> EditRows]

-----------------------------------------------------------------------------
(* What holds at every step, and the properties below rest on.             *)

\* The halts a question has been told of.
ToldOf(q) == {h \in Halts : halt[h].pc = "told" /\ halt[h].found \in {None, q} /\ (halt[h].found = None => h = q)}

\* The halts an answer was handed to.
ServedTo(a) == {h \in Halts : halt[h].pc = "told" /\ halt[h].answer = a}

\* A question is counted once for each of them; a halt that has looked, and
\* found one, is of its organization;
HaltInv ==
  /\ \A q \in Halts : question[q].asked = Cardinality(ToldOf(q))
  /\ \A q \in Asked : question[q].agent \in Agents
  /\ \A h \in Halts :
       /\ halt[h].pc # "new" => halt[h].agent \in Agents
       /\ halt[h].pc = "new" => halt[h].found = None
       /\ halt[h].found # None =>
            halt[h].found \in Asked /\ OrgOf[question[halt[h].found].agent] = OrgOf[halt[h].agent]
       /\ question[h].asked > 0 =>
            halt[h].pc = "told" /\ halt[h].found = None /\ question[h].agent = halt[h].agent
       /\ halt[h].found = None => halt[h].answer = None
       /\ halt[h].answer # None => answer[halt[h].answer].state = "in"

\* an answer is where its request is, and is to a question that was asked, and
\* what it knew and what it is about to supersede are committed answers to it;
AnswerInv(a) ==
  /\ reply[a].pc \in {"new", "dead"} => answer[a].state = "absent"
  /\ reply[a].pc \in {"inserted", "updated"} => answer[a].state = "open"
  /\ reply[a].pc = "done" => answer[a].state = "in"
  /\ reply[a].pc # "updated" => reply[a].sees = {}
  /\ answer[a].state # "absent" =>
       /\ answer[a].question \in Asked /\ answer[a].by \in Agents
       /\ \E i \in DOMAIN written : written[i] = a
  /\ answer[a].state # "in" => answer[a].superseded = None
  /\ reply[a].sees \cup answer[a].knew \subseteq AnswersTo(answer[a].question)
  /\ a \notin reply[a].sees
  /\ reply[a].pc = "updated" =>
       \A b \in answer[a].knew : answer[b].superseded # None \/ b \in reply[a].sees

\* and what a human is about to verify or dispute is committed too.
EditInv == \A e \in Edits : edit[e].pc = "read" => edit[e].answer \in Replies /\ answer[edit[e].answer].state = "in"

QuestionInv ==
  /\ HaltInv
  /\ \A a \in Replies : AnswerInv(a)
  /\ EditInv

-----------------------------------------------------------------------------
(* Properties.                                                             *)

\* Every halt that was answered or recorded is in the numbers of its
\* organization, whatever was counted at the same time: no increment is lost.
HaltsAddUp ==
  \A org \in Orgs :
    Convergence(org).halts = Cardinality({h \in Halts : halt[h].pc = "told" /\ OrgOf[halt[h].agent] = org})

\* The blast radius of an answer is the number of halts that were handed it.
ServedIsTheBlastRadius ==
  \A a \in Replies :
    answer[a].served = Cardinality(ServedTo(a))

\* A question somebody has answered never ends up with every answer
\* superseded, however many answers supersede each other at once: supersession
\* ends in an answer that stands.
AnsweredStaysAnswered ==
  \A q \in Asked : AnswersTo(q) # {} => StandingOn(q) # {}

\* An answer supersedes everything that was committed before it was given: two
\* answers stand on one question only when their requests overlapped.
LastWordStands ==
  \A a, b \in Replies :
    answer[b].state = "in" /\ a \in answer[b].knew => answer[a].superseded # None

\* A question that serves nobody unattended is on a list somebody reads:
\* unanswered, waiting for a second human, or stale with all it has disputed.
\* A question that is served to the whole organization is not called unanswered.
NothingFallsBetween ==
  \A org \in Orgs : \A q \in OwnedBy(org) :
    IF CurrentAnswer(q, None) = None
    THEN q \in Reports(org)
    ELSE q \notin Unanswered(org) \cup Stale(org)

=============================================================================
