-------------------------- MODULE PracticeMissions --------------------------
(***************************************************************************)
(* A student's attempts at one practice mission: startAttempt, saveWork,    *)
(* revealHint and submit (server/domain/development/service.js), the        *)
(* attempts and practice units of the store (repository.pg.js) and the      *)
(* evaluation of submitted work (evaluate.js).                              *)
(*                                                                         *)
(* A request reads the attempt and the intervention it belongs to in one    *)
(* step and writes in a later one; only the write compares.  An attempt is  *)
(* named by its idempotency key, unique per user.  An edit fills a field of *)
(* its own, so that work is a set of edits; a rule or a quote of criterion  *)
(* x is about the edit ShownBy[x].                                          *)
(***************************************************************************)
EXTENDS Naturals, FiniteSets

CONSTANTS
    StartKeys,    \* idempotency keys of startAttempt
    Fields,       \* edits
    Criteria,
    CheckOf,      \* [Criteria -> {"DETERMINISTIC", "EVALUATOR", "BOTH"}]
    ShownBy,      \* [Criteria -> Fields]
    MaxHints,     \* hints of the mission
    Visits        \* requests

Checks == {"DETERMINISTIC", "EVALUATOR", "BOTH"}

ASSUME PracticeAssumption ==
    /\ StartKeys # {}
    /\ CheckOf \in [Criteria -> Checks] /\ ShownBy \in [Criteria -> Fields]
    /\ MaxHints \in Nat

VARIABLES
    attempt,    \* mission_attempts, per key
    units,      \* practice_evidence_units: criteria per attempt
    open,       \* whether the intervention of the attempts is open
    visit,      \* the requests
    retried,    \* history: a new attempt was asked for beside an open one
    crowded,    \* history: two starts were under way at once
    overlaid    \* history: attempts saved while they were being evaluated

practiceVars == <<attempt, units, open, visit, retried, crowded, overlaid>>

Results == {"OBSERVED", "NOT_OBSERVED", "UNCERTAIN"}
Submitted == {"EVALUATED", "EVALUATION_UNAVAILABLE"}
NoResult == [x \in Criteria |-> "UNCERTAIN"]
Fresh(status, version) == [status |-> status, version |-> version, work |-> {}, hints |-> 0, judged |-> {}, result |-> NoResult]
NoAttempt == Fresh("none", 0)

PracticeTypeOK ==
    /\ attempt \in [StartKeys -> [status : {"none", "IN_PROGRESS"} \cup Submitted, version : Nat, work : SUBSET Fields,
                                  hints : 0..MaxHints, judged : SUBSET Fields, result : [Criteria -> Results]]]
    /\ units \in [StartKeys -> SUBSET Criteria]
    /\ visit \in [Visits -> [pc : {"idle", "create", "save", "hint", "judge", "settle", "done", "refused"},
                             op : {"start", "save", "hint", "submit"}, key : StartKeys, edits : SUBSET Fields, match : Nat, work : SUBSET Fields, hints : 0..MaxHints]]
    /\ open \in BOOLEAN /\ retried \in BOOLEAN /\ crowded \in BOOLEAN /\ overlaid \subseteq StartKeys

PracticeInit ==
    /\ attempt = [k \in StartKeys |-> NoAttempt]
    /\ units = [k \in StartKeys |-> {}]
    /\ open = TRUE
    /\ visit = [c \in Visits |-> [pc |-> "idle", op |-> "start", key |-> CHOOSE k \in StartKeys : TRUE,
                             edits |-> {}, match |-> 0, work |-> {}, hints |-> 0]]
    /\ retried = FALSE /\ crowded = FALSE /\ overlaid = {}

-----------------------------------------------------------------------------
Attempts == {k \in StartKeys : attempt[k].status # "none"}
InProgress == {k \in StartKeys : attempt[k].status = "IN_PROGRESS"}

\* attemptFor with { write: true }.
Writable(k) == k \in Attempts /\ (attempt[k].status = "IN_PROGRESS" => open)

Go(c, pc) == visit' = [visit EXCEPT ![c].pc = pc]

\* evaluateMissionWork.  What the rules see is decided by the work; an answer of
\* the evaluator is missing or unsure, "no", or "yes" with a quote that is looked up in the work.
Passes(x, work) == ShownBy[x] \in work
ResultOf(x, work, available, answer) ==
    CASE CheckOf[x] = "DETERMINISTIC" -> IF Passes(x, work) THEN "OBSERVED" ELSE "NOT_OBSERVED"
      [] CheckOf[x] = "BOTH" /\ ~Passes(x, work) -> "NOT_OBSERVED"
      [] OTHER -> IF ~available \/ answer = "unsure" THEN "UNCERTAIN"
                  ELSE IF answer = "no" THEN IF CheckOf[x] = "BOTH" THEN "UNCERTAIN" ELSE "NOT_OBSERVED"
                  ELSE IF Passes(x, work) THEN "OBSERVED" ELSE "UNCERTAIN"

Observed(result) == {x \in Criteria : result[x] = "OBSERVED"}

\* The evaluator is asked when a criterion needs it; without it the attempt still ends.
NeedsEvaluator(work) == \E x \in Criteria : CheckOf[x] = "EVALUATOR" \/ (CheckOf[x] = "BOTH" /\ Passes(x, work))

-----------------------------------------------------------------------------
(* startAttempt *)

\* The open attempt is resumed, unless the student asks for another.
AskStart(c, k, retry) ==
    LET resumes == ~retry /\ InProgress # {} IN
    /\ visit[c].pc = "idle" /\ open
    /\ visit' = [visit EXCEPT ![c].key = k, ![c].pc = IF resumes THEN "done" ELSE "create"]
    /\ retried' = (retried \/ retry)
    /\ crowded' = (crowded \/ (~resumes /\ \E d \in Visits : visit[d].pc = "create"))
    /\ UNCHANGED <<attempt, units, open, overlaid>>

\* createAttempt: a key that was used returns the attempt it made.
Create(c) ==
    /\ visit[c].pc = "create"
    /\ attempt' = [attempt EXCEPT ![visit[c].key] = IF @ = NoAttempt THEN Fresh("IN_PROGRESS", 1) ELSE @]
    /\ Go(c, "done")
    /\ UNCHANGED <<units, open, retried, crowded, overlaid>>

-----------------------------------------------------------------------------
(* saveWork and revealHint *)

\* The page names the version it was built on; the edits are merged into the work that is read now.
AskSave(c, k, e, v) ==
    /\ visit[c].pc = "idle" /\ Writable(k) /\ v \in 1..attempt[k].version
    /\ visit' = [visit EXCEPT ![c] = [pc |-> "save", op |-> "save", key |-> k, edits |-> {e}, match |-> v,
                                     work |-> attempt[k].work \cup {e}, hints |-> 0]]
    /\ UNCHANGED <<attempt, units, open, retried, crowded, overlaid>>

\* Mutant: the hints of the mission are not counted.
AskHintUncounted(c, k, v) ==
    /\ visit[c].pc = "idle" /\ Writable(k) /\ v \in 1..attempt[k].version
    /\ visit' = [visit EXCEPT ![c] = [pc |-> "hint", op |-> "hint", key |-> k, edits |-> {}, match |-> v,
                                     work |-> {}, hints |-> attempt[k].hints]]
    /\ UNCHANGED <<attempt, units, open, retried, crowded, overlaid>>

AskHint(c, k, v) ==
    /\ visit[c].pc = "idle" /\ Writable(k) /\ v \in 1..attempt[k].version
    /\ visit' = [visit EXCEPT ![c] = [pc |-> IF attempt[k].hints < MaxHints THEN "hint" ELSE "done", op |-> "hint",
                                     key |-> k, edits |-> {}, match |-> v, work |-> {}, hints |-> attempt[k].hints]]
    /\ UNCHANGED <<attempt, units, open, retried, crowded, overlaid>>

\* The compare-and-set of saveAttemptWork.
Fits(c) == attempt[visit[c].key].status = "IN_PROGRESS" /\ attempt[visit[c].key].version = visit[c].match

Judging(k) == \E d \in Visits : visit[d].pc = "judge" /\ visit[d].key = k

Save(c) ==
    LET k == visit[c].key IN
    /\ visit[c].pc = "save"
    /\ IF Fits(c)
         THEN /\ attempt' = [attempt EXCEPT ![k].work = visit[c].work, ![k].version = @ + 1]
              /\ overlaid' = IF Judging(k) THEN overlaid \cup {k} ELSE overlaid
              /\ Go(c, "done")
         ELSE Go(c, "refused") /\ UNCHANGED <<attempt, overlaid>>
    /\ UNCHANGED <<units, open, retried, crowded>>

Hint(c) ==
    LET k == visit[c].key IN
    /\ visit[c].pc = "hint"
    /\ IF Fits(c)
         THEN attempt' = [attempt EXCEPT ![k].hints = visit[c].hints + 1, ![k].version = @ + 1] /\ Go(c, "done")
         ELSE Go(c, "refused") /\ UNCHANGED attempt
    /\ UNCHANGED <<units, open, retried, crowded, overlaid>>

-----------------------------------------------------------------------------
(* submit *)

AskSubmit(c, k) ==
    /\ visit[c].pc = "idle" /\ Writable(k)
    /\ visit' = [visit EXCEPT ![c] = [pc |-> IF attempt[k].status = "IN_PROGRESS" THEN "judge" ELSE "settle", op |-> "submit",
                                     key |-> k, edits |-> {}, match |-> 0, work |-> attempt[k].work, hints |-> 0]]
    /\ UNCHANGED <<attempt, units, open, retried, crowded, overlaid>>

\* The attempt with the result of the work that was judged; its own work is not written.
WithResults(a, available, work, result) ==
    [status |-> IF available THEN "EVALUATED" ELSE "EVALUATION_UNAVAILABLE", version |-> a.version + 1,
     work |-> a.work, hints |-> a.hints, judged |-> work, result |-> result]

\* Mutant: the last evaluation to end is the one that is stored.
CompleteAgain(c) ==
    LET k == visit[c].key
        work == visit[c].work IN
    /\ visit[c].pc = "judge"
    /\ \E available \in BOOLEAN, answer \in [Criteria -> {"unsure", "no", "yes"}] :
         LET result == [x \in Criteria |-> ResultOf(x, work, available, answer[x])] IN
         /\ NeedsEvaluator(work) \/ available
         /\ attempt' = [attempt EXCEPT ![k] = WithResults(@, available, work, result)]
    /\ Go(c, "settle")
    /\ UNCHANGED <<units, open, retried, crowded, overlaid>>

\* The work that was read is evaluated; completeAttempt stores the result of
\* the first evaluation to end, whatever the version of the work is by then.
Complete(c) ==
    LET k == visit[c].key
        work == visit[c].work IN
    /\ visit[c].pc = "judge"
    /\ IF attempt[k].status = "IN_PROGRESS"
         THEN \E available \in BOOLEAN, answer \in [Criteria -> {"unsure", "no", "yes"}] :
                LET result == [x \in Criteria |-> ResultOf(x, work, available, answer[x])] IN
                /\ NeedsEvaluator(work) \/ available
                /\ attempt' = [attempt EXCEPT ![k] = WithResults(@, available, work, result)]
         ELSE UNCHANGED attempt
    /\ Go(c, "settle")
    /\ UNCHANGED <<units, open, retried, crowded, overlaid>>

\* Mutant: a replay answers without looking at the practice units.
SettleFirstOnly(c) ==
    /\ visit[c].pc = "settle"
    /\ Go(c, "done")
    /\ UNCHANGED <<attempt, units, open, retried, crowded, overlaid>>

\* appendPracticeUnits of the stored result, each unit once per attempt and criterion.
Settle(c) ==
    LET k == visit[c].key IN
    /\ visit[c].pc = "settle"
    /\ units' = [units EXCEPT ![k] = @ \cup Observed(attempt[k].result)]
    /\ Go(c, "done")
    /\ UNCHANGED <<attempt, open, retried, crowded, overlaid>>

-----------------------------------------------------------------------------
\* A request ends in an error or with its process, some of its units written.
VisitBreaks(c) ==
    LET k == visit[c].key IN
    /\ visit[c].pc \in {"create", "save", "hint", "judge", "settle"}
    /\ \E some \in SUBSET (IF visit[c].pc = "settle" THEN Observed(attempt[k].result) ELSE {}) :
         units' = [units EXCEPT ![k] = @ \cup some]
    /\ Go(c, "refused")
    /\ UNCHANGED <<attempt, open, retried, crowded, overlaid>>

\* The institution ends the intervention, or its last day passes.
Close ==
    /\ open
    /\ open' = FALSE
    /\ UNCHANGED <<attempt, units, visit, retried, crowded, overlaid>>

PracticeNext ==
    \/ \E c \in Visits :
         \/ \E k \in StartKeys, retry \in BOOLEAN : AskStart(c, k, retry)
         \/ \E k \in StartKeys, e \in Fields : \E v \in 1..attempt[k].version : AskSave(c, k, e, v)
         \/ \E k \in StartKeys : \E v \in 1..attempt[k].version : AskHint(c, k, v)
         \/ \E k \in StartKeys : AskSubmit(c, k)
         \/ Create(c) \/ Save(c) \/ Hint(c) \/ Complete(c) \/ Settle(c) \/ VisitBreaks(c)
    \/ Close

PracticeSpec == PracticeInit /\ [][PracticeNext]_practiceVars

-----------------------------------------------------------------------------
(* Properties *)

\* A student who does not ask for a second attempt has one open attempt, unless
\* two starts are under way at once ("Resumes the open attempt ... unless `retry`").
OneOpenAttempt == retried \/ crowded \/ Cardinality(InProgress) <= 1

\* An edit that was acknowledged stays in the attempt: the tab that saved last
\* on an old version is refused, and no save is lost under another's merge.
SavedWorkKept ==
    \A c \in Visits : visit[c].pc = "done" => visit[c].edits \subseteq attempt[visit[c].key].work

\* The result of an attempt is of the work the attempt shows, unless a save was
\* acknowledged while the evaluation was running.
ResultIsOfTheWork ==
    \A k \in StartKeys \ overlaid : attempt[k].status \in Submitted => attempt[k].judged = attempt[k].work

\* Practice evidence follows the stored result: nothing else is ever written,
\* a submit that was answered has written it all, also when an earlier one was
\* cut short ("A replay also completes a practice write that failed"), and each
\* unit rests on something the student wrote in that attempt.
UnitsFollowResult ==
    /\ \A k \in StartKeys : units[k] \subseteq Observed(attempt[k].result)
    /\ \A c \in Visits : (visit[c].op = "submit" /\ visit[c].pc = "done")
           => units[visit[c].key] = Observed(attempt[visit[c].key].result)
    /\ \A k \in StartKeys : \A x \in units[k] : ShownBy[x] \in attempt[k].work

\* What an attempt, its result and its evidence say of each other, however many
\* tabs start, save and submit it and wherever they fail.
AttemptSound == OneOpenAttempt /\ SavedWorkKept /\ ResultIsOfTheWork /\ UnitsFollowResult

\* "A repeated submit returns the stored result": a result is never replaced.
ResultStays ==
    [][\A k \in StartKeys : attempt[k].status \in Submitted => attempt'[k] = attempt[k]]_practiceVars
=============================================================================
