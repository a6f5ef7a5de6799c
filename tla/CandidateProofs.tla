--------------------------- MODULE CandidateProofs ---------------------------
(***************************************************************************)
(* Proofs about what one candidate does: PracticeMissions, for any number of*)
(* attempts, edits, criteria and requests; Interview, for any schedule of  *)
(* probes, any number of messages, failed writes and restarts; WorkMaterial,*)
(* for any number of edits, events, messages, readings and broken saves.    *)
(***************************************************************************)
EXTENDS MCCandidate, FiniteSetTheorems, SequenceTheorems, TLAPS

-----------------------------------------------------------------------------
(* The invariant *)

\* While a start is about to create, and no other start was made beside it,
\* no attempt is open.
OneStart ==
    \/ retried \/ crowded
    \/ /\ \A k, l \in InProgress : k = l
       /\ \A c \in Visits : visit[c].pc = "create" =>
             InProgress = {} /\ \A d \in Visits : visit[d].pc = "create" => d = c

\* An attempt has a result once it is submitted, of its own work.
AttemptOK(k) ==
    /\ attempt[k].status = "none" => attempt[k] = NoAttempt
    /\ attempt[k].status \notin Submitted => Observed(attempt[k].result) = {}
    /\ attempt[k].status \in Submitted /\ k \notin overlaid => attempt[k].judged = attempt[k].work
    /\ \A x \in Observed(attempt[k].result) : ShownBy[x] \in attempt[k].work
    /\ units[k] \subseteq Observed(attempt[k].result)

\* What a request holds of its attempt at each of its steps.
SaveOK(v, a) == v.pc = "save" =>
    /\ a.status # "none" /\ v.match <= a.version
    /\ v.edits \subseteq v.work
    /\ a.version = v.match => a.work \subseteq v.work
JudgeOK(v, a) == v.pc = "judge" =>
    /\ a.status # "none" /\ v.work \subseteq a.work
    /\ v.key \notin overlaid => v.work = a.work
SettleOK(v, a) ==
    /\ v.pc = "settle" => a.status \in Submitted
    /\ v.op = "submit" /\ v.pc = "done" => a.status \in Submitted /\ units[v.key] = Observed(a.result)
EditsOK(v, a) ==
    /\ v.pc \notin {"save", "done", "refused"} => v.edits = {}
    /\ v.pc = "done" => v.edits \subseteq a.work
    /\ v.pc = "hint" => v.hints < MaxHints
    /\ v.pc \in {"idle", "create", "save", "hint"} => v.op # "submit"

VisitOK(c) ==
    LET v == visit[c]
        a == attempt[v.key] IN
    SaveOK(v, a) /\ JudgeOK(v, a) /\ SettleOK(v, a) /\ EditsOK(v, a)

PracticeInv ==
    /\ PracticeTypeOK
    /\ OneStart
    /\ \A k \in StartKeys : AttemptOK(k)
    /\ \A c \in Visits : VisitOK(c)

\* What every step does to the attempts: they are created once, change only
\* while they are open, and lose no work.
Grows ==
    /\ \A k \in StartKeys :
         \/ attempt'[k] = attempt[k]
         \/ attempt[k].status = "none" /\ attempt'[k] = Fresh("IN_PROGRESS", 1)
         \/ /\ attempt[k].status = "IN_PROGRESS" /\ attempt'[k].status # "none"
            /\ attempt'[k].version = attempt[k].version + 1
            /\ attempt[k].work \subseteq attempt'[k].work
            /\ attempt'[k].work = attempt[k].work \/ ~Judging(k) \/ k \in overlaid'
    /\ overlaid \subseteq overlaid'
    /\ \A k \in StartKeys : units[k] \subseteq units'[k] /\ units'[k] \subseteq Observed(attempt'[k].result)

-----------------------------------------------------------------------------
(* Lemmas *)

\* Types of the records' fields.
LEMMA VisitFields ==
  ASSUME PracticeTypeOK, NEW c \in Visits
  PROVE  /\ visit[c].key \in StartKeys /\ visit[c].match \in Nat
         /\ visit[c].work \subseteq Fields /\ visit[c].edits \subseteq Fields /\ visit[c].hints \in 0..MaxHints
BY DEF PracticeTypeOK

LEMMA AttemptFields ==
  ASSUME PracticeTypeOK, NEW k \in StartKeys
  PROVE  /\ attempt[k].status \in {"none", "IN_PROGRESS"} \cup Submitted /\ attempt[k].version \in Nat
         /\ attempt[k].work \subseteq Fields /\ attempt[k].judged \subseteq Fields
         /\ attempt[k].hints \in 0..MaxHints /\ attempt[k].result \in [Criteria -> Results]
BY DEF PracticeTypeOK

LEMMA NothingObserved == Observed(NoResult) = {}
BY DEF Observed, NoResult

\* A criterion is observed only in work that shows it.
LEMMA ObservedIsShown ==
  ASSUME NEW x \in Criteria, NEW work, NEW available, NEW answer, ResultOf(x, work, available, answer) = "OBSERVED"
  PROVE  ShownBy[x] \in work
BY DEF ResultOf, Passes

\* A request that does not move keeps what it holds, whatever others do.
LEMMA VisitStays ==
  ASSUME PracticeInv, PracticeTypeOK', Grows, NEW c \in Visits, visit'[c] = visit[c]
  PROVE  VisitOK(c)'
<1> DEFINE v == visit[c]
           k == v.key
<1>1. k \in StartKeys /\ v.match \in Nat /\ VisitOK(c) /\ AttemptOK(k)
  BY VisitFields DEF PracticeInv
<1>2. attempt[k].version \in Nat /\ attempt[k].status \in {"none", "IN_PROGRESS"} \cup Submitted
  BY <1>1, AttemptFields DEF PracticeInv
<1>3. SaveOK(v, attempt'[k])
  BY <1>1, <1>2 DEF VisitOK, SaveOK, Grows
<1>4. v.pc = "judge" => Judging(k)
  BY DEF Judging
<1>5. JudgeOK(v, attempt[k])
  BY <1>1 DEF VisitOK
<1>6. v.pc = "judge" =>
        /\ attempt'[k].status # "none" /\ v.work \subseteq attempt'[k].work
        /\ k \notin overlaid' => v.work = attempt'[k].work
  BY <1>1, <1>4, <1>5 DEF JudgeOK, Grows
<1>7. attempt[k].status \in Submitted =>
        attempt'[k] = attempt[k] /\ (units[k] = Observed(attempt[k].result) => units'[k] = units[k])
  BY <1>1 DEF Grows, Submitted
<1>8. attempt[k].work \subseteq attempt'[k].work
  BY <1>1 DEF Grows, AttemptOK, NoAttempt, Fresh
<1>9. EditsOK(v, attempt'[k])
  BY <1>1, <1>8 DEF VisitOK, EditsOK
<1> QED BY <1>1, <1>3, <1>6, <1>7, <1>9 DEF VisitOK, SaveOK, JudgeOK, SettleOK, EditsOK

\* A request goes on to another step with what it holds.
LEMMA GoesOn ==
  ASSUME PracticeTypeOK, NEW c \in Visits, NEW pc \in {"create", "save", "hint", "judge", "settle", "done", "refused"}, Go(c, pc)
  PROVE  /\ visit' \in [Visits -> [pc : {"idle", "create", "save", "hint", "judge", "settle", "done", "refused"},
                             op : {"start", "save", "hint", "submit"}, key : StartKeys, edits : SUBSET Fields, match : Nat, work : SUBSET Fields, hints : 0..MaxHints]]
         /\ \A d \in Visits \ {c} : visit'[d] = visit[d]
         /\ visit'[c].pc = pc /\ visit'[c].op = visit[c].op /\ visit'[c].key = visit[c].key
         /\ visit'[c].edits = visit[c].edits /\ visit'[c].work = visit[c].work /\ visit'[c].match = visit[c].match
BY DEF PracticeTypeOK, Go

\* Attempts nobody writes are as good as they were.
LEMMA AttemptsStay ==
  ASSUME PracticeInv, UNCHANGED <<attempt, units, overlaid>>
  PROVE  Grows /\ \A k \in StartKeys : AttemptOK(k)'
BY DEF PracticeInv, Grows, AttemptOK, Observed

\* No step but a start and its creation opens an attempt.
LEMMA OneStartStays ==
  ASSUME OneStart, UNCHANGED <<retried, crowded>>, InProgress' \subseteq InProgress,
         \A d \in Visits : visit'[d].pc = "create" => visit[d].pc = "create"
  PROVE  OneStart'
<1>1. CASE retried \/ crowded
  BY <1>1, Zenon DEF OneStart
<1>2. CASE ~(retried \/ crowded)
  BY <1>2, Zenon DEF OneStart
<1> QED BY <1>1, <1>2

LEMMA Assembled ==
  ASSUME PracticeInv, NEW c \in Visits, PracticeTypeOK', Grows, OneStart',
         \A k \in StartKeys : AttemptOK(k)',
         \A d \in Visits \ {c} : visit'[d] = visit[d],
         VisitOK(c)'
  PROVE  PracticeInv'
<1>1. \A d \in Visits \ {c} : VisitOK(d)'
  BY VisitStays
<1> QED BY <1>1 DEF PracticeInv

-----------------------------------------------------------------------------
(* The steps *)

LEMMA AskStartKeeps ==
  ASSUME PracticeInv, NEW c \in Visits, NEW k \in StartKeys, NEW retry \in BOOLEAN, AskStart(c, k, retry)
  PROVE  PracticeInv'
<1> DEFINE resumes == ~retry /\ InProgress # {}
           pc == IF resumes THEN "done" ELSE "create"
<1>1. PracticeTypeOK /\ VisitOK(c) /\ visit[c].pc = "idle"
  BY DEF PracticeInv, AskStart
<1>2. visit' = [visit EXCEPT ![c].key = k, ![c].pc = pc] /\ pc \in {"done", "create"}
  BY DEF AskStart
<1>3. UNCHANGED <<attempt, units, open, overlaid>>
  BY DEF AskStart
<1>4. /\ retried' = (retried \/ retry)
      /\ crowded' = (crowded \/ (~resumes /\ \E d \in Visits : visit[d].pc = "create"))
  BY DEF AskStart
<1>5. pc = "create" <=> ~resumes
  OBVIOUS
<1> HIDE DEF resumes, pc
<1>6. PracticeTypeOK'
  <2>1. visit' \in [Visits -> [pc : {"idle", "create", "save", "hint", "judge", "settle", "done", "refused"},
                             op : {"start", "save", "hint", "submit"}, key : StartKeys, edits : SUBSET Fields, match : Nat, work : SUBSET Fields, hints : 0..MaxHints]]
    BY <1>1, <1>2 DEF PracticeTypeOK
  <2>2. retried' \in BOOLEAN /\ crowded' \in BOOLEAN
    BY <1>4, Zenon
  <2> QED BY <1>1, <1>3, <2>1, <2>2 DEF PracticeTypeOK
<1>7. Grows /\ \A j \in StartKeys : AttemptOK(j)'
  BY <1>3, AttemptsStay
<1>8. /\ \A d \in Visits \ {c} : visit'[d] = visit[d]
      /\ visit'[c] = [visit[c] EXCEPT !.key = k, !.pc = pc]
  BY <1>1, <1>2 DEF PracticeTypeOK
<1>9. /\ visit'[c].pc = pc /\ visit'[c].edits = visit[c].edits /\ visit'[c].op = visit[c].op
  BY <1>1, <1>8 DEF PracticeTypeOK
<1>10. VisitOK(c)'
  <2>1. visit[c].edits = {} /\ visit[c].op # "submit"
    BY <1>1 DEF VisitOK, EditsOK
  <2> QED BY <1>2, <1>9, <2>1 DEF VisitOK, SaveOK, JudgeOK, SettleOK, EditsOK
<1>11. OneStart'
  <2>1. InProgress' = InProgress
    BY <1>3 DEF InProgress
  <2>2. CASE retried' \/ crowded'
    BY <2>2 DEF OneStart
  <2>3. CASE ~(retried' \/ crowded')
    <3>1. ~retried /\ ~crowded /\ ~retry /\ (resumes \/ \A d \in Visits : visit[d].pc # "create")
      BY <1>4, <2>3, Zenon
    <3>2. ~resumes => InProgress = {}
      BY <3>1 DEF resumes
    <3>3. /\ \A i, j \in InProgress : i = j
          /\ \A d \in Visits : visit[d].pc = "create" =>
                InProgress = {} /\ \A e \in Visits : visit[e].pc = "create" => e = d
      BY <3>1 DEF PracticeInv, OneStart
    <3>4. CASE resumes
      <4>1. \A d \in Visits : visit'[d].pc = "create" => visit[d].pc = "create"
        BY <1>5, <1>8, <1>9, <3>4
      <4> QED BY <2>1, <3>3, <4>1 DEF OneStart
    <3>5. CASE ~resumes
      <4>1. \A d \in Visits : visit'[d].pc = "create" => d = c
        BY <1>8, <3>1, <3>5
      <4> QED BY <2>1, <3>2, <3>3, <3>5, <4>1 DEF OneStart
    <3> QED BY <3>4, <3>5
  <2> QED BY <2>2, <2>3
<1> QED BY <1>6, <1>7, <1>8, <1>10, <1>11, Assembled

\* createAttempt: a key makes one attempt.
LEMMA CreateKeeps ==
  ASSUME PracticeInv, NEW c \in Visits, Create(c)
  PROVE  PracticeInv'
<1> DEFINE k == visit[c].key
           fresh == Fresh("IN_PROGRESS", 1)
<1>1. PracticeTypeOK /\ visit[c].pc = "create" /\ k \in StartKeys /\ VisitOK(c)
  BY VisitFields DEF PracticeInv, Create
<1>2. Go(c, "done") /\ UNCHANGED <<units, open, retried, crowded, overlaid>>
  BY DEF Create
<1>3. attempt' = [attempt EXCEPT ![k] = IF @ = NoAttempt THEN fresh ELSE @]
  BY DEF Create
<1>4. fresh.status = "IN_PROGRESS" /\ fresh.version = 1 /\ fresh.work = {} /\ fresh.hints = 0 /\ fresh.judged = {} /\ fresh.result = NoResult
      /\ fresh \in [status : {"none", "IN_PROGRESS"} \cup Submitted, version : Nat, work : SUBSET Fields,
                    hints : 0..MaxHints, judged : SUBSET Fields, result : [Criteria -> Results]]
  <2>1. NoResult \in [Criteria -> Results]
    BY DEF NoResult, Results
  <2>2. 0 \in 0..MaxHints
    BY PracticeAssumption
  <2> QED BY <2>1, <2>2 DEF Fresh
<1> HIDE DEF fresh
<1>5. \A j \in StartKeys : attempt'[j] = IF j = k /\ attempt[j] = NoAttempt THEN fresh ELSE attempt[j]
  BY <1>1, <1>3 DEF PracticeTypeOK
<1>6. PracticeTypeOK'
  <2>1. attempt' \in [StartKeys -> [status : {"none", "IN_PROGRESS"} \cup Submitted, version : Nat, work : SUBSET Fields,
                                  hints : 0..MaxHints, judged : SUBSET Fields, result : [Criteria -> Results]]]
    BY <1>1, <1>3, <1>4 DEF PracticeTypeOK
  <2> QED BY <1>1, <1>2, <2>1, GoesOn DEF PracticeTypeOK
<1>7. \A j \in StartKeys : attempt[j] = NoAttempt => Observed(attempt[j].result) = {} /\ attempt[j].status = "none"
  BY NothingObserved DEF NoAttempt, Fresh
<1>8. Grows
  <2>1. \A j \in StartKeys : units[j] \subseteq units'[j] /\ units'[j] \subseteq Observed(attempt'[j].result)
    BY <1>2, <1>4, <1>5, <1>7, NothingObserved DEF PracticeInv, AttemptOK
  <2> QED BY <1>2, <1>5, <1>7, <2>1 DEF Grows, fresh
<1>9. ASSUME NEW j \in StartKeys PROVE AttemptOK(j)'
  <2>1. CASE attempt'[j] = attempt[j]
    BY <1>2, <2>1 DEF PracticeInv, AttemptOK, Observed
  <2>2. CASE attempt'[j] = fresh /\ attempt[j] = NoAttempt
    <3>1. units'[j] = {}
      BY <1>2, <1>7, <2>2 DEF PracticeInv, AttemptOK
    <3>2. Observed(attempt'[j].result) = {}
      BY <1>4, <2>2, NothingObserved
    <3>3. attempt'[j].status = "IN_PROGRESS"
      BY <1>4, <2>2
    <3> QED BY <3>1, <3>2, <3>3 DEF AttemptOK, Submitted, Observed
  <2> QED BY <1>5, <2>1, <2>2
<1>10. VisitOK(c)'
  <2>1. visit[c].edits = {} /\ visit[c].op # "submit"
    BY <1>1 DEF VisitOK, EditsOK
  <2> QED BY <1>1, <1>2, <2>1, GoesOn DEF VisitOK, SaveOK, JudgeOK, SettleOK, EditsOK
<1>11. OneStart'
  <2>1. CASE retried \/ crowded
    BY <1>2, <2>1, Zenon DEF OneStart
  <2>2. CASE ~(retried \/ crowded)
    <3>1. InProgress = {} /\ \A d \in Visits : visit[d].pc = "create" => d = c
      BY <1>1, <2>2 DEF PracticeInv, OneStart
    <3>2. InProgress' \subseteq {k}
      BY <1>5, <3>1 DEF InProgress
    <3>3. \A d \in Visits : visit'[d].pc # "create"
      BY <1>1, <1>2, <3>1, GoesOn
    <3> QED BY <3>2, <3>3 DEF OneStart
  <2> QED BY <2>1, <2>2
<1> QED BY <1>1, <1>2, <1>6, <1>8, <1>9, <1>10, <1>11, GoesOn, Assembled

\* saveWork reads: the edit is merged into the work that is there.
LEMMA AskSaveKeeps ==
  ASSUME PracticeInv, NEW c \in Visits, NEW k \in StartKeys, NEW e \in Fields, NEW m \in 1..attempt[k].version, AskSave(c, k, e, m)
  PROVE  PracticeInv'
<1> DEFINE work == attempt[k].work \cup {e}
<1>1. PracticeTypeOK /\ visit[c].pc = "idle" /\ VisitOK(c) /\ attempt[k].status # "none"
  BY DEF PracticeInv, AskSave, Writable, Attempts
<1>2. attempt[k].version \in Nat /\ m \in Nat /\ m <= attempt[k].version /\ work \subseteq Fields
  BY <1>1, AttemptFields
<1>3. UNCHANGED <<attempt, units, open, retried, crowded, overlaid>>
  BY DEF AskSave
<1>4. visit' = [visit EXCEPT ![c] = [pc |-> "save", op |-> "save", key |-> k, edits |-> {e}, match |-> m, work |-> work, hints |-> 0]]
  BY DEF AskSave
<1> HIDE DEF work
<1>5. /\ visit' \in [Visits -> [pc : {"idle", "create", "save", "hint", "judge", "settle", "done", "refused"},
                             op : {"start", "save", "hint", "submit"}, key : StartKeys, edits : SUBSET Fields, match : Nat, work : SUBSET Fields, hints : 0..MaxHints]]
      /\ \A d \in Visits \ {c} : visit'[d] = visit[d]
      /\ visit'[c].pc = "save" /\ visit'[c].op = "save" /\ visit'[c].key = k /\ visit'[c].edits = {e}
      /\ visit'[c].match = m /\ visit'[c].work = work
  BY <1>1, <1>2, <1>4, PracticeAssumption DEF PracticeTypeOK
<1>6. PracticeTypeOK'
  BY <1>1, <1>3, <1>5 DEF PracticeTypeOK
<1>7. Grows /\ \A j \in StartKeys : AttemptOK(j)'
  BY <1>3, AttemptsStay
<1>8. VisitOK(c)'
  BY <1>1, <1>2, <1>3, <1>5 DEF VisitOK, SaveOK, JudgeOK, SettleOK, EditsOK, work
<1>9. OneStart'
  BY <1>3, <1>5, OneStartStays DEF PracticeInv, InProgress
<1> QED BY <1>5, <1>6, <1>7, <1>8, <1>9, Assembled

LEMMA AskHintKeeps ==
  ASSUME PracticeInv, NEW c \in Visits, NEW k \in StartKeys, NEW m \in 1..attempt[k].version, AskHint(c, k, m)
  PROVE  PracticeInv'
<1> DEFINE hints == attempt[k].hints
           pc == IF hints < MaxHints THEN "hint" ELSE "done"
<1>1. PracticeTypeOK /\ visit[c].pc = "idle"
  BY DEF PracticeInv, AskHint
<1>2. m \in Nat /\ pc \in {"hint", "done"} /\ hints \in 0..MaxHints /\ (pc = "hint" => hints < MaxHints)
  BY <1>1, AttemptFields
<1>3. UNCHANGED <<attempt, units, open, retried, crowded, overlaid>>
  BY DEF AskHint
<1>4. visit' = [visit EXCEPT ![c] = [pc |-> pc, op |-> "hint", key |-> k, edits |-> {}, match |-> m, work |-> {}, hints |-> hints]]
  BY DEF AskHint
<1> HIDE DEF pc, hints
<1>5. /\ visit' \in [Visits -> [pc : {"idle", "create", "save", "hint", "judge", "settle", "done", "refused"},
                             op : {"start", "save", "hint", "submit"}, key : StartKeys, edits : SUBSET Fields, match : Nat, work : SUBSET Fields, hints : 0..MaxHints]]
      /\ \A d \in Visits \ {c} : visit'[d] = visit[d]
      /\ visit'[c].pc = pc /\ visit'[c].op = "hint" /\ visit'[c].edits = {} /\ visit'[c].hints = hints
  BY <1>1, <1>2, <1>4 DEF PracticeTypeOK
<1>6. PracticeTypeOK'
  BY <1>1, <1>3, <1>5 DEF PracticeTypeOK
<1>7. Grows /\ \A j \in StartKeys : AttemptOK(j)'
  BY <1>3, AttemptsStay
<1>8. VisitOK(c)'
  BY <1>2, <1>5 DEF VisitOK, SaveOK, JudgeOK, SettleOK, EditsOK
<1>9. OneStart'
  BY <1>2, <1>3, <1>5, OneStartStays DEF PracticeInv, InProgress
<1> QED BY <1>5, <1>6, <1>7, <1>8, <1>9, Assembled

\* saveWork writes: the compare-and-set gives the edit the work it was merged into.
LEMMA SaveKeeps ==
  ASSUME PracticeInv, NEW c \in Visits, Save(c)
  PROVE  PracticeInv'
<1> DEFINE k == visit[c].key
           work == visit[c].work
<1>1. PracticeTypeOK /\ visit[c].pc = "save" /\ k \in StartKeys /\ work \subseteq Fields /\ VisitOK(c) /\ AttemptOK(k)
  BY VisitFields DEF PracticeInv, Save
<1>2. UNCHANGED <<units, open, retried, crowded>>
  BY DEF Save
<1>3. CASE ~Fits(c)
  <2>1. Go(c, "refused") /\ UNCHANGED <<attempt, overlaid>>
    BY <1>3 DEF Save
  <2>2. PracticeTypeOK'
    BY <1>1, <1>2, <2>1, GoesOn DEF PracticeTypeOK
  <2>3. Grows /\ \A j \in StartKeys : AttemptOK(j)'
    BY <1>2, <2>1, AttemptsStay
  <2>4. VisitOK(c)'
    BY <1>1, <2>1, GoesOn DEF VisitOK, SaveOK, JudgeOK, SettleOK, EditsOK
  <2>5. OneStart'
    BY <1>1, <1>2, <2>1, GoesOn, OneStartStays DEF PracticeInv, InProgress
  <2> QED BY <1>1, <2>1, <2>2, <2>3, <2>4, <2>5, GoesOn, Assembled
<1>4. CASE Fits(c)
  <2>1. /\ attempt' = [attempt EXCEPT ![k].work = work, ![k].version = @ + 1]
        /\ overlaid' = IF Judging(k) THEN overlaid \cup {k} ELSE overlaid
        /\ Go(c, "done")
    BY <1>4 DEF Save
  <2>2. attempt[k].status = "IN_PROGRESS" /\ attempt[k].version = visit[c].match /\ attempt[k].work \subseteq work
    BY <1>1, <1>4 DEF Fits, VisitOK, SaveOK
  <2>3. visit[c].op # "submit" /\ visit[c].edits \subseteq work
    BY <1>1 DEF VisitOK, SaveOK, EditsOK
  <2> HIDE DEF k, work
  <2>4. /\ attempt' \in [StartKeys -> [status : {"none", "IN_PROGRESS"} \cup Submitted, version : Nat, work : SUBSET Fields,
                                  hints : 0..MaxHints, judged : SUBSET Fields, result : [Criteria -> Results]]]
        /\ \A j \in StartKeys \ {k} : attempt'[j] = attempt[j]
        /\ attempt'[k].status = "IN_PROGRESS" /\ attempt'[k].work = work /\ attempt'[k].version = attempt[k].version + 1
        /\ attempt'[k].result = attempt[k].result
    BY <1>1, <2>1, <2>2 DEF PracticeTypeOK
  <2>5. overlaid \subseteq overlaid' /\ overlaid' \subseteq overlaid \cup {k} /\ (Judging(k) => k \in overlaid')
    BY <2>1
  <2>6. PracticeTypeOK'
    BY <1>1, <1>2, <2>1, <2>4, <2>5, GoesOn DEF PracticeTypeOK
  <2>7. Observed(attempt[k].result) = {} /\ units[k] = {}
    BY <1>1, <2>2 DEF AttemptOK, Submitted
  <2>8. \A j \in StartKeys : Observed(attempt'[j].result) = Observed(attempt[j].result)
    BY <2>4 DEF Observed
  <2>9. Grows
    <3>1. \A j \in StartKeys : units[j] \subseteq units'[j] /\ units'[j] \subseteq Observed(attempt'[j].result)
      BY <1>2, <2>8 DEF PracticeInv, AttemptOK
    <3> QED BY <1>1, <2>2, <2>4, <2>5, <3>1 DEF Grows
  <2>10. ASSUME NEW j \in StartKeys PROVE AttemptOK(j)'
    <3>1. CASE j = k
      BY <1>2, <2>4, <2>7, <2>8, <3>1 DEF AttemptOK, Submitted
    <3>2. CASE j # k
      BY <1>2, <2>4, <2>5, <2>8, <3>2 DEF PracticeInv, AttemptOK
    <3> QED BY <3>1, <3>2
  <2>11. VisitOK(c)'
    BY <1>1, <2>1, <2>3, <2>4, GoesOn DEF VisitOK, SaveOK, JudgeOK, SettleOK, EditsOK, k
  <2>12. OneStart'
    <3>1. InProgress' \subseteq InProgress
      BY <2>2, <2>4 DEF InProgress
    <3>2. \A d \in Visits : visit'[d].pc = "create" => visit[d].pc = "create"
      BY <1>1, <2>1, GoesOn
    <3> QED BY <1>2, <3>1, <3>2, OneStartStays DEF PracticeInv
  <2> QED BY <1>1, <2>1, <2>6, <2>9, <2>10, <2>11, <2>12, GoesOn, Assembled
<1> QED BY <1>3, <1>4

\* revealHint writes: a hint was left when it was asked for.
LEMMA HintKeeps ==
  ASSUME PracticeInv, NEW c \in Visits, Hint(c)
  PROVE  PracticeInv'
<1> DEFINE k == visit[c].key
           hints == visit[c].hints
<1>1. PracticeTypeOK /\ visit[c].pc = "hint" /\ k \in StartKeys /\ VisitOK(c) /\ AttemptOK(k)
  BY VisitFields DEF PracticeInv, Hint
<1>2. UNCHANGED <<units, open, retried, crowded, overlaid>>
  BY DEF Hint
<1>3. CASE ~Fits(c)
  <2>1. Go(c, "refused") /\ UNCHANGED attempt
    BY <1>3 DEF Hint
  <2>2. PracticeTypeOK'
    BY <1>1, <1>2, <2>1, GoesOn DEF PracticeTypeOK
  <2>3. Grows /\ \A j \in StartKeys : AttemptOK(j)'
    BY <1>2, <2>1, AttemptsStay
  <2>4. VisitOK(c)'
    BY <1>1, <2>1, GoesOn DEF VisitOK, SaveOK, JudgeOK, SettleOK, EditsOK
  <2>5. OneStart'
    BY <1>1, <1>2, <2>1, GoesOn, OneStartStays DEF PracticeInv, InProgress
  <2> QED BY <1>1, <2>1, <2>2, <2>3, <2>4, <2>5, GoesOn, Assembled
<1>4. CASE Fits(c)
  <2>1. attempt' = [attempt EXCEPT ![k].hints = hints + 1, ![k].version = @ + 1] /\ Go(c, "done")
    BY <1>4 DEF Hint
  <2>2. attempt[k].status = "IN_PROGRESS"
    BY <1>4 DEF Fits
  <2>3. visit[c].op # "submit" /\ visit[c].edits = {} /\ hints + 1 \in 0..MaxHints
    BY <1>1, VisitFields, PracticeAssumption DEF VisitOK, EditsOK
  <2> HIDE DEF k, hints
  <2>4. /\ attempt' \in [StartKeys -> [status : {"none", "IN_PROGRESS"} \cup Submitted, version : Nat, work : SUBSET Fields,
                                  hints : 0..MaxHints, judged : SUBSET Fields, result : [Criteria -> Results]]]
        /\ \A j \in StartKeys \ {k} : attempt'[j] = attempt[j]
        /\ attempt'[k].status = "IN_PROGRESS" /\ attempt'[k].work = attempt[k].work /\ attempt'[k].version = attempt[k].version + 1
        /\ attempt'[k].result = attempt[k].result
    BY <1>1, <2>1, <2>2, <2>3 DEF PracticeTypeOK
  <2>6. PracticeTypeOK'
    BY <1>1, <1>2, <2>1, <2>4, GoesOn DEF PracticeTypeOK
  <2>7. Observed(attempt[k].result) = {} /\ units[k] = {}
    BY <1>1, <2>2 DEF AttemptOK, Submitted
  <2>8. \A j \in StartKeys : Observed(attempt'[j].result) = Observed(attempt[j].result)
    BY <2>4 DEF Observed
  <2>9. Grows
    <3>1. \A j \in StartKeys : units[j] \subseteq units'[j] /\ units'[j] \subseteq Observed(attempt'[j].result)
      BY <1>2, <2>8 DEF PracticeInv, AttemptOK
    <3> QED BY <1>1, <1>2, <2>2, <2>4, <3>1 DEF Grows
  <2>10. ASSUME NEW j \in StartKeys PROVE AttemptOK(j)'
    <3>1. CASE j = k
      BY <1>2, <2>4, <2>7, <2>8, <3>1 DEF AttemptOK, Submitted
    <3>2. CASE j # k
      BY <1>2, <2>4, <2>8, <3>2 DEF PracticeInv, AttemptOK
    <3> QED BY <3>1, <3>2
  <2>11. VisitOK(c)'
    BY <1>1, <2>1, <2>3, <2>4, GoesOn DEF VisitOK, SaveOK, JudgeOK, SettleOK, EditsOK, k
  <2>12. OneStart'
    <3>1. InProgress' \subseteq InProgress
      BY <2>2, <2>4 DEF InProgress
    <3>2. \A d \in Visits : visit'[d].pc = "create" => visit[d].pc = "create"
      BY <1>1, <2>1, GoesOn
    <3> QED BY <1>2, <3>1, <3>2, OneStartStays DEF PracticeInv
  <2> QED BY <1>1, <2>1, <2>6, <2>9, <2>10, <2>11, <2>12, GoesOn, Assembled
<1> QED BY <1>3, <1>4

\* submit reads: the work to be judged is the work of the attempt.
LEMMA AskSubmitKeeps ==
  ASSUME PracticeInv, NEW c \in Visits, NEW k \in StartKeys, AskSubmit(c, k)
  PROVE  PracticeInv'
<1> DEFINE work == attempt[k].work
           pc == IF attempt[k].status = "IN_PROGRESS" THEN "judge" ELSE "settle"
<1>1. PracticeTypeOK /\ attempt[k].status # "none"
  BY DEF PracticeInv, AskSubmit, Writable, Attempts
<1>2. pc \in {"judge", "settle"} /\ work \subseteq Fields /\ (pc = "settle" => attempt[k].status \in Submitted)
  BY <1>1, AttemptFields
<1>3. UNCHANGED <<attempt, units, open, retried, crowded, overlaid>>
  BY DEF AskSubmit
<1>4. visit' = [visit EXCEPT ![c] = [pc |-> pc, op |-> "submit", key |-> k, edits |-> {}, match |-> 0, work |-> work, hints |-> 0]]
  BY DEF AskSubmit
<1> HIDE DEF pc, work
<1>5. /\ visit' \in [Visits -> [pc : {"idle", "create", "save", "hint", "judge", "settle", "done", "refused"},
                             op : {"start", "save", "hint", "submit"}, key : StartKeys, edits : SUBSET Fields, match : Nat, work : SUBSET Fields, hints : 0..MaxHints]]
      /\ \A d \in Visits \ {c} : visit'[d] = visit[d]
      /\ visit'[c].pc = pc /\ visit'[c].key = k /\ visit'[c].edits = {} /\ visit'[c].work = work
  BY <1>1, <1>2, <1>4, PracticeAssumption DEF PracticeTypeOK
<1>6. PracticeTypeOK'
  BY <1>1, <1>3, <1>5 DEF PracticeTypeOK
<1>7. Grows /\ \A j \in StartKeys : AttemptOK(j)'
  BY <1>3, AttemptsStay
<1>8. VisitOK(c)'
  BY <1>1, <1>2, <1>3, <1>5 DEF VisitOK, SaveOK, JudgeOK, SettleOK, EditsOK, work
<1>9. OneStart'
  BY <1>2, <1>3, <1>5, OneStartStays DEF PracticeInv, InProgress
<1> QED BY <1>5, <1>6, <1>7, <1>8, <1>9, Assembled

\* completeAttempt: the first evaluation to end is stored, with the work it judged.
LEMMA CompleteKeeps ==
  ASSUME PracticeInv, NEW c \in Visits, Complete(c)
  PROVE  PracticeInv'
<1> DEFINE k == visit[c].key
           work == visit[c].work
<1>1. PracticeTypeOK /\ visit[c].pc = "judge" /\ k \in StartKeys /\ work \subseteq Fields /\ VisitOK(c) /\ AttemptOK(k)
  BY VisitFields DEF PracticeInv, Complete
<1>2. Go(c, "settle") /\ UNCHANGED <<units, open, retried, crowded, overlaid>>
  BY DEF Complete
<1>3. /\ work \subseteq attempt[k].work /\ (k \notin overlaid => work = attempt[k].work)
      /\ attempt[k].status # "none" /\ visit[c].edits = {}
  BY <1>1 DEF VisitOK, JudgeOK, EditsOK
<1>4. CASE attempt[k].status # "IN_PROGRESS"
  <2>1. UNCHANGED attempt /\ attempt[k].status \in Submitted
    BY <1>1, <1>3, <1>4, AttemptFields DEF Complete
  <2>2. PracticeTypeOK'
    BY <1>1, <1>2, <2>1, GoesOn DEF PracticeTypeOK
  <2>3. Grows /\ \A j \in StartKeys : AttemptOK(j)'
    BY <1>2, <2>1, AttemptsStay
  <2>4. VisitOK(c)'
    BY <1>1, <1>2, <1>3, <2>1, GoesOn DEF VisitOK, SaveOK, JudgeOK, SettleOK, EditsOK
  <2>5. OneStart'
    BY <1>1, <1>2, <2>1, GoesOn, OneStartStays DEF PracticeInv, InProgress
  <2> QED BY <1>1, <1>2, <2>2, <2>3, <2>4, <2>5, GoesOn, Assembled
<1>5. CASE attempt[k].status = "IN_PROGRESS"
  <2>1. PICK available \in BOOLEAN, answer \in [Criteria -> {"unsure", "no", "yes"}] :
          attempt' = [attempt EXCEPT ![k] = WithResults(@, available, work, [x \in Criteria |-> ResultOf(x, work, available, answer[x])])]
    BY <1>5 DEF Complete
  <2> DEFINE result == [x \in Criteria |-> ResultOf(x, work, available, answer[x])]
             status == IF available THEN "EVALUATED" ELSE "EVALUATION_UNAVAILABLE"
  <2>2. result \in [Criteria -> Results]
    BY DEF ResultOf, Results
  <2>3. \A x \in Observed(result) : ShownBy[x] \in work
    BY ObservedIsShown DEF Observed
  <2>4. status \in Submitted
    BY DEF Submitted
  <2>5. attempt' = [attempt EXCEPT ![k] = [status |-> status, version |-> attempt[k].version + 1, work |-> attempt[k].work,
                                           hints |-> attempt[k].hints, judged |-> work, result |-> result]]
    BY <2>1 DEF WithResults
  <2> HIDE DEF k, work, result, status
  <2>6. /\ attempt[k].version + 1 \in Nat /\ attempt[k].work \in SUBSET Fields /\ attempt[k].hints \in 0..MaxHints
        /\ status \in {"none", "IN_PROGRESS"} \cup Submitted /\ work \in SUBSET Fields
    BY <1>1, <2>4, AttemptFields
  <2>7. /\ attempt'[k] = [status |-> status, version |-> attempt[k].version + 1, work |-> attempt[k].work,
                          hints |-> attempt[k].hints, judged |-> work, result |-> result]
        /\ attempt'[k].status = status /\ attempt'[k].version = attempt[k].version + 1
        /\ attempt'[k].work = attempt[k].work /\ attempt'[k].judged = work /\ attempt'[k].result = result
    BY <1>1, <2>5 DEF PracticeTypeOK
  <2>8. /\ attempt' \in [StartKeys -> [status : {"none", "IN_PROGRESS"} \cup Submitted, version : Nat, work : SUBSET Fields,
                                  hints : 0..MaxHints, judged : SUBSET Fields, result : [Criteria -> Results]]]
        /\ \A j \in StartKeys \ {k} : attempt'[j] = attempt[j]
    BY <1>1, <2>2, <2>5, <2>6 DEF PracticeTypeOK
  <2>9. PracticeTypeOK'
    BY <1>1, <1>2, <2>8, GoesOn DEF PracticeTypeOK
  <2>10. units[k] = {}
    BY <1>1, <1>5 DEF AttemptOK, Submitted
  <2>11. \A j \in StartKeys \ {k} : Observed(attempt'[j].result) = Observed(attempt[j].result)
    BY <2>8 DEF Observed
  <2>12. Grows
    <3>1. \A j \in StartKeys : units[j] \subseteq units'[j] /\ units'[j] \subseteq Observed(attempt'[j].result)
      BY <1>2, <2>10, <2>11 DEF PracticeInv, AttemptOK
    <3>2. attempt'[k].status # "none"
      BY <2>4, <2>7 DEF Submitted
    <3> QED BY <1>1, <1>2, <1>5, <2>7, <2>8, <3>1, <3>2 DEF Grows
  <2>13. ASSUME NEW j \in StartKeys PROVE AttemptOK(j)'
    <3>1. CASE j = k
      <4>1. \A x \in Observed(attempt'[k].result) : ShownBy[x] \in attempt'[k].work
        BY <1>3, <2>3, <2>7 DEF k, work
      <4>2. k \notin overlaid' => attempt'[k].judged = attempt'[k].work
        BY <1>2, <1>3, <2>7 DEF k, work
      <4>3. attempt'[k].status \in Submitted /\ attempt'[k].status # "none"
        BY <2>4, <2>7 DEF Submitted
      <4> QED BY <1>2, <2>10, <3>1, <4>1, <4>2, <4>3 DEF AttemptOK, Observed
    <3>2. CASE j # k
      BY <1>2, <2>8, <2>11, <3>2 DEF PracticeInv, AttemptOK
    <3> QED BY <3>1, <3>2
  <2>14. VisitOK(c)'
    BY <1>1, <1>2, <1>3, <2>4, <2>7, GoesOn DEF VisitOK, SaveOK, JudgeOK, SettleOK, EditsOK, k
  <2>15. OneStart'
    <3>1. InProgress' \subseteq InProgress
      BY <1>5, <2>8 DEF InProgress, k
    <3>2. \A d \in Visits : visit'[d].pc = "create" => visit[d].pc = "create"
      BY <1>1, <1>2, GoesOn
    <3> QED BY <1>2, <3>1, <3>2, OneStartStays DEF PracticeInv
  <2> QED BY <1>1, <1>2, <2>9, <2>12, <2>13, <2>14, <2>15, GoesOn, Assembled
<1> QED BY <1>4, <1>5

\* Units written for attempt k, all of its observed criteria or some.
LEMMA UnitsGrow ==
  ASSUME PracticeInv, NEW k \in StartKeys, NEW some, some \subseteq Observed(attempt[k].result),
         units' = [units EXCEPT ![k] = @ \cup some], UNCHANGED <<attempt, overlaid>>
  PROVE  /\ Grows /\ \A j \in StartKeys : AttemptOK(j)'
         /\ units' \in [StartKeys -> SUBSET Criteria]
         /\ units'[k] = units[k] \cup some
<1>1. PracticeTypeOK /\ some \subseteq Criteria
  BY DEF PracticeInv, Observed
<1>2. /\ units' \in [StartKeys -> SUBSET Criteria]
      /\ \A j \in StartKeys \ {k} : units'[j] = units[j]
      /\ units'[k] = units[k] \cup some
  BY <1>1 DEF PracticeTypeOK
<1>3. \A j \in StartKeys : units[j] \subseteq units'[j] /\ units'[j] \subseteq Observed(attempt[j].result)
  BY <1>2 DEF PracticeInv, AttemptOK
<1>4. \A j \in StartKeys : Observed(attempt[j].result)' = Observed(attempt[j].result)
  BY DEF Observed
<1>5. Grows
  BY <1>3, <1>4 DEF Grows
<1>6. \A j \in StartKeys : AttemptOK(j)'
  BY <1>3, <1>4 DEF PracticeInv, AttemptOK
<1> QED BY <1>2, <1>5, <1>6

\* appendPracticeUnits: after it the attempt has all of its units.
LEMMA SettleKeeps ==
  ASSUME PracticeInv, NEW c \in Visits, Settle(c)
  PROVE  PracticeInv'
<1> DEFINE k == visit[c].key
           some == Observed(attempt[k].result)
<1>1. PracticeTypeOK /\ visit[c].pc = "settle" /\ k \in StartKeys /\ VisitOK(c) /\ AttemptOK(k)
  BY VisitFields DEF PracticeInv, Settle
<1>2. Go(c, "done") /\ UNCHANGED <<attempt, open, retried, crowded, overlaid>> /\ units' = [units EXCEPT ![k] = @ \cup some]
  BY DEF Settle
<1>3. Grows /\ (\A j \in StartKeys : AttemptOK(j)') /\ units' \in [StartKeys -> SUBSET Criteria] /\ units'[k] = units[k] \cup some
  BY <1>1, <1>2, UnitsGrow
<1>4. PracticeTypeOK'
  BY <1>1, <1>2, <1>3, GoesOn DEF PracticeTypeOK
<1>5. VisitOK(c)'
  <2>1. visit[c].edits = {} /\ attempt[k].status \in Submitted
    BY <1>1 DEF VisitOK, EditsOK, SettleOK
  <2>2. units'[k] = Observed(attempt'[k].result)
    BY <1>1, <1>2, <1>3 DEF AttemptOK, Observed
  <2> QED BY <1>1, <1>2, <2>1, <2>2, GoesOn DEF VisitOK, SaveOK, JudgeOK, SettleOK, EditsOK, Observed
<1>6. OneStart'
  BY <1>1, <1>2, GoesOn, OneStartStays DEF PracticeInv, InProgress
<1> QED BY <1>1, <1>2, <1>3, <1>4, <1>5, <1>6, GoesOn, Assembled

\* A request that breaks has written some of its units.
LEMMA VisitBreaksKeeps ==
  ASSUME PracticeInv, NEW c \in Visits, VisitBreaks(c)
  PROVE  PracticeInv'
<1> DEFINE k == visit[c].key
<1>1. PracticeTypeOK /\ k \in StartKeys
  BY VisitFields DEF PracticeInv
<1>2. Go(c, "refused") /\ UNCHANGED <<attempt, open, retried, crowded, overlaid>>
  BY DEF VisitBreaks
<1>3. PICK some \in SUBSET (IF visit[c].pc = "settle" THEN Observed(attempt[k].result) ELSE {}) : units' = [units EXCEPT ![k] = @ \cup some]
  BY DEF VisitBreaks
<1>4. Grows /\ (\A j \in StartKeys : AttemptOK(j)') /\ units' \in [StartKeys -> SUBSET Criteria]
  BY <1>1, <1>2, <1>3, UnitsGrow
<1>5. PracticeTypeOK'
  BY <1>1, <1>2, <1>4, GoesOn DEF PracticeTypeOK
<1>6. VisitOK(c)'
  BY <1>2, <1>1, GoesOn DEF VisitOK, SaveOK, JudgeOK, SettleOK, EditsOK
<1>7. OneStart'
  BY <1>1, <1>2, GoesOn, OneStartStays DEF PracticeInv, InProgress
<1> QED BY <1>1, <1>2, <1>4, <1>5, <1>6, <1>7, GoesOn, Assembled

\* The intervention ends, or nothing happens.
LEMMA NothingMoves ==
  ASSUME PracticeInv, UNCHANGED <<attempt, units, visit, retried, crowded, overlaid>>, open' \in BOOLEAN
  PROVE  PracticeInv'
<1>1. PracticeTypeOK'
  BY DEF PracticeInv, PracticeTypeOK
<1>2. Grows /\ \A j \in StartKeys : AttemptOK(j)'
  BY AttemptsStay
<1>3. \A d \in Visits : VisitOK(d)'
  BY <1>1, <1>2, VisitStays
<1>4. OneStart'
  BY OneStartStays DEF PracticeInv, InProgress
<1> QED BY <1>1, <1>2, <1>3, <1>4 DEF PracticeInv

LEMMA PracticeInitOK == PracticeInit => PracticeInv
<1> SUFFICES ASSUME PracticeInit PROVE PracticeInv
  OBVIOUS
<1>1. (CHOOSE k \in StartKeys : TRUE) \in StartKeys
  BY PracticeAssumption
<1>2. NoResult \in [Criteria -> Results]
  BY DEF NoResult, Results
<1>3. 0 \in 0..MaxHints
  BY PracticeAssumption
<1>4. PracticeTypeOK
  BY <1>1, <1>2, <1>3 DEF PracticeInit, PracticeTypeOK, NoAttempt, Fresh
<1>5. \A k \in StartKeys : attempt[k] = NoAttempt /\ attempt[k].status = "none" /\ Observed(attempt[k].result) = {} /\ units[k] = {}
  BY NothingObserved DEF PracticeInit, NoAttempt, Fresh
<1>6. \A k \in StartKeys : AttemptOK(k)
  BY <1>5 DEF AttemptOK, Submitted
<1>7. \A c \in Visits : visit[c].pc = "idle" /\ visit[c].op = "start" /\ visit[c].edits = {}
  BY DEF PracticeInit
<1>8. \A c \in Visits : VisitOK(c)
  BY <1>7 DEF VisitOK, SaveOK, JudgeOK, SettleOK, EditsOK
<1>9. OneStart
  BY <1>5, <1>7 DEF OneStart, InProgress
<1> QED BY <1>4, <1>6, <1>8, <1>9 DEF PracticeInv

LEMMA PracticeStep == PracticeInv /\ [PracticeNext]_practiceVars => PracticeInv'
<1> SUFFICES ASSUME PracticeInv, [PracticeNext]_practiceVars PROVE PracticeInv'
  OBVIOUS
<1>1. ASSUME NEW c \in Visits, NEW k \in StartKeys, NEW retry \in BOOLEAN, AskStart(c, k, retry) PROVE PracticeInv'
  BY <1>1, AskStartKeeps
<1>2. ASSUME NEW c \in Visits, NEW k \in StartKeys, NEW e \in Fields, NEW v \in 1..attempt[k].version, AskSave(c, k, e, v) PROVE PracticeInv'
  BY <1>2, AskSaveKeeps
<1>3. ASSUME NEW c \in Visits, NEW k \in StartKeys, NEW v \in 1..attempt[k].version, AskHint(c, k, v) PROVE PracticeInv'
  BY <1>3, AskHintKeeps
<1>4. ASSUME NEW c \in Visits, NEW k \in StartKeys, AskSubmit(c, k) PROVE PracticeInv'
  BY <1>4, AskSubmitKeeps
<1>5. ASSUME NEW c \in Visits, Create(c) \/ Save(c) \/ Hint(c) \/ Complete(c) \/ Settle(c) \/ VisitBreaks(c) PROVE PracticeInv'
  BY <1>5, CreateKeeps, SaveKeeps, HintKeeps, CompleteKeeps, SettleKeeps, VisitBreaksKeeps
<1>6. CASE Close
  BY <1>6, NothingMoves DEF Close
<1>7. CASE UNCHANGED practiceVars
  BY <1>7, NothingMoves DEF practiceVars, PracticeInv, PracticeTypeOK
<1> QED BY <1>1, <1>2, <1>3, <1>4, <1>5, <1>6, <1>7 DEF PracticeNext

-----------------------------------------------------------------------------
(* The theorems *)

LEMMA InvIsSound == PracticeInv => AttemptSound
<1> SUFFICES ASSUME PracticeInv PROVE AttemptSound
  OBVIOUS
<1>1. OneOpenAttempt
  <2>1. CASE retried \/ crowded
    BY <2>1, Zenon DEF OneOpenAttempt
  <2>2. CASE ~(retried \/ crowded)
    <3>1. \A k, l \in InProgress : k = l
      BY <2>2, Zenon DEF PracticeInv, OneStart
    <3>2. CASE InProgress = {}
      BY <3>2, FS_EmptySet DEF OneOpenAttempt
    <3>3. CASE InProgress # {}
      <4>1. PICK k \in InProgress : TRUE
        BY <3>3
      <4>2. InProgress = {k}
        BY <3>1, <4>1
      <4> QED BY <4>2, FS_Singleton DEF OneOpenAttempt
    <3> QED BY <3>2, <3>3
  <2> QED BY <2>1, <2>2
<1>2. SavedWorkKept
  BY DEF PracticeInv, VisitOK, EditsOK, SavedWorkKept
<1>3. ResultIsOfTheWork
  BY DEF PracticeInv, AttemptOK, ResultIsOfTheWork
<1>4. UnitsFollowResult
  BY DEF PracticeInv, VisitOK, SettleOK, AttemptOK, UnitsFollowResult
<1> QED BY <1>1, <1>2, <1>3, <1>4 DEF AttemptSound

\* However many tabs start, save and submit attempts, and wherever they fail:
\* a student who did not ask for a second attempt has one open one, no saved
\* edit is lost, a result is of the work it stands beside, and the practice
\* evidence is that of the stored results.
THEOREM AttemptsAreSound == PracticeSpec => []AttemptSound
<1>1. PracticeSpec => []PracticeInv
  BY PracticeInitOK, PracticeStep, PTL DEF PracticeSpec
<1> QED BY <1>1, InvIsSound, PTL

\* No step replaces a stored result or touches the attempt it belongs to.
LEMMA StepKeepsResults ==
  ASSUME PracticeInv, [PracticeNext]_practiceVars, NEW k \in StartKeys, attempt[k].status \in Submitted
  PROVE  attempt'[k] = attempt[k]
<1>1. PracticeTypeOK /\ attempt[k] # NoAttempt /\ attempt[k].status # "IN_PROGRESS"
  BY DEF PracticeInv, Submitted, NoAttempt, Fresh
<1>2. ASSUME NEW c \in Visits, Create(c) PROVE attempt'[k] = attempt[k]
  BY <1>1, <1>2, VisitFields DEF Create, PracticeTypeOK
<1>3. ASSUME NEW c \in Visits, Save(c) \/ Hint(c) PROVE attempt'[k] = attempt[k]
  BY <1>1, <1>3, VisitFields DEF Save, Hint, Fits, PracticeTypeOK
<1>4. ASSUME NEW c \in Visits, Complete(c) PROVE attempt'[k] = attempt[k]
  BY <1>1, <1>4, VisitFields DEF Complete, PracticeTypeOK
<1>5. CASE UNCHANGED attempt
  BY <1>5
<1> QED BY <1>2, <1>3, <1>4, <1>5 DEF PracticeNext, practiceVars, AskStart, AskSave, AskHint, AskSubmit, Settle, VisitBreaks, Close

\* A repeated submit returns the stored result.
THEOREM ResultsAreKept == PracticeSpec => ResultStays
<1>1. PracticeSpec => []PracticeInv
  BY PracticeInitOK, PracticeStep, PTL DEF PracticeSpec
<1>2. PracticeInv /\ [PracticeNext]_practiceVars =>
        [\A k \in StartKeys : attempt[k].status \in Submitted => attempt'[k] = attempt[k]]_practiceVars
  BY StepKeepsResults
<1> QED BY <1>1, <1>2, PTL DEF PracticeSpec, ResultStays

-----------------------------------------------------------------------------
(* The invariant of a conversation *)

\* A history is the beginning of another one.
Begins(s, t) == Len(s) <= Len(t) /\ \A i \in 1..Len(s) : s[i] = t[i]

\* Every anchor recorded is a probe of the history, every probe is recorded, and
\* so is every move.
AnchorsWereShown(turns, r) == \A a \in r.anchors : a.exchange <= Len(turns) /\ turns[a.exchange].probe = a.dim
ProbesAreNoted(turns, r) == \A e \in DOMAIN turns : turns[e].probe # "none" => \E a \in r.anchors : a.dim = turns[e].probe
MovesAreNoted(turns, r) ==
    \A e \in DOMAIN turns : /\ turns[e].move = "pressure" => \E p \in r.pressure : p.exchange = e
                            /\ turns[e].move = "challenger" => e \in r.challengers

\* The moves recorded keep their distance.
MovesAreApart(r) ==
    /\ IsFiniteSet(r.pressure) /\ Cardinality(r.pressure) <= 2 /\ \A p \in r.pressure : p.exchange >= 4
    /\ \A p, q \in r.pressure : p.exchange < q.exchange => q.exchange - p.exchange >= 3
    /\ \A t, u \in r.challengers : t < u => u - t > 2

Noted(turns, r) ==
    /\ AnchorsWereShown(turns, r) /\ MovesAreApart(r)
    /\ failures = 0 => ProbesAreNoted(turns, r) /\ MovesAreNoted(turns, r)

\* The row, and the message being answered, go with their records.
RowIsNoted == Noted(kept.turns, kept.records)
ExchangeIsNoted ==
    exchange.pc # "idle" =>
        /\ Len(exchange.turns) \in 1..MaxExchanges /\ Noted(exchange.turns, exchange.records)
        /\ exchange.pc = "reply" => \A a \in exchange.records.anchors : a.exchange < Len(exchange.turns)

\* Until there is a report the cache is the row and what has not reached it, and
\* the message being answered is on top of the cache or in it.
CacheIsAhead ==
    ~issued.done =>
        /\ memory.live => Begins(kept.turns, memory.turns)
        /\ memory.live /\ failures = 0 /\ exchange.pc # "cached" => Len(memory.turns) = Len(kept.turns)
        /\ exchange.pc # "idle" => memory.live /\ Begins(memory.turns, exchange.turns)
        /\ exchange.pc = "reply" => Len(exchange.turns) = Len(memory.turns) + 1
        /\ exchange.pc = "cached" => Len(exchange.turns) = Len(memory.turns) /\ (failures = 0 => Len(memory.turns) = Len(kept.turns) + 1)

\* A scoring job has a beginning of the cache, and anchors that go with it.
ScoringIsBehind ==
    /\ scoring.pc # "idle" => ~issued.done /\ memory.live /\ Begins(scoring.turns, memory.turns)
    /\ scoring.pc = "panel" =>
        /\ \A a \in scoring.anchors : a.exchange <= Len(scoring.turns) => scoring.turns[a.exchange].probe = a.dim
        /\ failures = 0 => \A e \in DOMAIN scoring.turns : scoring.turns[e].probe # "none" /\ e < Len(scoring.turns)
                               => \E a \in scoring.anchors : a.dim = scoring.turns[e].probe

InterviewInv ==
    /\ InterviewTypeOK /\ RowIsNoted /\ ExchangeIsNoted /\ CacheIsAhead /\ ScoringIsBehind
    /\ RecordedProbesWereShown /\ ShownProbesAreCounted

-----------------------------------------------------------------------------
(* The types of the parts *)

Anchors == [exchange : 1..MaxExchanges, dim : Dimensions]
Pressures == [exchange : 1..MaxExchanges, kind : Kinds]
Memories == [live : BOOLEAN, turns : Seq(Turns)]
Rows == [turns : Seq(Turns), records : Records]
Exchanges == [pc : {"idle", "reply", "cached"}, turns : Seq(Turns), records : Records, due : Dimensions \cup {"none"}]
Jobs == [pc : {"idle", "row", "panel"}, turns : Seq(Turns), anchors : SUBSET Anchors]
Reports == [done : BOOLEAN, turns : Seq(Turns), presented : SUBSET Dimensions, basis : [Dimensions -> Bases]]

LEMMA InterviewFields ==
    ASSUME InterviewTypeOK
    PROVE  /\ memory \in Memories /\ memory.live \in BOOLEAN /\ memory.turns \in Seq(Turns)
           /\ kept \in Rows /\ kept.turns \in Seq(Turns) /\ kept.records \in Records
           /\ exchange \in Exchanges /\ exchange.turns \in Seq(Turns) /\ exchange.records \in Records /\ exchange.due \in Dimensions \cup {"none"}
           /\ scoring \in Jobs /\ scoring.turns \in Seq(Turns) /\ scoring.anchors \in SUBSET Anchors
           /\ Loaded \in Seq(Turns)
BY DEF InterviewTypeOK, Memories, Rows, Exchanges, Jobs, Anchors, Loaded

LEMMA Lengths ==
    ASSUME InterviewTypeOK
    PROVE  /\ Len(memory.turns) \in Nat /\ Len(kept.turns) \in Nat /\ Len(exchange.turns) \in Nat /\ Len(scoring.turns) \in Nat /\ Len(Loaded) \in Nat
           /\ DOMAIN memory.turns = 1..Len(memory.turns) /\ DOMAIN kept.turns = 1..Len(kept.turns)
           /\ DOMAIN exchange.turns = 1..Len(exchange.turns) /\ DOMAIN scoring.turns = 1..Len(scoring.turns)
BY InterviewFields, LenProperties

LEMMA RecordFields ==
    ASSUME NEW r \in Records
    PROVE  /\ r.anchors \subseteq Anchors /\ r.ledger \in [Dimensions -> 0..CoverageTarget]
           /\ r.challengers \subseteq 1..MaxExchanges /\ r.pressure \subseteq Pressures
BY DEF Records, Anchors, Pressures

LEMMA NoneRecorded == NoRecords \in Records
BY DEF NoRecords, Records, CoverageTarget

-----------------------------------------------------------------------------
(* What a turn decides *)

LEMMA RatedLedger ==
    ASSUME NEW r \in Records, NEW dims
    PROVE  /\ [r EXCEPT !.ledger = Rated(@, dims)] \in Records
           /\ [r EXCEPT !.ledger = Rated(@, dims)].anchors = r.anchors
           /\ [r EXCEPT !.ledger = Rated(@, dims)].challengers = r.challengers
           /\ [r EXCEPT !.ledger = Rated(@, dims)].pressure = r.pressure
<1>1. Rated(r.ledger, dims) \in [Dimensions -> 0..CoverageTarget]
  BY RecordFields DEF Rated, CoverageTarget
<1> DEFINE l == Rated(r.ledger, dims)
<1>. HIDE DEF l
<1>2. [r EXCEPT !.ledger = l] \in Records /\ [r EXCEPT !.ledger = l].anchors = r.anchors
      /\ [r EXCEPT !.ledger = l].challengers = r.challengers /\ [r EXCEPT !.ledger = l].pressure = r.pressure
  BY <1>1 DEF Records, l
<1>. QED
  BY <1>2 DEF l

LEMMA DueIsADimension ==
    ASSUME NEW n, NEW anchors
    PROVE  Due(n, anchors) \in Dimensions \cup {"none"}
BY InterviewAssumption DEF Due

LEMMA PressedKinds ==
    ASSUME NEW n, NEW r
    PROVE  /\ Pressed(n, r) \subseteq Kinds /\ Pressed(n, r) # {} => MayPress(n, r.pressure)
           /\ Pressed(n, r) = {} \/ \E k \in Kinds : Pressed(n, r) = {k}
BY DEF Pressed, Kinds

\* A turn that is steered puts a challenger or one pressure move, at its
\* distance, and notes it; or it notes nothing.
SteersTo(n, r, move, q) ==
    /\ move \in Moves /\ q \in Records /\ q.anchors = r.anchors
    /\ \/ move \in {"anchor", "plain"} /\ q = r
       \/ move = "challenger" /\ q.challengers = r.challengers \cup {n} /\ q.pressure = r.pressure /\ \A t \in r.challengers : n - t > 2
       \/ /\ move = "pressure" /\ q.challengers = r.challengers /\ MayPress(n, r.pressure)
          /\ \E k \in Kinds : q.pressure = r.pressure \cup {[exchange |-> n, kind |-> k]}

LEMMA SteeredGoes ==
    ASSUME NEW n \in 1..MaxExchanges, NEW r \in Records, NEW due
    PROVE  SteersTo(n, r, Steered(n, r, due).move, Steered(n, r, due).records)
<1>1. CASE due # "none"
  BY <1>1 DEF Steered, SteersTo, Moves
<1>2. CASE due = "none" /\ Challenges(n, r)
  <2> DEFINE q == [r EXCEPT !.challengers = @ \cup {n}]
  <2>1. q \in Records /\ q.challengers = r.challengers \cup {n} /\ q.pressure = r.pressure /\ q.anchors = r.anchors
    BY DEF Records
  <2>2. Steered(n, r, due) = [move |-> "challenger", records |-> q]
    BY <1>2 DEF Steered
  <2>. HIDE DEF q
  <2>3. SteersTo(n, r, "challenger", q)
    BY <1>2, <2>1 DEF SteersTo, Moves, Challenges
  <2>. QED
    BY <2>2, <2>3
<1>3. CASE due = "none" /\ ~Challenges(n, r)
  <2> DEFINE kinds == Pressed(n, r)
             new == {[exchange |-> n, kind |-> k] : k \in kinds}
             q == [r EXCEPT !.pressure = @ \cup new]
  <2>1. Steered(n, r, due) = [move |-> IF kinds = {} THEN "plain" ELSE "pressure", records |-> q]
    BY <1>3 DEF Steered
  <2>2. CASE kinds = {}
    <3>1. q = r
      BY <2>2 DEF Records
    <3>. QED
      BY <2>1, <2>2, <3>1 DEF SteersTo, Moves
  <2>3. CASE kinds # {}
    <3>1. PICK k \in Kinds : kinds = {k}
      BY <2>3, PressedKinds
    <3>2. new = {[exchange |-> n, kind |-> k]} /\ new \subseteq Pressures
      BY <3>1 DEF Pressures
    <3>. HIDE DEF new
    <3>3. q \in Records /\ q.pressure = r.pressure \cup new /\ q.challengers = r.challengers /\ q.anchors = r.anchors
      BY <3>2 DEF Records, Pressures
    <3>4. MayPress(n, r.pressure)
      BY <2>3, PressedKinds
    <3>. HIDE DEF q
    <3>5. SteersTo(n, r, "pressure", q)
      BY <3>2, <3>3, <3>4 DEF SteersTo, Moves
    <3>6. Steered(n, r, due).move = "pressure" /\ Steered(n, r, due).records = q
      BY <2>1, <2>3
    <3>. QED
      BY <3>5, <3>6
  <2>. QED
    BY <2>2, <2>3
<1>. QED
  BY <1>1, <1>2, <1>3

LEMMA SteeredApart ==
    ASSUME NEW n \in 1..MaxExchanges, NEW r \in Records, NEW move, NEW q, SteersTo(n, r, move, q), MovesAreApart(r)
    PROVE  MovesAreApart(q)
<1>0. /\ \A p \in r.pressure : p.exchange \in Nat /\ \A t \in r.challengers : t \in Nat
      /\ q.pressure \subseteq Pressures /\ q.challengers \subseteq Nat
  BY RecordFields DEF Pressures, SteersTo
<1>1. CASE q = r
  BY <1>1
<1>2. CASE q.challengers = r.challengers \cup {n} /\ q.pressure = r.pressure /\ \A t \in r.challengers : n - t > 2
  BY <1>0, <1>2 DEF MovesAreApart
<1>3. CASE /\ q.challengers = r.challengers /\ MayPress(n, r.pressure)
           /\ \E k \in Kinds : q.pressure = r.pressure \cup {[exchange |-> n, kind |-> k]}
  <2>1. PICK k \in Kinds : q.pressure = r.pressure \cup {[exchange |-> n, kind |-> k]}
    BY <1>3
  <2> DEFINE p == [exchange |-> n, kind |-> k]
  <2>2. p.exchange = n /\ q.pressure = r.pressure \cup {p}
    BY <2>1
  <2>. HIDE DEF p
  <2>3. n >= 4 /\ Cardinality(r.pressure) < 2 /\ IsFiniteSet(r.pressure) /\ \A x \in r.pressure : n - x.exchange >= 3
    BY <1>3 DEF MayPress, MovesAreApart
  <2>4. p \notin r.pressure
    BY <1>0, <2>2, <2>3
  <2>5. IsFiniteSet(q.pressure) /\ Cardinality(q.pressure) <= 2
    <3>1. IsFiniteSet(r.pressure \cup {p}) /\ Cardinality(r.pressure \cup {p}) = Cardinality(r.pressure) + 1
      BY <2>3, <2>4, FS_AddElement
    <3>2. Cardinality(r.pressure) \in Nat
      BY <2>3, FS_CardinalityType
    <3>. QED
      BY <2>2, <2>3, <3>1, <3>2
  <2>. QED
    BY <1>0, <1>3, <2>2, <2>3, <2>5 DEF MovesAreApart
<1>. QED
  BY <1>1, <1>2, <1>3 DEF SteersTo

-----------------------------------------------------------------------------
(* What the steps do *)

\* A message is on top of the history that was loaded.
LEMMA HearGoes ==
    ASSUME InterviewTypeOK, NEW long \in BOOLEAN, NEW dims \in Ratings, Hear(long, dims)
    PROVE  /\ exchange.pc = "idle" /\ ~issued.done /\ Len(Loaded) + 1 \in 1..MaxExchanges
           /\ exchange' \in Exchanges /\ exchange'.pc = "reply" /\ Len(exchange'.turns) = Len(Loaded) + 1
           /\ \A i \in 1..Len(Loaded) : exchange'.turns[i] = Loaded[i]
           /\ exchange'.turns[Len(Loaded) + 1].probe = "none"
           /\ exchange'.records.anchors = kept.records.anchors
           /\ \E r \in Records : /\ r.challengers = kept.records.challengers /\ r.pressure = kept.records.pressure
                               /\ SteersTo(Len(Loaded) + 1, r, exchange'.turns[Len(Loaded) + 1].move, exchange'.records)
           /\ memory' \in Memories /\ memory'.live /\ memory'.turns = Loaded
           /\ UNCHANGED <<kept, scoring, issued, core, failures, restarts>>
<1> DEFINE n == Len(Loaded) + 1
           r == [kept.records EXCEPT !.ledger = Rated(@, dims)]
           due == Due(n, r.anchors)
           s == Steered(n, r, due)
           turn == [long |-> long, probe |-> "none", move |-> s.move]
           turns == Append(Loaded, turn)
           x == [pc |-> "reply", turns |-> turns, records |-> s.records, due |-> due]
<1>1. /\ exchange.pc = "idle" /\ ~issued.done /\ n <= MaxExchanges /\ exchange' = x
      /\ memory' = [live |-> TRUE, turns |-> Loaded] /\ UNCHANGED <<kept, scoring, issued, core, failures, restarts>>
  BY DEF Hear, Revive
<1>2. n \in 1..MaxExchanges
  BY <1>1, Lengths, InterviewAssumption
<1>3. /\ r \in Records /\ r.anchors = kept.records.anchors
      /\ r.challengers = kept.records.challengers /\ r.pressure = kept.records.pressure
  BY InterviewFields, RatedLedger
<1>. HIDE DEF r
<1>4. due \in Dimensions \cup {"none"}
  BY DueIsADimension
<1>. HIDE DEF due
<1>5. SteersTo(n, r, s.move, s.records)
  BY <1>2, <1>3, SteeredGoes
<1>. HIDE DEF s
<1>6. turn \in Turns /\ turn.probe = "none" /\ turn.move = s.move
  BY <1>5 DEF Turns, SteersTo
<1>. HIDE DEF turn
<1>7. turns \in Seq(Turns) /\ Len(turns) = n /\ turns[n] = turn /\ \A i \in 1..Len(Loaded) : turns[i] = Loaded[i]
  BY <1>6, InterviewFields, AppendProperties
<1>. HIDE DEF turns
<1>8. s.records \in Records /\ s.records.anchors = kept.records.anchors
  BY <1>3, <1>5 DEF SteersTo
<1>9. /\ exchange' \in Exchanges /\ exchange'.pc = "reply" /\ exchange'.turns = turns /\ exchange'.records = s.records
      /\ memory' \in Memories /\ memory'.live /\ memory'.turns = Loaded
  BY <1>1, <1>4, <1>7, <1>8, InterviewFields DEF Exchanges, Memories
<1>. QED
  BY <1>1, <1>2, <1>3, <1>5, <1>6, <1>7, <1>8, <1>9

\* The reply puts the probe into the message's own turn and records it, or not.
LEMMA ReplyGoes ==
    ASSUME InterviewTypeOK, Len(exchange.turns) \in 1..MaxExchanges, NEW placed \in BOOLEAN, Reply(placed)
    PROVE  /\ exchange.pc = "reply" /\ exchange' \in Exchanges /\ exchange'.pc = "cached"
           /\ Len(exchange'.turns) = Len(exchange.turns)
           /\ \A i \in 1..(Len(exchange.turns) - 1) : exchange'.turns[i] = exchange.turns[i]
           /\ \A i \in 1..Len(exchange.turns) : exchange'.turns[i].move = exchange.turns[i].move
           /\ exchange'.records.challengers = exchange.records.challengers /\ exchange'.records.pressure = exchange.records.pressure
           /\ \/ exchange'.turns[Len(exchange.turns)].probe = "none" /\ exchange'.records.anchors = exchange.records.anchors
              \/ \E a \in Anchors : /\ exchange'.records.anchors = exchange.records.anchors \cup {a}
                                   /\ a.exchange = Len(exchange.turns) /\ a.dim = exchange'.turns[Len(exchange.turns)].probe
           /\ memory' \in Memories /\ memory'.live /\ memory'.turns = exchange'.turns
           /\ UNCHANGED <<kept, scoring, issued, core, failures, restarts>>
<1> DEFINE n == Len(exchange.turns)
           shown == exchange.due # "none" /\ placed
           probe == IF shown THEN exchange.due ELSE "none"
           turns == [exchange.turns EXCEPT ![n].probe = probe]
           a == [exchange |-> n, dim |-> exchange.due]
           anchors == IF shown THEN exchange.records.anchors \cup {a} ELSE exchange.records.anchors
           records == [exchange.records EXCEPT !.anchors = anchors]
<1>1. /\ exchange.pc = "reply" /\ memory' = [live |-> TRUE, turns |-> turns]
      /\ exchange' = [exchange EXCEPT !.pc = "cached", !.turns = turns, !.records.anchors = anchors]
      /\ UNCHANGED <<kept, scoring, issued, core, failures, restarts>>
  BY DEF Reply
<1>2. exchange' = [[[exchange EXCEPT !.pc = "cached"] EXCEPT !.turns = turns] EXCEPT !.records = records]
  BY <1>1, InterviewFields DEF Exchanges
<1>3. probe \in Dimensions \cup {"none"}
  BY InterviewFields
<1>4. /\ turns \in Seq(Turns) /\ Len(turns) = n /\ turns[n].probe = probe /\ \A i \in 1..n : turns[i].move = exchange.turns[i].move
      /\ \A i \in 1..(n - 1) : turns[i] = exchange.turns[i]
  <2>1. exchange.turns \in Seq(Turns) /\ n \in Nat /\ n \in 1..n
    BY InterviewFields, Lengths
  <2> DEFINE t == [exchange.turns[n] EXCEPT !.probe = probe]
  <2>2. exchange.turns[n] \in Turns
    BY <2>1, ElementOfSeq
  <2>3. t \in Turns /\ t.probe = probe /\ t.move = exchange.turns[n].move
    BY <1>3, <2>2 DEF Turns
  <2>4. turns = [exchange.turns EXCEPT ![n] = t]
    OBVIOUS
  <2>. HIDE DEF t, probe
  <2>5. turns \in Seq(Turns) /\ Len(turns) = n /\ \A i \in 1..n : turns[i] = IF i = n THEN t ELSE exchange.turns[i]
    BY <2>1, <2>3, <2>4, ExceptSeq
  <2>. QED
    BY <2>1, <2>3, <2>5
<1>5. /\ records \in Records /\ records.anchors = anchors /\ records.challengers = exchange.records.challengers
      /\ records.pressure = exchange.records.pressure
  <2>1. anchors \subseteq Anchors
    BY InterviewFields, RecordFields DEF Anchors
  <2>. HIDE DEF anchors
  <2>. QED
    BY <2>1, InterviewFields DEF Records, Anchors
<1>6. \/ probe = "none" /\ anchors = exchange.records.anchors
      \/ a \in Anchors /\ anchors = exchange.records.anchors \cup {a} /\ a.exchange = n /\ a.dim = probe
  BY InterviewFields DEF Anchors
<1>. HIDE DEF turns, records, anchors, probe, shown, a
<1>7. /\ exchange' \in Exchanges /\ exchange'.pc = "cached" /\ exchange'.turns = turns /\ exchange'.records = records
      /\ memory' \in Memories /\ memory'.live /\ memory'.turns = turns
  BY <1>1, <1>2, <1>4, <1>5, InterviewFields DEF Exchanges, Memories
<1>. QED
  BY <1>1, <1>4, <1>5, <1>6, <1>7

LEMMA NoExchangeFields == NoExchange \in Exchanges /\ NoExchange.pc = "idle"
BY NoneRecorded DEF NoExchange, Exchanges

LEMMA NoScoringFields == NoScoring \in Jobs /\ NoScoring.pc = "idle"
BY DEF NoScoring, Jobs

LEMMA AskScoreGoes ==
    ASSUME InterviewTypeOK, AskScore
    PROVE  /\ ~issued.done /\ scoring.pc = "idle" /\ scoring' \in Jobs /\ scoring'.pc = "row" /\ scoring'.turns = Loaded
           /\ memory' \in Memories /\ memory'.live /\ memory'.turns = Loaded
           /\ UNCHANGED <<kept, exchange, issued, core, failures, restarts>>
BY InterviewFields DEF AskScore, Revive, Jobs, Memories

LEMMA ReadRowGoes ==
    ASSUME InterviewTypeOK, ReadRow
    PROVE  /\ scoring.pc = "row" /\ scoring' \in Jobs /\ scoring'.pc = "panel" /\ scoring'.turns = scoring.turns
           /\ scoring'.anchors = kept.records.anchors
           /\ UNCHANGED <<memory, kept, exchange, issued, core, failures, restarts>>
<1>1. kept.records.anchors \subseteq Anchors
  BY InterviewFields, RecordFields
<1>. QED
  BY <1>1, InterviewFields DEF ReadRow, Jobs

LEMMA IssueGoes ==
    ASSUME InterviewTypeOK, Issue
    PROVE  /\ scoring.pc = "panel" /\ issued' \in Reports /\ issued'.done /\ issued'.turns = scoring.turns
           /\ issued'.presented = {a.dim : a \in scoring.anchors}
           /\ issued'.basis = [d \in Dimensions |-> Basis(scoring.turns, scoring.anchors, d)]
           /\ memory' \in Memories /\ scoring' \in Jobs /\ scoring'.pc = "idle"
           /\ UNCHANGED <<kept, exchange, core, failures, restarts>>
<1> DEFINE basis == [d \in Dimensions |-> Basis(scoring.turns, scoring.anchors, d)]
           presented == {a.dim : a \in scoring.anchors}
<1>1. basis \in [Dimensions -> Bases]
  BY DEF Basis, Bases
<1>2. presented \subseteq Dimensions
  BY InterviewFields DEF Anchors
<1>3. issued' = [done |-> TRUE, turns |-> scoring.turns, presented |-> presented, basis |-> basis]
  BY DEF Issue
<1>. HIDE DEF basis, presented
<1>4. issued' \in Reports /\ issued'.done /\ issued'.turns = scoring.turns /\ issued'.presented = presented /\ issued'.basis = basis
  BY <1>1, <1>2, <1>3, InterviewFields DEF Reports
<1>5. memory' = [live |-> FALSE, turns |-> <<>>] /\ <<>> \in Seq(Turns)
  BY DEF Issue
<1>6. memory' \in Memories
  BY <1>5 DEF Memories
<1>. QED
  BY <1>4, <1>6, NoScoringFields DEF Issue, basis, presented

-----------------------------------------------------------------------------
(* Types *)

LEMMA InterviewTypesStep == ASSUME InterviewTypeOK, ExchangeIsNoted, InterviewNext PROVE InterviewTypeOK'
<1> DEFINE Types == /\ memory' \in Memories /\ kept' \in Rows /\ exchange' \in Exchanges /\ scoring' \in Jobs /\ issued' \in Reports
                    /\ core' \in BOOLEAN /\ failures' \in 0..MaxFaults /\ restarts' \in 0..MaxFaults
<1>0. /\ memory \in Memories /\ kept \in Rows /\ exchange \in Exchanges /\ scoring \in Jobs /\ issued \in Reports
      /\ core \in BOOLEAN /\ failures \in 0..MaxFaults /\ restarts \in 0..MaxFaults /\ MaxFaults \in Nat
  BY InterviewAssumption DEF InterviewTypeOK, Memories, Rows, Exchanges, Jobs, Reports, Anchors
<1>1. ASSUME NEW long \in BOOLEAN, NEW dims \in Ratings, Hear(long, dims) PROVE Types
  BY <1>0, <1>1, HearGoes
<1>2. ASSUME NEW placed \in BOOLEAN, Reply(placed) PROVE Types
  <2>1. Len(exchange.turns) \in 1..MaxExchanges
    BY <1>2 DEF Reply, ExchangeIsNoted
  <2>. QED
    BY <1>0, <1>2, <2>1, ReplyGoes
<1>3. ASSUME ReplyFails PROVE Types
  BY <1>0, <1>3, NoExchangeFields DEF ReplyFails
<1>4. ASSUME Keep PROVE Types
  BY <1>0, <1>4, NoExchangeFields, InterviewFields DEF Keep, Rows
<1>5. ASSUME KeepFails PROVE Types
  BY <1>0, <1>5, NoExchangeFields DEF KeepFails
<1>6. ASSUME AskScore PROVE Types
  BY <1>0, <1>6, AskScoreGoes
<1>7. ASSUME ReadRow PROVE Types
  BY <1>0, <1>7, ReadRowGoes
<1>8. ASSUME PanelFails PROVE Types
  BY <1>0, <1>8, NoScoringFields DEF PanelFails
<1>9. ASSUME Issue PROVE Types
  BY <1>0, <1>9, IssueGoes
<1>10. ASSUME RestartEngine PROVE Types
  <2>1. memory' = [live |-> FALSE, turns |-> <<>>] /\ <<>> \in Seq(Turns)
    BY <1>10 DEF RestartEngine
  <2>2. memory' \in Memories
    BY <2>1 DEF Memories
  <2>. QED
    BY <1>0, <1>10, <2>2, NoExchangeFields, NoScoringFields DEF RestartEngine
<1>11. Types
  BY <1>1, <1>2, <1>3, <1>4, <1>5, <1>6, <1>7, <1>8, <1>9, <1>10 DEF InterviewNext
<1>. QED
  BY <1>11 DEF InterviewTypeOK, Memories, Rows, Exchanges, Jobs, Reports, Anchors

-----------------------------------------------------------------------------
(* What is recorded *)

\* What was loaded begins with the row, and is the row when no write failed.
LEMMA LoadedIsAhead ==
    ASSUME InterviewTypeOK, CacheIsAhead, ~issued.done
    PROVE  Begins(kept.turns, Loaded) /\ (failures = 0 /\ exchange.pc # "cached" => Len(Loaded) = Len(kept.turns))
BY Lengths DEF CacheIsAhead, Loaded, Begins

LEMMA HearNotes ==
    ASSUME InterviewTypeOK, RowIsNoted, CacheIsAhead, NEW long \in BOOLEAN, NEW dims \in Ratings, Hear(long, dims)
    PROVE  /\ Noted(exchange'.turns, exchange'.records)
           /\ \A a \in exchange'.records.anchors : a.exchange < Len(exchange'.turns)
<1> DEFINE n == Len(Loaded) + 1
           turns == exchange'.turns
           records == exchange'.records
<1>1. /\ Len(turns) = n /\ n \in 1..MaxExchanges /\ Len(Loaded) \in Nat /\ \A i \in 1..Len(Loaded) : turns[i] = Loaded[i]
      /\ turns[n].probe = "none" /\ records.anchors = kept.records.anchors /\ exchange.pc = "idle" /\ ~issued.done
      /\ exchange' \in Exchanges
  BY HearGoes, Lengths
<1>2. PICK r \in Records : /\ r.challengers = kept.records.challengers /\ r.pressure = kept.records.pressure
                           /\ SteersTo(n, r, turns[n].move, records)
  BY HearGoes
<1>3. turns \in Seq(Turns) /\ DOMAIN turns = 1..n
  BY <1>1, LenProperties DEF Exchanges
<1>. HIDE DEF turns, records
<1>4. Begins(kept.turns, Loaded) /\ (failures = 0 => Len(Loaded) = Len(kept.turns)) /\ Len(kept.turns) \in Nat
      /\ DOMAIN kept.turns = 1..Len(kept.turns)
  BY <1>1, LoadedIsAhead, Lengths
<1>5. \A i \in 1..Len(kept.turns) : i \in 1..Len(Loaded) /\ turns[i] = kept.turns[i]
  BY <1>1, <1>4 DEF Begins
<1>6. \A a \in kept.records.anchors : a.exchange \in 1..Len(kept.turns) /\ kept.turns[a.exchange].probe = a.dim
  BY <1>4, InterviewFields, RecordFields DEF RowIsNoted, Noted, AnchorsWereShown, Anchors
<1>7. \A a \in records.anchors : a.exchange < Len(turns)
  BY <1>1, <1>4, <1>6 DEF Begins
<1>8. AnchorsWereShown(turns, records)
  BY <1>1, <1>5, <1>6, <1>7 DEF AnchorsWereShown
<1>9. MovesAreApart(records)
  <2>1. MovesAreApart(r)
    BY <1>2 DEF RowIsNoted, Noted, MovesAreApart
  <2>. QED
    BY <1>1, <1>2, <2>1, SteeredApart
<1>10. ASSUME failures = 0 PROVE ProbesAreNoted(turns, records) /\ MovesAreNoted(turns, records)
  <2>1. ProbesAreNoted(kept.turns, kept.records) /\ MovesAreNoted(kept.turns, kept.records)
    BY <1>10 DEF RowIsNoted, Noted
  <2>2. \A e \in DOMAIN turns : e = n \/ (e \in DOMAIN kept.turns /\ turns[e] = kept.turns[e])
    BY <1>1, <1>3, <1>4, <1>5, <1>10
  <2>3. ProbesAreNoted(turns, records)
    BY <1>1, <2>1, <2>2 DEF ProbesAreNoted
  <2>4. kept.records.challengers \subseteq records.challengers /\ kept.records.pressure \subseteq records.pressure
    BY <1>2 DEF SteersTo
  <2>5. /\ turns[n].move = "pressure" => \E p \in records.pressure : p.exchange = n
        /\ turns[n].move = "challenger" => n \in records.challengers
    <3>1. CASE turns[n].move = "pressure"
      <4>1. PICK k \in Kinds : records.pressure = r.pressure \cup {[exchange |-> n, kind |-> k]}
        BY <1>2, <3>1 DEF SteersTo
      <4>2. [exchange |-> n, kind |-> k] \in records.pressure /\ [exchange |-> n, kind |-> k].exchange = n
        BY <4>1
      <4>. QED
        BY <3>1, <4>2
    <3>2. CASE turns[n].move = "challenger"
      BY <1>2, <3>2 DEF SteersTo
    <3>. QED
      BY <3>1, <3>2
  <2>6. MovesAreNoted(turns, records)
    BY <2>1, <2>2, <2>4, <2>5 DEF MovesAreNoted
  <2>. QED
    BY <2>3, <2>6
<1>. QED
  BY <1>7, <1>8, <1>9, <1>10 DEF Noted, turns, records

LEMMA ReplyNotes ==
    ASSUME InterviewTypeOK, ExchangeIsNoted, NEW placed \in BOOLEAN, Reply(placed)
    PROVE  Noted(exchange'.turns, exchange'.records)
<1> DEFINE n == Len(exchange.turns)
           turns == exchange'.turns
           records == exchange'.records
<1>1. exchange.pc = "reply" /\ n \in 1..MaxExchanges /\ Noted(exchange.turns, exchange.records)
      /\ \A a \in exchange.records.anchors : a.exchange < n
  BY DEF Reply, ExchangeIsNoted
<1>2. /\ Len(turns) = n /\ \A i \in 1..(n - 1) : turns[i] = exchange.turns[i]
      /\ \A i \in 1..n : turns[i].move = exchange.turns[i].move
      /\ records.challengers = exchange.records.challengers /\ records.pressure = exchange.records.pressure
      /\ exchange' \in Exchanges
  BY <1>1, ReplyGoes
<1>3. \/ turns[n].probe = "none" /\ records.anchors = exchange.records.anchors
      \/ \E a \in Anchors : records.anchors = exchange.records.anchors \cup {a} /\ a.exchange = n /\ a.dim = turns[n].probe
  BY <1>1, ReplyGoes
<1>4. turns \in Seq(Turns) /\ DOMAIN turns = 1..n /\ DOMAIN exchange.turns = 1..n
  BY <1>2, Lengths, LenProperties DEF Exchanges
<1>. HIDE DEF turns, records
<1>5. \A a \in exchange.records.anchors : a.exchange \in 1..(n - 1) /\ exchange.turns[a.exchange].probe = a.dim
  <2>1. \A a \in exchange.records.anchors : a.exchange \in 1..MaxExchanges
    BY InterviewFields, RecordFields DEF Anchors
  <2>. QED
    BY <1>1, <2>1, InterviewAssumption DEF Noted, AnchorsWereShown
<1>6. AnchorsWereShown(turns, records)
  <2>1. ASSUME NEW a \in exchange.records.anchors PROVE a.exchange <= Len(turns) /\ turns[a.exchange].probe = a.dim
    <3>1. a.exchange \in 1..(n - 1) /\ exchange.turns[a.exchange].probe = a.dim
      BY <1>5
    <3> DEFINE e == a.exchange
    <3>2. e \in 1..(n - 1) /\ n \in Nat
      BY <3>1, Lengths
    <3>. HIDE DEF e, n
    <3>3. turns[e] = exchange.turns[e] /\ e <= n
      BY <1>2, <3>2
    <3>. QED
      BY <1>2, <3>1, <3>3 DEF e
  <2>2. n <= Len(turns)
    BY <1>1, <1>2, InterviewAssumption
  <2>. QED
    BY <1>3, <2>1, <2>2 DEF AnchorsWereShown
<1>7. MovesAreApart(records)
  BY <1>1, <1>2 DEF Noted, MovesAreApart
<1>8. ASSUME failures = 0 PROVE ProbesAreNoted(turns, records) /\ MovesAreNoted(turns, records)
  <2>1. ProbesAreNoted(exchange.turns, exchange.records) /\ MovesAreNoted(exchange.turns, exchange.records)
    BY <1>1, <1>8 DEF Noted
  <2>2. \A e \in 1..n : e = n \/ e \in 1..(n - 1)
    BY <1>1, InterviewAssumption
  <2>3. exchange.records.anchors \subseteq records.anchors
    BY <1>3
  <2>4. ProbesAreNoted(turns, records)
    BY <1>2, <1>3, <1>4, <2>1, <2>2, <2>3 DEF ProbesAreNoted
  <2>5. MovesAreNoted(turns, records)
    BY <1>2, <1>4, <2>1 DEF MovesAreNoted
  <2>. QED
    BY <2>4, <2>5
<1>. QED
  BY <1>6, <1>7, <1>8 DEF Noted, turns, records

\* What a failed write or a restart leaves is still noted.
LEMMA NotedStays ==
    ASSUME NEW turns, NEW r, Noted(turns, r), failures' = 0 => failures = 0
    PROVE  AnchorsWereShown(turns, r) /\ MovesAreApart(r) /\ (failures' = 0 => ProbesAreNoted(turns, r) /\ MovesAreNoted(turns, r))
BY DEF Noted

LEMMA FailuresGrow ==
    ASSUME InterviewTypeOK, InterviewNext
    PROVE  failures' = 0 => failures = 0
<1>1. failures \in Nat
  BY InterviewAssumption DEF InterviewTypeOK
<1>2. CASE failures' = failures
  BY <1>2
<1>3. CASE KeepFails
  <2>1. failures' = failures + 1
    BY <1>3 DEF KeepFails
  <2>. QED
    BY <1>1, <2>1
<1>. QED
  BY <1>2, <1>3 DEF InterviewNext, Hear, Reply, ReplyFails, Keep, AskScore, ReadRow, PanelFails, Issue, RestartEngine

LEMMA NotedStep ==
    ASSUME InterviewTypeOK, RowIsNoted, ExchangeIsNoted, CacheIsAhead, InterviewNext
    PROVE  RowIsNoted' /\ ExchangeIsNoted'
<1>0. failures' = 0 => failures = 0
  BY FailuresGrow
<1>1. RowIsNoted'
  <2>1. CASE kept' = kept
    <3> DEFINE turns == kept.turns
               r == kept.records
    <3>1. AnchorsWereShown(turns, r) /\ MovesAreApart(r) /\ (failures' = 0 => ProbesAreNoted(turns, r) /\ MovesAreNoted(turns, r))
      BY <1>0, NotedStays DEF RowIsNoted
    <3>. QED
      BY <2>1, <3>1 DEF RowIsNoted, Noted, AnchorsWereShown, MovesAreApart, ProbesAreNoted, MovesAreNoted
  <2>2. CASE Keep
    <3>1. kept'.turns = exchange.turns /\ kept'.records = exchange.records /\ failures' = failures /\ Noted(exchange.turns, exchange.records)
      BY <2>2 DEF Keep, ExchangeIsNoted
    <3>. QED
      BY <3>1 DEF RowIsNoted, Noted, AnchorsWereShown, MovesAreApart, ProbesAreNoted, MovesAreNoted
  <2>. QED
    BY <2>1, <2>2 DEF InterviewNext, Hear, Reply, ReplyFails, KeepFails, AskScore, ReadRow, PanelFails, Issue, RestartEngine
<1>2. ASSUME NEW long \in BOOLEAN, NEW dims \in Ratings, Hear(long, dims) PROVE ExchangeIsNoted'
  <2>1. /\ Noted(exchange'.turns, exchange'.records) /\ exchange'.pc = "reply" /\ failures' = failures
        /\ \A a \in exchange'.records.anchors : a.exchange < Len(exchange'.turns)
        /\ Len(exchange'.turns) \in 1..MaxExchanges
    BY <1>2, HearNotes, HearGoes
  <2>. QED
    BY <2>1 DEF ExchangeIsNoted, Noted, AnchorsWereShown, MovesAreApart, ProbesAreNoted, MovesAreNoted
<1>3. ASSUME NEW placed \in BOOLEAN, Reply(placed) PROVE ExchangeIsNoted'
  <2>1. Len(exchange.turns) \in 1..MaxExchanges
    BY <1>3 DEF ExchangeIsNoted, Reply
  <2>2. /\ Noted(exchange'.turns, exchange'.records) /\ exchange'.pc = "cached" /\ failures' = failures
        /\ Len(exchange'.turns) \in 1..MaxExchanges
    BY <1>3, <2>1, ReplyNotes, ReplyGoes
  <2>. QED
    BY <2>2 DEF ExchangeIsNoted, Noted, AnchorsWereShown, MovesAreApart, ProbesAreNoted, MovesAreNoted
<1>4. ASSUME exchange' = NoExchange PROVE ExchangeIsNoted'
  BY <1>4, NoExchangeFields DEF ExchangeIsNoted
<1>5. ASSUME UNCHANGED <<exchange, failures>> PROVE ExchangeIsNoted'
  BY <1>5 DEF ExchangeIsNoted, Noted, AnchorsWereShown, MovesAreApart, ProbesAreNoted, MovesAreNoted
<1>. QED
  BY <1>1, <1>2, <1>3, <1>4, <1>5 DEF InterviewNext, ReplyFails, Keep, KeepFails, AskScore, ReadRow, PanelFails, Issue, RestartEngine

-----------------------------------------------------------------------------
(* The cache *)

LEMMA BeginsItself ==
    ASSUME NEW s \in Seq(Turns)
    PROVE  Begins(s, s)
BY LenProperties DEF Begins

LEMMA CacheStep ==
    ASSUME InterviewTypeOK, ExchangeIsNoted, CacheIsAhead, InterviewNext
    PROVE  CacheIsAhead'
<1>1. ASSUME NEW long \in BOOLEAN, NEW dims \in Ratings, Hear(long, dims) PROVE CacheIsAhead'
  <2>1. /\ exchange.pc = "idle" /\ ~issued.done /\ kept' = kept /\ issued' = issued /\ failures' = failures
        /\ exchange'.pc = "reply" /\ Len(exchange'.turns) = Len(Loaded) + 1 /\ \A i \in 1..Len(Loaded) : exchange'.turns[i] = Loaded[i]
        /\ memory'.live /\ memory'.turns = Loaded
    BY <1>1, HearGoes
  <2>2. Begins(kept.turns, Loaded) /\ (failures = 0 => Len(Loaded) = Len(kept.turns)) /\ Len(Loaded) \in Nat
    BY <2>1, LoadedIsAhead, Lengths
  <2>3. Begins(Loaded, exchange'.turns)
    BY <2>1, <2>2 DEF Begins
  <2>. HIDE DEF Loaded
  <2>. QED
    BY <2>1, <2>2, <2>3 DEF CacheIsAhead, Begins
<1>2. ASSUME NEW placed \in BOOLEAN, Reply(placed) PROVE CacheIsAhead'
  <2>0. exchange.pc = "reply" /\ Len(exchange.turns) \in 1..MaxExchanges
    BY <1>2 DEF ExchangeIsNoted, Reply
  <2>1. /\ kept' = kept /\ issued' = issued /\ failures' = failures
        /\ exchange'.pc = "cached" /\ Len(exchange'.turns) = Len(exchange.turns)
        /\ \A i \in 1..(Len(exchange.turns) - 1) : exchange'.turns[i] = exchange.turns[i]
        /\ memory'.live /\ memory'.turns = exchange'.turns /\ exchange' \in Exchanges
    BY <1>2, <2>0, ReplyGoes
  <2>2. SUFFICES ASSUME ~issued.done
                 PROVE  /\ Begins(kept.turns, memory'.turns) /\ Begins(memory'.turns, exchange'.turns)
                        /\ failures = 0 => Len(memory'.turns) = Len(kept.turns) + 1
    BY <2>1 DEF CacheIsAhead
  <2>3. /\ Begins(kept.turns, memory.turns) /\ Begins(memory.turns, exchange.turns) /\ Len(exchange.turns) = Len(memory.turns) + 1
        /\ failures = 0 => Len(memory.turns) = Len(kept.turns)
    BY <2>0, <2>2 DEF CacheIsAhead
  <2>4. Begins(memory'.turns, exchange'.turns)
    BY <2>1, BeginsItself DEF Exchanges
  <2>5. Begins(kept.turns, memory'.turns)
    BY <2>1, <2>3, Lengths DEF Begins
  <2>. QED
    BY <2>1, <2>3, <2>4, <2>5
<1>3. ASSUME ReplyFails PROVE CacheIsAhead'
  BY <1>3, NoExchangeFields DEF ReplyFails, CacheIsAhead
<1>4. ASSUME Keep PROVE CacheIsAhead'
  <2>1. /\ exchange.pc = "cached" /\ kept'.turns = exchange.turns /\ exchange'.pc = "idle" /\ UNCHANGED <<memory, issued, failures>>
    BY <1>4, NoExchangeFields DEF Keep
  <2>2. ~issued.done => Begins(exchange.turns, memory.turns) /\ Len(memory.turns) = Len(exchange.turns)
    BY <2>1, Lengths DEF CacheIsAhead, Begins
  <2>. QED
    BY <2>1, <2>2 DEF CacheIsAhead
<1>5. ASSUME KeepFails PROVE CacheIsAhead'
  <2>1. exchange'.pc = "idle" /\ UNCHANGED <<memory, kept, issued>> /\ failures' = failures + 1 /\ failures \in Nat
    BY <1>5, NoExchangeFields, InterviewAssumption DEF KeepFails, InterviewTypeOK
  <2>2. failures' # 0
    BY <2>1
  <2>. QED
    BY <2>1, <2>2 DEF CacheIsAhead
<1>6. ASSUME AskScore PROVE CacheIsAhead'
  <2>1. ~issued.done /\ UNCHANGED <<kept, exchange, issued, failures>> /\ memory'.live /\ memory'.turns = Loaded
    BY <1>6, AskScoreGoes
  <2>2. CASE memory.live
    <3>1. Loaded = memory.turns
      BY <2>2 DEF Loaded
    <3>. QED
      BY <2>1, <2>2, <3>1 DEF CacheIsAhead
  <2>3. CASE ~memory.live
    <3>1. Loaded = kept.turns /\ exchange.pc = "idle" /\ Begins(kept.turns, kept.turns)
      BY <2>1, <2>3, InterviewFields, BeginsItself DEF Loaded, CacheIsAhead, Exchanges
    <3>. QED
      BY <2>1, <3>1 DEF CacheIsAhead
  <2>. QED
    BY <2>2, <2>3
<1>7. ASSUME UNCHANGED <<memory, kept, exchange, issued, failures>> PROVE CacheIsAhead'
  BY <1>7 DEF CacheIsAhead
<1>8. ASSUME Issue PROVE CacheIsAhead'
  <2>1. issued'.done
    BY <1>8, IssueGoes
  <2>. QED
    BY <2>1 DEF CacheIsAhead
<1>9. ASSUME RestartEngine PROVE CacheIsAhead'
  <2>1. memory' = [live |-> FALSE, turns |-> <<>>] /\ exchange'.pc = "idle"
    BY <1>9, NoExchangeFields DEF RestartEngine
  <2>2. ~memory'.live
    BY <2>1
  <2>. QED
    BY <2>1, <2>2 DEF CacheIsAhead
<1>. QED
  BY <1>1, <1>2, <1>3, <1>4, <1>5, <1>6, <1>7, <1>8, <1>9 DEF InterviewNext, ReadRow, PanelFails

-----------------------------------------------------------------------------
(* The scoring job *)

\* The history a job has does not change; the cache may only have grown.
LEMMA JobStays ==
    ASSUME InterviewTypeOK, ScoringIsBehind, scoring' = scoring, issued' = issued, failures' = 0 => failures = 0,
           memory.live /\ ~issued.done => memory'.live /\ Begins(memory.turns, memory'.turns)
    PROVE  ScoringIsBehind'
<1>1. ASSUME scoring.pc # "idle" PROVE Begins(scoring.turns, memory'.turns)
  BY <1>1, Lengths DEF ScoringIsBehind, Begins
<1>. QED
  BY <1>1 DEF ScoringIsBehind

\* A job that reads the row gets the anchors of all its probes but the last.
LEMMA ReadNotes ==
    ASSUME InterviewTypeOK, RowIsNoted, CacheIsAhead, ScoringIsBehind, ReadRow
    PROVE  ScoringIsBehind'
<1>1. /\ scoring.pc = "row" /\ scoring'.pc = "panel" /\ scoring'.turns = scoring.turns /\ scoring'.anchors = kept.records.anchors
      /\ UNCHANGED <<memory, kept, exchange, issued, core, failures, restarts>>
  BY ReadRowGoes
<1>2. ~issued.done /\ memory.live /\ Begins(scoring.turns, memory.turns) /\ Begins(kept.turns, memory.turns)
  BY <1>1 DEF ScoringIsBehind, CacheIsAhead
<1>3. \A i \in 1..Len(kept.turns) : i <= Len(scoring.turns) => scoring.turns[i] = kept.turns[i]
  BY <1>2, Lengths DEF Begins
<1>4. \A a \in kept.records.anchors : a.exchange \in 1..Len(kept.turns) /\ kept.turns[a.exchange].probe = a.dim
  BY Lengths, InterviewFields, RecordFields DEF RowIsNoted, Noted, AnchorsWereShown, Anchors
<1>5. ASSUME failures = 0, NEW e \in DOMAIN scoring.turns, scoring.turns[e].probe # "none", e < Len(scoring.turns)
      PROVE  \E a \in kept.records.anchors : a.dim = scoring.turns[e].probe
  <2>1. Len(memory.turns) <= Len(kept.turns) + 1
    BY <1>2, <1>5, Lengths, InterviewFields DEF CacheIsAhead, Exchanges
  <2>2. e \in DOMAIN kept.turns /\ kept.turns[e] = scoring.turns[e]
    BY <1>2, <1>3, <1>5, <2>1, Lengths, SMTT(30) DEF Begins
  <2>. QED
    BY <1>5, <2>2 DEF RowIsNoted, Noted, ProbesAreNoted
<1>. QED
  BY <1>1, <1>2, <1>3, <1>4, <1>5 DEF ScoringIsBehind

LEMMA ScoringStep ==
    ASSUME InterviewTypeOK, RowIsNoted, ExchangeIsNoted, CacheIsAhead, ScoringIsBehind, InterviewNext
    PROVE  ScoringIsBehind'
<1>0. (failures' = 0 => failures = 0) /\ Begins(memory.turns, memory.turns)
  BY FailuresGrow, InterviewFields, BeginsItself
<1>1. ASSUME NEW long \in BOOLEAN, NEW dims \in Ratings, Hear(long, dims) PROVE ScoringIsBehind'
  <2>1. scoring' = scoring /\ issued' = issued /\ memory'.live /\ memory'.turns = Loaded
    BY <1>1, HearGoes
  <2>2. memory.live => Loaded = memory.turns
    BY DEF Loaded
  <2>. QED
    BY <1>0, <2>1, <2>2, JobStays
<1>2. ASSUME NEW placed \in BOOLEAN, Reply(placed) PROVE ScoringIsBehind'
  <2>0. exchange.pc = "reply" /\ Len(exchange.turns) \in 1..MaxExchanges
    BY <1>2 DEF ExchangeIsNoted, Reply
  <2>1. /\ scoring' = scoring /\ issued' = issued /\ memory'.live /\ memory'.turns = exchange'.turns
        /\ Len(exchange'.turns) = Len(exchange.turns)
        /\ \A i \in 1..(Len(exchange.turns) - 1) : exchange'.turns[i] = exchange.turns[i]
    BY <1>2, <2>0, ReplyGoes
  <2>2. ASSUME memory.live, ~issued.done PROVE Begins(memory.turns, memory'.turns)
    <3>1. Begins(memory.turns, exchange.turns) /\ Len(exchange.turns) = Len(memory.turns) + 1
      BY <2>0, <2>2 DEF CacheIsAhead
    <3>. QED
      BY <2>1, <3>1, Lengths DEF Begins
  <2>. QED
    BY <1>0, <2>1, <2>2, JobStays
<1>3. ASSUME UNCHANGED <<memory, scoring, issued>> PROVE ScoringIsBehind'
  BY <1>0, <1>3, JobStays
<1>4. ASSUME AskScore PROVE ScoringIsBehind'
  <2>1. /\ ~issued.done /\ issued' = issued /\ scoring'.pc = "row" /\ scoring'.turns = Loaded /\ memory'.live /\ memory'.turns = Loaded
    BY <1>4, AskScoreGoes
  <2>2. Begins(Loaded, Loaded)
    BY InterviewFields, BeginsItself
  <2>. HIDE DEF Loaded
  <2>. QED
    BY <2>1, <2>2 DEF ScoringIsBehind
<1>5. ASSUME ReadRow PROVE ScoringIsBehind'
  BY <1>5, ReadNotes
<1>6. ASSUME scoring'.pc = "idle" PROVE ScoringIsBehind'
  BY <1>6 DEF ScoringIsBehind
<1>7. (PanelFails \/ RestartEngine \/ Issue) => scoring'.pc = "idle"
  BY NoScoringFields DEF PanelFails, RestartEngine, Issue
<1>. QED
  BY <1>1, <1>2, <1>3, <1>4, <1>5, <1>6, <1>7 DEF InterviewNext, ReplyFails, Keep, KeepFails

-----------------------------------------------------------------------------
(* The report *)

\* A dimension with an anchor the candidate had a turn to answer was probed.
LEMMA IssuedWasShown ==
    ASSUME InterviewTypeOK, ScoringIsBehind, Issue
    PROVE  RecordedProbesWereShown' /\ ShownProbesAreCounted'
<1>1. /\ scoring.pc = "panel" /\ issued'.done /\ issued'.turns = scoring.turns /\ issued'.presented = {a.dim : a \in scoring.anchors}
      /\ issued'.basis = [d \in Dimensions |-> Basis(scoring.turns, scoring.anchors, d)] /\ failures' = failures
  BY IssueGoes
<1>2. /\ Len(scoring.turns) \in Nat /\ DOMAIN scoring.turns = 1..Len(scoring.turns)
      /\ \A a \in scoring.anchors : a.exchange \in Nat /\ a.exchange >= 1
  BY Lengths, InterviewFields, InterviewAssumption DEF Anchors
<1>3. ASSUME NEW d \in Dimensions, issued'.basis[d] = "anchor-probe" PROVE \E e \in DOMAIN scoring.turns : scoring.turns[e].probe = d
  <2>1. Basis(scoring.turns, scoring.anchors, d) = "anchor-probe"
    BY <1>1, <1>3
  <2>2. PICK a \in scoring.anchors : a.dim = d /\ a.exchange + 1 <= Len(<<Opening>> \o scoring.turns)
    BY <2>1 DEF Basis, Sufficient, Responded, UserTurns
  <2>3. Len(<<Opening>> \o scoring.turns) = Len(scoring.turns) + 1
    <3>1. Opening \in Turns
      BY DEF Opening, Turns, Moves
    <3>2. <<Opening>> \in Seq(Turns) /\ Len(<<Opening>>) = 1
      BY <3>1
    <3>. QED
      BY <1>2, <3>2, InterviewFields, ConcatProperties
  <2>4. a.exchange \in DOMAIN scoring.turns /\ a.exchange <= Len(scoring.turns)
    BY <1>2, <2>2, <2>3
  <2>5. scoring.turns[a.exchange].probe = d
    BY <1>1, <2>2, <2>4 DEF ScoringIsBehind
  <2>. QED
    BY <2>4, <2>5
<1>4. ASSUME failures = 0, NEW e \in DOMAIN scoring.turns, scoring.turns[e].probe # "none", e < Len(scoring.turns)
      PROVE  scoring.turns[e].probe \in issued'.presented
  BY <1>1, <1>4 DEF ScoringIsBehind
<1>. QED
  BY <1>1, <1>3, <1>4 DEF RecordedProbesWereShown, ShownProbesAreCounted

LEMMA ReportStep ==
    ASSUME InterviewTypeOK, ScoringIsBehind, RecordedProbesWereShown, ShownProbesAreCounted, InterviewNext
    PROVE  RecordedProbesWereShown' /\ ShownProbesAreCounted'
<1>1. CASE Issue
  BY <1>1, IssuedWasShown
<1>2. CASE issued' = issued
  BY <1>2, FailuresGrow DEF RecordedProbesWereShown, ShownProbesAreCounted
<1>. QED
  BY <1>1, <1>2 DEF InterviewNext, Hear, Reply, ReplyFails, Keep, KeepFails, AskScore, ReadRow, PanelFails, RestartEngine

\* Moves that are recorded, and recorded apart, were put apart.
LEMMA RecordedIsFair ==
    ASSUME InterviewTypeOK, RowIsNoted
    PROVE  FairPressure
<1> DEFINE put(m) == {e \in DOMAIN kept.turns : kept.turns[e].move = m}
           r == kept.records
           noted == {p.exchange : p \in r.pressure}
<1>1. SUFFICES ASSUME failures = 0
               PROVE  /\ Cardinality(put("pressure")) <= 2
                      /\ \A e \in put("pressure") : e >= 4
                      /\ \A e, f \in put("pressure") : e < f => f - e >= 3
                      /\ \A e, f \in put("challenger") : e < f => f - e > 2
  BY DEF FairPressure
<1>2. MovesAreApart(r) /\ MovesAreNoted(kept.turns, r)
  BY <1>1 DEF RowIsNoted, Noted
<1>3. \A e \in put("pressure") : \E p \in r.pressure : p.exchange = e
  BY <1>2 DEF MovesAreNoted
<1>4. \A e \in put("challenger") : e \in r.challengers
  BY <1>2 DEF MovesAreNoted
<1>5. Cardinality(put("pressure")) <= 2
  <2>1. IsFiniteSet(r.pressure) /\ Cardinality(r.pressure) <= 2 /\ Cardinality(r.pressure) \in Nat
    BY <1>2, FS_CardinalityType DEF MovesAreApart
  <2>2. IsFiniteSet(noted) /\ Cardinality(noted) <= Cardinality(r.pressure) /\ Cardinality(noted) \in Nat
    <3> DEFINE g == [p \in r.pressure |-> p.exchange]
    <3>1. g \in Surjection(r.pressure, noted)
      BY DEF Surjection
    <3>. HIDE DEF g, noted
    <3>. QED
      BY <2>1, <3>1, FS_Surjection, FS_CardinalityType
  <2>3. put("pressure") \subseteq noted
    BY <1>3
  <2>4. Cardinality(put("pressure")) <= Cardinality(noted) /\ Cardinality(put("pressure")) \in Nat
    BY <2>2, <2>3, FS_Subset, FS_CardinalityType
  <2>. QED
    BY <2>1, <2>2, <2>4
<1>6. \A e \in put("pressure") : e >= 4
  BY <1>2, <1>3 DEF MovesAreApart
<1>7. \A e, f \in put("pressure") : e < f => f - e >= 3
  BY <1>2, <1>3 DEF MovesAreApart
<1>8. \A e, f \in put("challenger") : e < f => f - e > 2
  BY <1>2, <1>4 DEF MovesAreApart
<1>. QED
  BY <1>5, <1>6, <1>7, <1>8

-----------------------------------------------------------------------------
LEMMA InterviewInitially == InterviewInit => InterviewInv
<1> SUFFICES ASSUME InterviewInit PROVE InterviewInv
  OBVIOUS
<1>1. /\ memory.live /\ memory.turns = <<>> /\ kept.turns = <<>> /\ kept.records = NoRecords
      /\ exchange = NoExchange /\ scoring = NoScoring /\ ~issued.done
  BY DEF InterviewInit
<1>2. <<>> \in Seq(Turns) /\ Len(<<>>) = 0
  OBVIOUS
<1>3. memory \in Memories /\ kept \in Rows /\ exchange \in Exchanges /\ scoring \in Jobs
  BY <1>1, <1>2, NoneRecorded, NoExchangeFields, NoScoringFields DEF InterviewInit, Memories, Rows
<1>4. issued \in Reports
  <2>1. [d \in Dimensions |-> "none"] \in [Dimensions -> Bases]
    BY DEF Bases
  <2>. QED
    BY <1>2, <2>1 DEF InterviewInit, Reports
<1>5. core \in BOOLEAN /\ failures \in 0..MaxFaults /\ restarts \in 0..MaxFaults
  BY InterviewAssumption DEF InterviewInit
<1>6. InterviewTypeOK
  BY <1>3, <1>4, <1>5 DEF InterviewTypeOK, Memories, Rows, Exchanges, Jobs, Reports, Anchors
<1>7. RowIsNoted
  <2>1. NoRecords.anchors = {} /\ NoRecords.challengers = {} /\ NoRecords.pressure = {}
    BY DEF NoRecords
  <2>2. IsFiniteSet({}) /\ Cardinality({}) = 0
    BY FS_EmptySet
  <2>3. MovesAreApart(NoRecords)
    BY <2>1, <2>2 DEF MovesAreApart
  <2>4. AnchorsWereShown(<<>>, NoRecords) /\ ProbesAreNoted(<<>>, NoRecords) /\ MovesAreNoted(<<>>, NoRecords)
    BY <2>1 DEF AnchorsWereShown, ProbesAreNoted, MovesAreNoted
  <2>. QED
    BY <1>1, <2>3, <2>4 DEF RowIsNoted, Noted
<1>8. ExchangeIsNoted
  BY <1>1, NoExchangeFields DEF ExchangeIsNoted
<1>9. CacheIsAhead
  BY <1>1, <1>2, NoExchangeFields DEF CacheIsAhead, Begins
<1>10. ScoringIsBehind
  BY <1>1, NoScoringFields DEF ScoringIsBehind
<1>11. RecordedProbesWereShown /\ ShownProbesAreCounted
  BY <1>1 DEF RecordedProbesWereShown, ShownProbesAreCounted
<1>. QED
  BY <1>6, <1>7, <1>8, <1>9, <1>10, <1>11 DEF InterviewInv

LEMMA InterviewStep == ASSUME InterviewInv, [InterviewNext]_interviewVars PROVE InterviewInv'
<1>1. CASE InterviewNext
  BY <1>1, InterviewTypesStep, NotedStep, CacheStep, ScoringStep, ReportStep DEF InterviewInv
<1>2. CASE UNCHANGED interviewVars
  <2>1. UNCHANGED <<memory, kept, exchange, scoring, issued, core, failures, restarts>>
    BY <1>2 DEF interviewVars
  <2>2. InterviewTypeOK'
    BY <2>1 DEF InterviewInv, InterviewTypeOK
  <2>3. RowIsNoted' /\ ExchangeIsNoted'
    BY <2>1 DEF InterviewInv, RowIsNoted, ExchangeIsNoted, Noted, AnchorsWereShown, MovesAreApart, ProbesAreNoted, MovesAreNoted
  <2>4. CacheIsAhead' /\ ScoringIsBehind' /\ RecordedProbesWereShown' /\ ShownProbesAreCounted'
    BY <2>1 DEF InterviewInv, CacheIsAhead, ScoringIsBehind, RecordedProbesWereShown, ShownProbesAreCounted
  <2>. QED
    BY <2>2, <2>3, <2>4 DEF InterviewInv
<1>. QED
  BY <1>1, <1>2

LEMMA InterviewIsInductive == InterviewSpec => []InterviewInv
BY InterviewInitially, InterviewStep, PTL DEF InterviewSpec

\* The conversation's variables keep their types.
THEOREM InterviewTypes == InterviewSpec => []InterviewTypeOK
<1>1. InterviewInv => InterviewTypeOK
  BY DEF InterviewInv
<1>. QED
  BY <1>1, InterviewIsInductive, PTL

\* What a report says of the probes is what was asked, and the asking was fair,
\* for any schedule, any number of messages, failed writes and restarts.
THEOREM InterviewIsSound == InterviewSpec => []InterviewSound
<1>1. InterviewInv => InterviewSound
  BY RecordedIsFair DEF InterviewInv, InterviewSound
<1>. QED
  BY <1>1, InterviewIsInductive, PTL

-----------------------------------------------------------------------------
(* The invariant of a material *)

\* What is on its way belongs to a save, what was put aside to a conflict, and
\* what is pending is queued; an item that shows as saved owes nothing.
ItemOrdered ==
    /\ item.sending # {} => item.status = "SAVING"
    /\ item.aside # {} => item.status = "CONFLICT"
    /\ item.pending # {} => item.queued
    /\ item.queued => item.status \in {"DIRTY", "SAVING", "ERROR"}
    /\ item.event <= lastEvent

\* One request at most is waited for, the one of the item's save; the requests
\* of one event carry one payload, the one the item would retry.
RequestsAgree ==
    /\ \A r \in wire : (r.event \in 1..MaxEvents => r.event <= lastEvent) /\ (r.event = item.event => r.edits = item.sent)
    /\ \A r \in wire : r.waited => item.status = "SAVING" /\ r.event = item.event /\ r.edits = item.sending
    /\ \A r, q \in wire : r.waited /\ q.waited => r = q
    /\ \A r, q \in wire : r.event = q.event => r.edits = q.edits

\* An event that was answered has the payload of its requests.
AnswersStored ==
    /\ \A n \in 1..MaxEvents : n > lastEvent => events[n] = Untouched
    /\ \A r \in wire : events[r.event] # Untouched => r.edits \subseteq events[r.event].work
    /\ (item.event # 0 /\ events[item.event] # Untouched) => item.sent \subseteq events[item.event].work

\* One save at most is between its writes, and what it has written is there.
OneSaveAtATime ==
    /\ \A r, q \in wire : Writing(r) /\ Writing(q) => r = q
    /\ \A r \in wire : Writing(r) => r.edits \subseteq stored.work
    /\ \A r \in wire : r.at = "versioned" => stored.work \subseteq recorded \cap base /\ stored.version > 0

\* A request past the lookup twice had company there; one that looked before its
\* event's version was appended had company, or the version is of a save that broke off.
LookedTogether ==
    /\ \A r, q \in wire : r # q /\ r.at # "sent" /\ q.at # "sent" /\ r.event = q.event => r.event \in doubled
    /\ \A r \in wire : r.at = "looked" /\ r.event \in written => r.event \in doubled \cup cut
    /\ \A n \in written : events[n] # Untouched \/ n \in cut \/ \E r \in wire : r.event = n /\ r.at = "versioned"

Delivery == RequestsAgree /\ AnswersStored /\ OneSaveAtATime /\ LookedTogether

\* What was answered or shown is in a version; until a message is handled the row and the copy have it too.
Safe(work) == work \subseteq recorded /\ work \ exposed \subseteq stored.work \cap base
AnswersAreSafe == Safe(shownSaved) /\ \A n \in EventIds : Safe(events[n].work)

MaterialInv ==
    /\ MaterialTypeOK /\ ItemOrdered /\ Delivery /\ AnswersAreSafe
    /\ NothingSilentlyDropped /\ RetryIsRecognised

LEMMA MaterialInvIsSound == MaterialInv => MaterialSound
BY DEF MaterialInv, MaterialSound, AnswersAreSafe, Safe, ShownSavedIsRecorded, WorkSinceMessageIsStored

-----------------------------------------------------------------------------
(* Types, by who owns the variables *)

ItemRecords == [status : Status, server : Snapshot, local : Work, pending : Work, queued : BOOLEAN,
                sending : Work, event : 0..MaxEvents, sent : Work, aside : Work]
UseRecords == [turns : 0..MaxTurns, reads : 0..MaxReads, givenUp : 0..MaxGivenUp, cuts : 0..MaxCuts]
ReadingRecords == [at : {"idle", "asked", "row", "read"}, seen : Snapshot]

ServerTyped == stored \in Snapshot /\ base \in Work /\ recorded \in Work /\ events \in [EventIds -> Snapshot]
PageTyped == item \in ItemRecords /\ lastEvent \in 0..MaxEvents /\ cached \in Snapshot /\ reading \in ReadingRecords /\ replied \in BOOLEAN
TextTyped == typed \subseteq Edits /\ given \in Work /\ shownSaved \in Work
DeliveryTyped ==
    exposed \in Work /\ written \subseteq EventIds /\ cut \subseteq EventIds /\ refused \subseteq EventIds /\ doubled \subseteq EventIds

LEMMA MaterialTypes ==
    /\ MaterialTypeOK => /\ ServerTyped /\ PageTyped /\ TextTyped /\ DeliveryTyped /\ wire \subseteq Request /\ used \in UseRecords
                         /\ stored \in Snapshot /\ item \in ItemRecords /\ lastEvent \in 0..MaxEvents
                         /\ events \in [EventIds -> Snapshot]
    /\ Untouched \in Snapshot /\ NoReading \in ReadingRecords /\ Untouched.work = {}
BY DEF MaterialTypeOK, ServerTyped, PageTyped, TextTyped, DeliveryTyped, ItemRecords, UseRecords, ReadingRecords,
       Untouched, Snapshot, Work, NoReading

LEMMA TypesKept ==
    ASSUME ServerTyped', PageTyped', TextTyped', DeliveryTyped', wire' \subseteq Request, used' \in UseRecords
    PROVE  MaterialTypeOK'
BY DEF MaterialTypeOK, ServerTyped, PageTyped, TextTyped, DeliveryTyped, ItemRecords, UseRecords, ReadingRecords

LEMMA RequestFields ==
    ASSUME MaterialTypeOK, NEW r \in wire
    PROVE  /\ r \in Request /\ r.event \in EventIds /\ r.match \in Nat /\ r.edits \in Work /\ r.waited \in BOOLEAN
           /\ r.at \in {"sent", "looked", "stored", "versioned"} /\ r.event # 0
<1>1. r \in Request /\ r.event \in EventIds
  BY DEF MaterialTypeOK, Request
<1>2. r.event # 0
  BY <1>1, MaterialAssumption DEF EventIds
<1>. QED
  BY <1>1, <1>2 DEF Request

\* A step of the page: the server and what was shown are as they were.
LEMMA ServerUntouched ==
    ASSUME MaterialInv, UNCHANGED <<serverVars, shownSaved, delivery>>
    PROVE  ServerTyped' /\ DeliveryTyped' /\ AnswersAreSafe' /\ RetryIsRecognised'
<1>1. ServerTyped /\ DeliveryTyped /\ AnswersAreSafe /\ RetryIsRecognised
  BY MaterialTypes DEF MaterialInv
<1>. QED
  BY <1>1 DEF serverVars, delivery, ServerTyped, DeliveryTyped, AnswersAreSafe, Safe, RetryIsRecognised

-----------------------------------------------------------------------------
(* What the steps do to the requests *)

\* The item still has the event of its last attempt, or none.
EventKept == item'.event = 0 \/ (item'.event = item.event /\ item'.sent = item.sent)

\* A request that is waited for is still the one of the item's save.
WaitKept == \A r \in wire' : r.waited => item'.status = "SAVING" /\ item'.sending = item.sending /\ item'.event = item.event

\* Requests may end and the engine's copy change, if no save between its writes
\* is forgotten and the copy has the work of a save whose version is there.
LEMMA LosingKeeps ==
    ASSUME MaterialTypeOK, Delivery, wire' \subseteq wire, UNCHANGED <<events, stored, recorded, lastEvent, doubled, written>>,
           cut \subseteq cut', EventKept, WaitKept,
           \A r \in wire' : r.at = "versioned" => stored.work \subseteq base',
           \A r \in wire \ wire' : r.at = "versioned" => r.event \in cut'
    PROVE  Delivery'
<1>1. \A r \in wire : r.event # 0
  BY RequestFields
<1>2. RequestsAgree'
  BY <1>1 DEF Delivery, RequestsAgree, EventKept, WaitKept
<1>3. AnswersStored'
  BY <1>1 DEF Delivery, AnswersStored, EventKept
<1>4. OneSaveAtATime'
  BY DEF Delivery, OneSaveAtATime, Writing
<1>5. LookedTogether'
  BY DEF Delivery, LookedTogether
<1>. QED
  BY <1>2, <1>3, <1>4, <1>5 DEF Delivery

\* A step of the page that leaves the requests alone.
LEMMA PageKeeps ==
    ASSUME MaterialTypeOK, Delivery, UNCHANGED <<serverVars, wire, lastEvent, delivery>>, EventKept, WaitKept
    PROVE  Delivery'
<1>1. \A r \in wire' : r.at = "versioned" => stored.work \subseteq base'
  BY DEF Delivery, OneSaveAtATime, serverVars
<1>. QED
  BY <1>1, LosingKeeps DEF serverVars, delivery

\* Nobody waits any more.
LEMMA AbandonKeeps ==
    ASSUME MaterialTypeOK, Delivery, wire' = Abandoned, UNCHANGED <<serverVars, lastEvent, delivery>>, EventKept
    PROVE  Delivery' /\ wire' \subseteq Request
<1>1. ASSUME NEW r \in wire'
      PROVE  \E q \in wire : /\ r = [q EXCEPT !.waited = FALSE] /\ r \in Request /\ ~r.waited /\ r.event = q.event
                              /\ r.edits = q.edits /\ r.at = q.at /\ q.event # 0
  <2>1. PICK q \in wire : r = [q EXCEPT !.waited = FALSE]
    BY DEF Abandoned
  <2>2. q \in Request /\ q.event # 0
    BY RequestFields
  <2>3. r \in Request /\ ~r.waited /\ r.event = q.event /\ r.edits = q.edits /\ r.at = q.at
    BY <2>1, <2>2 DEF Request
  <2>. WITNESS q \in wire
  <2>. QED
    BY <2>1, <2>2, <2>3
<1>2. ASSUME NEW q \in wire PROVE \E r \in wire' : r.event = q.event /\ r.at = q.at
  <2>1. [q EXCEPT !.waited = FALSE] \in wire'
    BY DEF Abandoned
  <2>2. [q EXCEPT !.waited = FALSE].event = q.event /\ [q EXCEPT !.waited = FALSE].at = q.at
    BY RequestFields DEF Request
  <2>. QED
    BY <2>1, <2>2
<1>3. UNCHANGED <<stored, base, recorded, events, lastEvent, doubled, written, cut>>
  BY DEF serverVars, delivery
<1>4. RequestsAgree'
  <2>1. \A r \in wire' : /\ (r.event \in 1..MaxEvents => r.event <= lastEvent') /\ ~r.waited
                         /\ (r.event = item'.event => r.edits = item'.sent)
    BY <1>1, <1>3 DEF Delivery, RequestsAgree, EventKept
  <2>2. \A r, q \in wire' : r.event = q.event => r.edits = q.edits
    BY <1>1 DEF Delivery, RequestsAgree
  <2>. QED
    BY <2>1, <2>2 DEF RequestsAgree
<1>5. AnswersStored'
  <2>1. \A r \in wire' : events[r.event] # Untouched => r.edits \subseteq events[r.event].work
    BY <1>1 DEF Delivery, AnswersStored
  <2>2. (item'.event # 0 /\ events[item'.event] # Untouched) => item'.sent \subseteq events[item'.event].work
    BY DEF Delivery, AnswersStored, EventKept
  <2>. QED
    BY <1>3, <2>1, <2>2 DEF Delivery, AnswersStored
<1>6. OneSaveAtATime'
  <2>1. \A r \in wire' : (Writing(r) => r.edits \subseteq stored.work)
                         /\ (r.at = "versioned" => stored.work \subseteq recorded \cap base /\ stored.version > 0)
    BY <1>1 DEF Delivery, OneSaveAtATime, Writing
  <2>2. ASSUME NEW r \in wire', NEW q \in wire', Writing(r), Writing(q) PROVE r = q
    <3>1. PICK a \in wire : r = [a EXCEPT !.waited = FALSE] /\ r.at = a.at
      BY <1>1
    <3>2. PICK b \in wire : q = [b EXCEPT !.waited = FALSE] /\ q.at = b.at
      BY <1>1
    <3>3. a = b
      BY <2>2, <3>1, <3>2 DEF Delivery, OneSaveAtATime, Writing
    <3>. QED
      BY <3>1, <3>2, <3>3
  <2>. QED
    BY <1>3, <2>1, <2>2 DEF OneSaveAtATime, Writing
<1>7. LookedTogether'
  <2>1. \A r \in wire' : r.at = "looked" /\ r.event \in written => r.event \in doubled \cup cut
    BY <1>1 DEF Delivery, LookedTogether
  <2>2. ASSUME NEW r \in wire', NEW q \in wire', r # q, r.at # "sent", q.at # "sent", r.event = q.event PROVE r.event \in doubled
    <3>1. PICK a \in wire : r = [a EXCEPT !.waited = FALSE] /\ r.event = a.event /\ r.at = a.at
      BY <1>1
    <3>2. PICK b \in wire : q = [b EXCEPT !.waited = FALSE] /\ q.event = b.event /\ q.at = b.at
      BY <1>1
    <3>3. a # b
      BY <2>2, <3>1, <3>2
    <3>. QED
      BY <2>2, <3>1, <3>2, <3>3 DEF Delivery, LookedTogether
  <2>3. \A n \in written : events[n] # Untouched \/ n \in cut \/ \E r \in wire' : r.event = n /\ r.at = "versioned"
    BY <1>2 DEF Delivery, LookedTogether
  <2>. QED
    BY <1>3, <2>1, <2>2, <2>3 DEF LookedTogether
<1>. QED
  BY <1>1, <1>4, <1>5, <1>6, <1>7 DEF Delivery

\* A new request that is not past the lookup: nobody waits yet, and another of its
\* event has its payload.
LEMMA SendingKeeps ==
    ASSUME MaterialTypeOK, Delivery, NEW q \in Request, q.at = "sent", wire' = wire \cup {q}, UNCHANGED <<serverVars, delivery>>,
           \A r \in wire : r.event = q.event => r.edits = q.edits,
           events[q.event] # Untouched => q.edits \subseteq events[q.event].work
    PROVE  /\ OneSaveAtATime' /\ LookedTogether' /\ wire' \subseteq Request
           /\ \A r \in wire' : events'[r.event] # Untouched => r.edits \subseteq events'[r.event].work
           /\ \A r, b \in wire' : r.event = b.event => r.edits = b.edits
<1>1. UNCHANGED <<stored, base, recorded, events, doubled, written, cut>>
  BY DEF serverVars, delivery
<1>2. OneSaveAtATime'
  BY <1>1 DEF Delivery, OneSaveAtATime, Writing
<1>3. LookedTogether'
  BY <1>1 DEF Delivery, LookedTogether
<1>4. \A r \in wire' : events'[r.event] # Untouched => r.edits \subseteq events'[r.event].work
  BY <1>1 DEF Delivery, AnswersStored
<1>5. \A r, b \in wire' : r.event = b.event => r.edits = b.edits
  BY DEF Delivery, RequestsAgree
<1>. QED
  BY <1>2, <1>3, <1>4, <1>5, MaterialTypes

\* A request that goes on stays what it is, and the page does not see it.
LEMMA ReachingKeeps ==
    ASSUME MaterialTypeOK, Delivery, NEW r \in wire, NEW to \in {"looked", "stored", "versioned"}, Reaches(r, to), UNCHANGED <<pageVars, events>>
    PROVE  /\ RequestsAgree' /\ AnswersStored' /\ wire' \subseteq Request
           /\ \E b \in wire' : /\ wire' = (wire \ {r}) \cup {b} /\ b.at = to /\ b.event = r.event /\ b.edits = r.edits
<1> DEFINE b == [r EXCEPT !.at = to]
<1>1. wire' = (wire \ {r}) \cup {b} /\ wire \subseteq Request /\ r \in Request
  BY MaterialTypes DEF Reaches
<1>2. b \in Request /\ b.at = to /\ b.event = r.event /\ b.edits = r.edits /\ b.waited = r.waited
  BY <1>1 DEF Request
<1>. HIDE DEF b
<1>3. UNCHANGED <<item, lastEvent>>
  BY DEF pageVars
<1>4. RequestsAgree'
  <2>1. \A q \in wire' : /\ (q.event \in 1..MaxEvents => q.event <= lastEvent') /\ (q.event = item'.event => q.edits = item'.sent)
                         /\ q.waited => item'.status = "SAVING" /\ q.event = item'.event /\ q.edits = item'.sending
    BY <1>1, <1>2, <1>3 DEF Delivery, RequestsAgree
  <2>2. \A q, a \in wire' : q.waited /\ a.waited => q = a
    BY <1>1, <1>2 DEF Delivery, RequestsAgree
  <2>3. \A q, a \in wire' : q.event = a.event => q.edits = a.edits
    BY <1>1, <1>2 DEF Delivery, RequestsAgree
  <2>. QED
    BY <2>1, <2>2, <2>3 DEF RequestsAgree
<1>5. AnswersStored'
  BY <1>1, <1>2, <1>3 DEF Delivery, AnswersStored
<1>. QED
  BY <1>1, <1>2, <1>4, <1>5

-----------------------------------------------------------------------------
(* The candidate and the contract *)

LEMMA EditKeeps == ASSUME MaterialInv, NEW e \in Edits, Edit(e) PROVE MaterialInv'
<1>1. item \in ItemRecords /\ e \in Edits \cup OtherEdits /\ MaterialTypeOK /\ Delivery /\ ItemOrdered /\ PageTyped /\ TextTyped
  BY MaterialTypes DEF MaterialInv
<1>2. UNCHANGED <<serverVars, wire, lastEvent, cached, reading, replied, used, given, shownSaved, delivery, recorded>> /\ typed' = typed \cup {e}
  BY DEF Edit, serverVars
<1>3. /\ item' \in ItemRecords /\ ItemOrdered' /\ UNCHANGED <<item.sending, item.event, item.sent>>
      /\ (item.status = "SAVING" => item'.status = "SAVING")
      /\ item.pending \cup item.aside \cup {e} \subseteq item'.pending \cup item'.aside
  <2>1. CASE item.status = "CONFLICT"
    <3>1. item' = [item EXCEPT !.aside = @ \cup {e}]
      BY <2>1 DEF Edit
    <3>2. /\ item' \in ItemRecords /\ item'.status = item.status /\ item'.pending = item.pending /\ item'.queued = item.queued
          /\ item'.sending = item.sending /\ item'.event = item.event /\ item'.sent = item.sent /\ item'.aside = item.aside \cup {e}
      BY <1>1, <3>1 DEF ItemRecords, Work
    <3>. QED
      BY <1>1, <1>2, <2>1, <3>2 DEF ItemOrdered
  <2>2. CASE item.status # "CONFLICT"
    <3>1. item' = [item EXCEPT !.local = @ \cup {e}, !.pending = @ \cup {e}, !.queued = TRUE,
                               !.status = IF @ = "SAVING" THEN @ ELSE "DIRTY"]
      BY <2>2 DEF Edit
    <3>2. /\ item' \in ItemRecords /\ item'.status = (IF item.status = "SAVING" THEN "SAVING" ELSE "DIRTY")
          /\ item'.pending = item.pending \cup {e} /\ item'.queued
          /\ item'.sending = item.sending /\ item'.event = item.event /\ item'.sent = item.sent /\ item'.aside = item.aside
      BY <1>1, <3>1 DEF ItemRecords, Work, Status
    <3>. QED
      BY <1>1, <1>2, <2>2, <3>2 DEF ItemOrdered
  <2>. QED
    BY <2>1, <2>2
<1>4. Delivery'
  <2>1. EventKept /\ WaitKept
    BY <1>1, <1>2, <1>3 DEF EventKept, WaitKept, Delivery, RequestsAgree
  <2>. QED
    BY <1>1, <1>2, <2>1, PageKeeps
<1>5. ServerTyped' /\ DeliveryTyped' /\ AnswersAreSafe' /\ RetryIsRecognised'
  BY <1>2, ServerUntouched
<1>6. MaterialTypeOK'
  <2>1. PageTyped' /\ TextTyped' /\ wire' \subseteq Request /\ used' \in UseRecords
    BY <1>1, <1>2, <1>3, MaterialTypes DEF PageTyped, TextTyped
  <2>. QED
    BY <1>5, <2>1, TypesKept
<1>7. NothingSilentlyDropped'
  BY <1>2, <1>3 DEF MaterialInv, NothingSilentlyDropped
<1>. QED
  BY <1>3, <1>4, <1>5, <1>6, <1>7 DEF MaterialInv

LEMMA KeepServerKeeps == ASSUME MaterialInv, KeepServer PROVE MaterialInv'
<1>1. item \in ItemRecords /\ MaterialTypeOK /\ Delivery /\ ItemOrdered /\ PageTyped /\ TextTyped
  BY MaterialTypes DEF MaterialInv
<1>2. /\ UNCHANGED <<serverVars, wire, lastEvent, cached, reading, replied, used, typed, shownSaved, delivery, recorded>>
      /\ item.status = "CONFLICT" /\ given' = given \cup item.aside
      /\ item' = [item EXCEPT !.status = "SAVED", !.aside = {}, !.pending = {}, !.queued = FALSE, !.local = item.server.work]
  BY DEF KeepServer, serverVars
<1>3. /\ item' \in ItemRecords /\ item'.status = "SAVED" /\ item'.pending = {} /\ ~item'.queued
      /\ item'.sending = item.sending /\ item'.event = item.event /\ item'.sent = item.sent /\ item'.aside = {}
  BY <1>1, <1>2 DEF ItemRecords, Work, Status, Snapshot
<1>4. ItemOrdered' /\ item.pending = {} /\ item.sending = {}
  BY <1>1, <1>2, <1>3 DEF ItemOrdered
<1>5. Delivery'
  <2>1. EventKept /\ WaitKept
    BY <1>1, <1>2, <1>3 DEF EventKept, WaitKept, Delivery, RequestsAgree
  <2>. QED
    BY <1>1, <1>2, <2>1, PageKeeps
<1>6. ServerTyped' /\ DeliveryTyped' /\ AnswersAreSafe' /\ RetryIsRecognised'
  BY <1>2, ServerUntouched
<1>7. MaterialTypeOK'
  <2>1. PageTyped' /\ TextTyped' /\ wire' \subseteq Request /\ used' \in UseRecords
    BY <1>1, <1>2, <1>3, MaterialTypes DEF PageTyped, TextTyped, ItemRecords, Work
  <2>. QED
    BY <1>6, <2>1, TypesKept
<1>8. NothingSilentlyDropped'
  BY <1>2, <1>3, <1>4 DEF MaterialInv, NothingSilentlyDropped
<1>. QED
  BY <1>4, <1>5, <1>6, <1>7, <1>8 DEF MaterialInv

LEMMA ReapplyKeeps == ASSUME MaterialInv, Reapply PROVE MaterialInv'
<1>1. item \in ItemRecords /\ MaterialTypeOK /\ Delivery /\ ItemOrdered /\ PageTyped /\ TextTyped
  BY MaterialTypes DEF MaterialInv
<1>2. /\ UNCHANGED <<serverVars, wire, lastEvent, cached, reading, replied, used, typed, given, shownSaved, delivery, recorded>>
      /\ item.status = "CONFLICT"
      /\ item' = [item EXCEPT !.status = "DIRTY", !.aside = {}, !.pending = item.aside, !.queued = TRUE,
                              !.local = item.server.work \cup item.aside]
  BY DEF Reapply, histories, serverVars
<1>3. /\ item' \in ItemRecords /\ item'.status = "DIRTY" /\ item'.pending = item.aside /\ item'.queued
      /\ item'.sending = item.sending /\ item'.event = item.event /\ item'.sent = item.sent /\ item'.aside = {}
  BY <1>1, <1>2 DEF ItemRecords, Work, Status, Snapshot
<1>4. ItemOrdered' /\ item.pending = {} /\ item.sending = {}
  BY <1>1, <1>2, <1>3 DEF ItemOrdered
<1>5. Delivery'
  <2>1. EventKept /\ WaitKept
    BY <1>1, <1>2, <1>3 DEF EventKept, WaitKept, Delivery, RequestsAgree
  <2>. QED
    BY <1>1, <1>2, <2>1, PageKeeps
<1>6. ServerTyped' /\ DeliveryTyped' /\ AnswersAreSafe' /\ RetryIsRecognised'
  BY <1>2, ServerUntouched
<1>7. MaterialTypeOK'
  <2>1. PageTyped' /\ TextTyped' /\ wire' \subseteq Request /\ used' \in UseRecords
    BY <1>1, <1>2, <1>3, MaterialTypes DEF PageTyped, TextTyped
  <2>. QED
    BY <1>6, <2>1, TypesKept
<1>8. NothingSilentlyDropped'
  BY <1>2, <1>3, <1>4 DEF MaterialInv, NothingSilentlyDropped
<1>. QED
  BY <1>4, <1>5, <1>6, <1>7, <1>8 DEF MaterialInv

LEMMA CleanFields ==
    ASSUME NEW s \in Snapshot
    PROVE  /\ Clean(s) \in ItemRecords /\ Clean(s).status = "SAVED" /\ Clean(s).pending = {} /\ ~Clean(s).queued
           /\ Clean(s).sending = {} /\ Clean(s).event = 0 /\ Clean(s).sent = {} /\ Clean(s).aside = {}
BY MaterialAssumption DEF Clean, ItemRecords, Status, Snapshot, Work

LEMMA ReloadKeeps == ASSUME MaterialInv, Reload PROVE MaterialInv'
<1>1. /\ item \in ItemRecords /\ MaterialTypeOK /\ Delivery /\ ItemOrdered /\ PageTyped /\ TextTyped /\ used \in UseRecords
      /\ stored \in Snapshot
  BY MaterialTypes DEF MaterialInv
<1>2. /\ UNCHANGED <<serverVars, lastEvent, typed, shownSaved, delivery, recorded>> /\ used.reads < MaxReads /\ replied' = FALSE
      /\ given' = given \cup item.pending \cup item.aside \cup item.sending /\ cached' = stored /\ item' = Clean(stored)
      /\ used' = [used EXCEPT !.reads = @ + 1] /\ wire' = Abandoned /\ reading' = NoReading
  BY DEF Reload, serverVars
<1>3. /\ item' \in ItemRecords /\ item'.status = "SAVED" /\ item'.pending = {} /\ ~item'.queued
      /\ item'.sending = {} /\ item'.event = 0 /\ item'.sent = {} /\ item'.aside = {}
  BY <1>1, <1>2, CleanFields
<1>4. Delivery' /\ wire' \subseteq Request
  <2>1. EventKept
    BY <1>3 DEF EventKept
  <2>. QED
    BY <1>1, <1>2, <2>1, AbandonKeeps
<1>5. used' \in UseRecords
  BY <1>1, <1>2, MaterialAssumption DEF UseRecords
<1>6. ServerTyped' /\ DeliveryTyped' /\ AnswersAreSafe' /\ RetryIsRecognised'
  BY <1>2, ServerUntouched
<1>7. MaterialTypeOK'
  <2>1. PageTyped' /\ TextTyped'
    BY <1>1, <1>2, <1>3, MaterialTypes DEF PageTyped, TextTyped, ItemRecords, Work
  <2>. QED
    BY <1>4, <1>5, <1>6, <2>1, TypesKept
<1>8. ItemOrdered'
  BY <1>1, <1>2, <1>3 DEF ItemOrdered, PageTyped
<1>9. NothingSilentlyDropped'
  BY <1>2, <1>3 DEF MaterialInv, NothingSilentlyDropped
<1>. QED
  BY <1>4, <1>6, <1>7, <1>8, <1>9 DEF MaterialInv

\* A contract that is loaded into the store.
LEMMA LoadKeeps ==
    ASSUME MaterialInv, NEW c \in Snapshot, item' = LoadedFrom(c),
           UNCHANGED <<serverVars, recorded, wire, lastEvent, delivery, typed, given, shownSaved>>
    PROVE  item' \in ItemRecords /\ ItemOrdered' /\ Delivery' /\ NothingSilentlyDropped'
<1>1. item \in ItemRecords /\ MaterialTypeOK /\ Delivery /\ ItemOrdered
  BY MaterialTypes DEF MaterialInv
<1>2. /\ item' \in ItemRecords /\ item'.pending = item.pending /\ (item'.queued <=> item.queued) /\ item'.aside = item.aside
      /\ item'.sending = item.sending /\ item'.status = item.status /\ EventKept
  <2>1. CASE item.status \in Unsaved
    <3>1. item' = [item EXCEPT !.server = c]
      BY <2>1 DEF LoadedFrom
    <3>. QED
      BY <1>1, <3>1 DEF ItemRecords, EventKept
  <2>2. CASE item.status = "SAVED"
    <3>1. item' = Clean(c)
      BY <2>2 DEF LoadedFrom, Unsaved
    <3>2. /\ item' \in ItemRecords /\ item'.status = "SAVED" /\ item'.pending = {} /\ ~item'.queued
          /\ item'.sending = {} /\ item'.event = 0 /\ item'.sent = {} /\ item'.aside = {}
      BY <3>1, CleanFields
    <3>3. item.pending = {} /\ item.sending = {} /\ item.aside = {} /\ ~item.queued /\ item.queued \in BOOLEAN
      BY <1>1, <2>2 DEF ItemOrdered, ItemRecords
    <3>. QED
      BY <2>2, <3>2, <3>3 DEF EventKept
  <2>. QED
    BY <1>1, <2>1, <2>2 DEF ItemRecords, Unsaved
<1>3. WaitKept
  <2>1. ASSUME NEW r \in wire', r.waited PROVE item'.event = item.event
    <3>1. item.status = "SAVING"
      BY <1>1, <2>1 DEF Delivery, RequestsAgree
    <3>2. item' = [item EXCEPT !.server = c]
      BY <3>1 DEF LoadedFrom, Unsaved, Status
    <3>. QED
      BY <1>1, <3>2 DEF ItemRecords
  <2>. QED
    BY <1>1, <1>2, <2>1 DEF WaitKept, Delivery, RequestsAgree
<1>4. Delivery'
  BY <1>1, <1>2, <1>3, PageKeeps
<1>5. ItemOrdered'
  <2>1. item'.event <= lastEvent
    BY <1>1, <1>2, MaterialTypes, MaterialAssumption DEF ItemOrdered, EventKept
  <2>. QED
    BY <1>1, <1>2, <2>1 DEF ItemOrdered
<1>6. NothingSilentlyDropped'
  BY <1>2 DEF MaterialInv, NothingSilentlyDropped
<1>. QED
  BY <1>2, <1>4, <1>5, <1>6

LEMMA ContractKeeps ==
    ASSUME MaterialInv, ApplyTurn \/ AskContract \/ ReadMaterials \/ ReadVersions \/ TakeContract
    PROVE  MaterialInv'
<1>1. /\ MaterialTypeOK /\ stored \in Snapshot /\ cached \in Snapshot /\ wire \subseteq Request /\ replied \in BOOLEAN
      /\ item \in ItemRecords /\ lastEvent \in 0..MaxEvents /\ reading \in ReadingRecords /\ used \in UseRecords
      /\ TextTyped /\ Delivery /\ ItemOrdered
  BY MaterialTypes DEF MaterialInv, PageTyped
<1>2. UNCHANGED <<serverVars, recorded, wire, lastEvent, delivery, typed, given, shownSaved>>
  BY DEF ApplyTurn, AskContract, ReadMaterials, ReadVersions, TakeContract, histories, serverVars
<1>3. cached' \in Snapshot /\ used' \in UseRecords /\ reading' \in ReadingRecords /\ replied' \in BOOLEAN
  <2>1. CASE ApplyTurn
    BY <1>1, <2>1 DEF ApplyTurn
  <2>2. CASE AskContract
    BY <1>1, <2>2, MaterialAssumption, MaterialTypes DEF AskContract, UseRecords, ReadingRecords
  <2>3. CASE ReadMaterials
    BY <1>1, <2>3 DEF ReadMaterials, ReadingRecords, Snapshot, Untouched
  <2>4. CASE ReadVersions
    BY <1>1, <2>4 DEF ReadVersions, ReadingRecords, Snapshot
  <2>5. CASE TakeContract
    BY <1>1, <2>5, MaterialTypes DEF TakeContract, ReadingRecords
  <2>. QED
    BY <2>1, <2>2, <2>3, <2>4, <2>5
<1>4. item' \in ItemRecords /\ ItemOrdered' /\ Delivery' /\ NothingSilentlyDropped'
  <2>1. CASE item' = item
    <3>1. EventKept /\ WaitKept
      BY <1>1, <1>2, <2>1 DEF EventKept, WaitKept, Delivery, RequestsAgree
    <3>2. Delivery'
      BY <1>1, <1>2, <3>1, PageKeeps
    <3>. QED
      BY <1>1, <1>2, <2>1, <3>2 DEF MaterialInv, ItemOrdered, NothingSilentlyDropped
  <2>2. CASE \E c \in Snapshot : item' = LoadedFrom(c)
    BY <1>2, <2>2, LoadKeeps
  <2>3. reading.seen \in Snapshot
    BY <1>1 DEF ReadingRecords
  <2>. QED
    BY <1>1, <2>1, <2>2, <2>3 DEF ApplyTurn, AskContract, ReadMaterials, ReadVersions, TakeContract
<1>5. ServerTyped' /\ DeliveryTyped' /\ AnswersAreSafe' /\ RetryIsRecognised'
  BY <1>2, ServerUntouched
<1>6. MaterialTypeOK'
  <2>1. PageTyped' /\ TextTyped' /\ wire' \subseteq Request
    BY <1>1, <1>2, <1>3, <1>4 DEF PageTyped, TextTyped
  <2>. QED
    BY <1>3, <1>5, <2>1, TypesKept
<1>. QED
  BY <1>4, <1>5, <1>6 DEF MaterialInv

-----------------------------------------------------------------------------
(* Sending *)

\* A save takes a new event, or the one of the failed attempt with the same payload.
LEMMA FlushKeeps == ASSUME MaterialInv, Flush PROVE MaterialInv'
<1>1. /\ MaterialTypeOK /\ wire \subseteq Request /\ PageTyped /\ TextTyped /\ used \in UseRecords
      /\ item \in ItemRecords /\ lastEvent \in 0..MaxEvents /\ Delivery /\ item.event \in 0..MaxEvents
      /\ item.pending \in Work /\ item.server.version \in Nat /\ ItemOrdered
  BY MaterialTypes DEF MaterialInv, ItemRecords, Snapshot
<1> DEFINE id == IF Retries THEN item.event ELSE lastEvent + 1
           q == [event |-> id, match |-> item.server.version, edits |-> item.pending, at |-> "sent", waited |-> TRUE]
<1>2. /\ item.status \in {"DIRTY", "ERROR"} /\ item.queued /\ id <= MaxEvents
      /\ item' = [item EXCEPT !.status = "SAVING", !.sending = item.pending, !.pending = {}, !.queued = FALSE,
                              !.event = id, !.sent = item.pending]
      /\ lastEvent' = (IF Retries THEN lastEvent ELSE id) /\ wire' = wire \cup {q}
      /\ UNCHANGED <<serverVars, recorded, events, cached, reading, replied, used, delivery, typed, given, shownSaved>>
  BY DEF Flush, histories, serverVars
<1>3. id \in 1..MaxEvents /\ id <= lastEvent' /\ lastEvent <= lastEvent' /\ lastEvent' \in 0..MaxEvents
  BY <1>1, <1>2, MaterialAssumption DEF Retries, ItemOrdered
<1>4. \A r \in wire : ~r.waited
  BY <1>1, <1>2 DEF Delivery, RequestsAgree
<1>5. \A r \in wire : r.event = id => r.edits = item.pending
  <2>1. CASE Retries
    BY <1>1, <2>1 DEF Retries, Delivery, RequestsAgree
  <2>2. CASE ~Retries
    BY <1>1, <1>3, <2>2 DEF Delivery, RequestsAgree
  <2>. QED
    BY <2>1, <2>2
<1>6. events[id] # Untouched => item.pending \subseteq events[id].work
  BY <1>1, <1>3 DEF Retries, Delivery, AnswersStored
<1>. HIDE DEF id
<1>7. q \in Request /\ q.event = id /\ q.edits = item.pending /\ q.at = "sent" /\ q.waited
  BY <1>1, <1>3 DEF Request, EventIds
<1>8. /\ item' \in ItemRecords /\ item'.status = "SAVING" /\ item'.pending = {} /\ ~item'.queued
      /\ item'.sending = item.pending /\ item'.event = id /\ item'.sent = item.pending /\ item'.aside = item.aside
  <2>1. id \in 0..MaxEvents /\ {} \in Work /\ "SAVING" \in Status
    BY <1>3 DEF Work, Status
  <2>. QED
    BY <1>1, <1>2, <2>1 DEF ItemRecords
<1>. HIDE DEF q
<1>9. ItemOrdered' /\ item.sending = {} /\ item.aside = {}
  BY <1>1, <1>2, <1>3, <1>8 DEF ItemOrdered
<1>10. /\ OneSaveAtATime' /\ LookedTogether' /\ wire' \subseteq Request
       /\ \A r \in wire' : events'[r.event] # Untouched => r.edits \subseteq events'[r.event].work
       /\ \A r, b \in wire' : r.event = b.event => r.edits = b.edits
  BY <1>1, <1>2, <1>5, <1>6, <1>7, SendingKeeps
<1>11. RequestsAgree'
  <2>1. \A r \in wire' : (r.event \in 1..MaxEvents => r.event <= lastEvent') /\ (r.event = id => r.edits = item.pending)
    BY <1>1, <1>2, <1>3, <1>5, <1>7 DEF Delivery, RequestsAgree
  <2>2. \A r \in wire' : r.waited => r = q
    BY <1>2, <1>4
  <2>. QED
    BY <1>7, <1>8, <1>10, <2>1, <2>2 DEF RequestsAgree
<1>12. AnswersStored'
  <2>1. \A n \in 1..MaxEvents : n > lastEvent' => events[n] = Untouched
    BY <1>1, <1>3 DEF Delivery, AnswersStored
  <2>. QED
    BY <1>2, <1>6, <1>8, <1>10, <2>1 DEF AnswersStored
<1>13. ServerTyped' /\ DeliveryTyped' /\ AnswersAreSafe' /\ RetryIsRecognised'
  BY <1>2, ServerUntouched
<1>14. MaterialTypeOK'
  <2>1. PageTyped' /\ TextTyped' /\ used' \in UseRecords
    BY <1>1, <1>2, <1>3, <1>8 DEF PageTyped, TextTyped
  <2>. QED
    BY <1>10, <1>13, <2>1, TypesKept
<1>15. NothingSilentlyDropped'
  BY <1>2, <1>8, <1>9 DEF MaterialInv, NothingSilentlyDropped
<1>. QED
  BY <1>9, <1>10, <1>11, <1>12, <1>13, <1>14, <1>15 DEF MaterialInv, Delivery

LEMMA GivesUpKeeps == ASSUME MaterialInv, GivesUp PROVE MaterialInv'
<1>1. item \in ItemRecords /\ MaterialTypeOK /\ Delivery /\ ItemOrdered /\ used \in UseRecords /\ PageTyped /\ TextTyped
  BY MaterialTypes DEF MaterialInv
<1>2. /\ UNCHANGED <<serverVars, recorded, lastEvent, cached, reading, replied, delivery, typed, given, shownSaved>>
      /\ item.status = "SAVING" /\ used.givenUp < MaxGivenUp /\ used' = [used EXCEPT !.givenUp = @ + 1]
      /\ item' = [item EXCEPT !.status = "ERROR", !.pending = @ \cup item.sending, !.queued = TRUE, !.sending = {}]
      /\ wire' = Abandoned
  BY DEF GivesUp, histories, serverVars
<1>3. /\ item' \in ItemRecords /\ item'.status = "ERROR" /\ item'.pending = item.pending \cup item.sending /\ item'.queued
      /\ item'.sending = {} /\ item'.event = item.event /\ item'.sent = item.sent /\ item'.aside = item.aside
  BY <1>1, <1>2 DEF ItemRecords, Work, Status
<1>4. Delivery' /\ wire' \subseteq Request
  <2>1. EventKept
    BY <1>3 DEF EventKept
  <2>. QED
    BY <1>1, <1>2, <2>1, AbandonKeeps
<1>5. used' \in UseRecords
  BY <1>1, <1>2, MaterialAssumption DEF UseRecords
<1>6. ServerTyped' /\ DeliveryTyped' /\ AnswersAreSafe' /\ RetryIsRecognised'
  BY <1>2, ServerUntouched
<1>7. MaterialTypeOK'
  <2>1. PageTyped' /\ TextTyped'
    BY <1>1, <1>2, <1>3 DEF PageTyped, TextTyped
  <2>. QED
    BY <1>4, <1>5, <1>6, <2>1, TypesKept
<1>8. ItemOrdered'
  BY <1>1, <1>2, <1>3 DEF ItemOrdered
<1>9. NothingSilentlyDropped'
  BY <1>2, <1>3 DEF MaterialInv, NothingSilentlyDropped
<1>. QED
  BY <1>4, <1>6, <1>7, <1>8, <1>9 DEF MaterialInv

LEMMA OtherTabKeeps == ASSUME MaterialInv, NEW o \in OtherEdits, OtherTabSaves(o) PROVE MaterialInv'
<1>1. /\ MaterialTypeOK /\ Delivery /\ ItemOrdered /\ PageTyped /\ TextTyped /\ used \in UseRecords /\ wire \subseteq Request
      /\ stored \in Snapshot /\ item \in ItemRecords
  BY MaterialTypes DEF MaterialInv
<1> DEFINE q == [event |-> o, match |-> stored.version, edits |-> {o}, at |-> "sent", waited |-> FALSE]
<1>2. /\ events[o] = Untouched /\ (\A r \in wire : r.event # o) /\ wire' = wire \cup {q}
      /\ UNCHANGED <<serverVars, recorded, events, item, lastEvent, cached, reading, replied, used, delivery, typed, given, shownSaved>>
  BY DEF OtherTabSaves, histories, serverVars, pageVars
<1>3. q \in Request /\ q.event = o /\ q.at = "sent" /\ ~q.waited /\ o \notin 0..MaxEvents
  BY <1>1, MaterialAssumption DEF Request, EventIds, Work, Snapshot
<1>. HIDE DEF q
<1>4. /\ OneSaveAtATime' /\ LookedTogether' /\ wire' \subseteq Request
      /\ \A r \in wire' : events'[r.event] # Untouched => r.edits \subseteq events'[r.event].work
      /\ \A r, b \in wire' : r.event = b.event => r.edits = b.edits
  BY <1>1, <1>2, <1>3, SendingKeeps
<1>5. RequestsAgree'
  <2>1. item.event \in 0..MaxEvents /\ 1..MaxEvents \subseteq 0..MaxEvents
    BY <1>1 DEF ItemRecords
  <2>2. \A r \in wire' : /\ (r.event \in 1..MaxEvents => r.event <= lastEvent) /\ (r.event = item.event => r.edits = item.sent)
                         /\ (r.waited => item.status = "SAVING" /\ r.event = item.event /\ r.edits = item.sending)
    BY <1>1, <1>2, <1>3, <2>1 DEF Delivery, RequestsAgree
  <2>3. \A r, b \in wire' : r.waited /\ b.waited => r = b
    BY <1>1, <1>2, <1>3 DEF Delivery, RequestsAgree
  <2>. QED
    BY <1>2, <1>4, <2>2, <2>3 DEF RequestsAgree
<1>6. AnswersStored'
  BY <1>1, <1>2, <1>4 DEF Delivery, AnswersStored
<1>7. ServerTyped' /\ DeliveryTyped' /\ AnswersAreSafe' /\ RetryIsRecognised'
  BY <1>2, ServerUntouched
<1>8. MaterialTypeOK'
  <2>1. PageTyped' /\ TextTyped' /\ used' \in UseRecords
    BY <1>1, <1>2 DEF PageTyped, TextTyped
  <2>. QED
    BY <1>4, <1>7, <2>1, TypesKept
<1>9. ItemOrdered' /\ NothingSilentlyDropped'
  BY <1>2 DEF MaterialInv, ItemOrdered, NothingSilentlyDropped
<1>. QED
  BY <1>4, <1>5, <1>6, <1>7, <1>8, <1>9 DEF MaterialInv, Delivery

-----------------------------------------------------------------------------
(* Answers *)

LEMMA SavedFields ==
    ASSUME MaterialTypeOK, ItemOrdered, NEW v \in Snapshot, item' = Saved(v), item.status = "SAVING"
    PROVE  /\ item' \in ItemRecords /\ item'.status = (IF item.queued THEN "DIRTY" ELSE "SAVED") /\ item'.pending = item.pending
           /\ item'.queued = item.queued /\ item'.sending = {} /\ item'.event = 0 /\ item'.sent = {} /\ item'.aside = {}
<1>1. item \in ItemRecords /\ item.aside = {}
  BY MaterialTypes DEF ItemOrdered
<1>2. 0 \in 0..MaxEvents /\ {} \in Work /\ {"DIRTY", "SAVED"} \subseteq Status /\ v.work \in Work
  BY MaterialAssumption DEF Work, Status, Snapshot
<1>3. CASE item.queued
  <2>1. item' = [item EXCEPT !.server = v, !.status = "DIRTY", !.local = item.local, !.sending = {}, !.event = 0, !.sent = {}]
    BY <1>1, <1>3 DEF Saved, ItemRecords
  <2>. QED
    BY <1>1, <1>2, <1>3, <2>1 DEF ItemRecords
<1>4. CASE ~item.queued
  <2>1. item' = [item EXCEPT !.server = v, !.status = "SAVED", !.local = v.work, !.sending = {}, !.event = 0, !.sent = {}]
    BY <1>1, <1>4 DEF Saved, ItemRecords
  <2>. QED
    BY <1>1, <1>2, <1>4, <2>1 DEF ItemRecords
<1>. QED
  BY <1>3, <1>4

LEMMA ConflictedFields ==
    ASSUME MaterialTypeOK, item' = Conflicted(stored)
    PROVE  /\ item' \in ItemRecords /\ item'.status = "CONFLICT" /\ item'.pending = {} /\ ~item'.queued /\ item'.sending = {}
           /\ item'.event = item.event /\ item'.sent = item.sent /\ item'.aside = item.sending \cup item.pending
<1>1. item \in ItemRecords /\ stored \in Snapshot
  BY MaterialTypes
<1>. QED
  BY <1>1 DEF Conflicted, ItemRecords, Status, Work, Snapshot

\* An answer whose work is safe with the server, to a request with that payload.
LEMMA AnswerKeeps ==
    ASSUME MaterialInv, NEW r \in wire, NEW v \in Snapshot, Answers(r, v), r.edits \subseteq v.work, Safe(v.work), UNCHANGED <<stored, base, recorded>>
    PROVE  /\ PageTyped' /\ TextTyped' /\ ItemOrdered' /\ EventKept /\ WaitKept /\ NothingSilentlyDropped' /\ Safe(shownSaved)'
           /\ RetryIsRecognised' /\ UNCHANGED <<lastEvent, used, delivery>> /\ wire' = wire \ {r}
<1>1. item \in ItemRecords /\ MaterialTypeOK /\ ItemOrdered /\ Delivery /\ PageTyped /\ TextTyped /\ r.edits \in Work
  BY MaterialTypes, RequestFields DEF MaterialInv
<1>2. /\ wire' = wire \ {r} /\ item' = (IF r.waited THEN Saved(v) ELSE item)
      /\ shownSaved' = (IF r.waited THEN shownSaved \cup r.edits ELSE shownSaved)
      /\ UNCHANGED <<lastEvent, cached, reading, replied, used, typed, given, delivery, exposed, refused, doubled, cut>>
  BY DEF Answers, delivery
<1>3. TextTyped' /\ Safe(shownSaved)' /\ RetryIsRecognised'
  BY <1>1, <1>2 DEF TextTyped, Work, Safe, MaterialInv, AnswersAreSafe, RetryIsRecognised
<1>4. PageTyped' /\ ItemOrdered' /\ EventKept /\ WaitKept /\ NothingSilentlyDropped'
  <2>1. CASE r.waited
    <3>1. item.status = "SAVING" /\ item.sending = r.edits /\ item' = Saved(v)
      BY <1>1, <1>2, <2>1 DEF Delivery, RequestsAgree
    <3>2. /\ item' \in ItemRecords /\ item'.status = (IF item.queued THEN "DIRTY" ELSE "SAVED") /\ item'.pending = item.pending
          /\ item'.queued = item.queued /\ item'.sending = {} /\ item'.event = 0 /\ item'.sent = {} /\ item'.aside = {}
      BY <1>1, <3>1, SavedFields
    <3>3. ItemOrdered' /\ EventKept /\ item.aside = {}
      BY <1>1, <1>2, <3>1, <3>2 DEF ItemOrdered, EventKept, PageTyped
    <3>4. r.edits \subseteq recorded
      BY DEF Safe
    <3>5. NothingSilentlyDropped'
      BY <1>2, <3>1, <3>2, <3>3, <3>4 DEF MaterialInv, NothingSilentlyDropped
    <3>6. WaitKept
      BY <1>1, <1>2, <2>1 DEF WaitKept, Delivery, RequestsAgree
    <3>. QED
      BY <1>1, <1>2, <3>2, <3>3, <3>5, <3>6 DEF PageTyped
  <2>2. CASE ~r.waited
    <3>1. item' = item
      BY <1>2, <2>2
    <3>. QED
      BY <1>1, <1>2, <3>1 DEF PageTyped, ItemOrdered, EventKept, WaitKept, Delivery, RequestsAgree, MaterialInv, NothingSilentlyDropped
  <2>. QED
    BY <2>1, <2>2
<1>. QED
  BY <1>2, <1>3, <1>4

LEMMA ReplayKeeps == ASSUME MaterialInv, NEW r \in wire, Replay(r) PROVE MaterialInv'
<1>1. /\ MaterialTypeOK /\ Delivery /\ events[r.event] \in Snapshot /\ ServerTyped /\ DeliveryTyped /\ used \in UseRecords
      /\ wire \subseteq Request /\ AnswersAreSafe /\ r.event \in EventIds
  BY RequestFields, MaterialTypes DEF MaterialInv
<1>2. r.at = "sent" /\ events[r.event] # Untouched /\ Answers(r, events[r.event]) /\ UNCHANGED <<stored, base, recorded, events>>
  BY DEF Replay, Answered, serverVars
<1>3. r.edits \subseteq events[r.event].work /\ Safe(events[r.event].work)
  BY <1>1, <1>2 DEF Delivery, AnswersStored, AnswersAreSafe
<1>4. /\ PageTyped' /\ TextTyped' /\ ItemOrdered' /\ EventKept /\ WaitKept /\ NothingSilentlyDropped' /\ Safe(shownSaved)'
      /\ RetryIsRecognised' /\ UNCHANGED <<lastEvent, used, delivery>> /\ wire' = wire \ {r}
  BY <1>1, <1>2, <1>3, AnswerKeeps
<1>5. UNCHANGED <<exposed, doubled, written, cut>>
  BY <1>4 DEF delivery
<1>6. Delivery'
  <2>1. \A q \in wire' : q.at = "versioned" => stored.work \subseteq base'
    BY <1>1, <1>2, <1>4 DEF Delivery, OneSaveAtATime
  <2>. QED
    BY <1>1, <1>2, <1>4, <1>5, <2>1, LosingKeeps
<1>7. MaterialTypeOK' /\ AnswersAreSafe'
  <2>1. ServerTyped' /\ DeliveryTyped' /\ wire' \subseteq Request /\ used' \in UseRecords
    BY <1>1, <1>2, <1>4 DEF ServerTyped, DeliveryTyped, delivery
  <2>2. AnswersAreSafe'
    BY <1>1, <1>2, <1>4, <1>5 DEF AnswersAreSafe, Safe
  <2>. QED
    BY <1>4, <2>1, <2>2, TypesKept
<1>. QED
  BY <1>4, <1>6, <1>7 DEF MaterialInv

LEMMA StoreKeeps == ASSUME MaterialInv, NEW r \in wire, StoreEvent(r) PROVE MaterialInv'
<1>1. /\ MaterialTypeOK /\ Delivery /\ ServerTyped /\ DeliveryTyped /\ used \in UseRecords /\ stored \in Snapshot
      /\ wire \subseteq Request /\ AnswersAreSafe /\ r.event \in EventIds /\ events \in [EventIds -> Snapshot]
      /\ item \in ItemRecords /\ lastEvent \in 0..MaxEvents
  BY RequestFields, MaterialTypes DEF MaterialInv
<1>2. /\ r.at = "versioned" /\ Answers(r, stored) /\ UNCHANGED <<stored, base, recorded>>
      /\ events' = [events EXCEPT ![r.event] = IF events[r.event] # Untouched THEN @ ELSE stored]
  BY DEF StoreEvent, Answered
<1>3. r.edits \subseteq stored.work /\ Safe(stored.work) /\ stored # Untouched
  BY <1>1, <1>2 DEF Delivery, OneSaveAtATime, Safe, Writing, Untouched
<1>4. /\ PageTyped' /\ TextTyped' /\ ItemOrdered' /\ EventKept /\ WaitKept /\ NothingSilentlyDropped' /\ Safe(shownSaved)'
      /\ RetryIsRecognised' /\ UNCHANGED <<lastEvent, used, delivery>> /\ wire' = wire \ {r}
  BY <1>1, <1>2, <1>3, AnswerKeeps
<1>5. UNCHANGED <<exposed, doubled, written, cut>>
  BY <1>4 DEF delivery
<1>6. /\ events' \in [EventIds -> Snapshot] /\ events'[r.event] # Untouched
      /\ events'[r.event] = (IF events[r.event] # Untouched THEN events[r.event] ELSE stored)
      /\ \A n \in EventIds : n # r.event => events'[n] = events[n]
  BY <1>1, <1>2, <1>3
<1>7. RequestsAgree'
  <2>1. \A q \in wire : q.event # 0
    BY <1>1, RequestFields
  <2>. QED
    BY <1>1, <1>4, <2>1 DEF Delivery, RequestsAgree, EventKept, WaitKept
<1>8. AnswersStored'
  <2>1. r.event \in 1..MaxEvents => r.event <= lastEvent
    BY <1>1 DEF Delivery, RequestsAgree
  <2>2. ASSUME NEW n \in 1..MaxEvents, n > lastEvent' PROVE events'[n] = Untouched
    <3>1. n # r.event /\ n \in EventIds /\ events[n] = Untouched
      BY <1>1, <1>4, <2>1, <2>2, MaterialAssumption DEF Delivery, AnswersStored, EventIds
    <3>. QED
      BY <1>6, <3>1
  <2>3. ASSUME NEW q \in wire', events'[q.event] # Untouched PROVE q.edits \subseteq events'[q.event].work
    <3>1. q \in wire /\ q.event \in EventIds /\ (q.event = r.event => q.edits = r.edits)
      BY <1>1, <1>4, RequestFields DEF Delivery, RequestsAgree
    <3>. QED
      BY <1>1, <1>3, <1>6, <2>3, <3>1 DEF Delivery, AnswersStored
  <2>4. ASSUME item'.event # 0, events'[item'.event] # Untouched PROVE item'.sent \subseteq events'[item'.event].work
    <3>1. item'.event = item.event /\ item'.sent = item.sent /\ item.event \in 1..MaxEvents /\ item.event \in EventIds
      BY <1>1, <1>4, <2>4, MaterialAssumption DEF EventKept, ItemRecords, EventIds
    <3>2. r.event = item.event => r.edits = item.sent
      BY <1>1 DEF Delivery, RequestsAgree
    <3>. QED
      BY <1>1, <1>3, <1>6, <2>4, <3>1, <3>2 DEF Delivery, AnswersStored
  <2>. QED
    BY <2>2, <2>3, <2>4 DEF AnswersStored
<1>9. OneSaveAtATime'
  BY <1>1, <1>2, <1>4 DEF Delivery, OneSaveAtATime, Writing
<1>10. LookedTogether'
  <2>1. ASSUME NEW n \in written PROVE events'[n] # Untouched \/ n \in cut \/ \E q \in wire' : q.event = n /\ q.at = "versioned"
    BY <1>1, <1>4, <1>6 DEF Delivery, LookedTogether, DeliveryTyped
  <2>. QED
    BY <1>1, <1>4, <1>5, <2>1 DEF Delivery, LookedTogether
<1>11. AnswersAreSafe'
  <2>1. Safe(events'[r.event].work)
    BY <1>1, <1>3, <1>6 DEF AnswersAreSafe
  <2>2. \A n \in EventIds : Safe(events'[n].work)
    BY <1>1, <1>6, <2>1 DEF AnswersAreSafe
  <2>. QED
    BY <1>2, <1>4, <1>5, <2>2 DEF AnswersAreSafe, Safe
<1>12. MaterialTypeOK'
  <2>1. ServerTyped' /\ DeliveryTyped' /\ wire' \subseteq Request /\ used' \in UseRecords
    BY <1>1, <1>2, <1>4, <1>6 DEF ServerTyped, DeliveryTyped, delivery
  <2>. QED
    BY <1>4, <2>1, TypesKept
<1>. QED
  BY <1>4, <1>7, <1>8, <1>9, <1>10, <1>11, <1>12 DEF MaterialInv, Delivery

LEMMA RefuseKeeps == ASSUME MaterialInv, NEW r \in wire, Refuse(r) PROVE MaterialInv'
<1>1. /\ MaterialTypeOK /\ Delivery /\ ItemOrdered /\ r.event \in EventIds /\ item \in ItemRecords /\ PageTyped /\ TextTyped
      /\ ServerTyped /\ DeliveryTyped /\ used \in UseRecords /\ wire \subseteq Request /\ AnswersAreSafe
  BY RequestFields, MaterialTypes DEF MaterialInv
<1>2. /\ r.at = "looked" /\ wire' = wire \ {r} /\ item' = (IF r.waited THEN Conflicted(stored) ELSE item)
      /\ refused' = (IF r.event \in written THEN refused \cup {r.event} ELSE refused)
      /\ UNCHANGED <<stored, base, recorded, events, lastEvent, cached, reading, replied, used, typed, given, shownSaved,
                     exposed, written, cut, doubled>>
  BY DEF Refuse, serverVars
<1>3. RetryIsRecognised' /\ DeliveryTyped'
  <2>1. r.event \in written => r.event \in doubled \cup cut
    BY <1>1, <1>2 DEF Delivery, LookedTogether
  <2>. QED
    BY <1>1, <1>2, <2>1 DEF MaterialInv, RetryIsRecognised, DeliveryTyped
<1>4. item' \in ItemRecords /\ ItemOrdered' /\ EventKept /\ WaitKept /\ NothingSilentlyDropped'
  <2>1. CASE r.waited
    <3>1. /\ item' \in ItemRecords /\ item'.status = "CONFLICT" /\ item'.pending = {} /\ ~item'.queued /\ item'.sending = {}
          /\ item'.event = item.event /\ item'.sent = item.sent /\ item'.aside = item.sending \cup item.pending
      BY <1>1, <1>2, <2>1, ConflictedFields
    <3>2. item.status = "SAVING" /\ \A q \in wire' : ~q.waited
      BY <1>1, <1>2, <2>1 DEF Delivery, RequestsAgree
    <3>3. ItemOrdered' /\ EventKept /\ item.aside = {}
      BY <1>1, <1>2, <3>1, <3>2 DEF ItemOrdered, EventKept
    <3>4. NothingSilentlyDropped' /\ WaitKept
      BY <1>2, <3>1, <3>2, <3>3 DEF MaterialInv, NothingSilentlyDropped, WaitKept
    <3>. QED
      BY <3>1, <3>3, <3>4
  <2>2. CASE ~r.waited
    BY <1>1, <1>2, <2>2 DEF ItemOrdered, EventKept, WaitKept, Delivery, RequestsAgree, MaterialInv, NothingSilentlyDropped
  <2>. QED
    BY <2>1, <2>2
<1>5. Delivery'
  <2>1. \A q \in wire' : q.at = "versioned" => stored.work \subseteq base'
    BY <1>1, <1>2 DEF Delivery, OneSaveAtATime
  <2>. QED
    BY <1>1, <1>2, <1>4, <2>1, LosingKeeps
<1>6. MaterialTypeOK' /\ AnswersAreSafe'
  <2>1. ServerTyped' /\ PageTyped' /\ TextTyped' /\ wire' \subseteq Request /\ used' \in UseRecords
    BY <1>1, <1>2, <1>4 DEF ServerTyped, PageTyped, TextTyped
  <2>2. AnswersAreSafe'
    BY <1>1, <1>2 DEF AnswersAreSafe, Safe
  <2>. QED
    BY <1>3, <2>1, <2>2, TypesKept
<1>. QED
  BY <1>3, <1>4, <1>5, <1>6 DEF MaterialInv

-----------------------------------------------------------------------------
(* The server *)

\* A step of the server that the page does not see.
LEMMA PageUntouched ==
    ASSUME MaterialInv, UNCHANGED <<pageVars, typed, given, shownSaved>>, recorded \subseteq recorded'
    PROVE  PageTyped' /\ TextTyped' /\ ItemOrdered' /\ NothingSilentlyDropped' /\ EventKept
<1>1. PageTyped /\ TextTyped /\ ItemOrdered /\ UNCHANGED <<item, lastEvent, cached, reading, replied>>
  BY MaterialTypes DEF MaterialInv, pageVars
<1>. QED
  BY <1>1 DEF PageTyped, TextTyped, ItemOrdered, MaterialInv, NothingSilentlyDropped, EventKept

\* Requests end, or the engine's copy changes, unseen by the page; what a message
\* makes the copy lose is exposed.
LEMMA UnseenKeeps ==
    ASSUME MaterialInv, wire' \subseteq wire, UNCHANGED <<stored, recorded, events, pageVars, typed, given, shownSaved, written, refused, doubled>>,
           base' \in Work, exposed \subseteq exposed', exposed' \in Work, cut \subseteq cut', cut' \subseteq EventIds, used' \in UseRecords,
           (stored.work \cap base) \ exposed' \subseteq base',
           \A r \in wire' : r.at = "versioned" => stored.work \subseteq base',
           \A r \in wire \ wire' : r.at = "versioned" => r.event \in cut'
    PROVE  MaterialInv'
<1>1. MaterialTypeOK /\ Delivery /\ ServerTyped /\ DeliveryTyped /\ AnswersAreSafe /\ wire \subseteq Request
  BY MaterialTypes DEF MaterialInv
<1>2. PageTyped' /\ TextTyped' /\ ItemOrdered' /\ NothingSilentlyDropped' /\ EventKept /\ UNCHANGED <<item, lastEvent>>
  BY PageUntouched DEF pageVars
<1>3. WaitKept
  BY <1>1, <1>2 DEF WaitKept, Delivery, RequestsAgree
<1>4. Delivery'
  BY <1>1, <1>2, <1>3, LosingKeeps
<1>5. AnswersAreSafe' /\ RetryIsRecognised'
  BY <1>1 DEF AnswersAreSafe, Safe, MaterialInv, RetryIsRecognised
<1>6. MaterialTypeOK'
  <2>1. ServerTyped' /\ DeliveryTyped' /\ wire' \subseteq Request
    BY <1>1 DEF ServerTyped, DeliveryTyped
  <2>. QED
    BY <1>2, <2>1, TypesKept
<1>. QED
  BY <1>2, <1>4, <1>5, <1>6 DEF MaterialInv

LEMMA LostKeeps == ASSUME MaterialInv, NEW r \in wire, Lost(r) PROVE MaterialInv'
<1>1. MaterialTypeOK /\ Delivery /\ ServerTyped /\ DeliveryTyped /\ used \in UseRecords
  BY MaterialTypes DEF MaterialInv
<1>2. /\ r.at \in {"sent", "looked"} /\ wire' = wire \ {r}
      /\ UNCHANGED <<stored, base, recorded, events, pageVars, used, typed, given, shownSaved, exposed, written, cut, refused, doubled>>
  BY DEF Lost, serverVars, histories, delivery
<1>3. \A q \in wire' : q.at = "versioned" => stored.work \subseteq base'
  BY <1>1, <1>2 DEF Delivery, OneSaveAtATime
<1>4. base' \in Work /\ exposed' \in Work /\ cut' \subseteq EventIds
  BY <1>1, <1>2 DEF ServerTyped, DeliveryTyped
<1>. QED
  BY <1>1, <1>2, <1>3, <1>4, UnseenKeeps

LEMMA CutKeeps == ASSUME MaterialInv, NEW r \in wire, CutShort(r) PROVE MaterialInv'
<1>1. MaterialTypeOK /\ Delivery /\ ServerTyped /\ DeliveryTyped /\ used \in UseRecords /\ r.event \in EventIds /\ r.edits \in Work
  BY MaterialTypes, RequestFields DEF MaterialInv
<1>2. /\ used.cuts < MaxCuts /\ base' \in {base, base \cup r.edits} /\ wire' = wire \ {r}
      /\ cut' = (IF r.at = "versioned" THEN cut \cup {r.event} ELSE cut)
      /\ used' = [used EXCEPT !.cuts = @ + 1]
      /\ UNCHANGED <<stored, recorded, events, pageVars, typed, given, shownSaved, exposed, written, refused, doubled>>
  BY DEF CutShort, EditedInPlace
<1>3. \A q \in wire' : q.at = "versioned" => stored.work \subseteq base'
  BY <1>1, <1>2 DEF Delivery, OneSaveAtATime
<1>4. base' \in Work /\ base \subseteq base' /\ exposed' \in Work /\ cut' \subseteq EventIds /\ used' \in UseRecords
  BY <1>1, <1>2, MaterialAssumption DEF ServerTyped, DeliveryTyped, Work, UseRecords
<1>. QED
  BY <1>1, <1>2, <1>3, <1>4, UnseenKeeps

LEMMA ForgetKeeps == ASSUME MaterialInv, EngineForgets PROVE MaterialInv'
<1>1. MaterialTypeOK /\ Delivery /\ ServerTyped /\ DeliveryTyped /\ used \in UseRecords
  BY MaterialTypes DEF MaterialInv
<1>2. /\ base' = stored.work
      /\ UNCHANGED <<stored, recorded, events, wire, pageVars, used, typed, given, shownSaved, exposed, written, cut, refused, doubled>>
  BY DEF EngineForgets, histories, delivery
<1>3. base' \in Work /\ exposed' \in Work /\ cut' \subseteq EventIds
  BY <1>1, <1>2 DEF ServerTyped, DeliveryTyped, Snapshot
<1>. QED
  BY <1>1, <1>2, <1>3, UnseenKeeps

\* The row's work is exposed when the copy loses it, and no save is between its writes.
LEMMA MessageKeeps == ASSUME MaterialInv, Message PROVE MaterialInv'
<1>1. MaterialTypeOK /\ Delivery /\ ServerTyped /\ DeliveryTyped /\ PageTyped /\ TextTyped /\ used \in UseRecords /\ AnswersAreSafe
      /\ ItemOrdered /\ wire \subseteq Request
  BY MaterialTypes DEF MaterialInv
<1>2. /\ Unlocked /\ used.turns < MaxTurns /\ base' = {} /\ exposed' = exposed \cup stored.work /\ replied' \in BOOLEAN
      /\ used' = [used EXCEPT !.turns = @ + 1]
      /\ UNCHANGED <<stored, recorded, events, wire, item, lastEvent, cached, reading, typed, given, shownSaved, written, cut, refused, doubled>>
  BY DEF Message
<1>3. EventKept /\ WaitKept
  BY <1>1, <1>2 DEF EventKept, WaitKept, Delivery, RequestsAgree
<1>4. Delivery'
  <2>1. \A q \in wire' : q.at = "versioned" => stored.work \subseteq base'
    BY <1>2 DEF Unlocked, Writing
  <2>. QED
    BY <1>1, <1>2, <1>3, <2>1, LosingKeeps
<1>5. AnswersAreSafe' /\ RetryIsRecognised' /\ ItemOrdered' /\ NothingSilentlyDropped'
  BY <1>1, <1>2 DEF AnswersAreSafe, Safe, MaterialInv, RetryIsRecognised, ItemOrdered, NothingSilentlyDropped
<1>6. MaterialTypeOK'
  <2>1. used' \in UseRecords
    BY <1>1, <1>2, MaterialAssumption DEF UseRecords
  <2>2. ServerTyped' /\ DeliveryTyped' /\ PageTyped' /\ TextTyped' /\ wire' \subseteq Request
    BY <1>1, <1>2 DEF ServerTyped, DeliveryTyped, PageTyped, TextTyped, Work, Snapshot
  <2>. QED
    BY <2>1, <2>2, TypesKept
<1>. QED
  BY <1>4, <1>5, <1>6 DEF MaterialInv

LEMMA LookKeeps == ASSUME MaterialInv, NEW r \in wire, Look(r) PROVE MaterialInv'
<1>1. MaterialTypeOK /\ Delivery /\ ServerTyped /\ DeliveryTyped /\ used \in UseRecords /\ r.event \in EventIds /\ AnswersAreSafe
  BY RequestFields, MaterialTypes DEF MaterialInv
<1>2. /\ r.at = "sent" /\ events[r.event] = Untouched /\ Reaches(r, "looked")
      /\ doubled' = (IF \E q \in wire : q.at # "sent" /\ q.event = r.event THEN doubled \cup {r.event} ELSE doubled)
      /\ UNCHANGED <<stored, base, recorded, events, pageVars, used, typed, given, shownSaved, exposed, written, cut, refused>>
  BY DEF Look, Answered, serverVars
<1>3. RequestsAgree' /\ AnswersStored' /\ wire' \subseteq Request
  BY <1>1, <1>2, ReachingKeeps
<1>4. PICK b \in wire' : wire' = (wire \ {r}) \cup {b} /\ b.at = "looked" /\ b.event = r.event /\ b.edits = r.edits
  BY <1>1, <1>2, ReachingKeeps
<1>5. doubled \subseteq doubled' /\ doubled' \subseteq EventIds
  BY <1>1, <1>2 DEF DeliveryTyped
<1>6. OneSaveAtATime'
  BY <1>1, <1>2, <1>4 DEF Delivery, OneSaveAtATime, Writing
<1>7. LookedTogether'
  <2>1. ASSUME NEW q \in wire, q.at # "sent", q.event = r.event PROVE r.event \in doubled'
    BY <1>2, <2>1
  <2>2. \A q, a \in wire' : q # a /\ q.at # "sent" /\ a.at # "sent" /\ q.event = a.event => q.event \in doubled'
    BY <1>1, <1>4, <1>5, <2>1 DEF Delivery, LookedTogether
  <2>3. r.event \in written => r.event \in doubled' \cup cut
    BY <1>1, <1>2, <2>1 DEF Delivery, LookedTogether
  <2>4. \A q \in wire' : q.at = "looked" /\ q.event \in written => q.event \in doubled' \cup cut
    BY <1>1, <1>4, <1>5, <2>3 DEF Delivery, LookedTogether
  <2>5. \A n \in written : events[n] # Untouched \/ n \in cut \/ \E q \in wire' : q.event = n /\ q.at = "versioned"
    BY <1>1, <1>2, <1>4 DEF Delivery, LookedTogether
  <2>. QED
    BY <1>2, <2>2, <2>4, <2>5 DEF LookedTogether
<1>8. PageTyped' /\ TextTyped' /\ ItemOrdered' /\ NothingSilentlyDropped'
  BY <1>2, PageUntouched
<1>9. AnswersAreSafe' /\ RetryIsRecognised'
  BY <1>1, <1>2, <1>5 DEF AnswersAreSafe, Safe, MaterialInv, RetryIsRecognised
<1>10. MaterialTypeOK'
  <2>1. ServerTyped' /\ DeliveryTyped' /\ used' \in UseRecords
    BY <1>1, <1>2, <1>5 DEF ServerTyped, DeliveryTyped
  <2>. QED
    BY <1>3, <1>8, <2>1, TypesKept
<1>. QED
  BY <1>3, <1>6, <1>7, <1>8, <1>9, <1>10 DEF MaterialInv, Delivery

\* What was shown or answered is in the copy the new materials are made from.
LEMMA WriteWorkKeeps == ASSUME MaterialInv, NEW r \in wire, WriteWork(r) PROVE MaterialInv'
<1>1. /\ MaterialTypeOK /\ Delivery /\ ServerTyped /\ DeliveryTyped /\ used \in UseRecords /\ r.event \in EventIds /\ r.edits \in Work
      /\ AnswersAreSafe /\ stored \in Snapshot /\ base \in Work
  BY RequestFields, MaterialTypes DEF MaterialInv, ServerTyped
<1>2. /\ r.at = "looked" /\ Unlocked /\ Reaches(r, "stored") /\ base' \in {base, base \cup r.edits}
      /\ stored' = [stored EXCEPT !.work = base \cup r.edits]
      /\ UNCHANGED <<recorded, events, pageVars, used, typed, given, shownSaved, exposed, written, cut, refused, doubled>>
  BY DEF WriteWork, Matches, EditedInPlace, histories, delivery
<1>3. stored' \in Snapshot /\ stored'.work = base \cup r.edits /\ base' \in Work /\ base \subseteq base'
  BY <1>1, <1>2 DEF Snapshot, Work
<1>4. RequestsAgree' /\ AnswersStored' /\ wire' \subseteq Request
  BY <1>1, <1>2, ReachingKeeps
<1>5. PICK b \in wire' : wire' = (wire \ {r}) \cup {b} /\ b.at = "stored" /\ b.event = r.event /\ b.edits = r.edits
  BY <1>1, <1>2, ReachingKeeps
<1>6. OneSaveAtATime'
  <2>1. \A q \in wire' : Writing(q) => q = b
    BY <1>2, <1>5 DEF Unlocked, Writing
  <2>. QED
    BY <1>3, <1>5, <2>1 DEF OneSaveAtATime, Writing
<1>7. LookedTogether'
  BY <1>1, <1>2, <1>5 DEF Delivery, LookedTogether
<1>8. PageTyped' /\ TextTyped' /\ ItemOrdered' /\ NothingSilentlyDropped'
  BY <1>2, PageUntouched
<1>9. AnswersAreSafe' /\ RetryIsRecognised'
  BY <1>1, <1>2, <1>3 DEF AnswersAreSafe, Safe, MaterialInv, RetryIsRecognised
<1>10. MaterialTypeOK'
  <2>1. ServerTyped' /\ DeliveryTyped' /\ used' \in UseRecords
    BY <1>1, <1>2, <1>3 DEF ServerTyped, DeliveryTyped
  <2>. QED
    BY <1>4, <1>8, <2>1, TypesKept
<1>. QED
  BY <1>4, <1>6, <1>7, <1>8, <1>9, <1>10 DEF MaterialInv, Delivery

LEMMA AppendKeeps == ASSUME MaterialInv, NEW r \in wire, AppendVersion(r) PROVE MaterialInv'
<1>1. /\ MaterialTypeOK /\ Delivery /\ ServerTyped /\ DeliveryTyped /\ used \in UseRecords /\ r.event \in EventIds
      /\ AnswersAreSafe /\ stored \in Snapshot /\ recorded \in Work /\ stored.work \in Work /\ stored.version \in Nat
  BY RequestFields, MaterialTypes DEF MaterialInv, ServerTyped, Snapshot
<1>2. /\ r.at = "stored" /\ base' = stored.work /\ stored' = [stored EXCEPT !.version = @ + 1]
      /\ recorded' = recorded \cup stored.work /\ Reaches(r, "versioned") /\ written' = written \cup {r.event}
      /\ UNCHANGED <<events, pageVars, used, typed, given, shownSaved, exposed, cut, refused, doubled>>
  BY DEF AppendVersion
<1>3. /\ stored' \in Snapshot /\ stored'.work = stored.work /\ stored'.version > 0 /\ recorded' \in Work /\ base' \in Work
      /\ written' \subseteq EventIds
  BY <1>1, <1>2 DEF Snapshot, Work, DeliveryTyped
<1>4. RequestsAgree' /\ AnswersStored' /\ wire' \subseteq Request
  BY <1>1, <1>2, ReachingKeeps
<1>5. PICK b \in wire' : wire' = (wire \ {r}) \cup {b} /\ b.at = "versioned" /\ b.event = r.event /\ b.edits = r.edits
  BY <1>1, <1>2, ReachingKeeps
<1>6. OneSaveAtATime'
  <2>1. \A q \in wire' : Writing(q) => q = b
    BY <1>1, <1>2, <1>5 DEF Delivery, OneSaveAtATime, Writing
  <2>2. b.edits \subseteq stored.work
    BY <1>1, <1>2, <1>5 DEF Delivery, OneSaveAtATime, Writing
  <2>. QED
    BY <1>2, <1>3, <1>5, <2>1, <2>2 DEF OneSaveAtATime, Writing
<1>7. LookedTogether'
  <2>1. ASSUME NEW q \in wire', q.at = "looked", q.event \in written' PROVE q.event \in doubled \cup cut
    BY <1>1, <1>2, <1>5, <2>1 DEF Delivery, LookedTogether
  <2>2. ASSUME NEW n \in written' PROVE events[n] # Untouched \/ n \in cut \/ \E q \in wire' : q.event = n /\ q.at = "versioned"
    BY <1>1, <1>2, <1>5 DEF Delivery, LookedTogether
  <2>3. \A q, a \in wire' : q # a /\ q.at # "sent" /\ a.at # "sent" /\ q.event = a.event => q.event \in doubled
    BY <1>1, <1>2, <1>5 DEF Delivery, LookedTogether
  <2>. QED
    BY <1>2, <2>1, <2>2, <2>3 DEF LookedTogether
<1>8. PageTyped' /\ TextTyped' /\ ItemOrdered' /\ NothingSilentlyDropped'
  BY <1>2, PageUntouched
<1>9. AnswersAreSafe' /\ RetryIsRecognised'
  BY <1>1, <1>2, <1>3 DEF AnswersAreSafe, Safe, MaterialInv, RetryIsRecognised
<1>10. MaterialTypeOK'
  <2>1. ServerTyped' /\ DeliveryTyped' /\ used' \in UseRecords
    BY <1>1, <1>2, <1>3 DEF ServerTyped, DeliveryTyped
  <2>. QED
    BY <1>4, <1>8, <2>1, TypesKept
<1>. QED
  BY <1>4, <1>6, <1>7, <1>8, <1>9, <1>10 DEF MaterialInv, Delivery

-----------------------------------------------------------------------------
(* Theorems *)

LEMMA InitMaterial == MaterialInit => MaterialInv
<1>1. SUFFICES ASSUME MaterialInit PROVE MaterialInv
  OBVIOUS
<1>2. /\ item \in ItemRecords /\ item.status = "SAVED" /\ item.pending = {} /\ ~item.queued /\ item.sending = {} /\ item.event = 0
      /\ item.sent = {} /\ item.aside = {}
  BY <1>1, CleanFields, MaterialTypes DEF MaterialInit
<1>3. MaterialTypeOK
  <2>1. used \in UseRecords
    BY <1>1, MaterialAssumption DEF MaterialInit, UseRecords
  <2>. QED
    BY <1>1, <1>2, <2>1, MaterialTypes, MaterialAssumption DEF MaterialInit, MaterialTypeOK, ItemRecords, UseRecords, ReadingRecords, Work
<1>4. ItemOrdered /\ RequestsAgree /\ OneSaveAtATime /\ LookedTogether
  BY <1>1, <1>2 DEF MaterialInit, ItemOrdered, RequestsAgree, OneSaveAtATime, LookedTogether
<1>5. AnswersStored /\ AnswersAreSafe
  BY <1>1, <1>2, MaterialTypes DEF MaterialInit, AnswersStored, AnswersAreSafe, Safe, EventIds
<1>6. NothingSilentlyDropped /\ RetryIsRecognised
  BY <1>1 DEF MaterialInit, NothingSilentlyDropped, RetryIsRecognised
<1>. QED
  BY <1>3, <1>4, <1>5, <1>6 DEF MaterialInv, Delivery

LEMMA NextKeepsMaterial == MaterialInv /\ [MaterialNext]_materialVars => MaterialInv'
<1>1. ASSUME MaterialInv, NEW r \in wire,
             Lost(r) \/ Replay(r) \/ Look(r) \/ WriteWork(r) \/ AppendVersion(r) \/ StoreEvent(r) \/ Refuse(r) \/ CutShort(r)
      PROVE  MaterialInv'
  BY <1>1, LostKeeps, ReplayKeeps, LookKeeps, WriteWorkKeeps, AppendKeeps, StoreKeeps, RefuseKeeps, CutKeeps
<1>2. ASSUME MaterialInv, MaterialNext PROVE MaterialInv'
  BY <1>1, <1>2, EditKeeps, KeepServerKeeps, ReapplyKeeps, ReloadKeeps, ContractKeeps, FlushKeeps, GivesUpKeeps, ForgetKeeps,
     MessageKeeps, OtherTabKeeps DEF MaterialNext
<1>3. ASSUME MaterialInv, UNCHANGED materialVars PROVE MaterialInv'
  <2>1. UNCHANGED <<stored, base, recorded, events, wire, pageVars, used, typed, given, shownSaved, exposed, written, cut, refused, doubled>>
    BY <1>3 DEF materialVars, serverVars, histories, delivery
  <2>2. MaterialTypeOK /\ Delivery /\ ServerTyped /\ DeliveryTyped /\ used \in UseRecords
    BY <1>3, MaterialTypes DEF MaterialInv
  <2>3. base' \in Work /\ exposed' \in Work /\ cut' \subseteq EventIds /\ \A r \in wire' : r.at = "versioned" => stored.work \subseteq base'
    BY <2>1, <2>2 DEF ServerTyped, DeliveryTyped, Delivery, OneSaveAtATime
  <2>. QED
    BY <1>3, <2>1, <2>2, <2>3, UnseenKeeps
<1>. QED
  BY <1>2, <1>3

LEMMA MaterialInvHolds == MaterialSpec => []MaterialInv
BY InitMaterial, NextKeepsMaterial, PTL DEF MaterialSpec

\* The artifact store, the requests and what the server keeps stay well typed,
\* for any edits and any bounds.
THEOREM MaterialTypeCorrect == MaterialSpec => []MaterialTypeOK
<1>1. MaterialInv => MaterialTypeOK
  BY DEF MaterialInv
<1>. QED
  BY <1>1, MaterialInvHolds, PTL

\* Whatever requests and answers are lost, late, retried or refused, whatever
\* another tab saves, and wherever a save breaks off: what was typed is in a kept
\* version, with the page, or given up by the candidate; work shown as saved is in
\* a kept version, and in the row and the engine's copy unless a message was
\* handled since; and a retry of a change whose version is there is refused only
\* when two deliveries of it were past the lookup together or the first broke off
\* before its event (artifactStore.js, saveArtifact).
THEOREM MaterialIsSound == MaterialSpec => []MaterialSound
BY MaterialInvIsSound, MaterialInvHolds, PTL

-----------------------------------------------------------------------------
(* The parts side by side *)

Parts == {"practice", "interview", "material"}

\* A candidate's behaviour is one of each part: a step of one is a step of it or
\* leaves it as it is.
THEOREM PartsOfACandidate == CandidateSpec => PracticeSpec /\ InterviewSpec /\ MaterialSpec
<1>1. CandidateInit => PracticeInit /\ InterviewInit /\ MaterialInit
  BY DEF CandidateInit
<1>2. [CandidateNext]_candidateVars => [PracticeNext]_practiceVars
  BY DEF CandidateNext, candidateVars
<1>3. [CandidateNext]_candidateVars => [InterviewNext]_interviewVars
  BY DEF CandidateNext, candidateVars
<1>4. [CandidateNext]_candidateVars => [MaterialNext]_materialVars
  BY DEF CandidateNext, candidateVars
<1>. QED
  BY <1>1, <1>2, <1>3, <1>4, PTL DEF CandidateSpec, PracticeSpec, InterviewSpec, MaterialSpec

\* Attempts keep their types, whatever tabs, timers and answers race.
THEOREM PracticeTypes == PracticeSpec => []PracticeTypeOK
<1>1. PracticeInv => PracticeTypeOK
  BY DEF PracticeInv
<1>. QED
  BY <1>1, PracticeInitOK, PracticeStep, PTL DEF PracticeSpec

\* The variables of every part keep their types, for any number of requests.
THEOREM CandidateTypesHold ==
    ASSUME Chosen \subseteq Parts
    PROVE  CandidateSpec => []CandidateTypeOK
<1>1. CandidateInit => part \in Parts
  BY DEF CandidateInit
<1>2. part \in Parts /\ [CandidateNext]_candidateVars => (part \in Parts)'
  BY DEF CandidateNext, candidateVars
<1>3. part \in Parts /\ PracticeTypeOK /\ InterviewTypeOK /\ MaterialTypeOK => CandidateTypeOK
  BY DEF Parts, CandidateTypeOK
<1>4. CandidateSpec => [](part \in Parts)
  BY <1>1, <1>2, PTL DEF CandidateSpec
<1>. QED
  BY <1>3, <1>4, PartsOfACandidate, PracticeTypes, InterviewTypes, MaterialTypeCorrect, PTL

==============================================================================
