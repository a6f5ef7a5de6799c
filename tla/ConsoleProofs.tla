---------------------------- MODULE ConsoleProofs ----------------------------
(***************************************************************************)
(* Proofs about what administrators, reviewers and raters do to one        *)
(* candidate's records: ReportCorrection, ReviewDecision, DataErasure,     *)
(* GrowthSnapshots, ReassessmentCycle and RatingQueue, for any number of   *)
(* requests, approvals, credentials, sessions, holds, forms and ratings.   *)
(***************************************************************************)
EXTENDS ReportCorrection, ReviewDecision, DataErasure, GrowthSnapshots, ReassessmentCycle, RatingQueue,
        FiniteSetTheorems, SequenceTheorems, WellFoundedInduction, TLAPS

-----------------------------------------------------------------------------
(* The approvals have an oldest *)

\* The oldest approval is one of them.
Below == {ss \in Nat \X Nat : ss[1] < ss[2]}

LEMMA BelowIsWellFounded == IsWellFoundedOn(Below, Nat)
BY NatLessThanWellFounded, Zenon DEF OpToRel, Below

LEMMA SmallestIsMember ==
    ASSUME NEW T \in SUBSET Nat, T # {}
    PROVE  Min(T) \in T /\ \A y \in T : Min(T) <= y
<1>1. PICK m \in T : \A y \in T : ~(<<y, m>> \in Below)
  BY BelowIsWellFounded, WFMin
<1>2. ASSUME NEW y \in T PROVE m <= y
  <2>1. ~(<<y, m>> \in Below) /\ y \in Nat /\ m \in Nat
    BY <1>1
  <2>2. ~(y < m)
    BY <2>1 DEF Below
  <2> QED BY <2>1, <2>2
<1> QED BY <1>2, Zenon DEF Min

-----------------------------------------------------------------------------
(* Corrections of a report *)

CorrectRows == [pc : CorrectSteps, saw : Reports, by : Nat, number : Nat]

\* The numbers are filed without a gap.
NoGap == \E last \in Nat : Numbers = 1..last

\* How far a request is: what it numbers follows a version there is, what it appends
\* under a new number is in force or was replaced by what will be filed in its place.
Filing(c) ==
    /\ correct[c].pc = "first" => correct[c].number = 1
    /\ correct[c].pc \in {"save", "append"} => correct[c].number >= 2 /\ correct[c].number - 1 \in Numbers
    /\ correct[c].pc = "append" /\ correct[c].number \notin Numbers =>
         report \in Correctors /\ correct[report].pc \in {"append", "broken"}
    /\ correct[c].pc = "done" => <<correct[c].number, c>> \in versions
    /\ correct[c].saw # Issued => 1 \in Numbers

\* An approval that was used is not there any more.
Using(c) ==
    /\ correct[c].by <= given
    /\ correct[c].by # 0 /\ correct[c].pc # "take" => correct[c].by \notin approved

CorrectionInv ==
    /\ report \in Reports /\ versions \subseteq Nat \X Reports /\ given \in Nat /\ approved \subseteq 1..given
    /\ correct \in [Correctors -> CorrectRows]
    /\ NoGap /\ IsFiniteSet(versions) /\ Cardinality(Numbers) = Cardinality(versions)
    /\ report # Issued => 1 \in Numbers
    /\ OriginalIsFirst /\ LastVersionInForce /\ OneCorrectionEach
    /\ \A c \in Correctors : Filing(c) /\ Using(c)

LEMMA LargestOfInterval ==
    ASSUME NEW last \in Nat
    PROVE  Max({0} \cup 1..last) = last
<1> DEFINE S == {0} \cup 1..last
<1>1. last \in S /\ \A y \in S : last >= y
  OBVIOUS
<1>2. \A x \in S : (\A y \in S : x >= y) => x = last
  OBVIOUS
<1>3. Max(S) = last
  <2> HIDE DEF S
  <2> QED BY <1>1, <1>2, Zenon DEF Max
<1> QED BY <1>3

LEMMA CorrectionStarts == CorrectionInit => CorrectionInv
<1> SUFFICES ASSUME CorrectionInit PROVE CorrectionInv
  OBVIOUS
<1>1. Numbers = {} /\ IsFiniteSet(versions) /\ Cardinality(Numbers) = Cardinality(versions)
  BY FS_EmptySet DEF CorrectionInit, Numbers
<1>2. NoGap
  BY <1>1 DEF NoGap
<1>3. correct \in [Correctors -> CorrectRows] /\ report \in Reports
  BY DEF CorrectionInit, CorrectRows, CorrectSteps, Reports
<1>4. \A c \in Correctors : Filing(c) /\ Using(c)
  BY DEF CorrectionInit, Filing, Using
<1>5. OriginalIsFirst /\ LastVersionInForce /\ OneCorrectionEach
  BY DEF CorrectionInit, OriginalIsFirst, LastVersionInForce, OneCorrectionEach
<1> QED BY <1>1, <1>2, <1>3, <1>4, <1>5 DEF CorrectionInit, CorrectionInv

\* A new number is filed.
LEMMA FileVersion ==
    ASSUME CorrectionInv, NEW n \in Nat, NEW r \in Reports, n \notin Numbers, n = 1 \/ n - 1 \in Numbers, n # 0,
           versions' = versions \cup {<<n, r>>}
    PROVE  /\ Numbers' = Numbers \cup {n} /\ NoGap' /\ IsFiniteSet(versions)' /\ Cardinality(Numbers)' = Cardinality(versions)'
           /\ versions' \subseteq Nat \X Reports /\ NextVersion' = n + 1
<1>1. PICK last \in Nat : Numbers = 1..last
  BY DEF CorrectionInv, NoGap
<1>2. n = last + 1
  BY <1>1
<1>3. Numbers' = Numbers \cup {n}
  <2>1. Numbers' = {row[1] : row \in versions \cup {<<n, r>>}}
    BY DEF Numbers
  <2>2. <<n, r>>[1] = n
    OBVIOUS
  <2> QED BY <2>1, <2>2, Zenon DEF Numbers
<1>4. Numbers' = 1..(last + 1)
  BY <1>1, <1>2, <1>3
<1>5. NoGap'
  BY <1>4 DEF NoGap
<1>6. <<n, r>> \notin versions
  BY DEF Numbers
<1>7. IsFiniteSet(versions') /\ Cardinality(versions') = Cardinality(versions) + 1
  BY <1>6, FS_AddElement DEF CorrectionInv
<1>8. Cardinality(Numbers') = Cardinality(Numbers) + 1
  <2>1. IsFiniteSet(Numbers)
    BY <1>1, FS_Interval
  <2> QED BY <1>3, <2>1, FS_AddElement
<1>9. versions' \subseteq Nat \X Reports
  BY DEF CorrectionInv
<1>10. NextVersion' = n + 1
  <2>1. Max({0} \cup 1..n) = n
    BY LargestOfInterval
  <2> QED BY <1>2, <1>4, <2>1 DEF NextVersion
<1> QED BY <1>3, <1>5, <1>7, <1>8, <1>9, <1>10 DEF CorrectionInv

\* A request's own step that files nothing and leaves the report.
LEMMA CorrectorMoves ==
    ASSUME CorrectionInv, NEW c \in Correctors, \A d \in Correctors \ {c} : correct'[d] = correct[d],
           correct' \in [Correctors -> CorrectRows], UNCHANGED <<report, versions, given>>,
           approved' \subseteq approved, shared \subseteq shared', Filing(c)', Using(c)', OneCorrectionEach',
           correct[c].pc \in {"append", "broken"} => correct'[c].pc \in {"append", "broken"}
    PROVE  CorrectionInv'
<1>1. Numbers' = Numbers /\ NextVersion' = NextVersion
  BY DEF Numbers, NextVersion
<1>2. /\ report' \in Reports /\ versions' \subseteq Nat \X Reports /\ given' \in Nat /\ approved' \subseteq 1..given'
      /\ NoGap' /\ IsFiniteSet(versions)' /\ Cardinality(Numbers)' = Cardinality(versions)' /\ OriginalIsFirst'
      /\ report' # Issued => 1 \in Numbers'
  BY <1>1 DEF CorrectionInv, NoGap, OriginalIsFirst
<1>3. report \in Correctors /\ correct[report].pc \in {"append", "broken"} => correct'[report].pc \in {"append", "broken"}
  OBVIOUS
<1>4. LastVersionInForce'
  BY <1>1, <1>3 DEF CorrectionInv, LastVersionInForce
<1>5. ASSUME NEW d \in Correctors PROVE Filing(d)' /\ Using(d)'
  <2>1. CASE d # c
    BY <1>1, <1>3, <2>1 DEF CorrectionInv, Filing, Using
  <2> QED BY <2>1
<1> QED BY <1>2, <1>4, <1>5 DEF CorrectionInv

LEMMA ApprovalsKeep ==
    ASSUME CorrectionInv, Approve \/ \E a \in approved : LapseApproval(a)
    PROVE  CorrectionInv'
<1>0. given \in Nat /\ approved \subseteq 1..given /\ correct \in [Correctors -> CorrectRows]
  BY DEF CorrectionInv
<1>1. /\ UNCHANGED <<report, versions, correct, shared>> /\ given' \in Nat /\ given <= given' /\ approved' \subseteq 1..given'
      /\ \A a \in approved' : a \in approved \/ a > given
  <2>1. CASE Approve
    BY <1>0, <2>1 DEF Approve
  <2>2. CASE \E a \in approved : LapseApproval(a)
    BY <1>0, <2>2 DEF LapseApproval
  <2> QED BY <2>1, <2>2
<1>2. Numbers' = Numbers /\ NextVersion' = NextVersion
  BY <1>1 DEF Numbers, NextVersion
<1>3. /\ NoGap' /\ IsFiniteSet(versions)' /\ Cardinality(Numbers)' = Cardinality(versions)' /\ OriginalIsFirst'
      /\ report' # Issued => 1 \in Numbers'
      /\ LastVersionInForce' /\ OneCorrectionEach' /\ \A c \in Correctors : Filing(c)'
  BY <1>1, <1>2 DEF CorrectionInv, NoGap, OriginalIsFirst, LastVersionInForce, OneCorrectionEach, Filing
<1>4. ASSUME NEW c \in Correctors PROVE Using(c)'
  <2>1. correct[c].by \in Nat /\ Using(c)
    BY <1>0 DEF CorrectRows, CorrectionInv
  <2> QED BY <1>0, <1>1, <2>1 DEF Using
<1> QED BY <1>0, <1>1, <1>3, <1>4 DEF CorrectionInv

\* From the question to the number.
LEMMA CorrectionAsksKeep ==
    ASSUME CorrectionInv, NEW c \in Correctors, AskCorrection(c) \/ NumberIt(c) \/ TakeApproval(c) \/ CorrectBreaks(c)
    PROVE  CorrectionInv'
<1>0. correct \in [Correctors -> CorrectRows] /\ report \in Reports /\ Filing(c) /\ Using(c) /\ given \in Nat
  BY DEF CorrectionInv
<1>1. CASE AskCorrection(c)
  <2> DEFINE row == [[correct[c] EXCEPT !.pc = "pick"] EXCEPT !.saw = report]
  <2>1. correct' = [correct EXCEPT ![c] = row] /\ UNCHANGED <<report, versions, given, approved, shared>> /\ correct[c].pc = "idle"
    BY <1>0, <1>1 DEF AskCorrection
  <2>2. row \in CorrectRows /\ row.pc = "pick" /\ row.saw = report /\ row.by = correct[c].by
    BY <1>0 DEF CorrectRows, CorrectSteps
  <2> HIDE DEF row
  <2>3. /\ correct' \in [Correctors -> CorrectRows] /\ correct'[c] = row /\ \A d \in Correctors \ {c} : correct'[d] = correct[d]
        /\ \A d \in Correctors : correct'[d].by = correct[d].by
    BY <1>0, <2>1, <2>2
  <2>4. Filing(c)' /\ Using(c)'
    BY <1>0, <2>1, <2>2, <2>3 DEF Filing, Using, CorrectionInv, Numbers
  <2>5. OneCorrectionEach'
    BY <2>1, <2>3 DEF CorrectionInv, OneCorrectionEach
  <2> QED BY <2>1, <2>3, <2>4, <2>5, CorrectorMoves
<1>2. CASE NumberIt(c)
  <2>1. PICK last \in Nat : Numbers = 1..last
    BY DEF CorrectionInv, NoGap
  <2>2. NextVersion = last + 1
    BY <2>1, LargestOfInterval DEF NextVersion
  <2> DEFINE pc == IF NextVersion = 1 THEN "first" ELSE "save"
             row == [[correct[c] EXCEPT !.number = NextVersion] EXCEPT !.pc = pc]
  <2>3. correct' = [correct EXCEPT ![c] = row] /\ UNCHANGED <<report, versions, given, approved, shared>> /\ correct[c].pc = "number"
    BY <1>0, <1>2 DEF NumberIt
  <2>4. row \in CorrectRows /\ row.pc = pc /\ row.number = NextVersion /\ row.by = correct[c].by /\ row.saw = correct[c].saw
    <3>1. pc \in CorrectSteps
      BY DEF CorrectSteps
    <3>2. NextVersion \in Nat
      BY <2>2
    <3> HIDE DEF pc
    <3> QED BY <1>0, <3>1, <3>2 DEF CorrectRows
  <2> HIDE DEF row
  <2>5. /\ correct' \in [Correctors -> CorrectRows] /\ correct'[c] = row /\ \A d \in Correctors \ {c} : correct'[d] = correct[d]
        /\ \A d \in Correctors : correct'[d].by = correct[d].by
    BY <1>0, <2>3, <2>4
  <2>6. Filing(c)'
    <3>1. Numbers' = Numbers
      BY <2>3 DEF Numbers
    <3> QED BY <1>0, <2>1, <2>2, <2>4, <2>5, <3>1 DEF Filing
  <2>7. Using(c)' /\ OneCorrectionEach'
    BY <1>0, <2>3, <2>4, <2>5 DEF Using, CorrectionInv, OneCorrectionEach
  <2> QED BY <2>3, <2>5, <2>6, <2>7, CorrectorMoves
<1>3. CASE TakeApproval(c)
  <2>1. correct' = [correct EXCEPT ![c].pc = "number"] /\ UNCHANGED <<report, versions, given, shared>> /\ correct[c].pc = "take"
        /\ approved' = approved \ {correct[c].by}
    BY <1>3 DEF TakeApproval
  <2>2. /\ correct' \in [Correctors -> CorrectRows] /\ \A d \in Correctors \ {c} : correct'[d] = correct[d]
        /\ correct'[c].pc = "number" /\ correct'[c].saw = correct[c].saw /\ \A d \in Correctors : correct'[d].by = correct[d].by
    BY <1>0, <2>1 DEF CorrectRows, CorrectSteps
  <2>3. Filing(c)' /\ Using(c)' /\ OneCorrectionEach'
    BY <1>0, <2>1, <2>2 DEF Filing, Using, CorrectionInv, OneCorrectionEach, Numbers
  <2> QED BY <2>1, <2>2, <2>3, CorrectorMoves
<1>4. CASE CorrectBreaks(c)
  <2> DEFINE by == IF correct[c].pc = "take" THEN 0 ELSE correct[c].by
             row == [[correct[c] EXCEPT !.pc = "broken"] EXCEPT !.by = by]
  <2>1. correct' = [correct EXCEPT ![c] = row] /\ UNCHANGED <<report, versions, given, approved, shared>>
    BY <1>0, <1>4 DEF CorrectBreaks
  <2>2. row \in CorrectRows /\ row.pc = "broken" /\ row.by = by /\ row.saw = correct[c].saw
    BY <1>0 DEF CorrectRows, CorrectSteps
  <2> HIDE DEF row
  <2>3. /\ correct' \in [Correctors -> CorrectRows] /\ correct'[c] = row /\ \A d \in Correctors \ {c} : correct'[d] = correct[d]
        /\ \A d \in Correctors : correct'[d].by = correct[d].by \/ correct'[d].by = 0
    BY <1>0, <2>1, <2>2
  <2>4. Filing(c)' /\ Using(c)' /\ OneCorrectionEach'
    BY <1>0, <2>1, <2>2, <2>3 DEF Filing, Using, CorrectionInv, OneCorrectionEach, Numbers
  <2> QED BY <2>1, <2>2, <2>3, <2>4, CorrectorMoves
<1> QED BY <1>1, <1>2, <1>3, <1>4

LEMMA PickKeeps ==
    ASSUME CorrectionInv, NEW c \in Correctors, PickApproval(c)
    PROVE  CorrectionInv'
<1>0. correct \in [Correctors -> CorrectRows] /\ Filing(c) /\ Using(c) /\ given \in Nat /\ approved \subseteq 1..given
  BY DEF CorrectionInv
<1> DEFINE oldest == Min(approved)
<1>1. approved # {} => oldest \in approved
  <2>1. approved \in SUBSET Nat
    BY <1>0
  <2> QED BY <2>1, SmallestIsMember
<1>2. /\ correct[c].pc = "pick" /\ UNCHANGED <<report, versions, given, approved>>
      /\ IF approved = {}
           THEN correct' = [correct EXCEPT ![c].pc = "refused"] /\ UNCHANGED shared
           ELSE /\ correct' = [correct EXCEPT ![c].pc = "take", ![c].by = oldest]
                /\ shared' = IF \E d \in Correctors : correct[d].pc = "take" /\ correct[d].by = oldest
                               THEN shared \cup {oldest} ELSE shared
  BY DEF PickApproval
<1> HIDE DEF oldest
<1>3. CASE approved = {}
  <2>1. /\ correct' \in [Correctors -> CorrectRows] /\ \A d \in Correctors \ {c} : correct'[d] = correct[d]
        /\ correct'[c].pc = "refused" /\ correct'[c].saw = correct[c].saw /\ \A d \in Correctors : correct'[d].by = correct[d].by
    BY <1>0, <1>2, <1>3 DEF CorrectRows, CorrectSteps
  <2>2. Filing(c)' /\ Using(c)' /\ OneCorrectionEach'
    BY <1>0, <1>2, <1>3, <2>1 DEF Filing, Using, CorrectionInv, OneCorrectionEach, Numbers
  <2> QED BY <1>2, <1>3, <2>1, <2>2, CorrectorMoves
<1>4. CASE approved # {}
  <2> DEFINE row == [[correct[c] EXCEPT !.pc = "take"] EXCEPT !.by = oldest]
  <2>0. oldest \in approved /\ oldest \in 1..given
    BY <1>0, <1>1, <1>4
  <2>1. correct' = [correct EXCEPT ![c] = row]
    BY <1>0, <1>2, <1>4
  <2>2. row \in CorrectRows /\ row.pc = "take" /\ row.by = oldest /\ row.saw = correct[c].saw
    <3>1. oldest \in Nat
      BY <1>0, <2>0
    <3> QED BY <1>0, <3>1 DEF CorrectRows, CorrectSteps
  <2> HIDE DEF row
  <2>3. correct' \in [Correctors -> CorrectRows] /\ correct'[c] = row /\ \A d \in Correctors \ {c} : correct'[d] = correct[d]
    BY <1>0, <2>1, <2>2
  <2>4. Filing(c)' /\ Using(c)'
    BY <1>0, <1>2, <2>0, <2>2, <2>3 DEF Filing, Using, Numbers
  <2>5. ASSUME NEW d \in Correctors \ {c}, correct[d].by = oldest PROVE oldest \in shared'
    <3>1. correct[d].pc = "take"
      BY <1>0, <2>0, <2>5 DEF CorrectionInv, Using
    <3> QED BY <1>2, <1>4, <2>5, <3>1
  <2>6. OneCorrectionEach'
    <3> SUFFICES ASSUME NEW d \in Correctors, NEW e \in Correctors, d # e, correct'[d].by = correct'[e].by, correct'[d].by \notin shared'
                 PROVE  correct'[d].by = 0
      BY DEF OneCorrectionEach
    <3>1. shared \subseteq shared'
      BY <1>2, <1>4
    <3>2. CASE d # c /\ e # c
      BY <2>3, <3>1, <3>2 DEF CorrectionInv, OneCorrectionEach
    <3>3. CASE d = c
      BY <2>2, <2>3, <2>5, <3>3
    <3>4. CASE e = c
      BY <2>2, <2>3, <2>5, <3>4
    <3> QED BY <3>2, <3>3, <3>4
  <2>7. shared \subseteq shared'
    BY <1>2, <1>4
  <2> QED BY <1>2, <2>3, <2>4, <2>6, <2>7, CorrectorMoves
<1> QED BY <1>3, <1>4

LEMMA SaveReportKeeps ==
    ASSUME CorrectionInv, NEW c \in Correctors, SaveReport(c)
    PROVE  CorrectionInv'
<1>0. /\ correct \in [Correctors -> CorrectRows] /\ Filing(c) /\ correct[c].pc = "save" /\ report' = c
      /\ correct' = [correct EXCEPT ![c].pc = "append"] /\ UNCHANGED <<versions, given, approved, shared>>
  BY DEF CorrectionInv, SaveReport
<1>1. /\ correct' \in [Correctors -> CorrectRows] /\ \A d \in Correctors \ {c} : correct'[d] = correct[d]
      /\ correct'[c].pc = "append" /\ correct'[c].saw = correct[c].saw /\ correct'[c].number = correct[c].number
      /\ \A d \in Correctors : correct'[d].by = correct[d].by
  BY <1>0 DEF CorrectRows, CorrectSteps
<1>2. Numbers' = Numbers /\ NextVersion' = NextVersion
  BY <1>0 DEF Numbers, NextVersion
<1>3. 1 \in Numbers
  <2>1. PICK last \in Nat : Numbers = 1..last
    BY DEF CorrectionInv, NoGap
  <2>2. correct[c].number - 1 \in 1..last
    BY <1>0, <2>1 DEF Filing
  <2> QED BY <2>1, <2>2
<1>4. \A d \in Correctors : Filing(d)'
  <2>1. report' \in Correctors /\ correct'[report'].pc = "append"
    BY <1>0, <1>1
  <2> QED BY <1>0, <1>1, <1>2, <1>3, <2>1 DEF CorrectionInv, Filing
<1>5. \A d \in Correctors : Using(d)'
  BY <1>0, <1>1 DEF CorrectionInv, Using
<1>6. LastVersionInForce' /\ OneCorrectionEach' /\ OriginalIsFirst' /\ NoGap' /\ report' \in Reports
  BY <1>0, <1>1, <1>2 DEF CorrectionInv, LastVersionInForce, OneCorrectionEach, OriginalIsFirst, NoGap, Reports
<1> QED BY <1>0, <1>1, <1>2, <1>3, <1>4, <1>5, <1>6 DEF CorrectionInv

LEMMA FirstKeeps ==
    ASSUME CorrectionInv, NEW c \in Correctors, InsertFirst(c)
    PROVE  CorrectionInv'
<1>0. /\ correct \in [Correctors -> CorrectRows] /\ report \in Reports /\ Filing(c) /\ Using(c) /\ correct[c].pc = "first"
      /\ UNCHANGED <<report, given, approved, shared>>
  BY DEF CorrectionInv, InsertFirst
<1>1. CASE 1 \in Numbers
  <2>1. correct' = [correct EXCEPT ![c].pc = "broken"] /\ UNCHANGED versions
    BY <1>1 DEF InsertFirst
  <2>2. /\ correct' \in [Correctors -> CorrectRows] /\ \A d \in Correctors \ {c} : correct'[d] = correct[d]
        /\ correct'[c].pc = "broken" /\ correct'[c].saw = correct[c].saw /\ \A d \in Correctors : correct'[d].by = correct[d].by
    BY <1>0, <2>1 DEF CorrectRows, CorrectSteps
  <2>3. Filing(c)' /\ Using(c)' /\ OneCorrectionEach'
    BY <1>0, <2>1, <2>2 DEF Filing, Using, CorrectionInv, OneCorrectionEach, Numbers
  <2> QED BY <1>0, <2>1, <2>2, <2>3, CorrectorMoves
<1>2. CASE 1 \notin Numbers
  <2> DEFINE row == [[correct[c] EXCEPT !.pc = "save"] EXCEPT !.number = 2]
  <2>1. correct' = [correct EXCEPT ![c] = row] /\ versions' = versions \cup {<<1, correct[c].saw>>}
    BY <1>0, <1>2 DEF InsertFirst
  <2>2. row \in CorrectRows /\ row.pc = "save" /\ row.number = 2 /\ row.saw = correct[c].saw /\ row.by = correct[c].by
    BY <1>0 DEF CorrectRows, CorrectSteps
  <2> HIDE DEF row
  <2>3. /\ correct' \in [Correctors -> CorrectRows] /\ correct'[c] = row /\ \A d \in Correctors \ {c} : correct'[d] = correct[d]
        /\ \A d \in Correctors : correct'[d].by = correct[d].by
    BY <1>0, <2>1, <2>2
  <2>4. report = Issued /\ correct[c].saw = Issued
    BY <1>0, <1>2 DEF CorrectionInv, Filing
  <2>5. /\ Numbers' = Numbers \cup {1} /\ NoGap' /\ IsFiniteSet(versions)' /\ Cardinality(Numbers)' = Cardinality(versions)'
        /\ versions' \subseteq Nat \X Reports /\ NextVersion' = 2
    <3>1. correct[c].saw \in Reports
      BY <1>0 DEF CorrectRows
    <3>2. /\ Numbers' = Numbers \cup {1} /\ NoGap' /\ IsFiniteSet(versions)' /\ Cardinality(Numbers)' = Cardinality(versions)'
          /\ versions' \subseteq Nat \X Reports /\ NextVersion' = 1 + 1
      <4> DEFINE one == 1
                 r == correct[c].saw
      <4>1. one \in Nat /\ r \in Reports /\ one \notin Numbers /\ (one = 1 \/ one - 1 \in Numbers) /\ one # 0
            /\ versions' = versions \cup {<<one, r>>}
        BY <1>2, <2>1, <3>1
      <4> HIDE DEF one, r
      <4>2. /\ Numbers' = Numbers \cup {one} /\ NoGap' /\ IsFiniteSet(versions)' /\ Cardinality(Numbers)' = Cardinality(versions)'
            /\ versions' \subseteq Nat \X Reports /\ NextVersion' = one + 1
        BY <4>1, FileVersion
      <4> QED BY <4>2 DEF one
    <3> QED BY <3>2
  <2>6. LastVersionInForce' /\ OriginalIsFirst' /\ OneCorrectionEach'
    <3>1. <<1, report>> \in versions' /\ NextVersion' - 1 = 1
      BY <2>1, <2>4, <2>5
    <3>2. LastVersionInForce'
      BY <1>0, <3>1 DEF LastVersionInForce
    <3>3. OriginalIsFirst'
      BY <2>1, <2>4 DEF CorrectionInv, OriginalIsFirst
    <3> QED BY <1>0, <2>3, <3>2, <3>3 DEF CorrectionInv, OneCorrectionEach
  <2>7. ASSUME NEW d \in Correctors PROVE Filing(d)'
    <3>1. CASE d = c
      BY <2>2, <2>3, <2>5, <3>1 DEF Filing
    <3>2. CASE d # c
      BY <1>0, <2>1, <2>3, <2>4, <2>5, <3>2, CorrectionAssumption DEF Filing, CorrectionInv
    <3> QED BY <3>1, <3>2
  <2>8. \A d \in Correctors : Using(d)'
    BY <1>0, <2>2, <2>3 DEF CorrectionInv, Using
  <2> QED BY <1>0, <2>3, <2>4, <2>5, <2>6, <2>7, <2>8 DEF CorrectionInv
<1> QED BY <1>1, <1>2

LEMMA AppendKeepsEach ==
    ASSUME CorrectionInv, NEW c \in Correctors, AppendVersion(c)
    PROVE  CorrectionInv'
<1> DEFINE n == correct[c].number
<1>0. /\ correct \in [Correctors -> CorrectRows] /\ report \in Reports /\ Filing(c) /\ Using(c) /\ correct[c].pc = "append"
      /\ UNCHANGED <<report, given, approved, shared>>
  BY DEF CorrectionInv, AppendVersion
<1>1. CASE n \in Numbers
  <2>1. correct' = [correct EXCEPT ![c].pc = "broken"] /\ UNCHANGED versions
    BY <1>1 DEF AppendVersion
  <2>2. /\ correct' \in [Correctors -> CorrectRows] /\ \A d \in Correctors \ {c} : correct'[d] = correct[d]
        /\ correct'[c].pc = "broken" /\ correct'[c].saw = correct[c].saw /\ \A d \in Correctors : correct'[d].by = correct[d].by
    BY <1>0, <2>1 DEF CorrectRows, CorrectSteps
  <2>3. Filing(c)' /\ Using(c)' /\ OneCorrectionEach'
    BY <1>0, <2>1, <2>2 DEF Filing, Using, CorrectionInv, OneCorrectionEach, Numbers
  <2> QED BY <1>0, <2>1, <2>2, <2>3, CorrectorMoves
<1>2. CASE n \notin Numbers
  <2>1. correct' = [correct EXCEPT ![c].pc = "done"] /\ versions' = versions \cup {<<n, c>>}
    BY <1>2 DEF AppendVersion
  <2>2. /\ correct' \in [Correctors -> CorrectRows] /\ \A d \in Correctors \ {c} : correct'[d] = correct[d]
        /\ correct'[c].pc = "done" /\ correct'[c].saw = correct[c].saw /\ correct'[c].number = n
        /\ \A d \in Correctors : correct'[d].by = correct[d].by
    BY <1>0, <2>1 DEF CorrectRows, CorrectSteps
  <2>3. n \in Nat /\ n >= 2 /\ n - 1 \in Numbers /\ c \in Reports
    BY <1>0 DEF Filing, CorrectRows, Reports
  <2> HIDE DEF n
  <2>4. /\ Numbers' = Numbers \cup {n} /\ NoGap' /\ IsFiniteSet(versions)' /\ Cardinality(Numbers)' = Cardinality(versions)'
        /\ versions' \subseteq Nat \X Reports /\ NextVersion' = n + 1
    <3>1. n # 0 /\ (n = 1 \/ n - 1 \in Numbers) /\ n \notin Numbers /\ versions' = versions \cup {<<n, c>>}
      BY <1>2, <2>1, <2>3
    <3> QED BY <2>3, <3>1, FileVersion
  <2>5. report \in Correctors /\ correct[report].pc \in {"append", "broken"}
    BY <1>0, <1>2 DEF Filing, n
  <2>6. LastVersionInForce'
    <3>1. CASE report = c
      <4>1. <<n, report>> \in versions' /\ NextVersion' - 1 = n
        BY <2>1, <2>3, <2>4, <3>1
      <4> QED BY <1>0, <4>1 DEF LastVersionInForce
    <3>2. CASE report # c
      BY <1>0, <2>2, <2>5, <3>2 DEF LastVersionInForce
    <3> QED BY <3>1, <3>2
  <2>7. OriginalIsFirst'
    BY <2>1, <2>3 DEF CorrectionInv, OriginalIsFirst
  <2>8. OneCorrectionEach'
    BY <1>0, <2>2 DEF CorrectionInv, OneCorrectionEach
  <2>9. ASSUME NEW d \in Correctors PROVE Filing(d)'
    <3>1. CASE d = c
      BY <1>0, <2>1, <2>2, <2>4, <3>1 DEF Filing
    <3>2. CASE d # c
      <4>1. PICK last \in Nat : Numbers = 1..last
        BY DEF CorrectionInv, NoGap
      <4>2. n = last + 1
        BY <1>2, <2>3, <4>1
      <4>3. correct[d].pc = "append" => correct[d].number \in Numbers'
        <5>1. correct[d].number \in Nat
          BY <1>0 DEF CorrectRows
        <5>2. correct[d].pc = "append" => correct[d].number - 1 \in 1..last
          BY <4>1 DEF CorrectionInv, Filing
        <5>3. Numbers' = 1..last \cup {last + 1}
          BY <2>4, <4>1, <4>2
        <5> QED BY <5>1, <5>2, <5>3
      <4> QED BY <2>1, <2>2, <2>4, <3>2, <4>3 DEF CorrectionInv, Filing
    <3> QED BY <3>1, <3>2
  <2>10. \A d \in Correctors : Using(d)'
    BY <1>0, <2>2 DEF CorrectionInv, Using
  <2> QED BY <1>0, <2>2, <2>4, <2>6, <2>7, <2>8, <2>9, <2>10 DEF CorrectionInv
<1> QED BY <1>1, <1>2

LEMMA CorrectionStep == CorrectionInv /\ [CorrectionNext]_correctionVars => CorrectionInv'
<1> SUFFICES ASSUME CorrectionInv, [CorrectionNext]_correctionVars PROVE CorrectionInv'
  OBVIOUS
<1>1. CASE UNCHANGED correctionVars
  <2>1. Numbers' = Numbers /\ NextVersion' = NextVersion
    BY <1>1 DEF correctionVars, Numbers, NextVersion
  <2> QED BY <1>1, <2>1 DEF correctionVars, CorrectionInv, NoGap, OriginalIsFirst, LastVersionInForce, OneCorrectionEach, Filing, Using
<1>2. CASE CorrectionNext
  BY <1>2, ApprovalsKeep, CorrectionAsksKeep, PickKeeps, FirstKeeps, SaveReportKeeps, AppendKeepsEach DEF CorrectionNext
<1> QED BY <1>1, <1>2

\* Whatever corrections race and wherever one stops: version 1 is the report as
\* issued, an answered correction is filed under its number, the report in force is
\* the last version or about to be, and an approval carries one correction unless two
\* had picked it at once.
THEOREM CorrectionsAreSound == CorrectionSpec => []CorrectionSound
<1>1. CorrectionInv => CorrectionSound
  BY DEF CorrectionInv, CorrectionSound, AnsweredIsFiled, Filing
<1> QED BY <1>1, CorrectionStarts, CorrectionStep, PTL DEF CorrectionSpec

-----------------------------------------------------------------------------
(* The numbers stay below the number of requests *)

\* A version after the first is that of the answered request it bears the name of,
\* and a request knows no number that is not taken or the next.
FiledByRequests ==
    /\ \A row \in versions : row[1] = 1 \/ (row[2] \in Correctors /\ correct[row[2]].pc = "done" /\ correct[row[2]].number = row[1])
    /\ \A c \in Correctors : correct[c].number <= NextVersion
    /\ given <= MaxApprovals /\ shared \subseteq 1..given

LEMMA NumbersAre == CorrectionInv => \E last \in Nat : Numbers = 1..last /\ NextVersion = last + 1
BY LargestOfInterval DEF CorrectionInv, NoGap, NextVersion

LEMMA NumbersWillBe == CorrectionInv' => \E last \in Nat : Numbers' = 1..last /\ NextVersion' = last + 1
BY LargestOfInterval DEF CorrectionInv, NoGap, NextVersion

\* There are no more versions after the first than requests that were answered.
LEMMA AtMostOneEach ==
    ASSUME CorrectionInv, FiledByRequests, IsFiniteSet(Correctors), NEW last \in Nat, Numbers = 1..last
    PROVE  /\ last <= Cardinality(Correctors) + 1
           /\ \A c \in Correctors : correct[c].pc # "done" => last <= Cardinality(Correctors)
<1> DEFINE D == {c \in Correctors : correct[c].pc = "done"}
           T == {correct[c].number : c \in D}
           f == [c \in D |-> correct[c].number]
<1>1. IsFiniteSet(D) /\ Cardinality(D) <= Cardinality(Correctors)
  BY FS_Subset
<1>2. f \in Surjection(D, T)
  BY DEF Surjection
<1>3. IsFiniteSet(T) /\ Cardinality(T) <= Cardinality(D)
  BY <1>1, <1>2, FS_Surjection
<1>4. 2..last \subseteq T
  <2>1. ASSUME NEW n \in 2..last PROVE n \in T
    <3>1. n \in Numbers /\ n # 1
      OBVIOUS
    <3>2. PICK row \in versions : row[1] = n
      BY <3>1 DEF Numbers
    <3> QED BY <3>1, <3>2 DEF FiledByRequests
  <2> QED BY <2>1
<1>5. IsFiniteSet(2..last) /\ Cardinality(2..last) = IF 2 > last THEN 0 ELSE last - 2 + 1
  BY FS_Interval
<1>6. Cardinality(2..last) <= Cardinality(T)
  BY <1>3, <1>4, FS_Subset
<1>7. Cardinality(D) \in Nat /\ Cardinality(T) \in Nat /\ Cardinality(Correctors) \in Nat
  BY <1>1, <1>3, FS_CardinalityType
<1>8. last <= Cardinality(D) + 1
  BY <1>3, <1>5, <1>6, <1>7
<1>9. ASSUME NEW c \in Correctors, correct[c].pc # "done" PROVE Cardinality(D) < Cardinality(Correctors)
  <2>1. D \subseteq Correctors \ {c}
    BY <1>9
  <2>2. IsFiniteSet(Correctors \ {c}) /\ Cardinality(Correctors \ {c}) = Cardinality(Correctors) - 1
    BY FS_RemoveElement
  <2>3. Cardinality(D) <= Cardinality(Correctors \ {c})
    BY <2>1, <2>2, FS_Subset
  <2> HIDE DEF D
  <2> QED BY <1>7, <2>2, <2>3
<1> HIDE DEF D
<1> QED BY <1>1, <1>7, <1>8, <1>9

FilesAtMost(c) ==
    \/ versions' = versions
    \/ \E r \in Reports : versions' = versions \cup {<<1, r>>}
    \/ versions' = versions \cup {<<correct'[c].number, c>>} /\ correct'[c].pc = "done"

\* A request's own step: it files nothing, the first version or its own.
LEMMA RequestFiles ==
    ASSUME CorrectionInv, CorrectionInv', FiledByRequests, NEW c \in Correctors, correct[c].pc # "done",
           \A d \in Correctors \ {c} : correct'[d] = correct[d], given' = given, shared' \subseteq shared \cup 1..given,
           FilesAtMost(c), correct'[c].number <= NextVersion \/ correct'[c].number <= NextVersion'
    PROVE  FiledByRequests'
<1>1. PICK last \in Nat : Numbers = 1..last /\ NextVersion = last + 1
  BY NumbersAre
<1>2. PICK new \in Nat : Numbers' = 1..new /\ NextVersion' = new + 1
  BY NumbersWillBe
<1>3. last <= new
  <2>1. Numbers \subseteq Numbers'
    <3>1. versions \subseteq versions'
      BY DEF FilesAtMost
    <3> QED BY <3>1 DEF Numbers
  <2>2. last = 0 \/ last \in 1..new
    BY <1>1, <1>2, <2>1
  <2> QED BY <2>2
<1>4. \A d \in Correctors : correct'[d].number \in Nat /\ correct[d].number \in Nat
  BY DEF CorrectionInv, CorrectRows
<1>5. ASSUME NEW d \in Correctors PROVE correct'[d].number <= NextVersion'
  <2>1. correct'[d].number <= NextVersion \/ correct'[d].number <= NextVersion'
    BY DEF FiledByRequests
  <2> QED BY <1>1, <1>2, <1>3, <1>4, <2>1
<1>6. ASSUME NEW row \in versions', row[1] # 1
      PROVE  row[2] \in Correctors /\ correct'[row[2]].pc = "done" /\ correct'[row[2]].number = row[1]
  <2>1. CASE row \in versions
    BY <1>6, <2>1 DEF FiledByRequests
  <2>2. CASE row \notin versions
    BY <1>6, <2>2 DEF FilesAtMost
  <2> QED BY <2>1, <2>2
<1> QED BY <1>5, <1>6 DEF FiledByRequests

LEMMA FilingStep == CorrectionInv /\ FiledByRequests /\ [CorrectionNext]_correctionVars => FiledByRequests'
<1> SUFFICES ASSUME CorrectionInv, FiledByRequests, [CorrectionNext]_correctionVars PROVE FiledByRequests'
  OBVIOUS
<1>0. CorrectionInv' /\ given \in Nat /\ approved \subseteq 1..given /\ correct \in [Correctors -> CorrectRows]
  BY CorrectionStep DEF CorrectionInv
<1>1. CASE UNCHANGED correctionVars \/ Approve \/ \E a \in approved : LapseApproval(a)
  <2>1. /\ UNCHANGED <<versions, correct, shared>> /\ given' \in Nat /\ given <= given'
        /\ given' <= MaxApprovals
    BY <1>0, <1>1, CorrectionAssumption DEF correctionVars, Approve, LapseApproval, FiledByRequests
  <2>2. NextVersion' = NextVersion
    BY <2>1 DEF NextVersion, Numbers
  <2>3. shared' \subseteq 1..given'
    BY <1>0, <2>1 DEF FiledByRequests
  <2> QED BY <2>1, <2>2, <2>3 DEF FiledByRequests
<1>2. ASSUME NEW c \in Correctors, AskCorrection(c) \/ TakeApproval(c) \/ SaveReport(c) \/ CorrectBreaks(c) PROVE FiledByRequests'
  <2>1. /\ correct[c].pc # "done" /\ \A d \in Correctors \ {c} : correct'[d] = correct[d]
        /\ UNCHANGED <<given, shared, versions>> /\ correct'[c].number = correct[c].number
    BY <1>0, <1>2 DEF AskCorrection, TakeApproval, SaveReport, CorrectBreaks, CorrectRows
  <2>2. correct'[c].number <= NextVersion
    BY <2>1 DEF FiledByRequests
  <2> QED BY <1>0, <2>1, <2>2, RequestFiles DEF FilesAtMost
<1>3. ASSUME NEW c \in Correctors, PickApproval(c) PROVE FiledByRequests'
  <2>1. approved # {} => Min(approved) \in 1..given
    <3>1. approved \in SUBSET Nat
      BY <1>0
    <3> QED BY <1>0, <3>1, SmallestIsMember
  <2>2. shared' \subseteq shared \cup 1..given
    <3> DEFINE oldest == Min(approved)
    <3>1. shared' = shared \/ (approved # {} /\ (shared' = shared \cup {oldest} \/ shared' = shared))
      BY <1>3 DEF PickApproval
    <3> HIDE DEF oldest
    <3>2. approved # {} => oldest \in 1..given
      BY <2>1 DEF oldest
    <3> QED BY <3>1, <3>2
  <2>3. /\ correct[c].pc # "done" /\ \A d \in Correctors \ {c} : correct'[d] = correct[d]
        /\ UNCHANGED <<given, versions>> /\ correct'[c].number = correct[c].number
    BY <1>0, <1>3 DEF PickApproval, CorrectRows
  <2>4. correct'[c].number <= NextVersion
    BY <2>3 DEF FiledByRequests
  <2> QED BY <1>0, <2>2, <2>3, <2>4, RequestFiles DEF FilesAtMost
<1>4. ASSUME NEW c \in Correctors, NumberIt(c) PROVE FiledByRequests'
  <2>1. PICK last \in Nat : NextVersion = last + 1
    BY NumbersAre
  <2>2. /\ correct[c].pc # "done" /\ \A d \in Correctors \ {c} : correct'[d] = correct[d]
        /\ UNCHANGED <<given, shared, versions>> /\ correct'[c].number = NextVersion
    BY <1>0, <1>4 DEF NumberIt, CorrectRows
  <2>3. correct'[c].number <= NextVersion
    BY <2>1, <2>2
  <2> QED BY <1>0, <2>2, <2>3, RequestFiles DEF FilesAtMost
<1>5. ASSUME NEW c \in Correctors, InsertFirst(c) PROVE FiledByRequests'
  <2>1. /\ correct[c].pc # "done" /\ UNCHANGED <<given, shared>> /\ \A d \in Correctors \ {c} : correct'[d] = correct[d]
    BY <1>0, <1>5 DEF InsertFirst
  <2>2. CASE 1 \in Numbers
    <3>1. versions' = versions /\ correct'[c].number = correct[c].number
      BY <1>0, <1>5, <2>2 DEF InsertFirst, CorrectRows
    <3>2. correct'[c].number <= NextVersion
      BY <3>1 DEF FiledByRequests
    <3>3. FilesAtMost(c) /\ given' = given /\ shared' \subseteq shared \cup 1..given
      BY <2>1, <3>1 DEF FilesAtMost
    <3> QED BY <1>0, <2>1, <3>2, <3>3, RequestFiles
  <2>3. CASE 1 \notin Numbers
    <3>1. versions' = versions \cup {<<1, correct[c].saw>>} /\ correct'[c].number = 2 /\ correct[c].saw \in Reports
      BY <1>0, <1>5, <2>3 DEF InsertFirst, CorrectRows
    <3>2. PICK new \in Nat : Numbers' = 1..new /\ NextVersion' = new + 1
      BY <1>0, NumbersWillBe
    <3>3. 1 \in Numbers'
      <4>1. <<1, correct[c].saw>> \in versions' /\ <<1, correct[c].saw>>[1] = 1
        BY <3>1
      <4>2. Numbers' = {row[1] : row \in versions'}
        BY DEF Numbers
      <4> QED BY <4>1, <4>2
    <3>4. correct'[c].number <= NextVersion'
      BY <3>1, <3>2, <3>3
    <3>5. FilesAtMost(c) /\ given' = given /\ shared' \subseteq shared \cup 1..given
      BY <2>1, <3>1 DEF FilesAtMost
    <3> QED BY <1>0, <2>1, <3>4, <3>5, RequestFiles
  <2> QED BY <2>2, <2>3
<1>6. ASSUME NEW c \in Correctors, AppendVersion(c) PROVE FiledByRequests'
  <2>1. /\ correct[c].pc # "done" /\ UNCHANGED <<given, shared>> /\ \A d \in Correctors \ {c} : correct'[d] = correct[d]
        /\ correct'[c].number = correct[c].number
    BY <1>0, <1>6 DEF AppendVersion, CorrectRows
  <2>2. versions' = versions \/ (versions' = versions \cup {<<correct'[c].number, c>>} /\ correct'[c].pc = "done")
    BY <1>0, <1>6, <2>1 DEF AppendVersion, CorrectRows
  <2>3. correct'[c].number <= NextVersion
    BY <2>1 DEF FiledByRequests
  <2>4. FilesAtMost(c) /\ given' = given /\ shared' \subseteq shared \cup 1..given
    BY <2>1, <2>2 DEF FilesAtMost
  <2> QED BY <1>0, <2>1, <2>3, <2>4, RequestFiles
<1> QED BY <1>1, <1>2, <1>3, <1>4, <1>5, <1>6 DEF CorrectionNext

LEMMA TypesFromFiling == IsFiniteSet(Correctors) /\ CorrectionInv /\ FiledByRequests => CorrectionTypeOK
<1> SUFFICES ASSUME IsFiniteSet(Correctors), CorrectionInv, FiledByRequests PROVE CorrectionTypeOK
  OBVIOUS
<1> DEFINE most == Cardinality(Correctors)
<1>1. PICK last \in Nat : Numbers = 1..last /\ NextVersion = last + 1
  BY NumbersAre
<1>2. most \in Nat
  BY FS_CardinalityType
<1>3. last <= most + 1 /\ \A c \in Correctors : correct[c].pc # "done" => last <= most
  BY <1>1, AtMostOneEach
<1> HIDE DEF most
<1>4. versions \subseteq (1..(most + 1)) \X Reports
  <2>1. ASSUME NEW row \in versions PROVE row \in (1..(most + 1)) \X Reports
    <3>1. row \in Nat \X Reports /\ row[1] \in 1..last
      BY <1>1 DEF CorrectionInv, Numbers
    <3> QED BY <1>2, <1>3, <3>1
  <2> QED BY <2>1
<1>5. ASSUME NEW c \in Correctors
      PROVE  correct[c] \in [pc : CorrectSteps, saw : Reports, by : 0..given, number : 0..(most + 1)]
  <2>1. correct[c] \in CorrectRows /\ given \in Nat /\ correct[c].by <= given
    BY DEF CorrectionInv, Using
  <2>2. correct[c].number \in Nat /\ correct[c].by \in Nat
    BY <2>1 DEF CorrectRows
  <2>3. correct[c].number <= most + 1
    <3>1. CASE correct[c].pc = "done"
      <4>1. <<correct[c].number, c>> \in versions
        BY <3>1 DEF CorrectionInv, Filing
      <4> QED BY <1>2, <4>1, <1>4
    <3>2. CASE correct[c].pc # "done"
      <4>1. last <= most /\ correct[c].number <= last + 1
        BY <1>1, <1>3, <3>2 DEF FiledByRequests
      <4> QED BY <1>2, <2>2, <4>1
    <3> QED BY <3>1, <3>2
  <2> QED BY <1>2, <2>1, <2>2, <2>3 DEF CorrectRows
<1>6. correct \in [Correctors -> [pc : CorrectSteps, saw : Reports, by : 0..given, number : 0..(most + 1)]]
  BY <1>5 DEF CorrectionInv
<1>7. given \in 0..MaxApprovals
  BY CorrectionAssumption DEF CorrectionInv, FiledByRequests
<1> QED BY <1>4, <1>6, <1>7 DEF most, CorrectionTypeOK, CorrectionInv, FiledByRequests

LEMMA FilingStarts == CorrectionInit => FiledByRequests
<1> SUFFICES ASSUME CorrectionInit PROVE FiledByRequests
  OBVIOUS
<1>1. PICK last \in Nat : NextVersion = last + 1
  BY CorrectionStarts, NumbersAre
<1>2. \A c \in Correctors : correct[c].number = 0
  BY DEF CorrectionInit
<1>3. \A c \in Correctors : correct[c].number <= NextVersion
  BY <1>1, <1>2
<1>4. given <= MaxApprovals /\ shared \subseteq 1..given /\ versions = {}
  BY CorrectionAssumption DEF CorrectionInit
<1> QED BY <1>3, <1>4 DEF FiledByRequests

\* The history of a report never gets longer than its corrections and the original,
\* though nothing locks it while a number is computed and used (routes/admin/reports.js):
\* two requests never file what one of them asked for.
THEOREM HistoryIsBounded ==
    ASSUME IsFiniteSet(Correctors)
    PROVE  CorrectionSpec => []CorrectionTypeOK
<1>1. CorrectionInv /\ FiledByRequests => CorrectionTypeOK
  BY TypesFromFiling
<1> QED BY <1>1, CorrectionStarts, CorrectionStep, FilingStarts, FilingStep, PTL DEF CorrectionSpec

-----------------------------------------------------------------------------
(* Credentials and the review *)

Invalid == "invalidated_reassessment"
DeskRows == [pc : DeskSteps, alone : BOOLEAN, old : Nat, seen : Nat, outcome : Decisions \cup {"none"}]

\* A reissue knows the credential it replaces, and the one it inserted names it.
Linked(c) ==
    /\ desk[c].old # 0 => desk[c].pc \in {"seal", "retire", "done", "broken"} /\ desk[c].old \in DOMAIN creds
    /\ desk[c].pc = "retire" => /\ desk[c].old # 0 /\ desk[c].seen \in desk[c].old + 1..Newest
                                /\ creds[desk[c].seen].of = desk[c].old
    /\ desk[c].pc = "done" /\ desk[c].old # 0 => creds[desk[c].old].status = "superseded"

\* What the console saw: whatever is active was inserted afterwards.
Sealing(c) ==
    /\ desk[c].pc = "idle" => ~desk[c].alone
    /\ desk[c].pc = "seal" /\ desk[c].alone =>
         desk[c].old = 0 /\ desk[c].seen <= Newest /\ \A i \in DOMAIN creds : creds[i].status = "active" => i > desk[c].seen

Gone(i) == i \in 0..Newest /\ i \notin Active

\* A decision that gave a reassessment, up to the credential it revokes.
Granting(c) ==
    /\ c \in grants => desk[c].outcome = Invalid /\ desk[c].pc \in {"look", "revoke", "resolve", "status", "done", "broken"}
    /\ desk[c].pc \in {"grant", "look", "revoke"} => desk[c].outcome = Invalid
    /\ desk[c].pc \in {"look", "revoke", "resolve"} /\ desk[c].outcome = Invalid => c \in grants
    /\ c \in grants /\ desk[c].pc = "revoke" => desk[c].seen \in 1..Newest
    /\ c \in grants /\ desk[c].pc = "resolve" => Gone(desk[c].seen)
    /\ c = dispute.told => c \in grants /\ desk[c].pc \in {"status", "done", "broken"} /\ Gone(desk[c].seen)

\* The dispute against all decisions.
Reviewed ==
    /\ dispute.told # NoGrant => dispute.outcome # "none"
    /\ dispute.outcome = Invalid => dispute.told # NoGrant
    /\ ~atOnce => \A c, d \in Desk : desk[c].pc \in Deciding /\ desk[d].pc \in Deciding => c = d /\ dispute.outcome = "none"
    /\ \A c \in grants : c = dispute.told \/ desk[c].pc \in Deciding \cup {"broken"} \/ atOnce

Superseded == \A i \in DOMAIN creds : creds[i].status = "superseded" => creds[i].by \in i + 1..Newest /\ creds[creds[i].by].of = i

DecisionInv ==
    /\ DecisionTypeOK
    /\ Superseded /\ IssuedAlone /\ Reviewed
    /\ \A c \in Desk : Linked(c) /\ Sealing(c) /\ Granting(c)

LEMMA CredsKnown ==
    ASSUME DecisionTypeOK
    PROVE  Newest \in Nat /\ DOMAIN creds = 1..Newest /\ \A i \in 1..Newest : creds[i] \in Credential
BY DEF DecisionTypeOK, Newest

LEMMA DeskFields ==
    ASSUME NEW row \in DeskRows
    PROVE  /\ \A pc \in DeskSteps : [row EXCEPT !.pc = pc] \in DeskRows
           /\ \A alone \in BOOLEAN : [row EXCEPT !.alone = alone] \in DeskRows
           /\ \A old \in Nat : [row EXCEPT !.old = old] \in DeskRows
           /\ \A seen \in Nat : [row EXCEPT !.seen = seen] \in DeskRows
           /\ \A o \in Decisions : [row EXCEPT !.outcome = o] \in DeskRows
<1>1. \A pc \in DeskSteps : [row EXCEPT !.pc = pc] \in DeskRows
  BY DEF DeskRows
<1>2. \A alone \in BOOLEAN : [row EXCEPT !.alone = alone] \in DeskRows
  BY DEF DeskRows
<1>3. \A old \in Nat : [row EXCEPT !.old = old] \in DeskRows
  BY DEF DeskRows
<1>4. \A seen \in Nat : [row EXCEPT !.seen = seen] \in DeskRows
  BY DEF DeskRows
<1>5. \A o \in Decisions : [row EXCEPT !.outcome = o] \in DeskRows
  BY DEF DeskRows
<1> QED BY <1>1, <1>2, <1>3, <1>4, <1>5

LEMMA DecisionStarts == DecisionInit => DecisionInv
<1> SUFFICES ASSUME DecisionInit PROVE DecisionInv
  OBVIOUS
<1>1. FirstCredential \in Credential
  BY DEF FirstCredential, Credential
<1>2. creds \in Seq(Credential) /\ Len(creds) \in {0, 1} /\ (Len(creds) = 1 => creds[1] = FirstCredential)
  BY <1>1 DEF DecisionInit
<1>3. desk \in [Desk -> DeskRows] /\ \A c \in Desk : desk[c] = IdleDesk
  BY DEF DecisionInit, IdleDesk, DeskRows, DeskSteps
<1>4. DecisionTypeOK
  <2>1. dispute \in [status : DisputeStates, outcome : Decisions \cup {"none"}, told : Desk \cup {NoGrant}]
    BY DEF DecisionInit, DisputeStates
  <2> QED BY <1>2, <1>3, <2>1 DEF DecisionInit, DecisionTypeOK, DeskRows
<1>5. Superseded /\ IssuedAlone
  BY <1>2, <1>4, CredsKnown DEF Superseded, IssuedAlone, FirstCredential, Newest, Active
<1>6. Reviewed
  BY <1>3 DEF DecisionInit, Reviewed, IdleDesk, Deciding, Invalid
<1>7. \A c \in Desk : Linked(c) /\ Sealing(c) /\ Granting(c)
  <2> SUFFICES ASSUME NEW c \in Desk PROVE Linked(c) /\ Sealing(c) /\ Granting(c)
    OBVIOUS
  <2>1. desk[c].pc = "idle" /\ desk[c].old = 0 /\ desk[c].alone = FALSE /\ c \notin grants /\ c # dispute.told
    BY <1>3, DecisionAssumption DEF IdleDesk, DecisionInit
  <2> QED BY <2>1 DEF Linked, Sealing, Granting
<1> QED BY <1>4, <1>5, <1>6, <1>7 DEF DecisionInv

-----------------------------------------------------------------------------

\* What a step may do to the credentials there are.
CredsMove ==
    /\ Newest <= Newest'
    /\ \A i \in 1..Newest :
         /\ creds'[i].of = creds[i].of
         /\ creds'[i].status = "active" => creds[i].status = "active"
         /\ creds[i].status = "superseded" => creds'[i].status = "superseded"

LEMMA Rests ==
    ASSUME DecisionInv, DecisionTypeOK', CredsMove, NEW d \in Desk,
           desk'[d] = desk[d], d \in grants' <=> d \in grants, d = dispute'.told => d = dispute.told
    PROVE  Linked(d)' /\ Sealing(d)' /\ Granting(d)'
<1>1. /\ Newest \in Nat /\ DOMAIN creds = 1..Newest /\ Newest' \in Nat /\ DOMAIN creds' = 1..Newest'
      /\ desk \in [Desk -> DeskRows]
  BY CredsKnown DEF DecisionInv, DecisionTypeOK, DeskRows, Newest
<1>2. Linked(d)'
  BY <1>1 DEF CredsMove, Linked, DecisionInv, DeskRows
<1>3. Sealing(d)'
  <2> SUFFICES ASSUME desk[d].pc = "seal", desk[d].alone
               PROVE  desk[d].old = 0 /\ desk[d].seen <= Newest' /\ \A i \in 1..Newest' : creds'[i].status = "active" => i > desk[d].seen
    BY <1>1 DEF Sealing, DecisionInv
  <2>1. desk[d].old = 0 /\ desk[d].seen \in Nat /\ desk[d].seen <= Newest
    BY <1>1 DEF Sealing, DecisionInv, DeskRows
  <2>2. \A i \in 1..Newest : creds[i].status = "active" => i > desk[d].seen
    BY <1>1 DEF Sealing, DecisionInv
  <2>3. ASSUME NEW i \in 1..Newest', creds'[i].status = "active" PROVE i > desk[d].seen
    <3>1. CASE i <= Newest
      BY <1>1, <2>2, <2>3, <3>1 DEF CredsMove
    <3>2. CASE ~(i <= Newest)
      BY <1>1, <2>1, <3>2
    <3> QED BY <3>1, <3>2
  <2> QED BY <1>1, <2>1, <2>3 DEF CredsMove
<1>4. \A i : Gone(i) => Gone(i)'
  BY <1>1 DEF CredsMove, Gone, Active
<1>5. Granting(d)'
  <2>1. desk[d].seen \in 1..Newest => desk'[d].seen \in 1..Newest'
    BY <1>1 DEF CredsMove
  <2> QED BY <1>4, <2>1 DEF Granting, DecisionInv
<1> QED BY <1>2, <1>3, <1>5

LEMMA OthersRest ==
    ASSUME DecisionInv, DecisionTypeOK', CredsMove, NEW c \in Desk,
           \A d \in Desk \ {c} : desk'[d] = desk[d] /\ (d \in grants' <=> d \in grants),
           dispute'.told \in {dispute.told, c, NoGrant}
    PROVE  \A d \in Desk \ {c} : Linked(d)' /\ Sealing(d)' /\ Granting(d)'
<1> SUFFICES ASSUME NEW d \in Desk \ {c} PROVE Linked(d)' /\ Sealing(d)' /\ Granting(d)'
  OBVIOUS
<1>1. d = dispute'.told => d = dispute.told
  BY DecisionAssumption
<1> QED BY <1>1, Rests

LEMMA ReviewRests ==
    ASSUME DecisionInv, NEW c \in Desk, \A d \in Desk \ {c} : desk'[d] = desk[d],
           UNCHANGED <<grants, atOnce, dispute.told, dispute.outcome>>, grants \subseteq Desk,
           desk'[c].pc \in Deciding => desk[c].pc \in Deciding,
           c \in grants /\ desk[c].pc \in Deciding \cup {"broken"} => desk'[c].pc \in Deciding \cup {"broken"}
    PROVE  Reviewed'
BY DEF DecisionInv, Reviewed

LEMMA CredsRest ==
    ASSUME DecisionInv, UNCHANGED creds
    PROVE  CredsMove /\ Superseded' /\ IssuedAlone' /\ Newest' = Newest /\ Active' = Active
<1>1. Newest' = Newest /\ Newest \in Nat /\ Active' = Active
  BY CredsKnown DEF DecisionInv, Newest, Active
<1>2. CredsMove
  BY <1>1 DEF CredsMove
<1>3. Superseded'
  BY <1>1 DEF DecisionInv, Superseded
<1>4. IssuedAlone'
  BY <1>1 DEF DecisionInv, IssuedAlone
<1> QED BY <1>1, <1>2, <1>3, <1>4

\* A request's own step that leaves the credentials.
LEMMA DeskMoves ==
    ASSUME DecisionInv, DecisionTypeOK', UNCHANGED creds, NEW c \in Desk,
           \A d \in Desk \ {c} : desk'[d] = desk[d] /\ (d \in grants' <=> d \in grants),
           dispute'.told \in {dispute.told, c, NoGrant},
           Linked(c)', Sealing(c)', Granting(c)', Reviewed'
    PROVE  DecisionInv'
BY CredsRest, OthersRest DEF DecisionInv

\* Requests before a decision: issue, reissue and the asking for a review.
LEMMA DeskAsksKeep ==
    ASSUME DecisionInv, DecisionTypeOK', NEW c \in Desk,
           AskIssue(c) \/ AskMint(c) \/ AskReview(c) \/ CreateDispute(c) \/ \E old \in DOMAIN creds : AskReissue(c, old)
    PROVE  DecisionInv'
<1>0. desk \in [Desk -> DeskRows] /\ grants \subseteq Desk /\ Newest \in Nat /\ DOMAIN creds = 1..Newest /\ Linked(c) /\ Sealing(c) /\ Granting(c)
  BY CredsKnown DEF DecisionInv, DecisionTypeOK, DeskRows
<1>1. /\ UNCHANGED <<creds, grants, atOnce, dispute.told, dispute.outcome>>
      /\ \A d \in Desk \ {c} : desk'[d] = desk[d]
      /\ desk[c].pc \in {"idle", "create"} /\ desk'[c].pc \in {"refused", "seal", "create", "done"}
      /\ desk'[c].old # 0 => desk'[c].pc = "seal" /\ desk'[c].old \in DOMAIN creds
      /\ desk'[c].pc = "seal" /\ desk'[c].alone => desk'[c].old = 0 /\ desk'[c].seen = Newest /\ Active = {}
  <2>1. CASE AskIssue(c)
    BY <1>0, <2>1 DEF AskIssue, DeskRows, Linked
  <2>2. CASE AskMint(c)
    BY <1>0, <2>2 DEF AskMint, DeskRows, Linked, Sealing
  <2>3. CASE AskReview(c) \/ CreateDispute(c)
    <3>1. \E pc \in {"refused", "create", "done"} : desk' = [desk EXCEPT ![c].pc = pc]
      BY <2>3 DEF AskReview, CreateDispute
    <3>2. dispute'.told = dispute.told /\ dispute'.outcome = dispute.outcome
      BY <2>3 DEF AskReview, CreateDispute, DecisionInv, DecisionTypeOK
    <3> QED BY <1>0, <2>3, <3>1, <3>2 DEF AskReview, CreateDispute, DeskRows, Linked
  <2>4. ASSUME NEW old \in DOMAIN creds, AskReissue(c, old)
        PROVE  /\ desk'[c].pc = "seal" /\ desk'[c].old = old /\ ~desk'[c].alone /\ \A d \in Desk \ {c} : desk'[d] = desk[d]
               /\ desk[c].pc = "idle" /\ UNCHANGED <<creds, grants, atOnce, dispute>>
    <3> DEFINE row == [[desk[c] EXCEPT !.pc = "seal"] EXCEPT !.old = old]
    <3>1. desk' = [desk EXCEPT ![c] = row] /\ desk[c].pc = "idle" /\ UNCHANGED <<creds, grants, atOnce, dispute>>
      BY <1>0, <2>4 DEF AskReissue
    <3>2. row.pc = "seal" /\ row.old = old /\ row.alone = desk[c].alone
      BY <1>0 DEF DeskRows
    <3> HIDE DEF row
    <3> QED BY <1>0, <3>1, <3>2 DEF Sealing
  <2>5. CASE \E old \in DOMAIN creds : AskReissue(c, old)
    BY <2>4, <2>5
  <2> QED BY <2>1, <2>2, <2>3, <2>5
<1>2. Newest' = Newest /\ DOMAIN creds' = DOMAIN creds /\ c \notin grants /\ c # dispute.told
  BY <1>0, <1>1 DEF Newest, Granting
<1>3. Linked(c)'
  BY <1>1, <1>2 DEF Linked
<1>4. Sealing(c)'
  BY <1>0, <1>1, <1>2 DEF Sealing, Active
<1>5. Granting(c)'
  BY <1>0, <1>1, <1>2 DEF Granting
<1>6. Reviewed'
  BY <1>0, <1>1, <1>2, ReviewRests DEF Deciding
<1> QED BY <1>1, <1>3, <1>4, <1>5, <1>6, DeskMoves

LEMMA InsertKeeps ==
    ASSUME DecisionInv, DecisionTypeOK', NEW c \in Desk, InsertCredential(c)
    PROVE  DecisionInv'
<1> DEFINE cred == [status |-> "active", of |-> desk[c].old, by |-> 0, alone |-> desk[c].alone, after |-> desk[c].seen]
<1>0. /\ desk \in [Desk -> DeskRows] /\ grants \subseteq Desk /\ Linked(c) /\ Sealing(c) /\ Granting(c)
      /\ Newest \in Nat /\ DOMAIN creds = 1..Newest /\ creds \in Seq(Credential) /\ Newest = Len(creds)
  BY CredsKnown DEF DecisionInv, DecisionTypeOK, DeskRows, Newest
<1>1. cred \in Credential
  BY <1>0 DEF DeskRows, Credential
<1>2. creds' = Append(creds, cred) /\ desk[c].pc = "seal" /\ UNCHANGED <<dispute, grants, atOnce>>
  BY DEF InsertCredential
<1>3. /\ Newest' = Newest + 1 /\ DOMAIN creds' = 1..Newest' /\ creds'[Newest + 1] = cred
      /\ \A i \in 1..Newest : creds'[i] = creds[i]
  <2> HIDE DEF cred
  <2>1. Len(creds') = Newest + 1 /\ creds'[Newest + 1] = cred /\ \A i \in 1..Newest : creds'[i] = creds[i]
    BY <1>0, <1>1, <1>2, AppendProperties
  <2> QED BY <2>1, CredsKnown DEF Newest
<1>4. CredsMove
  BY <1>0, <1>3 DEF CredsMove
<1>5. /\ \A d \in Desk \ {c} : desk'[d] = desk[d]
      /\ IF desk[c].old = 0 THEN desk'[c].pc = "done" /\ desk'[c].old = 0
         ELSE desk'[c].pc = "retire" /\ desk'[c].old = desk[c].old /\ desk'[c].seen = Newest + 1
  <2>1. CASE desk[c].old = 0
    BY <1>0, <2>1 DEF InsertCredential, IdleDesk
  <2>2. CASE desk[c].old # 0
    <3> DEFINE row == [[desk[c] EXCEPT !.pc = "retire"] EXCEPT !.seen = Newest + 1]
    <3>1. desk' = [desk EXCEPT ![c] = row]
      BY <1>0, <2>2 DEF InsertCredential
    <3>2. row.pc = "retire" /\ row.old = desk[c].old /\ row.seen = Newest + 1
      BY <1>0 DEF DeskRows
    <3> HIDE DEF row
    <3> QED BY <1>0, <2>2, <3>1, <3>2
  <2> QED BY <2>1, <2>2
<1>6. Linked(c)'
  BY <1>0, <1>3, <1>5 DEF Linked, DeskRows
<1>7. Sealing(c)'
  BY <1>5 DEF Sealing
<1>8. c \notin grants /\ c # dispute.told
  BY <1>0, <1>2 DEF Granting
<1>9. Granting(c)'
  BY <1>2, <1>5, <1>8 DEF Granting
<1>10. Reviewed'
  BY <1>0, <1>2, <1>5, <1>8, ReviewRests DEF Deciding
<1>11. Superseded'
  BY <1>0, <1>3 DEF DecisionInv, Superseded
<1>12. IssuedAlone'
  <2> SUFFICES ASSUME NEW i \in 1..Newest', NEW j \in 1..Newest', creds'[i].status = "active", creds'[j].status = "active",
                      i < j, creds'[j].alone
               PROVE  i > creds'[j].after
    BY <1>3 DEF IssuedAlone, Active
  <2>1. i \in 1..Newest
    BY <1>0, <1>3
  <2>2. CASE j \in 1..Newest
    BY <1>0, <1>3, <2>1, <2>2 DEF DecisionInv, IssuedAlone, Active
  <2>3. CASE j = Newest + 1
    BY <1>0, <1>2, <1>3, <2>1, <2>3 DEF Sealing
  <2> QED BY <1>0, <1>3, <2>2, <2>3
<1> QED BY <1>2, <1>4, <1>5, <1>6, <1>7, <1>9, <1>10, <1>11, <1>12, OthersRest DEF DecisionInv

\* The status of one credential changes, and only there.
LEMMA StatusMoves ==
    ASSUME DecisionInv, NEW i \in 1..Newest, NEW cred \in Credential, creds' = [creds EXCEPT ![i] = cred],
           cred.of = creds[i].of, cred.alone = creds[i].alone, cred.after = creds[i].after,
           cred.status = "active" => creds[i].status = "active", creds[i].status = "superseded" => cred.status = "superseded",
           cred.status = "superseded" => cred.by \in i + 1..Newest /\ creds[cred.by].of = i
    PROVE  CredsMove /\ Superseded' /\ IssuedAlone' /\ Newest' = Newest /\ creds'[i] = cred /\ DOMAIN creds' = DOMAIN creds
           /\ \A j \in 1..Newest : creds'[j].of = creds[j].of
<1>0. Newest \in Nat /\ DOMAIN creds = 1..Newest /\ creds \in Seq(Credential) /\ Newest = Len(creds)
  BY CredsKnown DEF DecisionInv, DecisionTypeOK, Newest
<1>1. Newest' = Newest /\ creds'[i] = cred /\ DOMAIN creds' = DOMAIN creds /\ \A j \in 1..Newest \ {i} : creds'[j] = creds[j]
  BY <1>0, ExceptSeq DEF Newest
<1>2. CredsMove
  BY <1>0, <1>1 DEF CredsMove
<1>3. \A j \in 1..Newest : creds'[j].of = creds[j].of /\ creds'[j].alone = creds[j].alone /\ creds'[j].after = creds[j].after
  BY <1>1
<1>4. Superseded'
  <2> SUFFICES ASSUME NEW j \in 1..Newest, creds'[j].status = "superseded"
               PROVE  creds'[j].by \in j + 1..Newest /\ creds'[creds'[j].by].of = j
    BY <1>0, <1>1 DEF Superseded
  <2>1. CASE j = i
    BY <1>0, <1>1, <1>3, <2>1
  <2>2. CASE j # i
    BY <1>0, <1>1, <1>3, <2>2 DEF DecisionInv, Superseded
  <2> QED BY <2>1, <2>2
<1>5. IssuedAlone'
  <2>1. \A j \in 1..Newest : creds'[j].status = "active" => creds[j].status = "active"
    BY <1>0, <1>1
  <2> QED BY <1>0, <1>1, <1>3, <2>1 DEF DecisionInv, IssuedAlone, Active
<1> QED BY <1>1, <1>2, <1>3, <1>4, <1>5

LEMMA RetireKeeps ==
    ASSUME DecisionInv, DecisionTypeOK', NEW c \in Desk, RetireOld(c)
    PROVE  DecisionInv'
<1> DEFINE old == desk[c].old
           cred == [creds[old] EXCEPT !.status = "superseded", !.by = desk[c].seen]
<1>0. /\ desk \in [Desk -> DeskRows] /\ grants \subseteq Desk /\ Linked(c) /\ Granting(c)
      /\ Newest \in Nat /\ DOMAIN creds = 1..Newest /\ creds \in Seq(Credential) /\ desk[c].pc = "retire"
      /\ UNCHANGED <<dispute, grants, atOnce>>
  BY CredsKnown DEF DecisionInv, DecisionTypeOK, DeskRows, Newest, RetireOld
<1>1. old \in 1..Newest /\ old # 0 /\ desk[c].seen \in old + 1..Newest /\ creds[desk[c].seen].of = old /\ creds[old] \in Credential
  BY <1>0, CredsKnown DEF Linked, DecisionInv
<1>2. creds' = [creds EXCEPT ![old] = cred]
  BY <1>0, <1>1 DEF RetireOld
<1>3. cred \in Credential /\ cred.status = "superseded" /\ cred.by = desk[c].seen
      /\ cred.of = creds[old].of /\ cred.alone = creds[old].alone /\ cred.after = creds[old].after
  <2>1. desk[c].seen \in Nat
    BY <1>0 DEF DeskRows
  <2> QED BY <1>1, <2>1 DEF Credential
<1>4. CredsMove /\ Superseded' /\ IssuedAlone' /\ Newest' = Newest /\ creds'[old] = cred /\ DOMAIN creds' = DOMAIN creds
  <2> HIDE DEF cred, old
  <2> QED BY <1>1, <1>2, <1>3, StatusMoves
<1>5. desk'[c].pc = "done" /\ desk'[c].old = old /\ \A d \in Desk \ {c} : desk'[d] = desk[d]
  <2> DEFINE row == [[desk[c] EXCEPT !.pc = "done"] EXCEPT !.seen = 0]
  <2>1. desk' = [desk EXCEPT ![c] = row]
    BY <1>0 DEF RetireOld
  <2>2. row.pc = "done" /\ row.old = old
    BY <1>0 DEF DeskRows
  <2> HIDE DEF row
  <2> QED BY <1>0, <2>1, <2>2
<1>6. Linked(c)'
  BY <1>0, <1>1, <1>3, <1>4, <1>5 DEF Linked
<1>7. Sealing(c)'
  BY <1>5 DEF Sealing
<1>8. c \notin grants /\ c # dispute.told
  BY <1>0 DEF Granting
<1>9. Granting(c)'
  BY <1>0, <1>5, <1>8 DEF Granting
<1>10. Reviewed'
  BY <1>0, <1>5, <1>8, ReviewRests DEF Deciding
<1> QED BY <1>0, <1>4, <1>5, <1>6, <1>7, <1>9, <1>10, OthersRest DEF DecisionInv

LEMMA RevokedMoves ==
    ASSUME DecisionInv, NEW i \in 1..Newest, creds' = Revoked(i)
    PROVE  /\ CredsMove /\ Superseded' /\ IssuedAlone' /\ Newest' = Newest /\ i \notin Active' /\ DOMAIN creds' = DOMAIN creds
           /\ \A j \in 1..Newest : creds'[j].of = creds[j].of
<1> DEFINE cred == [creds[i] EXCEPT !.status = IF @ = "active" THEN "revoked" ELSE @]
<1>0. creds[i] \in Credential
  BY CredsKnown DEF DecisionInv
<1>1. cred \in Credential /\ cred.status = (IF creds[i].status = "active" THEN "revoked" ELSE creds[i].status)
      /\ cred.of = creds[i].of /\ cred.alone = creds[i].alone /\ cred.after = creds[i].after /\ cred.by = creds[i].by
  BY <1>0 DEF Credential
<1>2. creds' = [creds EXCEPT ![i] = cred]
  BY <1>0, CredsKnown DEF Revoked, DecisionInv
<1>3. cred.status = "superseded" => cred.by \in i + 1..Newest /\ creds[cred.by].of = i
  BY <1>1, CredsKnown DEF DecisionInv, Superseded
<1>4. CredsMove /\ Superseded' /\ IssuedAlone' /\ Newest' = Newest /\ creds'[i] = cred /\ DOMAIN creds' = DOMAIN creds
      /\ \A j \in 1..Newest : creds'[j].of = creds[j].of
  <2> HIDE DEF cred
  <2> QED BY <1>1, <1>2, <1>3, StatusMoves
<1>5. cred.status # "active"
  BY <1>1
<1>6. i \notin Active'
  <2> HIDE DEF cred
  <2> QED BY <1>4, <1>5 DEF Active
<1> QED BY <1>4, <1>6

\* Whose turn it is not, stays as it was.
LEMMA AllRest ==
    ASSUME DecisionInv, DecisionTypeOK', CredsMove, Superseded', IssuedAlone', UNCHANGED <<dispute, grants, desk, atOnce>>
    PROVE  DecisionInv'
<1>1. Reviewed'
  BY DEF DecisionInv, Reviewed
<1> QED BY <1>1, Rests DEF DecisionInv

LEMMA RevokeCredentialKeeps ==
    ASSUME DecisionInv, DecisionTypeOK', NEW i \in DOMAIN creds, RevokeCredential(i)
    PROVE  DecisionInv'
<1>1. i \in 1..Newest /\ creds' = Revoked(i) /\ UNCHANGED <<dispute, grants, desk, atOnce>>
  BY CredsKnown DEF RevokeCredential, DecisionInv
<1> QED BY <1>1, RevokedMoves, AllRest

LEMMA DecideKeeps ==
    ASSUME DecisionInv, DecisionTypeOK', NEW c \in Desk, NEW o \in Decisions, DecideReview(c, o)
    PROVE  DecisionInv'
<1>0. /\ desk \in [Desk -> DeskRows] /\ grants \subseteq Desk /\ Linked(c) /\ Granting(c) /\ desk[c].pc = "idle"
      /\ UNCHANGED <<creds, dispute, grants>>
  BY DEF DecisionInv, DecisionTypeOK, DeskRows, DecideReview
<1> DEFINE pc == IF dispute.outcome # "none" THEN "refused"
                 ELSE IF o = Invalid THEN "grant"
                 ELSE IF o = "second_review" THEN "status" ELSE "resolve"
<1>1. desk'[c].pc = pc /\ desk'[c].outcome = o /\ desk'[c].old = desk[c].old /\ \A d \in Desk \ {c} : desk'[d] = desk[d]
  <2> DEFINE row == [[desk[c] EXCEPT !.outcome = o] EXCEPT !.pc = pc]
  <2>1. desk' = [desk EXCEPT ![c] = row]
    BY <1>0 DEF DecideReview, Invalid
  <2> HIDE DEF pc
  <2>2. row.pc = pc /\ row.outcome = o /\ row.old = desk[c].old
    BY <1>0 DEF DeskRows
  <2> HIDE DEF row
  <2> QED BY <1>0, <2>1, <2>2
<1>2. c \notin grants /\ c # dispute.told /\ desk[c].old = 0
  BY <1>0 DEF Granting, Linked
<1>3. Linked(c)'
  BY <1>1, <1>2 DEF Linked
<1>4. Sealing(c)'
  BY <1>1 DEF Sealing
<1>5. Granting(c)'
  BY <1>0, <1>1, <1>2 DEF Granting, Invalid
<1>6. Reviewed'
  <2>1. atOnce' = (atOnce \/ (dispute.outcome = "none" /\ \E d \in Desk : desk[d].pc \in Deciding))
    BY DEF DecideReview
  <2>2. desk'[c].pc \in Deciding => dispute.outcome = "none"
    BY <1>1 DEF Deciding
  <2>3. \A d, e \in Desk : ~atOnce' /\ desk'[d].pc \in Deciding /\ desk'[e].pc \in Deciding => d = e /\ dispute.outcome = "none"
    BY <1>1, <2>1, <2>2 DEF DecisionInv, Reviewed
  <2>4. \A d \in grants : d = dispute.told \/ desk'[d].pc \in Deciding \cup {"broken"} \/ atOnce'
    BY <1>0, <1>1, <1>2, <2>1 DEF DecisionInv, Reviewed
  <2> QED BY <1>0, <2>3, <2>4 DEF DecisionInv, Reviewed
<1> QED BY <1>0, <1>1, <1>3, <1>4, <1>5, <1>6, DeskMoves

LEMMA GrantKeeps ==
    ASSUME DecisionInv, DecisionTypeOK', NEW c \in Desk, GrantReassessment(c)
    PROVE  DecisionInv'
<1>0. /\ desk \in [Desk -> DeskRows] /\ grants \subseteq Desk /\ Linked(c) /\ Granting(c) /\ desk[c].pc = "grant"
      /\ UNCHANGED <<creds, dispute, atOnce>> /\ grants' = grants \cup {c} /\ desk' = [desk EXCEPT ![c].pc = "look"]
  BY DEF DecisionInv, DecisionTypeOK, DeskRows, GrantReassessment
<1>1. desk'[c].pc = "look" /\ desk'[c].outcome = desk[c].outcome /\ desk'[c].old = desk[c].old /\ \A d \in Desk \ {c} : desk'[d] = desk[d]
  BY <1>0 DEF DeskRows
<1>2. Linked(c)'
  BY <1>0, <1>1 DEF Linked
<1>3. Sealing(c)'
  BY <1>1 DEF Sealing
<1>4. Granting(c)'
  BY <1>0, <1>1 DEF Granting
<1>5. Reviewed'
  BY <1>0, <1>1 DEF DecisionInv, Reviewed, Deciding
<1> QED BY <1>0, <1>1, <1>2, <1>3, <1>4, <1>5, DeskMoves

LEMMA LookUpKeeps ==
    ASSUME DecisionInv, DecisionTypeOK', NEW c \in Desk, LookUp(c)
    PROVE  DecisionInv'
<1>0. /\ desk \in [Desk -> DeskRows] /\ grants \subseteq Desk /\ Linked(c) /\ Granting(c) /\ desk[c].pc = "look"
      /\ UNCHANGED <<creds, dispute, grants, atOnce>> /\ Newest \in Nat /\ DOMAIN creds = 1..Newest
  BY CredsKnown DEF DecisionInv, DecisionTypeOK, DeskRows, LookUp
<1>1. PICK seen \in {Newest, 0} :
        desk' = [desk EXCEPT ![c].seen = seen, ![c].pc = IF seen \in Active THEN "revoke" ELSE "resolve"]
  BY DEF LookUp
<1> DEFINE pc == IF seen \in Active THEN "revoke" ELSE "resolve"
           row == [[desk[c] EXCEPT !.seen = seen] EXCEPT !.pc = pc]
<1>2. desk'[c].pc = pc /\ desk'[c].seen = seen /\ desk'[c].outcome = desk[c].outcome /\ desk'[c].old = desk[c].old
      /\ \A d \in Desk \ {c} : desk'[d] = desk[d]
  <2>1. desk' = [desk EXCEPT ![c] = row]
    BY <1>0, <1>1
  <2> HIDE DEF pc
  <2>2. row.pc = pc /\ row.seen = seen /\ row.outcome = desk[c].outcome /\ row.old = desk[c].old
    BY <1>0 DEF DeskRows
  <2> HIDE DEF row
  <2> QED BY <1>0, <2>1, <2>2
<1>3. seen \in 0..Newest /\ (seen \in Active => seen \in 1..Newest) /\ Newest' = Newest /\ Active' = Active
  BY <1>0, <1>1, CredsRest DEF Active
<1>4. Linked(c)'
  BY <1>0, <1>2 DEF Linked
<1>5. Sealing(c)'
  BY <1>2 DEF Sealing
<1>6. Granting(c)'
  BY <1>0, <1>2, <1>3 DEF Granting, Gone
<1>7. Reviewed'
  BY <1>0, <1>2, ReviewRests DEF Deciding
<1> QED BY <1>0, <1>2, <1>4, <1>5, <1>6, <1>7, DeskMoves

LEMMA RevokeSeenKeeps ==
    ASSUME DecisionInv, DecisionTypeOK', NEW c \in Desk, RevokeSeen(c)
    PROVE  DecisionInv'
<1>0. /\ desk \in [Desk -> DeskRows] /\ grants \subseteq Desk /\ Linked(c) /\ Granting(c) /\ desk[c].pc = "revoke"
      /\ UNCHANGED <<dispute, grants, atOnce>> /\ Newest \in Nat /\ DOMAIN creds = 1..Newest
      /\ creds' = Revoked(desk[c].seen) /\ desk' = [desk EXCEPT ![c].pc = "resolve"]
  BY CredsKnown DEF DecisionInv, DecisionTypeOK, DeskRows, RevokeSeen
<1>1. /\ desk'[c].pc = "resolve" /\ desk'[c].outcome = desk[c].outcome /\ desk'[c].old = desk[c].old /\ desk'[c].seen = desk[c].seen
      /\ \A d \in Desk \ {c} : desk'[d] = desk[d]
  BY <1>0 DEF DeskRows
<1>2. c \in grants /\ desk[c].seen \in 1..Newest
  BY <1>0 DEF Granting
<1>3. CredsMove /\ Superseded' /\ IssuedAlone' /\ Newest' = Newest /\ DOMAIN creds' = DOMAIN creds /\ Gone(desk[c].seen)'
  <2>1. CredsMove /\ Superseded' /\ IssuedAlone' /\ Newest' = Newest /\ DOMAIN creds' = DOMAIN creds /\ desk[c].seen \notin Active'
    BY <1>0, <1>2, RevokedMoves
  <2>2. desk'[c].seen \notin Active'
    BY <1>1, <2>1
  <2> QED BY <1>0, <1>1, <1>2, <2>1, <2>2 DEF Gone
<1>4. Linked(c)'
  BY <1>0, <1>1 DEF Linked
<1>5. Sealing(c)'
  BY <1>1 DEF Sealing
<1>6. Granting(c)'
  BY <1>0, <1>1, <1>2, <1>3 DEF Granting
<1>7. Reviewed'
  BY <1>0, <1>1, ReviewRests DEF Deciding
<1> QED BY <1>0, <1>1, <1>3, <1>4, <1>5, <1>6, <1>7, OthersRest DEF DecisionInv

LEMMA ResolutionKeeps ==
    ASSUME DecisionInv, DecisionTypeOK', NEW c \in Desk, RecordResolution(c)
    PROVE  DecisionInv'
<1>0. /\ desk \in [Desk -> DeskRows] /\ grants \subseteq Desk /\ Linked(c) /\ Granting(c) /\ Reviewed /\ desk[c].pc = "resolve"
      /\ UNCHANGED <<creds, grants, atOnce>> /\ desk' = [desk EXCEPT ![c].pc = "status"]
  BY DEF DecisionInv, DecisionTypeOK, DeskRows, RecordResolution
<1>1. /\ desk'[c].pc = "status" /\ desk'[c].outcome = desk[c].outcome /\ desk'[c].old = desk[c].old /\ desk'[c].seen = desk[c].seen
      /\ \A d \in Desk \ {c} : desk'[d] = desk[d]
  BY <1>0 DEF DeskRows
<1>2. dispute'.outcome = desk[c].outcome /\ dispute'.told = (IF c \in grants THEN c ELSE NoGrant)
  BY DEF RecordResolution, DecisionInv, DecisionTypeOK
<1>3. UNCHANGED <<Newest, Active>>
  BY <1>0, CredsRest
<1>4. Linked(c)'
  BY <1>0, <1>1 DEF Linked
<1>5. Sealing(c)'
  BY <1>1 DEF Sealing
<1>6. Granting(c)'
  <2>1. c = dispute'.told => c \in grants
    BY <1>2, DecisionAssumption
  <2> QED BY <1>0, <1>1, <1>3, <2>1 DEF Granting, Gone
<1>7. Reviewed'
  <2>1. desk[c].pc \in Deciding /\ desk'[c].pc \notin Deciding
    BY <1>0, <1>1 DEF Deciding
  <2>2. ~atOnce => dispute.told = NoGrant /\ \A d \in Desk \ {c} : desk[d].pc \notin Deciding
    BY <1>0, <2>1 DEF Reviewed
  <2>3. \A d \in grants : d = dispute'.told \/ desk'[d].pc \in Deciding \cup {"broken"} \/ atOnce'
    <3> SUFFICES ASSUME NEW d \in grants, ~atOnce, d # c PROVE desk[d].pc \in Deciding \cup {"broken"}
      BY <1>0, <1>1, <1>2
    <3>1. d # NoGrant
      BY <1>0, DecisionAssumption
    <3> QED BY <1>0, <2>2, <3>1 DEF Reviewed
  <2>4. ~atOnce' => \A d \in Desk : desk'[d].pc \notin Deciding
    BY <1>0, <1>1, <2>1, <2>2
  <2>5. dispute'.outcome = Invalid => dispute'.told # NoGrant
    BY <1>0, <1>2, DecisionAssumption DEF Granting
  <2>6. dispute'.told # NoGrant => dispute'.outcome # "none"
    BY <1>0, <1>2 DEF Granting, Invalid
  <2> QED BY <1>0, <2>3, <2>4, <2>5, <2>6 DEF Reviewed
<1> QED BY <1>0, <1>1, <1>2, <1>4, <1>5, <1>6, <1>7, DeskMoves

LEMMA StatusKeeps ==
    ASSUME DecisionInv, DecisionTypeOK', NEW c \in Desk, RecordStatus(c)
    PROVE  DecisionInv'
<1>0. /\ desk \in [Desk -> DeskRows] /\ grants \subseteq Desk /\ Linked(c) /\ Granting(c) /\ desk[c].pc = "status"
      /\ UNCHANGED <<creds, grants, atOnce>> /\ desk' = [desk EXCEPT ![c].pc = "done"]
      /\ dispute'.told = dispute.told /\ dispute'.outcome = dispute.outcome
  BY DEF DecisionInv, DecisionTypeOK, DeskRows, RecordStatus
<1>1. /\ desk'[c].pc = "done" /\ desk'[c].outcome = desk[c].outcome /\ desk'[c].old = desk[c].old /\ desk'[c].seen = desk[c].seen
      /\ \A d \in Desk \ {c} : desk'[d] = desk[d]
  BY <1>0 DEF DeskRows
<1>2. UNCHANGED <<Newest, Active>>
  BY <1>0, CredsRest
<1>3. Linked(c)'
  BY <1>0, <1>1 DEF Linked
<1>4. Sealing(c)'
  BY <1>1 DEF Sealing
<1>5. Granting(c)'
  BY <1>0, <1>1, <1>2 DEF Granting, Gone
<1>6. Reviewed'
  BY <1>0, <1>1, ReviewRests DEF Deciding
<1> QED BY <1>0, <1>1, <1>3, <1>4, <1>5, <1>6, DeskMoves

LEMMA BreakKeeps ==
    ASSUME DecisionInv, DecisionTypeOK', NEW c \in Desk, DeskBreaks(c)
    PROVE  DecisionInv'
<1>0. /\ desk \in [Desk -> DeskRows] /\ grants \subseteq Desk /\ Linked(c) /\ Granting(c)
      /\ desk[c].pc \notin {"idle", "done", "refused", "broken"}
      /\ UNCHANGED <<creds, dispute, grants, atOnce>>
  BY DEF DecisionInv, DecisionTypeOK, DeskRows, DeskBreaks
<1> DEFINE row == [[desk[c] EXCEPT !.pc = "broken"] EXCEPT !.alone = FALSE]
<1>1. /\ desk'[c].pc = "broken" /\ desk'[c].outcome = desk[c].outcome /\ desk'[c].old = desk[c].old /\ desk'[c].seen = desk[c].seen
      /\ \A d \in Desk \ {c} : desk'[d] = desk[d]
  <2>1. desk' = [desk EXCEPT ![c] = row]
    BY <1>0 DEF DeskBreaks
  <2>2. row.pc = "broken" /\ row.seen = desk[c].seen /\ row.outcome = desk[c].outcome /\ row.old = desk[c].old
    BY <1>0 DEF DeskRows
  <2> HIDE DEF row
  <2> QED BY <1>0, <2>1, <2>2
<1>2. UNCHANGED <<Newest, Active>>
  BY <1>0, CredsRest
<1>3. Linked(c)'
  BY <1>0, <1>1 DEF Linked
<1>4. Sealing(c)'
  BY <1>1 DEF Sealing
<1>5. Granting(c)'
  BY <1>0, <1>1, <1>2 DEF Granting, Gone
<1>6. Reviewed'
  BY <1>0, <1>1, ReviewRests DEF Deciding
<1> QED BY <1>0, <1>1, <1>3, <1>4, <1>5, <1>6, DeskMoves

LEMMA DecisionTypes == DecisionInv /\ [DecisionNext]_decisionVars => DecisionTypeOK'
<1> SUFFICES ASSUME DecisionInv, [DecisionNext]_decisionVars PROVE DecisionTypeOK'
  OBVIOUS
<1>t. DecisionTypeOK
  BY DEF DecisionInv
<1>0. /\ desk \in [Desk -> DeskRows] /\ creds \in Seq(Credential) /\ Newest \in Nat /\ DOMAIN creds = 1..Newest /\ Newest = Len(creds)
      /\ dispute \in [status : DisputeStates, outcome : Decisions \cup {"none"}, told : Desk \cup {NoGrant}]
      /\ grants \subseteq Desk /\ atOnce \in BOOLEAN
  BY <1>t, CredsKnown DEF DecisionTypeOK, DeskRows, Newest
<1>1. CASE UNCHANGED decisionVars
  BY <1>t, <1>1 DEF decisionVars, DecisionTypeOK
<1>2. \A pc \in {"seal", "refused", "retire", "done", "create", "grant", "status", "resolve", "look", "revoke", "broken"} : pc \in DeskSteps
  BY DEF DeskSteps, Deciding
<1>3. ASSUME NEW c \in Desk, NEW row \in DeskRows, desk' = [desk EXCEPT ![c] = row], creds' \in Seq(Credential),
             dispute' \in [status : DisputeStates, outcome : Decisions \cup {"none"}, told : Desk \cup {NoGrant}],
             grants' \subseteq Desk, atOnce' \in BOOLEAN
      PROVE  DecisionTypeOK'
  BY <1>0, <1>3 DEF DecisionTypeOK, DeskRows
<1>4. ASSUME NEW i \in 1..Newest PROVE Revoked(i) \in Seq(Credential)
  <2> DEFINE cred == [creds[i] EXCEPT !.status = IF @ = "active" THEN "revoked" ELSE @]
  <2>1. creds[i] \in Credential
    BY <1>t, CredsKnown
  <2>2. cred \in Credential
    BY <2>1 DEF Credential
  <2>3. Revoked(i) = [creds EXCEPT ![i] = cred]
    BY <1>0 DEF Revoked
  <2> HIDE DEF cred
  <2> QED BY <1>0, <2>2, <2>3, ExceptSeq
<1>5. ASSUME NEW i \in DOMAIN creds, RevokeCredential(i) PROVE DecisionTypeOK'
  BY <1>t, <1>0, <1>4, <1>5 DEF RevokeCredential, DecisionTypeOK
<1>6. ASSUME NEW c \in Desk, AskIssue(c) PROVE DecisionTypeOK'
  <2> DEFINE row == IF Active # {} THEN [desk[c] EXCEPT !.pc = "refused"] ELSE [[[desk[c] EXCEPT !.pc = "seal"] EXCEPT !.alone = TRUE] EXCEPT !.seen = Newest]
  <2>1. desk' = [desk EXCEPT ![c] = row] /\ UNCHANGED <<creds, dispute, grants, atOnce>>
    BY <1>0, <1>6 DEF AskIssue
  <2>2. row \in DeskRows
    BY <1>0, <1>2, DeskFields
  <2> HIDE DEF row
  <2> QED BY <1>0, <1>3, <2>1, <2>2
<1>7. ASSUME NEW c \in Desk, AskMint(c) \/ AskReview(c) \/ CreateDispute(c) \/ GrantReassessment(c) \/ RevokeSeen(c) \/ RecordResolution(c) \/ RecordStatus(c)
      PROVE  DecisionTypeOK'
  <2>1. PICK pc \in DeskSteps : desk' = [desk EXCEPT ![c].pc = pc]
    BY <1>2, <1>7 DEF AskMint, AskReview, CreateDispute, GrantReassessment, RevokeSeen, RecordResolution, RecordStatus
  <2>2. desk' \in [Desk -> DeskRows]
    <3> DEFINE row == [desk[c] EXCEPT !.pc = pc]
    <3>1. desk' = [desk EXCEPT ![c] = row]
      BY <2>1
    <3>2. desk[c] \in DeskRows
      BY <1>0
    <3>3. row \in DeskRows
      BY <3>2 DEF DeskRows
    <3> HIDE DEF row
    <3> QED BY <1>0, <3>1, <3>3
  <2>3. grants' \subseteq Desk /\ atOnce' \in BOOLEAN
    BY <1>0, <1>7 DEF AskMint, AskReview, CreateDispute, GrantReassessment, RevokeSeen, RecordResolution, RecordStatus
  <2>4. creds' \in Seq(Credential)
    <3>1. CASE RevokeSeen(c)
      <4>1. creds' = Revoked(desk[c].seen)
        BY <3>1 DEF RevokeSeen
      <4>2. desk[c].seen \in 1..Newest
        BY <3>1 DEF DecisionInv, Granting, RevokeSeen
      <4> QED BY <1>4, <4>1, <4>2
    <3> QED BY <1>0, <1>7, <3>1 DEF AskMint, AskReview, CreateDispute, GrantReassessment, RecordResolution, RecordStatus
  <2>5. dispute' \in [status : DisputeStates, outcome : Decisions \cup {"none"}, told : Desk \cup {NoGrant}]
    <3>1. CASE RecordResolution(c)
      <4>1. desk[c].outcome \in Decisions \cup {"none"}
        BY <1>0 DEF DeskRows
      <4> QED BY <1>0, <3>1, <4>1 DEF RecordResolution
    <3>2. CASE RecordStatus(c) \/ CreateDispute(c)
      BY <1>0, <3>2 DEF RecordStatus, CreateDispute, DisputeStates
    <3> QED BY <1>0, <1>7, <3>1, <3>2 DEF AskMint, AskReview, GrantReassessment, RevokeSeen
  <2> QED BY <2>2, <2>3, <2>4, <2>5 DEF DecisionTypeOK, DeskRows
<1>8. ASSUME NEW c \in Desk, NEW old \in DOMAIN creds, AskReissue(c, old) PROVE DecisionTypeOK'
  <2> DEFINE row == [[desk[c] EXCEPT !.pc = "seal"] EXCEPT !.old = old]
  <2>1. desk' = [desk EXCEPT ![c] = row] /\ UNCHANGED <<creds, dispute, grants, atOnce>>
    BY <1>0, <1>8 DEF AskReissue
  <2>2. row \in DeskRows
    <3>1. "seal" \in DeskSteps /\ old \in Nat
      BY <1>0, <1>2
    <3>2. [desk[c] EXCEPT !.pc = "seal"] \in DeskRows
      BY <1>0, <3>1, DeskFields
    <3> QED BY <3>1, <3>2, DeskFields
  <2> HIDE DEF row
  <2> QED BY <1>0, <1>3, <2>1, <2>2
<1>9. ASSUME NEW c \in Desk, InsertCredential(c) PROVE DecisionTypeOK'
  <2> DEFINE cred == [status |-> "active", of |-> desk[c].old, by |-> 0, alone |-> desk[c].alone, after |-> desk[c].seen]
             row == IF desk[c].old = 0 THEN [IdleDesk EXCEPT !.pc = "done"] ELSE [[desk[c] EXCEPT !.pc = "retire"] EXCEPT !.seen = Newest + 1]
  <2>1. desk' = [desk EXCEPT ![c] = row] /\ creds' = Append(creds, cred) /\ UNCHANGED <<dispute, grants, atOnce>>
    BY <1>0, <1>9 DEF InsertCredential
  <2>2. cred \in Credential
    BY <1>0 DEF Credential, DeskRows
  <2>3. row \in DeskRows
    <3>1. [IdleDesk EXCEPT !.pc = "done"] \in DeskRows
      BY <1>2 DEF IdleDesk, DeskRows
    <3>2. [[desk[c] EXCEPT !.pc = "retire"] EXCEPT !.seen = Newest + 1] \in DeskRows
      <4>1. "retire" \in DeskSteps /\ Newest + 1 \in Nat
        BY <1>0, <1>2
      <4>2. [desk[c] EXCEPT !.pc = "retire"] \in DeskRows
        BY <1>0, <4>1, DeskFields
      <4> QED BY <4>1, <4>2, DeskFields
    <3> QED BY <3>1, <3>2
  <2> HIDE DEF row, cred
  <2>4. creds' \in Seq(Credential)
    BY <1>0, <2>1, <2>2, AppendProperties
  <2> QED BY <1>0, <1>3, <2>1, <2>3, <2>4
<1>10. ASSUME NEW c \in Desk, RetireOld(c) PROVE DecisionTypeOK'
  <2> DEFINE old == desk[c].old
             cred == [[creds[old] EXCEPT !.status = "superseded"] EXCEPT !.by = desk[c].seen]
             row == [[desk[c] EXCEPT !.pc = "done"] EXCEPT !.seen = 0]
  <2>1. old \in 1..Newest /\ creds[old] \in Credential /\ desk[c].seen \in Nat
    BY <1>t, <1>0, <1>10, CredsKnown DEF DecisionInv, Linked, RetireOld, DeskRows
  <2>2. desk' = [desk EXCEPT ![c] = row] /\ creds' = [creds EXCEPT ![old] = cred] /\ UNCHANGED <<dispute, grants, atOnce>>
    BY <1>0, <1>10, <2>1 DEF RetireOld
  <2>3. cred \in Credential
    BY <2>1 DEF Credential
  <2>4. row \in DeskRows
    BY <1>0, <1>2, DeskFields
  <2> HIDE DEF row, cred, old
  <2>5. creds' \in Seq(Credential)
    BY <1>0, <2>1, <2>2, <2>3, ExceptSeq
  <2> QED BY <1>0, <1>3, <2>2, <2>4, <2>5
<1>11. ASSUME NEW c \in Desk, NEW o \in Decisions, DecideReview(c, o) PROVE DecisionTypeOK'
  <2> DEFINE pc == IF dispute.outcome # "none" THEN "refused"
                   ELSE IF o = "invalidated_reassessment" THEN "grant"
                   ELSE IF o = "second_review" THEN "status" ELSE "resolve"
             row == [[desk[c] EXCEPT !.outcome = o] EXCEPT !.pc = pc]
  <2>1. desk' = [desk EXCEPT ![c] = row] /\ UNCHANGED <<creds, dispute, grants>> /\ atOnce' \in BOOLEAN
    BY <1>0, <1>11 DEF DecideReview
  <2>2. pc \in DeskSteps
    BY <1>2
  <2> HIDE DEF pc
  <2>3. row \in DeskRows
    BY <1>0, <2>2, DeskFields
  <2> HIDE DEF row
  <2> QED BY <1>0, <1>3, <2>1, <2>3
<1>12. ASSUME NEW c \in Desk, LookUp(c) PROVE DecisionTypeOK'
  <2>1. PICK seen \in {Newest, 0} :
          desk' = [desk EXCEPT ![c].seen = seen, ![c].pc = IF seen \in Active THEN "revoke" ELSE "resolve"]
    BY <1>12 DEF LookUp
  <2> DEFINE pc == IF seen \in Active THEN "revoke" ELSE "resolve"
             row == [[desk[c] EXCEPT !.seen = seen] EXCEPT !.pc = pc]
  <2>2. desk' = [desk EXCEPT ![c] = row]
    BY <1>0, <2>1
  <2>3. seen \in Nat /\ pc \in DeskSteps
    <3>1. "revoke" \in DeskSteps /\ "resolve" \in DeskSteps
      BY <1>2
    <3>2. pc \in DeskSteps
      BY <3>1
    <3>3. seen \in Nat
      <4> HIDE DEF pc
      <4> QED BY <1>0, <2>1
    <3> QED BY <3>2, <3>3
  <2> HIDE DEF pc
  <2>4. row \in DeskRows
    BY <1>0, <2>3, DeskFields
  <2> HIDE DEF row
  <2> QED BY <1>0, <1>3, <1>12, <2>2, <2>4 DEF LookUp
<1>13. ASSUME NEW c \in Desk, DeskBreaks(c) PROVE DecisionTypeOK'
  <2> DEFINE row == [[desk[c] EXCEPT !.pc = "broken"] EXCEPT !.alone = FALSE]
  <2>1. desk' = [desk EXCEPT ![c] = row] /\ UNCHANGED <<creds, dispute, grants, atOnce>>
    BY <1>0, <1>13 DEF DeskBreaks
  <2>2. row \in DeskRows
    BY <1>0, <1>2, DeskFields
  <2> HIDE DEF row
  <2> QED BY <1>0, <1>3, <2>1, <2>2
<1> QED BY <1>1, <1>5, <1>6, <1>7, <1>8, <1>9, <1>10, <1>11, <1>12, <1>13 DEF DecisionNext

LEMMA DecisionStep == DecisionInv /\ [DecisionNext]_decisionVars => DecisionInv'
<1> SUFFICES ASSUME DecisionInv, [DecisionNext]_decisionVars PROVE DecisionInv'
  OBVIOUS
<1>0. DecisionTypeOK'
  BY DecisionTypes
<1>1. CASE UNCHANGED decisionVars
  <2>1. CredsMove /\ Superseded' /\ IssuedAlone'
    BY <1>1, CredsRest DEF decisionVars
  <2> QED BY <1>0, <1>1, <2>1, AllRest DEF decisionVars
<1>2. CASE DecisionNext
  BY <1>0, <1>2, RevokeCredentialKeeps, DeskAsksKeep, InsertKeeps, RetireKeeps, DecideKeeps, GrantKeeps, LookUpKeeps,
     RevokeSeenKeeps, ResolutionKeeps, StatusKeeps, BreakKeeps DEF DecisionNext
<1> QED BY <1>1, <1>2

\* The chain of reissues is linked, the console's credentials stand alone but for
\* races, an invalidation shows on the credential its decision saw, and the candidate
\* is told of every reassessment that one decision gave.
THEOREM DecisionsAreSound == DecisionSpec => []DecisionSound
<1>1. DecisionInv => DecisionSound
  <2> SUFFICES ASSUME DecisionInv PROVE DecisionSound
    OBVIOUS
  <2>1. ChainIsLinked
    BY DEF DecisionInv, Superseded, Linked, ChainIsLinked
  <2>2. InvalidationShows /\ GrantIsTold
    <3>1. dispute.told \in Desk \cup {NoGrant} /\ grants \subseteq Desk
      BY DEF DecisionInv, DecisionTypeOK
    <3>2. dispute.told # NoGrant => dispute.told \in grants /\ desk[dispute.told].seen \notin Active
      BY <3>1 DEF DecisionInv, Granting, Gone
    <3> QED BY <3>1, <3>2 DEF DecisionInv, Reviewed, InvalidationShows, GrantIsTold, Invalid
  <2> QED BY <2>1, <2>2 DEF DecisionSound, DecisionInv
<1> QED BY <1>1, DecisionStarts, DecisionStep, PTL DEF DecisionSpec

-----------------------------------------------------------------------------
(* An erasure under legal holds *)

EraseRows == [pc : EraseSteps, by : 0..MaxAllowed, listed : SUBSET Files, todo : SUBSET Files, known : BOOLEAN, blind : BOOLEAN]

\* A row stays one when its fields are assigned.
LEMMA RowFields ==
    ASSUME NEW row \in EraseRows
    PROVE  /\ \A pc \in EraseSteps : [row EXCEPT !.pc = pc] \in EraseRows
           /\ \A by \in 0..MaxAllowed : [row EXCEPT !.by = by] \in EraseRows
           /\ \A listed \in SUBSET Files : [row EXCEPT !.listed = listed] \in EraseRows
           /\ \A todo \in SUBSET Files : [row EXCEPT !.todo = todo] \in EraseRows
           /\ \A known \in BOOLEAN : [row EXCEPT !.known = known] \in EraseRows
           /\ \A blind \in BOOLEAN : [row EXCEPT !.blind = blind] \in EraseRows
<1>1. \A pc \in EraseSteps : [row EXCEPT !.pc = pc] \in EraseRows
  BY DEF EraseRows
<1>2. \A by \in 0..MaxAllowed : [row EXCEPT !.by = by] \in EraseRows
  BY DEF EraseRows
<1>3. \A listed \in SUBSET Files : [row EXCEPT !.listed = listed] \in EraseRows
  BY DEF EraseRows
<1>4. \A todo \in SUBSET Files : [row EXCEPT !.todo = todo] \in EraseRows
  BY DEF EraseRows
<1>5. \A known \in BOOLEAN : [row EXCEPT !.known = known] \in EraseRows
  BY DEF EraseRows
<1>6. \A blind \in BOOLEAN : [row EXCEPT !.blind = blind] \in EraseRows
  BY DEF EraseRows
<1> QED BY <1>1, <1>2, <1>3, <1>4, <1>5, <1>6

LEMMA IdleIsRow == IdleErasure \in EraseRows
BY ErasureAssumption DEF IdleErasure, EraseRows, EraseSteps, Executing, Working

\* What the candidate and the scoring do with a session that was begun.
CandidateStep(s) ==
    Message(s) \/ Event(s) \/ FindOwner(s) \/ StoreReport(s) \/ ScoringFails(s)

LEMMA ErasureTypes == ErasureTypeOK /\ [ErasureNext]_erasureVars => ErasureTypeOK'
<1> SUFFICES ASSUME ErasureTypeOK, [ErasureNext]_erasureVars PROVE ErasureTypeOK'
  OBVIOUS
<1> USE ErasureAssumption DEF ErasureTypeOK
<1>1. CASE UNCHANGED erasureVars
  BY <1>1 DEF erasureVars
<1>2. CASE RejectRequest
  BY <1>2 DEF RejectRequest
<1>3. ASSUME NEW on \in Files \cup {Whole}, PlaceHold(on) PROVE ErasureTypeOK'
  BY <1>3 DEF PlaceHold
<1>4. ASSUME NEW h \in holds, ReleaseHold(h) PROVE ErasureTypeOK'
  BY <1>4 DEF ReleaseHold
<1>5. ASSUME NEW s \in Files, BeginFile(s) PROVE ErasureTypeOK'
  BY <1>5 DEF BeginFile
<1>6. ASSUME NEW s \in Files, CandidateStep(s) PROVE ErasureTypeOK'
  <2>1. CASE Writes(s)
    BY <2>1 DEF Writes
  <2>2. CASE FindOwner(s) \/ ScoringFails(s)
    BY <2>2 DEF FindOwner, ScoringFails
  <2>3. CASE StoreReport(s)
    BY <2>1, <2>3 DEF StoreReport
  <2> QED BY <1>6, <2>1, <2>2, <2>3 DEF CandidateStep, Message, Event
<1>7. ASSUME NEW c \in Erasers, erase' \in [Erasers -> EraseRows],
             AskPlan(c) \/ WritePlan(c) \/ AskExecute(c) \/ PickAllowed(c) \/ TakeAllowed(c) \/ MarkExecuting(c) \/ ListFiles(c)
             \/ LookForHolds(c) \/ Yield(c) \/ (\E s \in Files : WipeFile(c, s)) \/ DropAccount(c) \/ CompleteErasure(c) \/ EraseBreaks(c)
      PROVE  ErasureTypeOK'
  <2> USE DEF AskPlan, WritePlan, AskExecute, PickAllowed, TakeAllowed, MarkExecuting, ListFiles, LookForHolds, Yield,
              WipeFile, DropAccount, CompleteErasure, EraseBreaks
  <2>1. UNCHANGED <<scope, holds, placed, owned>>
    BY <1>7
  <2>2. /\ standing' \in {standing, "awaiting_approval", "executing", "completed"} /\ allowed' \subseteq allowed
        /\ account' \in {account, FALSE}
    BY <1>7
  <2>3. store' \in [Files -> {"unborn", "open", "scored", "stray", "gone"}] /\ spared' \subseteq Files
    BY <1>7
  <2> QED BY <1>7, <2>1, <2>2, <2>3 DEF EraseRows
<1>8. erase \in [Erasers -> EraseRows]
  BY DEF EraseRows
<1>9. ASSUME NEW c \in Erasers, NEW pc \in EraseSteps, erase' = [erase EXCEPT ![c].pc = pc] PROVE erase' \in [Erasers -> EraseRows]
  BY <1>8, <1>9 DEF EraseRows
<1>10. \A pc \in {"refused", "plan", "pick", "take", "mark", "list", "look", "yield", "wipe", "account", "complete", "done", "broken"} : pc \in EraseSteps
  BY DEF EraseSteps, Executing, Working
<1>11. ASSUME NEW c \in Erasers, AskPlan(c) \/ WritePlan(c) \/ AskExecute(c) \/ MarkExecuting(c) \/ DropAccount(c) PROVE ErasureTypeOK'
  <2>1. \E pc \in EraseSteps : erase' = [erase EXCEPT ![c].pc = pc]
    BY <1>10, <1>11 DEF AskPlan, WritePlan, AskExecute, MarkExecuting, DropAccount
  <2>2. erase' \in [Erasers -> EraseRows]
    BY <1>9, <2>1
  <2> QED BY <1>7, <1>11, <2>2
<1>12. ASSUME NEW c \in Erasers, PickAllowed(c) PROVE ErasureTypeOK'
  <2> DEFINE first == Min(allowed)
  <2>1. allowed # {} => first \in 0..MaxAllowed
    <3>1. allowed \in SUBSET Nat /\ allowed \subseteq 0..MaxAllowed
      OBVIOUS
    <3>2. allowed # {} => first \in allowed
      BY <3>1, SmallestIsMember
    <3> HIDE DEF first
    <3> QED BY <3>1, <3>2
  <2>2. erase' = [erase EXCEPT ![c] = IF allowed = {} THEN [@ EXCEPT !.pc = "refused"] ELSE [@ EXCEPT !.pc = "take", !.by = first]]
    BY <1>12 DEF PickAllowed
  <2> HIDE DEF first
  <2>3. CASE allowed = {}
    <3>1. erase' = [erase EXCEPT ![c] = [erase[c] EXCEPT !.pc = "refused"]] /\ [erase[c] EXCEPT !.pc = "refused"] \in EraseRows
      BY <1>8, <1>10, <2>2, <2>3, RowFields
    <3> QED BY <1>7, <1>8, <1>12, <3>1
  <2>4. CASE allowed # {}
    <3> DEFINE row == [[erase[c] EXCEPT !.pc = "take"] EXCEPT !.by = first]
    <3>1. erase' = [erase EXCEPT ![c] = row]
      BY <2>2, <2>4
    <3>2. row \in EraseRows
      BY <1>8, <1>10, <2>1, <2>4, RowFields
    <3> HIDE DEF row
    <3> QED BY <1>7, <1>8, <1>12, <3>1, <3>2
  <2> QED BY <2>3, <2>4
<1>13. ASSUME NEW c \in Erasers, TakeAllowed(c) PROVE ErasureTypeOK'
  <2> DEFINE row == [[erase[c] EXCEPT !.pc = "mark"] EXCEPT !.by = 0]
  <2>1. erase' = [erase EXCEPT ![c] = row]
    BY <1>8, <1>13 DEF TakeAllowed
  <2>2. row \in EraseRows
    <3>1. 0 \in 0..MaxAllowed /\ "mark" \in EraseSteps
      BY <1>10
    <3>2. [erase[c] EXCEPT !.pc = "mark"] \in EraseRows
      BY <1>8, <3>1, RowFields
    <3> QED BY <3>1, <3>2, RowFields
  <2> HIDE DEF row
  <2> QED BY <1>7, <1>8, <1>13, <2>1, <2>2
<1>14. ASSUME NEW c \in Erasers, ListFiles(c) PROVE ErasureTypeOK'
  <2> DEFINE listed == IF scope # Whole THEN {scope} ELSE IF account THEN {s \in Files : store[s] \in {"open", "scored"}} ELSE {}
  <2>1. listed \in SUBSET Files
    OBVIOUS
  <2>2. \E known \in BOOLEAN :
          erase' = [erase EXCEPT ![c] = [@ EXCEPT !.pc = "look", !.listed = listed, !.todo = listed, !.known = known]]
    <3> HIDE DEF listed
    <3> QED BY <1>14 DEF ListFiles, listed
  <2> HIDE DEF listed
  <2>3. PICK known \in BOOLEAN :
          erase' = [erase EXCEPT ![c] = [@ EXCEPT !.pc = "look", !.listed = listed, !.todo = listed, !.known = known]]
    BY <2>2
  <2> DEFINE row == [[[[erase[c] EXCEPT !.pc = "look"] EXCEPT !.listed = listed] EXCEPT !.todo = listed] EXCEPT !.known = known]
  <2>4. erase' = [erase EXCEPT ![c] = row]
    BY <2>3
  <2>5. row \in EraseRows
    BY <1>8, <1>10, <2>1, RowFields
  <2> HIDE DEF row
  <2> QED BY <1>7, <1>8, <1>14, <2>4, <2>5
<1>15. ASSUME NEW c \in Erasers, LookForHolds(c) PROVE ErasureTypeOK'
  <2>1. PICK blind \in BOOLEAN, pc \in EraseSteps : erase' = [erase EXCEPT ![c].blind = blind, ![c].pc = pc]
    BY <1>10, <1>15 DEF LookForHolds, AfterFiles
  <2> DEFINE row == [[erase[c] EXCEPT !.blind = blind] EXCEPT !.pc = pc]
  <2>2. erase' = [erase EXCEPT ![c] = row]
    BY <1>8, <2>1
  <2>3. row \in EraseRows
    BY <1>8, RowFields
  <2> HIDE DEF row
  <2> QED BY <1>7, <1>8, <1>15, <2>2, <2>3
<1>16. ASSUME NEW c \in Erasers, NEW s \in Files, WipeFile(c, s) PROVE ErasureTypeOK'
  <2> DEFINE todo == erase[c].todo \ {s}
  <2>1. PICK pc \in EraseSteps : erase' = [erase EXCEPT ![c].pc = pc, ![c].todo = todo]
    BY <1>10, <1>16 DEF WipeFile, AfterFiles
  <2>2. todo \in SUBSET Files
    BY <1>8 DEF EraseRows
  <2> HIDE DEF todo
  <2> DEFINE row == [[erase[c] EXCEPT !.pc = pc] EXCEPT !.todo = todo]
  <2>3. erase' = [erase EXCEPT ![c] = row]
    BY <1>8, <2>1
  <2>4. row \in EraseRows
    BY <1>8, <2>2, RowFields
  <2> HIDE DEF row
  <2> QED BY <1>7, <1>8, <1>16, <2>3, <2>4
<1>17. ASSUME NEW c \in Erasers, Yield(c) \/ EraseBreaks(c) \/ CompleteErasure(c) PROVE ErasureTypeOK'
  <2>1. \A pc \in EraseSteps : [IdleErasure EXCEPT !.pc = pc] \in EraseRows /\ [IdleErasure EXCEPT !.pc = pc, !.listed = erase[c].listed] \in EraseRows
    <3>1. erase[c].listed \in SUBSET Files
      BY <1>8 DEF EraseRows
    <3> QED BY <3>1, IdleIsRow, RowFields
  <2>2. CASE CompleteErasure(c)
    BY <1>7, <1>8, <1>10, <2>1, <2>2 DEF CompleteErasure
  <2>3. CASE Yield(c)
    BY <1>7, <1>8, <1>10, <2>1, <2>3 DEF Yield
  <2>4. CASE EraseBreaks(c)
    BY <1>7, <1>8, <1>10, <2>1, <2>4 DEF EraseBreaks
  <2> QED BY <1>17, <2>2, <2>3, <2>4
<1> QED BY <1>1, <1>2, <1>3, <1>4, <1>5, <1>6, <1>11, <1>12, <1>13, <1>14, <1>15, <1>16, <1>17 DEF ErasureNext, CandidateStep

\* Nothing is left of a session but what was written since its last wipe or left by its sweep.
GoneOrSpared(s) == s \in spared \/ store[s] = "gone"

\* What an execution has been through is gone, and it ends with nothing left to do.
Wiped(c) ==
    /\ erase[c].pc \in {"wipe", "account", "complete", "done"} =>
         \A s \in erase[c].listed \ erase[c].todo : GoneOrSpared(s)
    /\ erase[c].pc \in {"account", "complete", "done"} => erase[c].todo = {}
    /\ erase[c].pc = "look" => erase[c].todo = erase[c].listed

ErasureInv ==
    /\ ErasureTypeOK
    /\ \A c \in Erasers : Wiped(c)
    /\ HoldsAreHeeded
    /\ ExecutingIsRunning

LEMMA ErasureStarts == ErasureInit => ErasureInv
BY ErasureAssumption
   DEF ErasureInit, ErasureInv, ErasureTypeOK, IdleErasure, EraseSteps, Executing, Working, Wiped, GoneOrSpared, HoldsAreHeeded, ExecutingIsRunning

LEMMA EraseCalm ==
    ASSUME ErasureInv, ErasureTypeOK', UNCHANGED <<scope, store, erase, spared>>, holds' \subseteq holds,
           standing' # "executing" \/ standing' = standing
    PROVE  ErasureInv'
BY DEF ErasureInv, Wiped, GoneOrSpared, HoldsAreHeeded, ExecutingIsRunning, Covers

\* Steps around the request.
LEMMA AroundKeeps ==
    ASSUME ErasureInv, ErasureTypeOK',
           \/ RejectRequest
           \/ \E on \in Files \cup {Whole} : PlaceHold(on)
           \/ \E h \in holds : ReleaseHold(h)
           \/ \E s \in Files : BeginFile(s) \/ CandidateStep(s)
    PROVE  ErasureInv'
<1>1. CASE RejectRequest
  BY <1>1, EraseCalm DEF RejectRequest
<1>2. ASSUME NEW on \in Files \cup {Whole}, PlaceHold(on) PROVE ErasureInv'
  <2>1. /\ holds' = holds \cup {[on |-> on, after |-> {c \in Erasers : erase[c].pc \in Working}]}
        /\ UNCHANGED <<scope, standing, store, erase, spared>>
    BY <1>2 DEF PlaceHold
  <2>2. ExecutingIsRunning' /\ \A c \in Erasers : Wiped(c)'
    BY <2>1 DEF ErasureInv, ExecutingIsRunning, Wiped, GoneOrSpared
  <2>3. HoldsAreHeeded'
    BY <2>1 DEF ErasureInv, HoldsAreHeeded, Covers
  <2> QED BY <2>2, <2>3 DEF ErasureInv
<1>3. ASSUME NEW h \in holds, ReleaseHold(h) PROVE ErasureInv'
  BY <1>3, EraseCalm DEF ReleaseHold
<1>4. ASSUME NEW s \in Files, BeginFile(s) \/ CandidateStep(s) PROVE ErasureInv'
  <2>1. /\ spared \subseteq spared' /\ (store'[s] # store[s] /\ store[s] = "gone" => s \in spared')
        /\ \A t \in Files \ {s} : store'[t] = store[t]
        /\ UNCHANGED <<scope, standing, holds, erase>>
    <3>1. store \in [Files -> {"unborn", "open", "scored", "stray", "gone"}]
      BY DEF ErasureInv, ErasureTypeOK
    <3>2. CASE BeginFile(s) \/ FindOwner(s) \/ ScoringFails(s)
      BY <3>1, <3>2 DEF BeginFile, FindOwner, ScoringFails
    <3>3. CASE Writes(s)
      BY <3>1, <3>3 DEF Writes
    <3>4. CASE StoreReport(s)
      BY <3>1, <3>3, <3>4 DEF StoreReport
    <3> QED BY <1>4, <3>2, <3>3, <3>4 DEF CandidateStep, Message, Event
  <2>4. \A t \in Files : GoneOrSpared(t) => GoneOrSpared(t)'
    BY <2>1 DEF GoneOrSpared
  <2>5. \A c \in Erasers : erase[c].listed \subseteq Files
    BY DEF ErasureInv, ErasureTypeOK
  <2>2. \A c \in Erasers : Wiped(c)'
    BY <2>1, <2>4, <2>5 DEF ErasureInv, Wiped
  <2>3. HoldsAreHeeded' /\ ExecutingIsRunning'
    BY <2>1 DEF ErasureInv, HoldsAreHeeded, ExecutingIsRunning, Covers
  <2> QED BY <2>2, <2>3 DEF ErasureInv
<1> QED BY <1>1, <1>2, <1>3, <1>4

\* A request's own step: the others rest, and it keeps its part.
LEMMA EraserMoves ==
    ASSUME ErasureInv, ErasureTypeOK', NEW c \in Erasers, UNCHANGED <<scope, holds>>,
           \A d \in Erasers \ {c} : erase'[d] = erase[d],
           \A s \in Files : GoneOrSpared(s) => GoneOrSpared(s)',
           Wiped(c)',
           erase'[c].pc \in Working => \A h \in holds : h.on \in erase'[c].listed \/ (h.on = Whole /\ erase'[c].known) => c \in h.after \/ erase'[c].blind,
           ExecutingIsRunning'
    PROVE  ErasureInv'
<1>1. ASSUME NEW d \in Erasers PROVE Wiped(d)'
  <2>1. CASE d # c
    BY <2>1 DEF ErasureInv, ErasureTypeOK, EraseRows, Wiped
  <2> QED BY <2>1
<1>2. HoldsAreHeeded'
  <2> SUFFICES ASSUME NEW d \in Erasers, NEW h \in holds, erase'[d].pc \in Working, Covers(h, d)'
               PROVE  d \in h.after \/ erase'[d].blind
    BY DEF HoldsAreHeeded
  <2>1. CASE d # c
    BY <2>1 DEF ErasureInv, HoldsAreHeeded, Covers
  <2>2. CASE d = c
    BY <2>2 DEF Covers
  <2> QED BY <2>1, <2>2
<1> QED BY <1>1, <1>2 DEF ErasureInv

\* Nobody stops being busy with the execution.
LEMMA StaysBusy ==
    ASSUME ErasureInv, ErasureTypeOK', NEW c \in Erasers, \A d \in Erasers \ {c} : erase'[d] = erase[d],
           \/ standing' # "executing"
           \/ erase'[c].pc \in Executing \cup {"broken"}
           \/ standing' = standing /\ erase[c].pc \notin Executing \cup {"broken"}
    PROVE  ExecutingIsRunning'
BY DEF ErasureInv, ExecutingIsRunning

\* Before an execution is marked.
LEMMA ErasureAsksKeep ==
    ASSUME ErasureInv, ErasureTypeOK', NEW c \in Erasers,
           AskPlan(c) \/ WritePlan(c) \/ AskExecute(c) \/ PickAllowed(c) \/ TakeAllowed(c) \/ MarkExecuting(c)
    PROVE  ErasureInv'
<1>0. erase \in [Erasers -> EraseRows]
  BY DEF ErasureInv, ErasureTypeOK, EraseRows
<1>1. /\ erase'[c].pc \in {"plan", "refused", "pick", "take", "mark", "list"}
      /\ \A d \in Erasers \ {c} : erase'[d] = erase[d]
      /\ UNCHANGED <<scope, holds, store, spared>>
      /\ standing' = standing \/ standing' # "executing" \/ erase'[c].pc = "list"
      /\ erase[c].pc \in {"idle", "plan", "pick", "take", "mark"}
  <2>1. CASE AskPlan(c) \/ WritePlan(c) \/ AskExecute(c) \/ MarkExecuting(c)
    <3>1. PICK pc \in {"plan", "refused", "pick", "list"} :
            erase' = [erase EXCEPT ![c].pc = pc] /\ (standing' = standing \/ standing' # "executing" \/ pc = "list")
      BY <2>1 DEF AskPlan, WritePlan, AskExecute, MarkExecuting
    <3>2. UNCHANGED <<scope, holds, store, spared>> /\ erase[c].pc \in {"idle", "plan", "mark"}
      BY <2>1 DEF AskPlan, WritePlan, AskExecute, MarkExecuting
    <3> QED BY <1>0, <3>1, <3>2 DEF EraseRows
  <2>2. CASE PickAllowed(c)
    <3> DEFINE first == Min(allowed)
    <3>1. erase' = [erase EXCEPT ![c] = IF allowed = {} THEN [@ EXCEPT !.pc = "refused"] ELSE [@ EXCEPT !.pc = "take", !.by = first]]
          /\ UNCHANGED <<scope, holds, store, spared, standing>> /\ erase[c].pc = "pick"
      BY <2>2 DEF PickAllowed
    <3> HIDE DEF first
    <3> QED BY <1>0, <3>1 DEF EraseRows
  <2>3. CASE TakeAllowed(c)
    BY <1>0, <2>3 DEF EraseRows, TakeAllowed
  <2> QED BY <2>1, <2>2, <2>3
<1>2. ExecutingIsRunning'
  BY <1>1, StaysBusy DEF Executing, Working
<1>3. Wiped(c)'
  BY <1>1 DEF Wiped
<1>4. erase'[c].pc \notin Working
  BY <1>1 DEF Working
<1> QED BY <1>1, <1>2, <1>3, <1>4, EraserMoves DEF GoneOrSpared

LEMMA ListKeeps ==
    ASSUME ErasureInv, ErasureTypeOK', NEW c \in Erasers, ListFiles(c)
    PROVE  ErasureInv'
<1>0. erase \in [Erasers -> EraseRows]
  BY DEF ErasureInv, ErasureTypeOK, EraseRows
<1>1. /\ erase'[c].pc = "look" /\ erase'[c].todo = erase'[c].listed
      /\ \A d \in Erasers \ {c} : erase'[d] = erase[d]
      /\ UNCHANGED <<scope, holds, store, spared>>
  BY <1>0 DEF EraseRows, ListFiles
<1>2. Wiped(c)' /\ erase'[c].pc \notin Working /\ ExecutingIsRunning'
  BY <1>1, StaysBusy DEF Wiped, Working, Executing
<1> QED BY <1>1, <1>2, EraserMoves DEF GoneOrSpared

LEMMA LookKeeps ==
    ASSUME ErasureInv, ErasureTypeOK', NEW c \in Erasers, LookForHolds(c)
    PROVE  ErasureInv'
<1>0. erase \in [Erasers -> EraseRows]
  BY DEF ErasureInv, ErasureTypeOK, EraseRows
<1> DEFINE next == AfterFiles(c, erase[c].todo)
<1>1. PICK blind \in BOOLEAN :
        erase' = [erase EXCEPT ![c].blind = blind, ![c].pc = IF ~blind /\ \E h \in holds : Covers(h, c) THEN "yield" ELSE next]
  BY DEF LookForHolds
<1>2. /\ erase'[c].pc = IF ~blind /\ \E h \in holds : Covers(h, c) THEN "yield" ELSE next
      /\ erase'[c].listed = erase[c].listed /\ erase'[c].known = erase[c].known /\ erase'[c].todo = erase[c].todo
      /\ erase'[c].blind = blind
      /\ \A d \in Erasers \ {c} : erase'[d] = erase[d]
  <2> HIDE DEF next
  <2> QED BY <1>0, <1>1 DEF EraseRows
<1>3. UNCHANGED <<scope, holds, store, spared>> /\ erase[c].pc = "look" /\ Wiped(c)
  BY DEF LookForHolds, ErasureInv
<1>4. next \in Working
  BY DEF AfterFiles, Working
<1>5. ExecutingIsRunning'
  BY <1>2, <1>4, StaysBusy DEF Executing
<1>6. Wiped(c)'
  <2>1. erase[c].listed \ erase[c].todo = {}
    BY <1>3 DEF Wiped
  <2> QED BY <1>2, <2>1 DEF Wiped, AfterFiles
<1>7. erase'[c].pc \in Working => \A h \in holds : Covers(h, c) => blind
  BY <1>2 DEF Working
<1> QED BY <1>2, <1>3, <1>5, <1>6, <1>7, EraserMoves DEF Covers, GoneOrSpared

LEMMA WipeKeeps ==
    ASSUME ErasureInv, ErasureTypeOK', NEW c \in Erasers, NEW s \in Files, WipeFile(c, s)
    PROVE  ErasureInv'
<1>0. erase \in [Erasers -> EraseRows] /\ Wiped(c) /\ store \in [Files -> {"unborn", "open", "scored", "stray", "gone"}]
  BY DEF ErasureInv, ErasureTypeOK, EraseRows
<1> DEFINE rest == erase[c].todo \ {s}
<1>1. erase' = [erase EXCEPT ![c].pc = AfterFiles(c, rest), ![c].todo = rest] /\ UNCHANGED <<scope, holds>>
  BY DEF WipeFile
<1>2. /\ erase'[c].pc = AfterFiles(c, rest) /\ erase'[c].listed = erase[c].listed /\ erase'[c].todo = rest
      /\ erase'[c].known = erase[c].known /\ erase'[c].blind = erase[c].blind
      /\ \A d \in Erasers \ {c} : erase'[d] = erase[d]
  <2> HIDE DEF rest
  <2> QED BY <1>0, <1>1 DEF EraseRows
<1>3. /\ erase[c].pc = "wipe"
      /\ \/ store' = [store EXCEPT ![s] = "gone"] /\ spared' = spared \ {s}
         \/ store' = [store EXCEPT ![s] = "stray"] /\ spared' = spared \cup {s}
  BY DEF WipeFile
<1>4. \A t \in Files : GoneOrSpared(t) \/ t = s => GoneOrSpared(t)'
  BY <1>0, <1>3 DEF GoneOrSpared
<1>5. Wiped(c)'
  <2>1. erase[c].listed \subseteq Files
    BY <1>0 DEF EraseRows
  <2>2. \A t \in erase[c].listed \ rest : GoneOrSpared(t)'
    BY <1>0, <1>3, <1>4, <2>1 DEF Wiped
  <2>3. erase'[c].pc # "look" /\ (erase'[c].pc \in {"account", "complete", "done"} => rest = {})
    BY <1>2 DEF AfterFiles
  <2> HIDE DEF rest
  <2> QED BY <1>2, <2>2, <2>3 DEF Wiped
<1>6. ExecutingIsRunning'
  BY <1>2, StaysBusy DEF Executing, Working, AfterFiles
<1>7. \A h \in holds : Covers(h, c) => c \in h.after \/ erase[c].blind
  BY <1>3 DEF ErasureInv, HoldsAreHeeded, Working
<1> QED BY <1>1, <1>2, <1>4, <1>5, <1>6, <1>7, EraserMoves DEF Covers, GoneOrSpared

LEMMA AccountKeeps ==
    ASSUME ErasureInv, ErasureTypeOK', NEW c \in Erasers, DropAccount(c)
    PROVE  ErasureInv'
<1>0. erase \in [Erasers -> EraseRows] /\ Wiped(c)
  BY DEF ErasureInv, ErasureTypeOK, EraseRows
<1>1. /\ erase'[c].pc = "complete" /\ erase'[c].listed = erase[c].listed /\ erase'[c].todo = erase[c].todo
      /\ erase'[c].known = erase[c].known /\ erase'[c].blind = erase[c].blind
      /\ \A d \in Erasers \ {c} : erase'[d] = erase[d]
      /\ UNCHANGED <<scope, holds, store, spared>> /\ erase[c].pc = "account"
  BY <1>0 DEF EraseRows, DropAccount
<1>2. Wiped(c)'
  BY <1>0, <1>1 DEF Wiped, GoneOrSpared
<1>3. ExecutingIsRunning'
  BY <1>1, StaysBusy DEF Executing, Working
<1>4. \A h \in holds : Covers(h, c) => c \in h.after \/ erase[c].blind
  BY <1>1 DEF ErasureInv, HoldsAreHeeded, Working
<1> QED BY <1>1, <1>2, <1>3, <1>4, EraserMoves DEF Covers, GoneOrSpared

\* The end of an execution.
LEMMA EndsKeep ==
    ASSUME ErasureInv, ErasureTypeOK', NEW c \in Erasers, Yield(c) \/ CompleteErasure(c) \/ EraseBreaks(c)
    PROVE  ErasureInv'
<1>0. erase \in [Erasers -> EraseRows] /\ Wiped(c)
  BY DEF ErasureInv, ErasureTypeOK, EraseRows
<1>1. /\ \A d \in Erasers \ {c} : erase'[d] = erase[d]
      /\ erase'[c].pc \in {"refused", "done", "broken"}
      /\ erase'[c].pc = "done" => erase[c].pc = "complete" /\ erase'[c].listed = erase[c].listed /\ erase'[c].todo = {}
      /\ standing' # "executing" \/ erase'[c].pc = "broken"
      /\ UNCHANGED <<scope, holds, spared>>
      /\ erase'[c].pc = "done" => store' = store
  BY <1>0 DEF EraseRows, Yield, CompleteErasure, EraseBreaks, IdleErasure
<1>2. ExecutingIsRunning'
  BY <1>1, StaysBusy
<1>3. Wiped(c)'
  BY <1>0, <1>1 DEF Wiped, GoneOrSpared
<1>4. erase'[c].pc \notin Working
  BY <1>1 DEF Working
<1>5. \A s \in Files : GoneOrSpared(s) => GoneOrSpared(s)'
  <2>1. store \in [Files -> {"unborn", "open", "scored", "stray", "gone"}]
    BY DEF ErasureInv, ErasureTypeOK
  <2>2. CASE EraseBreaks(c)
    BY <2>1, <2>2 DEF EraseBreaks, GoneOrSpared
  <2>3. CASE Yield(c) \/ CompleteErasure(c)
    BY <2>3 DEF Yield, CompleteErasure, GoneOrSpared
  <2> QED BY <2>2, <2>3
<1> QED BY <1>1, <1>2, <1>3, <1>4, <1>5, EraserMoves DEF GoneOrSpared

LEMMA ErasureStep == ErasureInv /\ [ErasureNext]_erasureVars => ErasureInv'
<1> SUFFICES ASSUME ErasureInv, [ErasureNext]_erasureVars PROVE ErasureInv'
  OBVIOUS
<1>0. ErasureTypeOK'
  BY ErasureTypes DEF ErasureInv
<1>1. CASE UNCHANGED erasureVars
  BY <1>0, <1>1, EraseCalm DEF erasureVars
<1>2. CASE ErasureNext
  BY <1>0, <1>2, AroundKeeps, ErasureAsksKeep, ListKeeps, LookKeeps, WipeKeeps, AccountKeeps, EndsKeep DEF ErasureNext, CandidateStep
<1> QED BY <1>1, <1>2

\* An erasure that was answered has left nothing it listed, one that deletes has
\* heeded the holds there were when it looked, and none reads as executing that is not.
THEOREM ErasuresAreSound == ErasureSpec => []ErasureSound
<1>1. ErasureInv => ErasureSound
  BY DEF ErasureInv, Wiped, GoneOrSpared, ErasureSound, ListedIsGone
<1> QED BY <1>1, ErasureStarts, ErasureStep, PTL DEF ErasureSpec

-----------------------------------------------------------------------------
(* A set of session numbers has a last one *)

LEMMA Largest ==
  ASSUME NEW n \in Nat, NEW T \in SUBSET (1..n), T # {}
  PROVE  \E x \in T : \A y \in T : y <= x
<1> DEFINE U == {n - x : x \in T}
<1>1. \A x \in T : x \in Nat /\ n - x \in Nat
  OBVIOUS
<1>2. U \subseteq Nat
  BY <1>1
<1>3. U # {}
  BY Zenon
<1>4. PICK m \in U : \A y \in U : ~(<<y, m>> \in Below)
  <2> HIDE DEF U
  <2> QED BY <1>2, <1>3, BelowIsWellFounded, WFMin
<1>5. PICK x \in T : m = n - x
  OBVIOUS
<1>6. ASSUME NEW y \in T PROVE y <= x
  <2>1. n - y \in U
    OBVIOUS
  <2>2. ~(<<n - y, n - x>> \in Below)
    BY <2>1, <1>4, <1>5
  <2>3. ~(n - y < n - x)
    BY <2>2, <1>1 DEF Below
  <2> QED BY <2>3, <1>1
<1> QED BY <1>6

LEMMA FormalRunsAreNumbers == FormalRuns = 1..Len(Forms) /\ Len(Forms) \in Nat
BY GrowthAssumption DEF FormalRuns

\* Latest and the baseline that choosePair takes are sessions of the set they
\* are chosen from.
LEMMA LastExists ==
  ASSUME NEW T \in SUBSET FormalRuns, T # {}
  PROVE  \E x \in T : \A y \in T : y <= x
BY Largest, FormalRunsAreNumbers

-----------------------------------------------------------------------------
(* The invariant *)

\* A view about to record holds two sessions, the earlier one first, whose
\* forms were approved when the registry was read, with bands for both.
Recordable(v) ==
    \E b, r \in FormalRuns :
        /\ b < r /\ view[v].pair = {b, r}
        /\ {Forms[b], Forms[r]} \in wasApproved
        /\ view[v].loaded[b] \in Bands /\ view[v].loaded[r] \in Bands

ViewsHoldApprovedPairs == \A v \in Views : view[v].pc = "record" => Recordable(v)

RegistryIsRemembered == \A p \in Pairs : registry[p] = "APPROVED" => p \in wasApproved

GrowthInv ==
    /\ GrowthTypeOK
    /\ RegistryIsRemembered
    /\ ViewsHoldApprovedPairs
    /\ SnapshotsAreOfApprovedForms

LEMMA GrowthStarts == GrowthInit => GrowthInv
<1> SUFFICES ASSUME GrowthInit PROVE GrowthInv
  OBVIOUS
<1>1. GrowthTypeOK
  BY GrowthAssumption DEF GrowthInit, GrowthTypeOK, Levels
<1>2. RegistryIsRemembered /\ ViewsHoldApprovedPairs /\ SnapshotsAreOfApprovedForms
  BY DEF GrowthInit, RegistryIsRemembered, ViewsHoldApprovedPairs, SnapshotsAreOfApprovedForms, NoSnapshot
<1> QED BY <1>1, <1>2 DEF GrowthInv

\* Two forms make a pair of the registry.
LEMMA PairsOfForms == \A s, t \in FormalRuns : {Forms[s], Forms[t]} \in Pairs
<1> SUFFICES ASSUME NEW s \in FormalRuns, NEW t \in FormalRuns PROVE {Forms[s], Forms[t]} \in Pairs
  OBVIOUS
<1>1. Forms[s] \in FormNames /\ Forms[t] \in FormNames
  BY GrowthAssumption DEF FormalRuns
<1>2. ASSUME NEW a, NEW b PROVE Cardinality({a, b}) \in 1..2
  <2>1. Cardinality({a}) = 1 /\ IsFiniteSet({a})
    BY FS_Singleton
  <2>2. CASE a = b
    <3>1. {a, b} = {a}
      BY <2>2
    <3> QED BY <3>1, <2>1
  <2>3. CASE a # b
    <3>1. {a, b} = {a} \cup {b} /\ b \notin {a}
      BY <2>3
    <3>2. Cardinality({a} \cup {b}) = Cardinality({a}) + 1
      BY <3>1, <2>1, FS_AddElement, Zenon
    <3> QED BY <3>1, <3>2, <2>1
  <2> QED BY <2>2, <2>3
<1> QED BY <1>1, <1>2 DEF Pairs

-----------------------------------------------------------------------------
(* The steps *)

LEMMA FormDecideKeeps ==
  ASSUME GrowthInv, NEW p \in Pairs, NEW status \in {"APPROVED", "REJECTED"}, Decide(p, status)
  PROVE  GrowthInv'
<1>1. GrowthTypeOK'
  BY GrowthAssumption DEF GrowthInv, GrowthTypeOK, Decide
<1>2. RegistryIsRemembered' /\ wasApproved \subseteq wasApproved'
  BY DEF GrowthInv, GrowthTypeOK, RegistryIsRemembered, Decide
<1>3. ViewsHoldApprovedPairs' /\ SnapshotsAreOfApprovedForms'
  BY <1>2 DEF GrowthInv, Decide, ViewsHoldApprovedPairs, Recordable, SnapshotsAreOfApprovedForms
<1> QED BY <1>1, <1>2, <1>3 DEF GrowthInv

LEMMA RegradeKeeps ==
  ASSUME GrowthInv, NEW s \in FormalRuns, NEW l \in Levels, Regrade(s, l)
  PROVE  GrowthInv'
<1>1. GrowthTypeOK'
  BY GrowthAssumption DEF GrowthInv, GrowthTypeOK, Regrade
<1> QED
  BY <1>1 DEF GrowthInv, Regrade, RegistryIsRemembered, ViewsHoldApprovedPairs, Recordable, SnapshotsAreOfApprovedForms

LEMMA LoadEntriesKeeps ==
  ASSUME GrowthInv, NEW v \in Views, LoadEntries(v)
  PROVE  GrowthInv'
<1>1. GrowthTypeOK'
  BY ZenonT(60) DEF GrowthInv, GrowthTypeOK, LoadEntries
<1>2. ViewsHoldApprovedPairs'
  BY DEF GrowthInv, GrowthTypeOK, LoadEntries, ViewsHoldApprovedPairs, Recordable
<1> QED
  BY <1>1, <1>2 DEF GrowthInv, LoadEntries, RegistryIsRemembered, SnapshotsAreOfApprovedForms

\* choosePair: the latest session and an earlier baseline of an approved pair.
LEMMA ReadRegistryKeeps ==
  ASSUME GrowthInv, NEW v \in Views, ReadRegistry(v)
  PROVE  GrowthInv'
<1> DEFINE loaded == view[v].loaded
           found == Formal(loaded) # {} /\ Baselines(loaded) # {}
           latest == Latest(loaded)
           baseline == CHOOSE s \in Baselines(loaded) : \A t \in Baselines(loaded) : t <= s
<1>1. Formal(loaded) \subseteq FormalRuns /\ Baselines(loaded) \subseteq Formal(loaded) \ {latest}
  BY DEF Formal, Baselines
<1>2. ASSUME found
      PROVE  latest \in FormalRuns /\ baseline \in FormalRuns /\ baseline < latest
             /\ {Forms[baseline], Forms[latest]} \in wasApproved
  <2>1. latest \in Formal(loaded) /\ \A t \in Formal(loaded) : t <= latest
    BY <1>1, <1>2, LastExists DEF Latest
  <2>2. baseline \in Baselines(loaded)
    BY <1>1, <1>2, LastExists
  <2>3. baseline \in FormalRuns /\ latest \in FormalRuns /\ baseline < latest
    BY <1>1, <2>1, <2>2, FormalRunsAreNumbers
  <2>4. registry[{Forms[baseline], Forms[latest]}] = "APPROVED"
    BY <2>2 DEF Baselines
  <2> QED BY <2>3, <2>4, PairsOfForms DEF GrowthInv, RegistryIsRemembered
<1>3. view' = [view EXCEPT
         ![v].pc = IF found /\ {loaded[baseline], loaded[latest]} \subseteq Bands THEN "record" ELSE "done",
         ![v].pair = IF found THEN {baseline, latest} ELSE {}]
  BY DEF ReadRegistry
<1> HIDE DEF baseline, latest, found
<1>4. GrowthTypeOK'
  <2> DEFINE pc == IF found /\ {loaded[baseline], loaded[latest]} \subseteq Bands THEN "record" ELSE "done"
             pair == IF found THEN {baseline, latest} ELSE {}
  <2>1. pc \in {"record", "done"} /\ pair \in SUBSET FormalRuns
    BY <1>2
  <2>2. view' = [view EXCEPT ![v].pc = pc, ![v].pair = pair]
    BY <1>3
  <2> HIDE DEF pc, pair
  <2>4. view' \in [Views -> [pc : {"idle", "registry", "record", "done"}, loaded : [FormalRuns -> Levels], pair : SUBSET FormalRuns]]
    BY <2>1, <2>2, ZenonT(60) DEF GrowthInv, GrowthTypeOK
  <2>3. UNCHANGED <<registry, level, snapshots, changes, wasApproved>>
    BY DEF ReadRegistry
  <2> QED BY <2>4, <2>3 DEF GrowthInv, GrowthTypeOK
<1>5. ViewsHoldApprovedPairs'
  <2> SUFFICES ASSUME NEW w \in Views, view'[w].pc = "record" PROVE Recordable(w)'
    BY DEF ViewsHoldApprovedPairs
  <2>1. CASE w = v
    <3>1. found /\ {loaded[baseline], loaded[latest]} \subseteq Bands
      BY <1>3, <2>1 DEF GrowthInv, GrowthTypeOK
    <3>2. view'[w].pair = {baseline, latest} /\ view'[w].loaded = loaded
      BY <1>3, <2>1, <3>1 DEF GrowthInv, GrowthTypeOK
    <3>3. wasApproved' = wasApproved
      BY DEF ReadRegistry
    <3> QED BY <1>2, <3>1, <3>2, <3>3 DEF Recordable
  <2>2. CASE w # v
    <3>1. view'[w] = view[w] /\ wasApproved' = wasApproved
      BY <1>3, <2>2 DEF ReadRegistry, GrowthInv, GrowthTypeOK
    <3> QED BY <3>1 DEF GrowthInv, ViewsHoldApprovedPairs, Recordable
  <2> QED BY <2>1, <2>2
<1> QED
  BY <1>4, <1>5 DEF GrowthInv, ReadRegistry, RegistryIsRemembered, SnapshotsAreOfApprovedForms

\* recordSnapshot: what is inserted is the pair the view holds; a row that is
\* there stays.
LEMMA RecordKeeps ==
  ASSUME GrowthInv, NEW v \in Views, Record(v)
  PROVE  /\ GrowthInv'
         /\ \A b, r \in FormalRuns : snapshots[<<b, r>>] # NoSnapshot => snapshots'[<<b, r>>] = snapshots[<<b, r>>]
<1> DEFINE b0 == CHOOSE s \in view[v].pair : \A t \in view[v].pair : s <= t
           r0 == CHOOSE s \in view[v].pair : \A t \in view[v].pair : t <= s
           snap == [from |-> view[v].loaded[b0], to |-> view[v].loaded[r0]]
<1>1. PICK b \in FormalRuns, r \in FormalRuns :
        /\ b < r /\ view[v].pair = {b, r}
        /\ {Forms[b], Forms[r]} \in wasApproved
        /\ view[v].loaded[b] \in Bands /\ view[v].loaded[r] \in Bands
  BY DEF Record, GrowthInv, ViewsHoldApprovedPairs, Recordable
<1>2. b0 = b /\ r0 = r
  <2>1. b \in Nat /\ r \in Nat
    BY FormalRunsAreNumbers
  <2>2. \A x \in {b, r} : (\A t \in {b, r} : x <= t) <=> x = b
    BY <1>1, <2>1
  <2>3. \A x \in {b, r} : (\A t \in {b, r} : t <= x) <=> x = r
    BY <1>1, <2>1
  <2> QED BY <1>1, <2>2, <2>3
<1>3. snapshots' = [snapshots EXCEPT ![<<b0, r0>>] = IF @ = NoSnapshot THEN snap ELSE @]
  BY DEF Record
<1>4. snap \in [from : Bands, to : Bands]
  BY <1>1, <1>2
<1> HIDE DEF b0, r0, snap
<1>5. snapshots \in [FormalRuns \X FormalRuns -> [from : Bands, to : Bands] \cup {NoSnapshot}]
  BY DEF GrowthInv, GrowthTypeOK
<1>6. \A x, y \in FormalRuns : snapshots'[<<x, y>>] =
        IF <<x, y>> = <<b, r>> /\ snapshots[<<x, y>>] = NoSnapshot THEN snap ELSE snapshots[<<x, y>>]
  BY <1>2, <1>3, <1>5
<1>7. GrowthTypeOK'
  <2>1. snapshots' \in [FormalRuns \X FormalRuns -> [from : Bands, to : Bands] \cup {NoSnapshot}]
    BY <1>2, <1>3, <1>4, <1>5
  <2> QED BY <2>1 DEF GrowthInv, GrowthTypeOK, Record
<1>8. SnapshotsAreOfApprovedForms'
  <2>1. wasApproved' = wasApproved
    BY DEF Record
  <2> QED BY <1>1, <1>6, <2>1 DEF GrowthInv, SnapshotsAreOfApprovedForms
<1>9. ViewsHoldApprovedPairs'
  BY ZenonT(60) DEF GrowthInv, GrowthTypeOK, ViewsHoldApprovedPairs, Recordable, Record
<1>10. RegistryIsRemembered'
  BY DEF GrowthInv, RegistryIsRemembered, Record
<1> QED BY <1>6, <1>7, <1>8, <1>9, <1>10 DEF GrowthInv

LEMMA GrowthStep == GrowthInv /\ [GrowthNext]_growthVars => GrowthInv'
<1> SUFFICES ASSUME GrowthInv, [GrowthNext]_growthVars PROVE GrowthInv'
  OBVIOUS
<1>1. CASE \E p \in Pairs, status \in {"APPROVED", "REJECTED"} : Decide(p, status)
  BY <1>1, FormDecideKeeps
<1>2. CASE \E s \in FormalRuns, l \in Levels : Regrade(s, l)
  BY <1>2, RegradeKeeps
<1>3. CASE \E v \in Views : LoadEntries(v)
  BY <1>3, LoadEntriesKeeps
<1>4. CASE \E v \in Views : ReadRegistry(v)
  BY <1>4, ReadRegistryKeeps
<1>5. CASE \E v \in Views : Record(v)
  BY <1>5, RecordKeeps
<1>6. CASE UNCHANGED growthVars
  BY <1>6 DEF growthVars, GrowthInv, GrowthTypeOK, RegistryIsRemembered, ViewsHoldApprovedPairs, Recordable, SnapshotsAreOfApprovedForms
<1> QED BY <1>1, <1>2, <1>3, <1>4, <1>5, <1>6 DEF GrowthNext

-----------------------------------------------------------------------------
(* The theorems *)

\* Whatever reviewers decide and whatever becomes of the evidence meanwhile, a
\* growth snapshot is of two sessions in their order whose forms had been
\* approved as comparable.
THEOREM SnapshotsAreComparable == GrowthSpec => []SnapshotsAreOfApprovedForms
<1>1. GrowthInv => SnapshotsAreOfApprovedForms
  BY DEF GrowthInv
<1> QED BY GrowthStarts, GrowthStep, <1>1, PTL DEF GrowthSpec

\* A recorded snapshot is never edited or withdrawn, by any number of views.
THEOREM SnapshotsStay == GrowthSpec => SnapshotsAreNotEdited
<1> DEFINE Kept == \A b, r \in FormalRuns : snapshots[<<b, r>>] # NoSnapshot => snapshots'[<<b, r>>] = snapshots[<<b, r>>]
<1>1. GrowthInv /\ [GrowthNext]_growthVars => [Kept]_growthVars
  <2> SUFFICES ASSUME GrowthInv, GrowthNext PROVE Kept
    OBVIOUS
  <2>1. CASE \E v \in Views : Record(v)
    BY <2>1, RecordKeeps
  <2>2. CASE snapshots' = snapshots
    BY <2>2
  <2> QED BY <2>1, <2>2 DEF GrowthNext, Decide, Regrade, LoadEntries, ReadRegistry
<1> QED BY GrowthStarts, GrowthStep, <1>1, PTL DEF GrowthSpec, SnapshotsAreNotEdited

-----------------------------------------------------------------------------
(* The end of a cycle *)

Ending(e) == ender[e].pc \in {"close", "set"}

\* A request that has ended the assignment leaves it ended, its own way unless
\* contested; without a contest one request at a time is ending the cycle, and
\* none once it has ended.
CycleInv ==
    /\ CycleTypeOK
    /\ CycleEndsWithItsAssignment
    /\ \A e \in Enders : ender[e].pc = "set" => assigned \in Ended /\ (contested \/ assigned = ender[e].to)
    /\ contested \/ \A e, f \in Enders : Ending(e) /\ Ending(f) => e = f
    /\ contested \/ cycle \notin Ended \/ \A e \in Enders : ~Ending(e)

LEMMA CycleStarts == CycleInit => CycleInv
<1> SUFFICES ASSUME CycleInit PROVE CycleInv
  OBVIOUS
<1>1. contested \in BOOLEAN /\ cycle = "ACTIVE" /\ assigned = "ACTIVE" /\ \A e \in Enders : ender[e].pc = "idle"
  BY DEF CycleInit
<1>2. CycleTypeOK
  BY <1>1 DEF CycleInit, CycleTypeOK, Ended
<1>3. cycle \notin Ended /\ \A e \in Enders : ~Ending(e) /\ ender[e].pc # "set"
  BY <1>1 DEF Ended, Ending
<1> QED BY <1>2, <1>3 DEF CycleInv, CycleEndsWithItsAssignment

LEMMA CycleTypesKept ==
  ASSUME CycleTypeOK, [CycleNext]_cycleVars
  PROVE  CycleTypeOK'
<1>1. CASE \E e \in Enders, to \in Ended : AskEnd(e, to)
  BY <1>1 DEF CycleTypeOK, AskEnd
<1>2. CASE \E e \in Enders : EndAssignment(e)
  BY <1>2 DEF CycleTypeOK, EndAssignment
<1>3. CASE \E e \in Enders : EndCycle(e)
  BY <1>3 DEF CycleTypeOK, EndCycle
<1>4. CASE \E e \in Enders : EnderBreaks(e)
  BY <1>4 DEF CycleTypeOK, EnderBreaks
<1>5. CASE \E to \in Ended : StaffCloses(to)
  BY <1>5 DEF CycleTypeOK, StaffCloses
<1>6. CASE UNCHANGED cycleVars
  BY <1>6 DEF CycleTypeOK, cycleVars
<1> QED BY <1>1, <1>2, <1>3, <1>4, <1>5, <1>6 DEF CycleNext

LEMMA CycleStep == CycleInv /\ [CycleNext]_cycleVars => CycleInv'
<1> SUFFICES ASSUME CycleInv, [CycleNext]_cycleVars PROVE CycleInv'
  OBVIOUS
<1>1. CycleTypeOK /\ CycleTypeOK'
  BY CycleTypesKept DEF CycleInv
<1> USE DEF CycleInv, CycleEndsWithItsAssignment, Ending
<1>2. CASE \E e \in Enders, to \in Ended : AskEnd(e, to)
  <2>1. PICK e \in Enders, to \in Ended : AskEnd(e, to)
    BY <1>2
  <2>2. cycle' = cycle /\ assigned' = assigned /\ (contested => contested')
    BY <2>1 DEF AskEnd
  <2>3. \A f \in Enders \ {e} : ender'[f] = ender[f]
    BY <1>1, <2>1 DEF CycleTypeOK, AskEnd
  <2>4. ender'[e].pc = IF cycle \in Ended THEN "refused" ELSE "close"
    BY <1>1, <2>1 DEF CycleTypeOK, AskEnd
  <2>5. contested' \/ \A f \in Enders : ~Ending(f)
    BY <2>1 DEF AskEnd
  <2>6. \A f \in Enders : ender'[f].pc = "set" => ender'[f] = ender[f]
    BY <2>3, <2>4
  <2>7. \A f, g \in Enders : contested' \/ (Ending(f)' /\ Ending(g)' => f = g)
    BY <2>3, <2>5
  <2>8. contested' \/ cycle' \notin Ended \/ \A f \in Enders : ~Ending(f)'
    BY <2>2, <2>3, <2>4, <2>5
  <2> QED BY <1>1, <2>2, <2>6, <2>7, <2>8
<1>3. CASE \E e \in Enders : EndAssignment(e)
  BY <1>1, <1>3 DEF CycleTypeOK, EndAssignment
<1>4. CASE \E e \in Enders : EndCycle(e)
  BY <1>1, <1>4 DEF CycleTypeOK, EndCycle
<1>5. CASE \E e \in Enders : EnderBreaks(e)
  BY <1>1, <1>5 DEF CycleTypeOK, EnderBreaks
<1>6. CASE \E to \in Ended : StaffCloses(to)
  BY <1>1, <1>6 DEF CycleTypeOK, StaffCloses
<1>7. CASE UNCHANGED cycleVars
  BY <1>1, <1>7 DEF CycleTypeOK, cycleVars
<1> QED BY <1>2, <1>3, <1>4, <1>5, <1>6, <1>7 DEF CycleNext

\* However many requests end a cycle and wherever they break between the two writes, a
\* cycle has ended only once its assignment has, and uncontested both ended the same way.
THEOREM CyclesEndOnceAssignmentsHave == CycleSpec => []CycleEndsWithItsAssignment
<1>1. CycleInv => CycleEndsWithItsAssignment
  BY DEF CycleInv
<1> QED BY CycleStarts, CycleStep, <1>1, PTL DEF CycleSpec

-----------------------------------------------------------------------------
(* The invariant of the queue *)

\* What a rater is shown or has answered is an item.
ShownAreItems == \A s \in Submits : submit[s].pc # "idle" => submit[s].item \in DOMAIN items

\* A request that is past its checks is alone with its item, which still lacks
\* a rating, unless another one was past them as well.
AloneInTheLast ==
    \A s \in Submits : submit[s].pc = "append" /\ submit[s].item \notin collided =>
        /\ RatingCount(submit[s].item) < RATINGS_PER_ITEM
        /\ \A t \in Submits \ {s} : submit[t].pc = "append" => submit[t].item # submit[s].item

\* What is rated is an item.
RatedAreItems == \A n \in DOMAIN ratings : ratings[n].item \in DOMAIN items

RatingInv == RatingTypeOK /\ ShownAreItems /\ RatedAreItems /\ QueuedAndRatedOnce /\ AloneInTheLast /\ TwoRatingsPerItem

-----------------------------------------------------------------------------
(* Helpers *)

\* The least number stays the least when greater ones come in.
LEMMA LeastStays ==
    ASSUME NEW S \in SUBSET Nat, S # {}, NEW n \in Nat, \A m \in S : m < n
    PROVE  Min(S \cup {n}) = Min(S)
<1>1. PICK x \in S : x = Min(S) /\ \A m \in S : x <= m
  BY SmallestIsMember
<1>2. PICK y \in S \cup {n} : y = Min(S \cup {n}) /\ \A m \in S \cup {n} : y <= m
  BY SmallestIsMember
<1>3. y <= x /\ x \in Nat /\ y \in Nat /\ x < n
  BY <1>1, <1>2
<1>4. y \in S /\ x <= y
  BY <1>1, <1>2, <1>3
<1>. QED
  BY <1>1, <1>2, <1>3, <1>4

SubmitSteps == {"idle", "shown", "append", "done", "refused"}
SubmitRecords == [pc : SubmitSteps, rater : Raters, item : Nat, leveled : BOOLEAN]
QueuerRecords == [pc : {"idle", "upsert", "done", "refused"}, todo : SUBSET Units]

LEMMA QueueTypes ==
    ASSUME RatingTypeOK
    PROVE  /\ items \in Seq(Units) /\ ratings \in Seq(Rating) /\ DOMAIN items = 1..Len(items) /\ DOMAIN ratings = 1..Len(ratings)
           /\ Len(items) \in Nat /\ Len(ratings) \in Nat
           /\ enqueue \in [Queuers -> QueuerRecords] /\ submit \in [Submits -> SubmitRecords]
           /\ \A s \in Submits : submit[s].pc \in SubmitSteps /\ submit[s].rater \in Raters /\ submit[s].item \in Nat /\ submit[s].leveled \in BOOLEAN
           /\ \A n \in DOMAIN ratings : ratings[n].item \in Nat /\ ratings[n].rater \in Raters /\ ratings[n].leveled \in BOOLEAN
           /\ collided \subseteq 1..Len(items)
<1>1. items \in Seq(Units) /\ ratings \in Seq(Rating) /\ DOMAIN items = 1..Len(items) /\ DOMAIN ratings = 1..Len(ratings)
      /\ Len(items) \in Nat /\ Len(ratings) \in Nat /\ \A n \in 1..Len(ratings) : ratings[n] \in Rating
  BY LenProperties, ElementOfSeq DEF RatingTypeOK
<1>2. submit \in [Submits -> SubmitRecords] /\ enqueue \in [Queuers -> QueuerRecords] /\ collided \subseteq 1..Len(items)
  BY DEF RatingTypeOK, SubmitRecords, SubmitSteps, QueuerRecords
<1>3. \A s \in Submits : submit[s].pc \in SubmitSteps /\ submit[s].rater \in Raters /\ submit[s].item \in Nat /\ submit[s].leveled \in BOOLEAN
  BY <1>2 DEF SubmitRecords
<1>4. \A n \in DOMAIN ratings : ratings[n].item \in Nat /\ ratings[n].rater \in Raters /\ ratings[n].leveled \in BOOLEAN
  BY <1>1 DEF Rating
<1>. QED
  BY <1>1, <1>2, <1>3, <1>4

LEMMA RatingsAreFinite ==
    ASSUME RatingTypeOK, NEW i
    PROVE  RatingsOf(i) \subseteq 1..Len(ratings) /\ IsFiniteSet(RatingsOf(i)) /\ RatingCount(i) \in Nat
<1>1. IsFiniteSet(1..Len(ratings)) /\ RatingsOf(i) \subseteq 1..Len(ratings)
  BY QueueTypes, FS_Interval DEF RatingsOf
<1>. QED
  BY <1>1, FS_Subset, FS_CardinalityType DEF RatingCount

\* An item that is open to a rater is there to be picked.
LEMMA PickedIsOpen ==
    ASSUME RatingTypeOK, NEW rater, OpenTo(rater) # {}
    PROVE  Picked(rater) \in OpenTo(rater)
<1> DEFINE S == OpenTo(rater)
           Best(i) == \A j \in S \ {i} : RatingCount(i) > RatingCount(j) \/ (RatingCount(i) = RatingCount(j) /\ i < j)
           T == {i \in S : RatingCount(i) = 1}
<1>1. S \in SUBSET Nat /\ \A i \in S : RatingCount(i) \in {0, 1}
  BY QueueTypes, RatingsAreFinite DEF OpenTo, RATINGS_PER_ITEM
<1>2. \E i \in S : Best(i)
  <2>1. CASE T # {}
    <3>1. PICK i \in T : \A m \in T : i <= m
      BY <1>1, <2>1, SmallestIsMember
    <3>2. Best(i)
      BY <1>1, <3>1
    <3>. QED
      BY <3>1, <3>2
  <2>2. CASE T = {}
    <3>1. PICK i \in S : \A m \in S : i <= m
      BY <1>1, SmallestIsMember
    <3>2. \A j \in S : RatingCount(j) = 0
      BY <1>1, <2>2
    <3>3. Best(i)
      BY <1>1, <3>1, <3>2
    <3>. QED
      BY <3>3
  <2>. QED
    BY <2>1, <2>2
<1>. QED
  BY <1>2 DEF Picked

-----------------------------------------------------------------------------
(* What the steps do *)

\* Request s has gone on, and nobody else.
RatingWent(s, pc, rater, item, leveled) ==
    /\ submit' \in [Submits -> SubmitRecords]
    /\ \A t \in Submits \ {s} : submit'[t] = submit[t]
    /\ submit'[s].pc = pc /\ submit'[s].rater = rater /\ submit'[s].item = item /\ submit'[s].leveled = leveled

LEMMA SubmitGoes ==
    ASSUME RatingTypeOK, NEW s \in Submits, NEW pc \in SubmitSteps, NEW rater \in Raters, NEW item \in Nat, NEW leveled \in BOOLEAN,
           submit' = [submit EXCEPT ![s] = [[[[submit[s] EXCEPT !.pc = pc] EXCEPT !.rater = rater] EXCEPT !.item = item] EXCEPT !.leveled = leveled]]
    PROVE  RatingWent(s, pc, rater, item, leveled)
<1> DEFINE m == [[[[submit[s] EXCEPT !.pc = pc] EXCEPT !.rater = rater] EXCEPT !.item = item] EXCEPT !.leveled = leveled]
<1>1. m \in SubmitRecords /\ m.pc = pc /\ m.rater = rater /\ m.item = item /\ m.leveled = leveled
  BY QueueTypes DEF SubmitRecords
<1>2. submit' = [submit EXCEPT ![s] = m]
  OBVIOUS
<1>. HIDE DEF m
<1>. QED
  BY <1>1, <1>2, QueueTypes DEF RatingWent

LEMMA RatingStepNames == {"idle", "shown", "append", "done", "refused"} = SubmitSteps
BY DEF SubmitSteps

LEMMA NextForGoes ==
    ASSUME RatingTypeOK, NEW s \in Submits, NEW r \in Raters, NextFor(s, r)
    PROVE  /\ RatingWent(s, "shown", r, Picked(r), submit[s].leveled) /\ Picked(r) \in DOMAIN items
           /\ UNCHANGED <<items, ratings, enqueue, withheld, collided>>
<1>1. Picked(r) \in DOMAIN items /\ Picked(r) \in Nat
  BY QueueTypes, PickedIsOpen DEF NextFor, OpenTo
<1> DEFINE i == Picked(r)
<1>2. submit' = [submit EXCEPT ![s].pc = "shown", ![s].rater = r, ![s].item = i]
  BY DEF NextFor
<1>. HIDE DEF i
<1>3. submit' = [submit EXCEPT ![s] = [[[[submit[s] EXCEPT !.pc = "shown"] EXCEPT !.rater = r] EXCEPT !.item = i] EXCEPT !.leveled = submit[s].leveled]]
  BY <1>2, QueueTypes DEF SubmitRecords
<1>4. RatingWent(s, "shown", r, i, submit[s].leveled)
  BY <1>1, <1>3, QueueTypes, RatingStepNames, SubmitGoes DEF i
<1>. QED
  BY <1>1, <1>4 DEF NextFor, i

LEMMA CheckGoes ==
    ASSUME RatingTypeOK, NEW s \in Submits, NEW l \in BOOLEAN, CheckRating(s, l)
    PROVE  /\ RatingWent(s, IF MayRate(s) THEN "append" ELSE "refused", submit[s].rater, submit[s].item, l) /\ submit[s].pc = "shown"
           /\ UNCHANGED <<items, ratings, enqueue, withheld>>
<1> DEFINE pc == IF MayRate(s) THEN "append" ELSE "refused"
<1>0. pc \in SubmitSteps
  BY RatingStepNames
<1>1. submit' = [submit EXCEPT ![s].pc = pc, ![s].leveled = l]
  BY DEF CheckRating
<1>. HIDE DEF pc
<1>2. submit' = [submit EXCEPT ![s] = [[[[submit[s] EXCEPT !.pc = pc] EXCEPT !.rater = submit[s].rater] EXCEPT !.item = submit[s].item] EXCEPT !.leveled = l]]
  BY <1>1, QueueTypes DEF SubmitRecords
<1>3. RatingWent(s, pc, submit[s].rater, submit[s].item, l)
  BY <1>0, <1>2, QueueTypes, SubmitGoes
<1>. QED
  BY <1>3 DEF CheckRating, pc

LEMMA AppendGoes ==
    ASSUME RatingTypeOK, NEW s \in Submits, AppendRating(s)
    PROVE  /\ \E pc \in {"refused", "done"} : RatingWent(s, pc, submit[s].rater, submit[s].item, submit[s].leveled)
           /\ submit[s].pc = "append" /\ UNCHANGED <<items, enqueue, withheld, collided>>
<1> DEFINE pc == IF submit[s].rater \in RatersOf(submit[s].item) THEN "refused" ELSE "done"
<1>0. pc \in SubmitSteps /\ pc \in {"refused", "done"}
  BY RatingStepNames
<1>1. submit' = [submit EXCEPT ![s].pc = pc]
  BY DEF AppendRating
<1>. HIDE DEF pc
<1>2. submit' = [submit EXCEPT ![s] = [[[[submit[s] EXCEPT !.pc = pc] EXCEPT !.rater = submit[s].rater] EXCEPT !.item = submit[s].item] EXCEPT !.leveled = submit[s].leveled]]
  BY <1>1, QueueTypes DEF SubmitRecords
<1>3. RatingWent(s, pc, submit[s].rater, submit[s].item, submit[s].leveled)
  BY <1>0, <1>2, QueueTypes, SubmitGoes
<1>. QED
  BY <1>0, <1>3 DEF AppendRating

\* A rating more, of item i.
RatingMore(i, r) ==
    /\ ratings' \in Seq(Rating) /\ Len(ratings') = Len(ratings) + 1
    /\ ratings'[Len(ratings')].item = i /\ ratings'[Len(ratings')].rater = r
    /\ \A n \in DOMAIN ratings : ratings'[n] = ratings[n]
    /\ DOMAIN ratings' = DOMAIN ratings \cup {Len(ratings')}

LEMMA AppendRates ==
    ASSUME RatingTypeOK, NEW s \in Submits, AppendRating(s)
    PROVE  \/ ratings' = ratings
           \/ RatingMore(submit[s].item, submit[s].rater) /\ submit[s].rater \notin RatersOf(submit[s].item)
<1>1. CASE submit[s].rater \in RatersOf(submit[s].item)
  BY <1>1 DEF AppendRating
<1>2. CASE submit[s].rater \notin RatersOf(submit[s].item)
  <2> DEFINE e == [item |-> submit[s].item, rater |-> submit[s].rater, leveled |-> submit[s].leveled]
  <2>1. ratings' = Append(ratings, e)
    BY <1>2 DEF AppendRating
  <2>2. e \in Rating /\ e.item = submit[s].item /\ e.rater = submit[s].rater
    BY QueueTypes DEF Rating
  <2>. HIDE DEF e
  <2>3. /\ ratings' \in Seq(Rating) /\ Len(ratings') = Len(ratings) + 1 /\ ratings'[Len(ratings')] = e
        /\ \A n \in 1..Len(ratings) : ratings'[n] = ratings[n]
    BY <2>1, <2>2, QueueTypes, AppendProperties
  <2>4. DOMAIN ratings' = 1..Len(ratings')
    BY <2>3, LenProperties
  <2>5. DOMAIN ratings' = DOMAIN ratings \cup {Len(ratings')}
    BY <2>3, <2>4, QueueTypes
  <2>. QED
    BY <1>2, <2>2, <2>3, <2>5, QueueTypes DEF RatingMore
<1>. QED
  BY <1>1, <1>2

LEMMA RatingsOfMore ==
    ASSUME RatingTypeOK, NEW i, NEW r, RatingMore(i, r)
    PROVE  /\ RatingsOf(i)' = RatingsOf(i) \cup {Len(ratings')} /\ Len(ratings') \notin RatingsOf(i)
           /\ \A j : j # i => RatingsOf(j)' = RatingsOf(j)
           /\ RatingCount(i)' = RatingCount(i) + 1 /\ \A j : j # i => RatingCount(j)' = RatingCount(j)
<1>1. RatingsOf(i)' = RatingsOf(i) \cup {Len(ratings')} /\ Len(ratings') \notin RatingsOf(i)
  BY QueueTypes DEF RatingsOf, RatingMore
<1>2. \A j : j # i => RatingsOf(j)' = RatingsOf(j)
  BY DEF RatingsOf, RatingMore
<1>3. RatingCount(i)' = RatingCount(i) + 1
  BY <1>1, RatingsAreFinite, FS_AddElement DEF RatingCount
<1>. QED
  BY <1>1, <1>2, <1>3 DEF RatingCount

-----------------------------------------------------------------------------
(* Types *)

LEMMA RatingTypes == ASSUME RatingTypeOK, ShownAreItems, RatingNext PROVE RatingTypeOK'
<1>0. /\ items \in Seq(Units) /\ ratings \in Seq(Rating) /\ withheld \in BOOLEAN /\ collided \subseteq 1..Len(items)
      /\ enqueue \in [Queuers -> QueuerRecords] /\ submit \in [Submits -> SubmitRecords]
  BY QueueTypes DEF RatingTypeOK
<1> DEFINE Types == /\ items' \in Seq(Units) /\ ratings' \in Seq(Rating) /\ withheld' \in BOOLEAN /\ collided' \subseteq 1..Len(items')
                    /\ enqueue' \in [Queuers -> QueuerRecords] /\ submit' \in [Submits -> SubmitRecords]
<1>1. ASSUME NEW q \in Queuers, AskQueue(q) PROVE Types
  BY <1>0, <1>1 DEF AskQueue, QueuerRecords
<1>2. ASSUME NEW q \in Queuers, NEW u \in Units, Upsert(q, u) PROVE Types
  <2>1. items' \in Seq(Units) /\ 1..Len(items) \subseteq 1..Len(items')
    BY <1>2, QueueTypes, AppendProperties DEF Upsert
  <2>2. enqueue' \in [Queuers -> QueuerRecords]
    BY <1>0, <1>2 DEF Upsert, QueuerRecords
  <2>. QED
    BY <1>0, <1>2, <2>1, <2>2 DEF Upsert
<1>3. ASSUME HoldSession PROVE Types
  BY <1>0, <1>3 DEF HoldSession
<1>4. ASSUME NEW s \in Submits, NEW r \in Raters, NextFor(s, r) PROVE Types
  BY <1>0, <1>4, NextForGoes DEF RatingWent
<1>5. ASSUME NEW s \in Submits, NEW l \in BOOLEAN, CheckRating(s, l) PROVE Types
  <2>1. submit[s].item \in 1..Len(items)
    BY <1>5, CheckGoes, QueueTypes DEF ShownAreItems
  <2>2. collided' \subseteq 1..Len(items)
    BY <1>0, <1>5, <2>1 DEF CheckRating
  <2>. QED
    BY <1>0, <1>5, <2>2, CheckGoes DEF RatingWent
<1>6. ASSUME NEW s \in Submits, AppendRating(s) PROVE Types
  BY <1>0, <1>6, AppendGoes, AppendRates DEF RatingWent, RatingMore
<1>. QED
  BY <1>1, <1>2, <1>3, <1>4, <1>5, <1>6 DEF RatingNext, RatingTypeOK, SubmitRecords, SubmitSteps, QueuerRecords

-----------------------------------------------------------------------------
(* The queue *)

LEMMA ItemsGrow ==
    ASSUME RatingTypeOK, RatingNext
    PROVE  DOMAIN items \subseteq DOMAIN items'
<1>1. ASSUME NEW q \in Queuers, NEW u \in Units, Upsert(q, u) PROVE DOMAIN items \subseteq DOMAIN items'
  <2>1. CASE items' = items
    BY <2>1
  <2>2. CASE items' = Append(items, u)
    BY <2>2, QueueTypes, AppendProperties, LenProperties
  <2>. QED
    BY <1>1, <2>1, <2>2 DEF Upsert
<1>. QED
  BY <1>1 DEF RatingNext, AskQueue, HoldSession, NextFor, CheckRating, AppendRating

LEMMA ShownStep == ASSUME RatingTypeOK, ShownAreItems, RatingNext PROVE ShownAreItems'
<1>1. ASSUME NEW s \in Submits, NEW r \in Raters, NextFor(s, r) PROVE ShownAreItems'
  BY <1>1, NextForGoes DEF RatingWent, ShownAreItems
<1>2. ASSUME NEW s \in Submits, NEW l \in BOOLEAN, CheckRating(s, l) PROVE ShownAreItems'
  BY <1>2, CheckGoes DEF RatingWent, ShownAreItems
<1>3. ASSUME NEW s \in Submits, AppendRating(s) PROVE ShownAreItems'
  BY <1>3, AppendGoes DEF RatingWent, ShownAreItems
<1>4. ASSUME UNCHANGED submit PROVE ShownAreItems'
  BY <1>4, ItemsGrow DEF ShownAreItems
<1>. QED
  BY <1>1, <1>2, <1>3, <1>4 DEF RatingNext, AskQueue, Upsert, HoldSession

LEMMA RatedStep == ASSUME RatingTypeOK, ShownAreItems, RatedAreItems, RatingNext PROVE RatedAreItems'
<1>1. ASSUME NEW s \in Submits, AppendRating(s) PROVE RatedAreItems'
  <2>1. submit[s].item \in DOMAIN items /\ items' = items
    BY <1>1, AppendGoes DEF ShownAreItems
  <2>. QED
    BY <1>1, <2>1, AppendRates DEF RatedAreItems, RatingMore
<1>2. ASSUME UNCHANGED ratings PROVE RatedAreItems'
  BY <1>2, ItemsGrow DEF RatedAreItems
<1>. QED
  BY <1>1, <1>2 DEF RatingNext, AskQueue, Upsert, HoldSession, NextFor, CheckRating

LEMMA OnceStep == ASSUME RatingTypeOK, QueuedAndRatedOnce, RatingNext PROVE QueuedAndRatedOnce'
<1>1. ASSUME NEW q \in Queuers, NEW u \in Units, Upsert(q, u) PROVE QueuedAndRatedOnce'
  <2>1. ratings' = ratings
    BY <1>1 DEF Upsert
  <2>2. CASE Contains(items, u)
    BY <1>1, <2>1, <2>2 DEF Upsert, QueuedAndRatedOnce, IsInjective
  <2>3. CASE ~Contains(items, u)
    <3>1. items' = Append(items, u)
      BY <1>1, <2>3 DEF Upsert
    <3>2. /\ Len(items) \in Nat /\ DOMAIN items = 1..Len(items) /\ DOMAIN items' = 1..(Len(items) + 1)
          /\ items'[Len(items) + 1] = u /\ \A n \in 1..Len(items) : items'[n] = items[n]
      BY <3>1, QueueTypes, AppendProperties, LenProperties
    <3>3. \A n \in 1..Len(items) : items[n] # u
      BY <2>3 DEF Contains
    <3>4. \A m, n \in 1..Len(items) : items[m] = items[n] => m = n
      BY <3>2 DEF QueuedAndRatedOnce, IsInjective
    <3>5. \A m \in DOMAIN items' : m \in 1..Len(items) \/ m = Len(items) + 1
      BY <3>2
    <3>6. \A m, n \in DOMAIN items' : items'[m] = items'[n] => m = n
      BY <3>2, <3>3, <3>4, <3>5
    <3>. QED
      BY <2>1, <3>6 DEF QueuedAndRatedOnce, IsInjective
  <2>. QED
    BY <2>2, <2>3
<1>2. ASSUME NEW s \in Submits, AppendRating(s) PROVE QueuedAndRatedOnce'
  <2>1. items' = items
    BY <1>2 DEF AppendRating
  <2>2. CASE ratings' = ratings
    BY <2>1, <2>2 DEF QueuedAndRatedOnce, IsInjective
  <2>3. CASE RatingMore(submit[s].item, submit[s].rater) /\ submit[s].rater \notin RatersOf(submit[s].item)
    <3>1. \A n \in DOMAIN ratings : ratings[n].item = submit[s].item => ratings[n].rater # submit[s].rater
      BY <2>3 DEF RatersOf, RatingsOf
    <3>2. \A m, n \in DOMAIN ratings' : (m # n /\ ratings'[m].item = ratings'[n].item) => ratings'[m].rater # ratings'[n].rater
      BY <2>3, <3>1 DEF RatingMore, QueuedAndRatedOnce
    <3>. QED
      BY <2>1, <3>2 DEF QueuedAndRatedOnce, IsInjective
  <2>. QED
    BY <1>2, <2>2, <2>3, AppendRates
<1>3. ASSUME UNCHANGED <<items, ratings>> PROVE QueuedAndRatedOnce'
  BY <1>3 DEF QueuedAndRatedOnce, IsInjective
<1>. QED
  BY <1>1, <1>2, <1>3 DEF RatingNext, AskQueue, HoldSession, NextFor, CheckRating

\* Nothing is rated, and the request that went on is not past its checks, or is
\* so alone.
LEMMA AloneStays ==
    ASSUME AloneInTheLast, NEW s \in Submits, ratings' = ratings, collided \subseteq collided',
           \A t \in Submits \ {s} : submit'[t] = submit[t],
           submit'[s].pc = "append" /\ submit'[s].item \notin collided' =>
               /\ RatingCount(submit'[s].item) < RATINGS_PER_ITEM
               /\ \A t \in Submits \ {s} : submit[t].pc = "append" => submit[t].item # submit'[s].item
    PROVE  AloneInTheLast'
<1>1. \A i : RatingCount(i)' = RatingCount(i)
  BY DEF RatingCount, RatingsOf
<1>2. SUFFICES ASSUME NEW x \in Submits, submit'[x].pc = "append", submit'[x].item \notin collided'
               PROVE  /\ RatingCount(submit'[x].item) < RATINGS_PER_ITEM
                      /\ \A t \in Submits \ {x} : submit'[t].pc = "append" => submit'[t].item # submit'[x].item
  BY <1>1 DEF AloneInTheLast
<1>3. CASE x = s
  BY <1>2, <1>3
<1>4. CASE x # s
  <2>1. /\ submit'[x] = submit[x] /\ RatingCount(submit[x].item) < RATINGS_PER_ITEM
        /\ \A t \in Submits \ {x} : submit[t].pc = "append" => submit[t].item # submit[x].item
    BY <1>2, <1>4 DEF AloneInTheLast
  <2>2. submit'[s].pc = "append" => submit'[s].item # submit[x].item
    BY <1>2, <1>4, <2>1
  <2>. QED
    BY <1>4, <2>1, <2>2
<1>. QED
  BY <1>3, <1>4

LEMMA AloneStep == ASSUME RatingTypeOK, AloneInTheLast, RatingNext PROVE AloneInTheLast'
<1>1. ASSUME NEW s \in Submits, NEW r \in Raters, NextFor(s, r) PROVE AloneInTheLast'
  BY <1>1, NextForGoes, AloneStays DEF RatingWent
<1>2. ASSUME NEW s \in Submits, NEW l \in BOOLEAN, CheckRating(s, l) PROVE AloneInTheLast'
  <2> DEFINE i == submit[s].item
             others == {t \in Submits \ {s} : submit[t].pc = "append" /\ submit[t].item = i}
  <2>1. collided \subseteq collided' /\ (MayRate(s) /\ others # {} => i \in collided')
    BY <1>2 DEF CheckRating
  <2>2. submit'[s].item = i /\ (submit'[s].pc = "append" => MayRate(s)) /\ ratings' = ratings
        /\ \A t \in Submits \ {s} : submit'[t] = submit[t]
    BY <1>2, CheckGoes DEF RatingWent
  <2>3. ASSUME submit'[s].pc = "append", submit'[s].item \notin collided'
        PROVE  RatingCount(submit'[s].item) < RATINGS_PER_ITEM /\ others = {}
    BY <2>1, <2>2, <2>3 DEF MayRate
  <2>. QED
    BY <2>1, <2>2, <2>3, AloneStays
<1>3. ASSUME NEW s \in Submits, AppendRating(s) PROVE AloneInTheLast'
  <2>1. submit'[s].pc # "append" /\ submit[s].pc = "append" /\ collided' = collided
        /\ \A t \in Submits \ {s} : submit'[t] = submit[t]
    BY <1>3, AppendGoes DEF RatingWent
  <2>2. CASE ratings' = ratings
    BY <2>1, <2>2, AloneStays
  <2>3. CASE RatingMore(submit[s].item, submit[s].rater)
    <3>0. PICK i, r : i = submit[s].item /\ RatingMore(i, r)
      BY <2>3
    <3>1. \A j : j # i => RatingCount(j)' = RatingCount(j)
      BY <3>0, RatingsOfMore
    <3>2. ASSUME NEW x \in Submits, submit'[x].pc = "append", submit'[x].item \notin collided
          PROVE  /\ \A j : j = submit'[x].item => RatingCount(j)' < RATINGS_PER_ITEM
                 /\ \A t \in Submits \ {x} : submit'[t].pc = "append" => submit'[t].item # submit'[x].item
      <4>1. x # s /\ submit'[x] = submit[x]
        BY <2>1, <3>2
      <4>2. submit[x].item # submit[s].item /\ RatingCount(submit[x].item) < RATINGS_PER_ITEM
            /\ \A t \in Submits \ {x} : submit[t].pc = "append" => submit[t].item # submit[x].item
        BY <2>1, <3>2, <4>1 DEF AloneInTheLast
      <4>. QED
        BY <2>1, <3>0, <3>1, <4>1, <4>2
    <3>3. \A x \in Submits : submit'[x].pc = "append" /\ submit'[x].item \notin collided'
            => \A j : j = submit'[x].item => RatingCount(j)' < RATINGS_PER_ITEM
      BY <2>1, <3>2
    <3>4. \A x \in Submits : submit'[x].pc = "append" /\ submit'[x].item \notin collided'
            => \A t \in Submits \ {x} : submit'[t].pc = "append" => submit'[t].item # submit'[x].item
      BY <2>1, <3>2
    <3>. QED
      BY <3>3, <3>4 DEF AloneInTheLast
  <2>. QED
    BY <1>3, <2>2, <2>3, AppendRates
<1>4. ASSUME UNCHANGED <<ratings, submit, collided>> PROVE AloneInTheLast'
  BY <1>4 DEF AloneInTheLast, RatingCount, RatingsOf
<1>. QED
  BY <1>1, <1>2, <1>3, <1>4 DEF RatingNext, AskQueue, Upsert, HoldSession

LEMMA TwoStep ==
    ASSUME RatingTypeOK, RatedAreItems, AloneInTheLast, TwoRatingsPerItem, RatingNext
    PROVE  TwoRatingsPerItem'
<1>0. \A i \in DOMAIN items' : i \in collided \/ RatingCount(i) <= RATINGS_PER_ITEM
  <2>1. ASSUME NEW i \in DOMAIN items', i \notin DOMAIN items PROVE RatingCount(i) <= RATINGS_PER_ITEM
    <3>1. RatingsOf(i) = {}
      BY <2>1 DEF RatingsOf, RatedAreItems
    <3>. QED
      BY <3>1, FS_EmptySet DEF RatingCount, RATINGS_PER_ITEM
  <2>. QED
    BY <2>1 DEF TwoRatingsPerItem
<1>1. collided \subseteq collided'
  BY DEF RatingNext, AskQueue, Upsert, HoldSession, NextFor, CheckRating, AppendRating
<1>2. ASSUME NEW s \in Submits, AppendRating(s), ratings' # ratings PROVE TwoRatingsPerItem'
  <2>1. RatingMore(submit[s].item, submit[s].rater) /\ submit[s].pc = "append"
    BY <1>2, AppendRates, AppendGoes
  <2>2. PICK i, r : i = submit[s].item /\ RatingMore(i, r)
    BY <2>1
  <2>3. RatingCount(i)' = RatingCount(i) + 1 /\ \A j : j # i => RatingCount(j)' = RatingCount(j)
    BY <2>2, RatingsOfMore
  <2>4. i \in collided \/ RatingCount(i)' <= RATINGS_PER_ITEM
    BY <2>1, <2>2, <2>3, RatingsAreFinite DEF AloneInTheLast, RATINGS_PER_ITEM
  <2>5. \A j \in DOMAIN items' : j \in collided' \/ RatingCount(j)' <= RATINGS_PER_ITEM
    BY <1>0, <1>1, <2>3, <2>4
  <2>. QED
    BY <2>5 DEF TwoRatingsPerItem, RATINGS_PER_ITEM
<1>3. ASSUME ratings' = ratings PROVE TwoRatingsPerItem'
  BY <1>0, <1>1, <1>3 DEF TwoRatingsPerItem, RatingCount, RatingsOf
<1>. QED
  BY <1>2, <1>3 DEF RatingNext, AskQueue, Upsert, HoldSession, NextFor, CheckRating

-----------------------------------------------------------------------------
(* The pair of an agreement *)

LEMMA LeveledIsFinite ==
    ASSUME RatingTypeOK, NEW i
    PROVE  Leveled(i) \in SUBSET Nat /\ IsFiniteSet(Leveled(i)) /\ Cardinality(Leveled(i)) \in Nat /\ Leveled(i) \subseteq 1..Len(ratings)
<1>1. Leveled(i) \subseteq RatingsOf(i) /\ Leveled(i) \subseteq 1..Len(ratings)
  BY RatingsAreFinite DEF Leveled
<1>. QED
  BY <1>1, RatingsAreFinite, FS_Subset, FS_CardinalityType

\* Two or more ratings with a level have a first and a second, and no later one
\* comes before them.
LEMMA PairStays ==
    ASSUME RatingTypeOK, NEW i, AgreementPair(i) # <<>>, NEW n \in Nat, \A m \in Leveled(i) : m < n,
           Leveled(i)' = Leveled(i) \/ Leveled(i)' = Leveled(i) \cup {n},
           \A m \in DOMAIN ratings : ratings'[m] = ratings[m]
    PROVE  AgreementPair(i)' = AgreementPair(i)
<1> DEFINE S == Leveled(i)
           x == Min(S)
           y == Min(S \ {x})
<1>1. S \in SUBSET Nat /\ IsFiniteSet(S) /\ Cardinality(S) \in Nat /\ S \subseteq DOMAIN ratings /\ ~(Cardinality(S) < 2)
  BY LeveledIsFinite, QueueTypes DEF AgreementPair
<1>2. S # {} /\ x \in S
  BY <1>1, FS_EmptySet, SmallestIsMember
<1>3. S \ {x} # {}
  <2>1. ASSUME S \ {x} = {} PROVE FALSE
    <3>1. S = {x}
      BY <1>2, <2>1
    <3>. QED
      BY <1>1, <3>1, FS_Singleton
  <2>. QED
    BY <2>1
<1>4. y \in S
  BY <1>1, <1>3, SmallestIsMember
<1>5. /\ Min(S') = x /\ Min(S' \ {x}) = y /\ IsFiniteSet(S') /\ Cardinality(S') \in Nat /\ ~(Cardinality(S') < 2)
  <2>1. CASE S' = S
    BY <1>1, <2>1
  <2>2. CASE S' = S \cup {n}
    <3>1. Min(S') = x
      BY <1>1, <1>2, <2>2, LeastStays
    <3>2. S' \ {x} = (S \ {x}) \cup {n}
      BY <1>2, <2>2
    <3>3. Min(S' \ {x}) = y
      BY <1>1, <1>3, <3>2, LeastStays
    <3>4. n \notin S
      BY <1>1
    <3>5. IsFiniteSet(S \cup {n}) /\ Cardinality(S \cup {n}) = Cardinality(S) + 1
      BY <1>1, <3>4, FS_AddElement
    <3>6. IsFiniteSet(S') /\ Cardinality(S') = Cardinality(S) + 1
      BY <2>2, <3>5
    <3>. QED
      BY <1>1, <3>1, <3>3, <3>6
  <2>. QED
    BY <2>1, <2>2
<1>6. ratings'[x] = ratings[x] /\ ratings'[y] = ratings[y]
  BY <1>1, <1>2, <1>4
<1>7. AgreementPair(i) = <<ratings[x].rater, ratings[y].rater>>
  BY <1>1 DEF AgreementPair
<1>8. AgreementPair(i)' = <<ratings'[Min(S')].rater, ratings'[Min(S' \ {Min(S')})].rater>>
  BY <1>5 DEF AgreementPair
<1>. QED
  BY <1>5, <1>6, <1>7, <1>8

LEMMA AgreementStep ==
    ASSUME RatingTypeOK, RatingNext, NEW i, AgreementPair(i) # <<>>
    PROVE  AgreementPair(i)' = AgreementPair(i)
<1>1. CASE ratings' = ratings
  BY <1>1 DEF AgreementPair, Leveled, RatingsOf
<1>2. CASE \E j, r : RatingMore(j, r)
  <2>1. PICK j, r : RatingMore(j, r)
    BY <1>2
  <2> DEFINE n == Len(ratings')
  <2>2. n = Len(ratings) + 1 /\ n \in Nat /\ n \notin DOMAIN ratings /\ \A m \in Leveled(i) : m < n
    BY <2>1, QueueTypes, LeveledIsFinite DEF RatingMore
  <2>3. Leveled(i)' = Leveled(i) \/ Leveled(i)' = Leveled(i) \cup {n}
    <3>1. RatingsOf(i)' = RatingsOf(i) \/ RatingsOf(i)' = RatingsOf(i) \cup {n}
      BY <2>1, RatingsOfMore
    <3>2. \A m \in RatingsOf(i) : ratings'[m] = ratings[m]
      BY <2>1 DEF RatingMore, RatingsOf
    <3>. QED
      BY <3>1, <3>2 DEF Leveled
  <2>. QED
    BY <2>1, <2>2, <2>3, PairStays DEF RatingMore
<1>. QED
  BY <1>1, <1>2, AppendRates DEF RatingNext, AskQueue, Upsert, HoldSession, NextFor, CheckRating

-----------------------------------------------------------------------------
LEMMA RatingInitially == RatingInit => RatingInv
<1> SUFFICES ASSUME RatingInit PROVE RatingInv
  OBVIOUS
<1>1. RatingTypeOK
  <2>1. PICK r \in Raters : r = CHOOSE x \in Raters : TRUE
    BY RatersAssumption
  <2>2. submit = [s \in Submits |-> [pc |-> "idle", rater |-> r, item |-> 0, leveled |-> TRUE]]
    BY <2>1 DEF RatingInit
  <2>3. items = <<>> /\ ratings = <<>> /\ <<>> \in Seq(Units) /\ <<>> \in Seq(Rating)
    BY DEF RatingInit
  <2>4. submit \in [Submits -> [pc : {"idle", "shown", "append", "done", "refused"}, rater : Raters, item : Nat, leveled : BOOLEAN]]
    BY <2>2
  <2>5. enqueue \in [Queuers -> [pc : {"idle", "upsert", "done", "refused"}, todo : SUBSET Units]]
    BY DEF RatingInit
  <2>6. withheld \in BOOLEAN /\ collided \subseteq 1..Len(items)
    BY DEF RatingInit
  <2>. QED
    BY <2>3, <2>4, <2>5, <2>6 DEF RatingTypeOK
<1>2. \A i : RatingsOf(i) = {}
  BY DEF RatingInit, RatingsOf
<1>3. QueuedAndRatedOnce /\ ShownAreItems /\ RatedAreItems /\ AloneInTheLast
  BY DEF RatingInit, QueuedAndRatedOnce, IsInjective, ShownAreItems, RatedAreItems, AloneInTheLast
<1>4. TwoRatingsPerItem
  BY <1>2, FS_EmptySet DEF TwoRatingsPerItem, RatingCount, RATINGS_PER_ITEM
<1>. QED
  BY <1>1, <1>3, <1>4 DEF RatingInv

LEMMA RatingStep == ASSUME RatingInv, [RatingNext]_ratingVars PROVE RatingInv'
<1>1. CASE RatingNext
  BY <1>1, RatingTypes, ShownStep, RatedStep, OnceStep, AloneStep, TwoStep DEF RatingInv
<1>2. CASE UNCHANGED ratingVars
  <2>1. UNCHANGED <<items, ratings, enqueue, submit, withheld, collided>>
    BY <1>2 DEF ratingVars
  <2>2. RatingTypeOK' /\ ShownAreItems' /\ RatedAreItems' /\ QueuedAndRatedOnce'
    BY <2>1 DEF RatingInv, RatingTypeOK, ShownAreItems, RatedAreItems, QueuedAndRatedOnce, IsInjective
  <2>3. AloneInTheLast' /\ TwoRatingsPerItem'
    BY <2>1 DEF RatingInv, AloneInTheLast, TwoRatingsPerItem, RatingCount, RatingsOf
  <2>. QED
    BY <2>2, <2>3 DEF RatingInv
<1>. QED
  BY <1>1, <1>2

LEMMA RatingIsInductive == RatingSpec => []RatingInv
BY RatingInitially, RatingStep, PTL DEF RatingSpec

\* The queue's variables keep their types, and what is shown to a rater or rated
\* is an item of the queue.
THEOREM RatingTypesHold == RatingSpec => [](RatingTypeOK /\ ShownAreItems)
<1>1. RatingInv => RatingTypeOK /\ ShownAreItems
  BY DEF RatingInv
<1>. QED
  BY <1>1, RatingIsInductive, PTL

\* A unit is queued once, a rater counts once for it, and it gets two ratings
\* at most unless two submissions about it passed their checks together.
THEOREM QueueIsSound == RatingSpec => []RatingSound
<1>1. RatingInv => RatingSound
  BY DEF RatingInv, RatingSound
<1>. QED
  BY <1>1, RatingIsInductive, PTL

\* The pair of raters an agreement is computed on never changes, also when an
\* item collects more ratings than it should.
THEOREM AgreementPairsStay == RatingSpec => AgreementPairStays
<1>1. ASSUME RatingInv, [RatingNext]_ratingVars
      PROVE  [\A i \in DOMAIN items : AgreementPair(i) # <<>> => AgreementPair(i)' = AgreementPair(i)]_ratingVars
  BY <1>1, AgreementStep DEF RatingInv
<1>. QED
  BY <1>1, RatingIsInductive, PTL DEF RatingSpec, AgreementPairStays

==============================================================================
