----------------------------- MODULE MCCandidate -----------------------------
(* What one candidate does, in components that share no state with each       *)
(* other, each on an instance of its own: the part that runs is chosen at the *)
(* start and the others rest, so that one run explores the sum of their state *)
(* spaces.                                                                    *)
EXTENDS PracticeMissions, Interview, WorkMaterial, TLC

CONSTANTS Chosen,    \* the parts of this run
          x1, x2, f1, f2

VARIABLE part

candidateVars == <<part, practiceVars, interviewVars, materialVars>>

CandidateInit ==
    /\ part \in Chosen
    /\ PracticeInit /\ MaterialInit
    /\ InterviewInit /\ (core \/ part = "interview")

CandidateNext ==
    /\ UNCHANGED part
    /\ IF part = "practice" THEN PracticeNext ELSE UNCHANGED practiceVars
    /\ IF part = "interview" THEN InterviewNext ELSE UNCHANGED interviewVars
    /\ IF part = "material" THEN MaterialNext ELSE UNCHANGED materialVars

CandidateSpec == CandidateInit /\ [][CandidateNext]_candidateVars

-----------------------------------------------------------------------------
(* Instances *)

\* One criterion the evaluator judges and one that needs the rule as well.
MCCheckOf == [x \in Criteria |-> IF x = x1 THEN "EVALUATOR" ELSE "BOTH"]
MCShownBy == [x \in Criteria |-> IF x = x1 THEN f1 ELSE f2]

\* Three of the five dimensions, one of them with an anchor.
MCDims == <<"criticalThinking", "collaboration", "aiDigitalFluency">>
MCSchedule == <<"aiDigitalFluency">>
MCRatings == {{"criticalThinking"}, {"collaboration", "aiDigitalFluency"}}

\* The requests are alike.
MCSymmetry == Permutations(Visits)

-----------------------------------------------------------------------------
(* Properties of several parts *)

\* The variables of the part that runs have their types.
CandidateTypeOK ==
    CASE part = "practice" -> PracticeTypeOK [] part = "interview" -> InterviewTypeOK [] part = "material" -> MaterialTypeOK
=============================================================================
