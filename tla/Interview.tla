------------------------------ MODULE Interview ------------------------------
(***************************************************************************)
(* One formal conversation as the engine steers it: POST /message and       *)
(* POST /evaluate of server/routes/assessment.js with the anchor probes     *)
(* (engine/anchorProbes.js), the evidence ledger (engine/evidenceLedger.js) *)
(* and the probe selector (engine/probeSelector.js), executive engine and   *)
(* pressure moves switched on.                                              *)
(*                                                                         *)
(* Each exchange is written twice, to the live cache and then to the row;   *)
(* the history is read from the cache, the director's records (ledger,      *)
(* anchors, challengers, pressure) from the row.  Messages come one at a    *)
(* time (SessionWork has the overlapping ones); an evaluation may start at  *)
(* any moment.  A turn is what these decisions tell apart: whether the      *)
(* candidate's text reaches the word floor, the probe its reply carries and *)
(* the move its directive asked for.                                        *)
(***************************************************************************)
EXTENDS Integers, Sequences, FiniteSets

CONSTANTS
    Dims,           \* DIMENSIONS, a sequence in the ledger's order
    Schedule,       \* the dimension of the anchor due at each exchange, a sequence
    Ratings,        \* bound: the sets of dimensions one turn may be rated on
    MaxExchanges,   \* bound: messages of the conversation
    MaxFaults       \* bound: row writes that fail and restarts of the process

Dimensions == {Dims[i] : i \in DOMAIN Dims}

ASSUME InterviewAssumption ==
    /\ Schedule \in Seq(Dimensions) /\ Ratings \subseteq SUBSET Dimensions
    /\ MaxExchanges \in Nat /\ MaxFaults \in Nat

VARIABLES
    memory,     \* the live cache of the session
    kept,       \* the row of the session
    exchange,   \* the message being answered
    scoring,    \* the scoring job
    issued,     \* the report
    core,       \* PRISM_STANDARDIZED_CORE of the running process
    failures,   \* row writes that failed
    restarts

interviewVars == <<memory, kept, exchange, scoring, issued, core, failures, restarts>>

Moves == {"plain", "anchor", "challenger", "pressure"}
Kinds == {"contingency_shift", "micro_response", "callback"}
Bases == {"anchor-probe", "none", "conversational"}
Turns == [long : BOOLEAN, probe : Dimensions \cup {"none"}, move : Moves]
Opening == [long |-> TRUE, probe |-> "none", move |-> "plain"]

\* DIMENSION_WEIGHTS, in hundredths, and LEDGER.COVERAGE_TARGET.
Weight == [criticalThinking |-> 25, communication |-> 25, collaboration |-> 20,
           problemSolving |-> 20, aiDigitalFluency |-> 10]
CoverageTarget == 3

Records == [anchors : SUBSET [exchange : 1..MaxExchanges, dim : Dimensions], ledger : [Dimensions -> 0..CoverageTarget],
            challengers : SUBSET (1..MaxExchanges), pressure : SUBSET [exchange : 1..MaxExchanges, kind : Kinds]]
NoRecords == [anchors |-> {}, ledger |-> [d \in Dimensions |-> 0], challengers |-> {}, pressure |-> {}]

InterviewTypeOK ==
    /\ memory \in [live : BOOLEAN, turns : Seq(Turns)]
    /\ kept \in [turns : Seq(Turns), records : Records]
    /\ exchange \in [pc : {"idle", "reply", "cached"}, turns : Seq(Turns), records : Records, due : Dimensions \cup {"none"}]
    /\ scoring \in [pc : {"idle", "row", "panel"}, turns : Seq(Turns), anchors : SUBSET [exchange : 1..MaxExchanges, dim : Dimensions]]
    /\ issued \in [done : BOOLEAN, turns : Seq(Turns), presented : SUBSET Dimensions, basis : [Dimensions -> Bases]]
    /\ core \in BOOLEAN /\ failures \in 0..MaxFaults /\ restarts \in 0..MaxFaults

NoExchange == [pc |-> "idle", turns |-> <<>>, records |-> NoRecords, due |-> "none"]
NoScoring == [pc |-> "idle", turns |-> <<>>, anchors |-> {}]

InterviewInit ==
    /\ memory = [live |-> TRUE, turns |-> <<>>]
    /\ kept = [turns |-> <<>>, records |-> NoRecords]
    /\ exchange = NoExchange
    /\ scoring = NoScoring
    /\ issued = [done |-> FALSE, turns |-> <<>>, presented |-> {}, basis |-> [d \in Dimensions |-> "none"]]
    /\ core \in BOOLEAN
    /\ failures = 0 /\ restarts = 0

-----------------------------------------------------------------------------
(* Decisions of a turn *)

\* applyLevels: each dimension the turn is rated on (not "NA") gains evidence.
Rated(ledger, dims) == [d \in Dimensions |-> IF d \in dims /\ ledger[d] < CoverageTarget THEN ledger[d] + 1 ELSE ledger[d]]

\* targetDimension: the first of the highest weight times evidence gap.
Gap(ledger, d) == Weight[d] * (CoverageTarget - ledger[d])
Target(ledger) ==
    LET best == CHOOSE i \in DOMAIN Dims :
            /\ \A j \in DOMAIN Dims : Gap(ledger, Dims[i]) >= Gap(ledger, Dims[j])
            /\ \A j \in 1..(i - 1) : Gap(ledger, Dims[i]) > Gap(ledger, Dims[j])
    IN Dims[best]

\* anchorDueForExchange: once per dimension, only with the standardized core.
Due(n, anchors) ==
    IF core /\ n \in DOMAIN Schedule /\ \A a \in anchors : a.dim # Schedule[n] THEN Schedule[n] ELSE "none"

\* selectProbe: not in the opening, for a target that wants push-back, not within two turns.
Challenges(n, r) ==
    LET target == Target(r.ledger) IN
    /\ n >= 3
    /\ target = "collaboration" \/ r.ledger[target] <= 1
    /\ \A t \in r.challengers : n - t > 2

\* selectPressure: the kind the target asks for, else the first not used; {} when none may be put.
\* A quote for the callback is always there: the first user turn of a history is the opening prompt.
MayPress(n, used) == n >= 4 /\ Cardinality(used) < 2 /\ \A p \in used : n - p.exchange >= 3

Pressed(n, r) ==
    LET target == Target(r.ledger)
        fresh == Kinds \ {p.kind : p \in r.pressure}
        asked == CASE target = "communication" -> "micro_response" [] target = "criticalThinking" -> "callback" [] OTHER -> "contingency_shift"
    IN IF ~MayPress(n, r.pressure) THEN {}
       ELSE {IF asked \in fresh THEN asked
             ELSE IF "contingency_shift" \in fresh THEN "contingency_shift"
             ELSE IF "micro_response" \in fresh THEN "micro_response" ELSE "callback"}

\* What the turn does and the records it leaves: a fixed anchor turn, a
\* challenger, or at most one pressure move.
Steered(n, r, due) ==
    IF due # "none" THEN [move |-> "anchor", records |-> r]
    ELSE IF Challenges(n, r) THEN [move |-> "challenger", records |-> [r EXCEPT !.challengers = @ \cup {n}]]
    ELSE LET kinds == Pressed(n, r) IN
         [move |-> IF kinds = {} THEN "plain" ELSE "pressure",
          records |-> [r EXCEPT !.pressure = @ \cup {[exchange |-> n, kind |-> k] : k \in kinds}]]

-----------------------------------------------------------------------------
(* POST /message *)

\* loadSession: the cache, or the row, which fills the cache again.
Loaded == IF memory.live THEN memory.turns ELSE kept.turns
Revive == memory' = [live |-> TRUE, turns |-> Loaded]

\* Bounds: only the first Len(Schedule) + 1 texts, which probes can be about, may
\* be short, and no message comes once there is a report.
Hear(long, dims) ==
    LET n == Len(Loaded) + 1
        r == [kept.records EXCEPT !.ledger = Rated(@, dims)]
        due == Due(n, r.anchors)
        s == Steered(n, r, due)
    IN
    /\ exchange.pc = "idle" /\ n <= MaxExchanges /\ ~issued.done
    /\ long \/ n <= Len(Schedule) + 1
    /\ exchange' = [pc |-> "reply", turns |-> Append(Loaded, [long |-> long, probe |-> "none", move |-> s.move]),
                    records |-> s.records, due |-> due]
    /\ Revive
    /\ UNCHANGED <<kept, scoring, issued, core, failures, restarts>>

\* The model's reply takes the probe (appendAnchorProbe) unless it has no
\* message to put it in; either way the exchange goes to the cache.
Reply(placed) ==
    LET n == Len(exchange.turns)
        shown == exchange.due # "none" /\ placed
    IN
    /\ exchange.pc = "reply" /\ (exchange.due = "none" => placed)
    /\ LET turns == [exchange.turns EXCEPT ![n].probe = IF shown THEN exchange.due ELSE "none"]
       IN /\ memory' = [live |-> TRUE, turns |-> turns]
          /\ exchange' = [exchange EXCEPT !.pc = "cached", !.turns = turns,
                              !.records.anchors = IF shown THEN @ \cup {[exchange |-> n, dim |-> exchange.due]} ELSE @]
    /\ UNCHANGED <<kept, scoring, issued, core, failures, restarts>>

\* createCompletion or the JSON of its answer fails: nothing is kept.
ReplyFails ==
    /\ exchange.pc = "reply"
    /\ exchange' = NoExchange
    /\ UNCHANGED <<memory, kept, scoring, issued, core, failures, restarts>>

\* Mutant: the anchors presented are not written with the exchange.
KeepNoAnchors ==
    /\ exchange.pc = "cached"
    /\ kept' = [turns |-> exchange.turns, records |-> [exchange.records EXCEPT !.anchors = kept.records.anchors]]
    /\ exchange' = NoExchange
    /\ UNCHANGED <<memory, scoring, issued, core, failures, restarts>>

\* updateSession.
Keep ==
    /\ exchange.pc = "cached"
    /\ kept' = [turns |-> exchange.turns, records |-> exchange.records]
    /\ exchange' = NoExchange
    /\ UNCHANGED <<memory, scoring, issued, core, failures, restarts>>

\* The row write throws: the candidate is told the message failed, the cache has it.
KeepFails ==
    /\ exchange.pc = "cached" /\ failures + restarts < MaxFaults
    /\ failures' = failures + 1
    /\ exchange' = NoExchange
    /\ UNCHANGED <<memory, kept, scoring, issued, core, restarts>>

-----------------------------------------------------------------------------
(* POST /evaluate *)

\* A stored report or a running job answers; else loadSession, cache first.
AskScore ==
    /\ ~issued.done /\ scoring.pc = "idle"
    /\ scoring' = [pc |-> "row", turns |-> Loaded, anchors |-> {}]
    /\ Revive
    /\ UNCHANGED <<kept, exchange, issued, core, failures, restarts>>

ReadRow ==
    /\ scoring.pc = "row"
    /\ scoring' = [scoring EXCEPT !.pc = "panel", !.anchors = kept.records.anchors]
    /\ UNCHANGED <<memory, kept, exchange, issued, core, failures, restarts>>

\* No judge answered: the job ends and may be asked for again.
PanelFails ==
    /\ scoring.pc = "panel"
    /\ scoring' = NoScoring
    /\ UNCHANGED <<memory, kept, exchange, issued, core, failures, restarts>>

\* evaluateEvidenceSufficiency: the words counted for the anchor of exchange e
\* are those of userTurns[e], counted from 0 over every user entry of the
\* history; the first of them is the opening prompt that /start stored.
UserTurns(turns) == <<Opening>> \o turns

Responded(turns, e) == e + 1 <= Len(UserTurns(turns)) /\ UserTurns(turns)[e + 1].long

Sufficient(turns, anchors, d) == \E a \in anchors : a.dim = d /\ Responded(turns, a.exchange)
Basis(turns, anchors, d) ==
    IF Sufficient(turns, anchors, d) THEN "anchor-probe"
    ELSE IF d = "aiDigitalFluency" \/ core THEN "none" ELSE "conversational"

\* finalizeReportForIssuance and saveReport; the cache is dropped.
Issue ==
    /\ scoring.pc = "panel"
    /\ issued' = [done |-> TRUE, turns |-> scoring.turns, presented |-> {a.dim : a \in scoring.anchors},
                  basis |-> [d \in Dimensions |-> Basis(scoring.turns, scoring.anchors, d)]]
    /\ memory' = [live |-> FALSE, turns |-> <<>>]
    /\ scoring' = NoScoring
    /\ UNCHANGED <<kept, exchange, core, failures, restarts>>

\* A restart loses the cache, the message and the job, and may change the flags.
RestartEngine ==
    /\ failures + restarts < MaxFaults
    /\ restarts' = restarts + 1
    /\ memory' = [live |-> FALSE, turns |-> <<>>]
    /\ exchange' = NoExchange /\ scoring' = NoScoring
    /\ core' \in BOOLEAN
    /\ UNCHANGED <<kept, issued, failures>>

InterviewNext ==
    \/ \E long \in BOOLEAN, dims \in Ratings : Hear(long, dims)
    \/ \E placed \in BOOLEAN : Reply(placed)
    \/ ReplyFails \/ Keep \/ KeepFails
    \/ AskScore \/ ReadRow \/ PanelFails \/ Issue
    \/ RestartEngine

InterviewSpec == InterviewInit /\ [][InterviewNext]_interviewVars

-----------------------------------------------------------------------------
(* Properties *)

\* A report that scores a dimension on its anchor probe scored a transcript in
\* which the candidate was shown that probe, whatever was lost or restarted.
RecordedProbesWereShown ==
    issued.done => \A d \in Dimensions : issued.basis[d] = "anchor-probe" =>
        \E e \in DOMAIN issued.turns : issued.turns[e].probe = d

\* Unless a row write failed, a probe the candidate was shown is an opportunity
\* the report counts; the last exchange may still have been on its way to the row.
ShownProbesAreCounted ==
    (issued.done /\ failures = 0) => \A e \in DOMAIN issued.turns :
        (issued.turns[e].probe # "none" /\ e < Len(issued.turns)) => issued.turns[e].probe \in issued.presented

\* A candidate is pressed fairly over the whole conversation (probeSelector.js):
\* no pressure before the fourth exchange, at most two, three exchanges apart;
\* two challengers never within two turns of each other.  A row write that
\* failed forgets the move it should have noted.
FairPressure ==
    LET put(m) == {e \in DOMAIN kept.turns : kept.turns[e].move = m} IN
    failures = 0 =>
        /\ Cardinality(put("pressure")) <= 2
        /\ \A e \in put("pressure") : e >= 4
        /\ \A e, f \in put("pressure") : e < f => f - e >= 3
        /\ \A e, f \in put("challenger") : e < f => f - e > 2

\* What a report says of the probes is what was asked, and the asking was fair,
\* whatever was lost, restarted or scored half way.
InterviewSound == RecordedProbesWereShown /\ ShownProbesAreCounted /\ FairPressure

\* A dimension is scored on its anchor probe only when the candidate's answer
\* to that probe, the message after it, reached the word floor.
JudgedOnTheAnswer ==
    issued.done => \A d \in Dimensions : issued.basis[d] = "anchor-probe" =>
        \E e \in DOMAIN issued.turns :
            issued.turns[e].probe = d /\ e + 1 \in DOMAIN issued.turns /\ issued.turns[e + 1].long
==============================================================================
