---------------------------- MODULE GrowthSnapshots ----------------------------
(***************************************************************************)
(* Reassessment and growth: the registry of equivalent forms (decide), what *)
(* a student is shown (growthFor, comparePair) with the snapshots it        *)
(* records, of server/domain/growth/service.js, with snapshot.js,           *)
(* entries.js and the store (repository.pg.js).                             *)
(*                                                                         *)
(* One student, whose formal sessions are numbered in the order of their    *)
(* completion, and one capability.                                          *)
(***************************************************************************)
EXTENDS Naturals, Sequences, FiniteSets

CONSTANTS
    FormNames,
    Forms,       \* the form of each session, a sequence
    Views,       \* requests for the student's growth
    MaxChanges   \* bound: decisions on forms and changes of what the evidence says

FormalRuns == DOMAIN Forms

ASSUME GrowthAssumption == Forms \in Seq(FormNames) /\ MaxChanges \in Nat

Bands == {"EARLY", "STRONG"}
Levels == Bands \cup {"thin", "none"}    \* "none": held, invalidated or without a report
Pairs == {p \in SUBSET FormNames : Cardinality(p) \in 1..2}
NoSnapshot == [from |-> "none", to |-> "none"]

VARIABLES
    registry,     \* assessment_form_equivalence
    level,        \* what the evidence of each session says now
    snapshots,    \* capability_growth_snapshots, per baseline and reassessment
    view,         \* the requests for growth
    changes,     \* decisions and changes of the evidence
    wasApproved   \* history: pairs that have been APPROVED

growthVars == <<registry, level, snapshots, view, changes, wasApproved>>

GrowthTypeOK ==
    /\ registry \in [Pairs -> {"PENDING", "APPROVED", "REJECTED"}]
    /\ level \in [FormalRuns -> Levels]
    /\ snapshots \in [FormalRuns \X FormalRuns -> [from : Bands, to : Bands] \cup {NoSnapshot}]
    /\ view \in [Views -> [pc : {"idle", "registry", "record", "done"}, loaded : [FormalRuns -> Levels], pair : SUBSET FormalRuns]]
    /\ changes \in 0..MaxChanges /\ wasApproved \subseteq Pairs

GrowthInit ==
    /\ registry = [p \in Pairs |-> "PENDING"]
    /\ level = [s \in FormalRuns |-> "none"]
    /\ snapshots = [bs \in FormalRuns \X FormalRuns |-> NoSnapshot]
    /\ view = [v \in Views |-> [pc |-> "idle", loaded |-> [s \in FormalRuns |-> "none"], pair |-> {}]]
    /\ changes = 0 /\ wasApproved = {}

-----------------------------------------------------------------------------
(* The registry and the evidence *)

Decide(p, status) ==
    /\ registry[p] # status /\ changes < MaxChanges
    /\ changes' = changes + 1
    /\ registry' = [registry EXCEPT ![p] = status]
    /\ wasApproved' = IF status = "APPROVED" THEN wasApproved \cup {p} ELSE wasApproved
    /\ UNCHANGED <<level, snapshots, view>>

\* A session completes, is held or released, or its evidence is read anew (entryFor).
Regrade(s, l) ==
    /\ level[s] # l /\ changes < MaxChanges
    /\ changes' = changes + 1
    /\ level' = [level EXCEPT ![s] = l]
    /\ UNCHANGED <<registry, snapshots, view, wasApproved>>

-----------------------------------------------------------------------------
(* growthFor *)

LoadEntries(v) ==
    /\ view[v].pc = "idle"
    /\ view' = [view EXCEPT ![v].pc = "registry", ![v].loaded = level]
    /\ UNCHANGED <<registry, level, snapshots, changes, wasApproved>>

Formal(loaded) == {s \in FormalRuns : loaded[s] # "none"}
Latest(loaded) == CHOOSE s \in Formal(loaded) : \A t \in Formal(loaded) : t <= s

\* Mutant: any earlier session will do.
BaselinesAny(loaded) == Formal(loaded) \ {Latest(loaded)}

\* choosePair: earlier sessions whose form pairs with the latest one's as APPROVED.
Baselines(loaded) ==
    {s \in Formal(loaded) \ {Latest(loaded)} : registry[{Forms[s], Forms[Latest(loaded)]}] = "APPROVED"}

\* approvedPairs, then the most recent baseline; compareCapability needs both sufficient.
ReadRegistry(v) ==
    LET loaded == view[v].loaded
        found == Formal(loaded) # {} /\ Baselines(loaded) # {}
        baseline == CHOOSE s \in Baselines(loaded) : \A t \in Baselines(loaded) : t <= s
    IN
    /\ view[v].pc = "registry"
    /\ view' = [view EXCEPT
         ![v].pc = IF found /\ {loaded[baseline], loaded[Latest(loaded)]} \subseteq Bands THEN "record" ELSE "done",
         ![v].pair = IF found THEN {baseline, Latest(loaded)} ELSE {}]
    /\ UNCHANGED <<registry, level, snapshots, changes, wasApproved>>

\* Mutant: a later view overwrites the snapshot.
RecordOver(v) ==
    LET b == CHOOSE s \in view[v].pair : \A t \in view[v].pair : s <= t
        r == CHOOSE s \in view[v].pair : \A t \in view[v].pair : t <= s
    IN
    /\ view[v].pc = "record"
    /\ snapshots' = [snapshots EXCEPT ![<<b, r>>] = [from |-> view[v].loaded[b], to |-> view[v].loaded[r]]]
    /\ view' = [view EXCEPT ![v].pc = "done"]
    /\ UNCHANGED <<registry, level, changes, wasApproved>>

\* recordSnapshot: ON CONFLICT DO NOTHING.
Record(v) ==
    LET b == CHOOSE s \in view[v].pair : \A t \in view[v].pair : s <= t
        r == CHOOSE s \in view[v].pair : \A t \in view[v].pair : t <= s
    IN
    /\ view[v].pc = "record"
    /\ snapshots' = [snapshots EXCEPT ![<<b, r>>] = IF @ = NoSnapshot THEN [from |-> view[v].loaded[b], to |-> view[v].loaded[r]] ELSE @]
    /\ view' = [view EXCEPT ![v].pc = "done"]
    /\ UNCHANGED <<registry, level, changes, wasApproved>>

GrowthNext ==
    \/ \E p \in Pairs, status \in {"APPROVED", "REJECTED"} : Decide(p, status)
    \/ \E s \in FormalRuns, l \in Levels : Regrade(s, l)
    \/ \E v \in Views : LoadEntries(v) \/ ReadRegistry(v) \/ Record(v)

GrowthSpec == GrowthInit /\ [][GrowthNext]_growthVars

-----------------------------------------------------------------------------
(* Properties *)

\* A growth snapshot exists only for an earlier and a later session whose forms
\* a reviewer had approved as comparable, though the registry and the evidence
\* may have changed since they were read.
SnapshotsAreOfApprovedForms ==
    \A b, r \in FormalRuns : snapshots[<<b, r>>] # NoSnapshot => b < r /\ {Forms[b], Forms[r]} \in wasApproved

\* What a student was once shown as a change is never edited or withdrawn, also
\* by a later view that reads other evidence.
SnapshotsAreNotEdited ==
    [][\A b, r \in FormalRuns : snapshots[<<b, r>>] # NoSnapshot => snapshots'[<<b, r>>] = snapshots[<<b, r>>]]_growthVars
================================================================================
