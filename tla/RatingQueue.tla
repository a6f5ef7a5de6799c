----------------------------- MODULE RatingQueue -----------------------------
(***************************************************************************)
(* The double rating of evidence units by human raters: enqueueSession,     *)
(* nextFor, submit and agreement (server/domain/validation/service.js), the *)
(* choice of the next item (ratingQueue.js), the pair the agreement is       *)
(* computed on (agreement.js) and the unique keys of the store              *)
(* (repository.js).  A request reads in one step and writes in a later one. *)
(* Items and ratings are sequences in the order of their creation.          *)
(***************************************************************************)
EXTENDS Naturals, Sequences, FiniteSets, SequencesExt

CONSTANTS
    Units,      \* ratable evidence units of one session
    Raters,
    Queuers,    \* requests to queue the session
    Submits     \* requests of the raters

ASSUME RatersAssumption == Raters # {}

RATINGS_PER_ITEM == 2

VARIABLES
    items,      \* evidence_rating_items: the unit of each
    ratings,    \* evidence_unit_ratings
    enqueue,    \* the requests to queue
    submit,     \* the requests to rate
    withheld,   \* whether the session is held or invalidated
    collided    \* history: items whose last rating two requests had checked at once

ratingVars == <<items, ratings, enqueue, submit, withheld, collided>>

Rating == [item : Nat, rater : Raters, leveled : BOOLEAN]

RatingTypeOK ==
    /\ items \in Seq(Units)
    /\ ratings \in Seq(Rating)
    /\ enqueue \in [Queuers -> [pc : {"idle", "upsert", "done", "refused"}, todo : SUBSET Units]]
    /\ submit \in [Submits -> [pc : {"idle", "shown", "append", "done", "refused"}, rater : Raters, item : Nat, leveled : BOOLEAN]]
    /\ withheld \in BOOLEAN /\ collided \subseteq 1..Len(items)

RatingInit ==
    /\ items = <<>> /\ ratings = <<>>
    /\ enqueue = [q \in Queuers |-> [pc |-> "idle", todo |-> {}]]
    /\ submit = [s \in Submits |-> [pc |-> "idle", rater |-> CHOOSE r \in Raters : TRUE, item |-> 0, leveled |-> TRUE]]
    /\ withheld = FALSE /\ collided = {}

\* The ratings of an item, by their places in the order of creation.
RatingsOf(i) == {n \in DOMAIN ratings : ratings[n].item = i}
RatersOf(i) == {ratings[n].rater : n \in RatingsOf(i)}
RatingCount(i) == Cardinality(RatingsOf(i))

-----------------------------------------------------------------------------
(* enqueueSession *)

\* Neither held nor invalidated; its ratable units are queued one by one.
AskQueue(q) ==
    /\ enqueue[q].pc = "idle"
    /\ enqueue' = [enqueue EXCEPT ![q] = IF withheld THEN [pc |-> "refused", todo |-> {}] ELSE [pc |-> "upsert", todo |-> Units]]
    /\ UNCHANGED <<items, ratings, submit, withheld, collided>>

\* Mutant: the item is inserted whether or not the evidence has one.
UpsertAnyway(q, u) ==
    /\ enqueue[q].pc = "upsert" /\ u \in enqueue[q].todo
    /\ items' = Append(items, u)
    /\ enqueue' = [enqueue EXCEPT ![q].todo = @ \ {u}, ![q].pc = IF enqueue[q].todo = {u} THEN "done" ELSE @]
    /\ UNCHANGED <<ratings, submit, withheld, collided>>

\* upsertItem: unique per evidence reference.
Upsert(q, u) ==
    /\ enqueue[q].pc = "upsert" /\ u \in enqueue[q].todo
    /\ items' = IF Contains(items, u) THEN items ELSE Append(items, u)
    /\ enqueue' = [enqueue EXCEPT ![q].todo = @ \ {u}, ![q].pc = IF enqueue[q].todo = {u} THEN "done" ELSE @]
    /\ UNCHANGED <<ratings, submit, withheld, collided>>

\* A review holds the session; what is queued stays queued.
HoldSession ==
    /\ ~withheld
    /\ withheld' = TRUE
    /\ UNCHANGED <<items, ratings, enqueue, submit, collided>>

-----------------------------------------------------------------------------
(* nextFor and submit *)

\* pickNext: an item the rater has not rated, short of its ratings; those with
\* a rating first, then the oldest.
OpenTo(rater) == {i \in DOMAIN items : RatingCount(i) < RATINGS_PER_ITEM /\ rater \notin RatersOf(i)}
Picked(rater) == CHOOSE i \in OpenTo(rater) : \A j \in OpenTo(rater) \ {i} :
    \/ RatingCount(i) > RatingCount(j)
    \/ RatingCount(i) = RatingCount(j) /\ i < j

NextFor(s, rater) ==
    /\ submit[s].pc = "idle" /\ OpenTo(rater) # {}
    /\ submit' = [submit EXCEPT ![s].pc = "shown", ![s].rater = rater, ![s].item = Picked(rater)]
    /\ UNCHANGED <<items, ratings, enqueue, withheld, collided>>

\* Not rated by this rater, and not yet rated twice.
MayRate(s) == submit[s].rater \notin RatersOf(submit[s].item) /\ RatingCount(submit[s].item) < RATINGS_PER_ITEM

\* The ratings are read; a rater may answer an item with "cannot rate".
CheckRating(s, leveled) ==
    LET i == submit[s].item
        others == {t \in Submits \ {s} : submit[t].pc = "append" /\ submit[t].item = i}
    IN
    /\ submit[s].pc = "shown"
    /\ submit' = [submit EXCEPT ![s].pc = IF MayRate(s) THEN "append" ELSE "refused", ![s].leveled = leveled]
    /\ collided' = IF MayRate(s) /\ others # {} THEN collided \cup {i} ELSE collided
    /\ UNCHANGED <<items, ratings, enqueue, withheld>>

\* appendRating: unique per item and rater.
AppendRating(s) ==
    LET i == submit[s].item  taken == submit[s].rater \in RatersOf(i) IN
    /\ submit[s].pc = "append"
    /\ ratings' = IF taken THEN ratings
                  ELSE Append(ratings, [item |-> i, rater |-> submit[s].rater, leveled |-> submit[s].leveled])
    /\ submit' = [submit EXCEPT ![s].pc = IF taken THEN "refused" ELSE "done"]
    /\ UNCHANGED <<items, enqueue, withheld, collided>>

RatingNext ==
    \/ \E q \in Queuers : AskQueue(q) \/ \E u \in Units : Upsert(q, u)
    \/ HoldSession
    \/ \E s \in Submits :
        \/ \E r \in Raters : NextFor(s, r)
        \/ \E leveled \in BOOLEAN : CheckRating(s, leveled)
        \/ AppendRating(s)

RatingSpec == RatingInit /\ [][RatingNext]_ratingVars

\* agreementReport: the first two ratings of an item that have a level.
Leveled(i) == {n \in RatingsOf(i) : ratings[n].leveled}
AgreementPair(i) ==
    IF Cardinality(Leveled(i)) < 2 THEN <<>>
    ELSE <<ratings[Min(Leveled(i))].rater, ratings[Min(Leveled(i) \ {Min(Leveled(i))})].rater>>

-----------------------------------------------------------------------------
(* Properties *)

\* An evidence unit is queued at most once, whoever queues it together, and no
\* rater counts twice for it, however often they click.
QueuedAndRatedOnce ==
    /\ IsInjective(items)
    /\ \A m, n \in DOMAIN ratings : (m # n /\ ratings[m].item = ratings[n].item) => ratings[m].rater # ratings[n].rater

\* An item has at most two ratings, unless the checks of two submissions about
\* it were both passed before either was stored (service.js:51).
TwoRatingsPerItem == \A i \in DOMAIN items : i \in collided \/ RatingCount(i) <= RATINGS_PER_ITEM

\* The queue asks for two independent ratings of each unit.
RatingSound == QueuedAndRatedOnce /\ TwoRatingsPerItem

\* The pair of raters an agreement was computed on is that of every later
\* computation, also when an item collects a third rating.
AgreementPairStays ==
    [][\A i \in DOMAIN items : AgreementPair(i) # <<>> => AgreementPair(i)' = AgreementPair(i)]_ratingVars
==============================================================================
