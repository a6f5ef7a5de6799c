-------------------------- MODULE SessionWorkProofs --------------------------
(***************************************************************************)
(* Proofs about the work of one session, for any number of requests,        *)
(* messages, edits, artifacts and restarts, and for any faults a scenario   *)
(* may hold.                                                                *)
(***************************************************************************)
EXTENDS SessionWork, SequenceTheorems, FiniteSetTheorems, TLAPS

\* What is between the lock and the answer, and what is in the engine.
MsgSteps == {"msg.lock", "msg.check", "msg.answer"} \cup Messaging
SaveSteps == {"save.lock", "save.check", "save.version", "save.answer"} \cup Saving

\* The lock is held by every request between it and its answer, unless its
\* handler is one the invoker has given up on.
LockIsHeld == \A c \in Calls : (call[c].pc \in Locked /\ ~call[c].late) => holder = c

\* A request is late in the engine only.
LateInEngine == \A c \in Calls : call[c].late => call[c].pc \in Messaging \cup Saving \cup Ended

\* A message has a message's event, a save an edit.
EventsFit ==
    \A c \in Calls :
        /\ call[c].pc \in MsgSteps => call[c].event \in Texts
        /\ call[c].pc \in SaveSteps => call[c].event \in Edits
        /\ call[c].event # NoEvent => call[c].event \in scenario.events

WorkInv == TypeOK /\ LockIsHeld /\ LateInEngine /\ EventsFit

Pcs == <<Messaging, Saving, Scoring, Locked, Ended, Steps, MsgSteps, SaveSteps>>

LEMMA LoadedTyped ==
    ASSUME TypeOK
    PROVE  Loaded \in [live: BOOLEAN, hist: Seq(Texts), art: SUBSET Edits]
BY DEF TypeOK, Loaded, Rows

-----------------------------------------------------------------------------
(* Types, and who holds the lock *)

LEMMA InitWorkInv == Init => WorkInv
<1> SUFFICES ASSUME Init PROVE WorkInv
  OBVIOUS
<1>1. <<>> \in Seq(Texts)
  BY EmptySeq
<1>2. Blank \in Requests
  BY <1>1 DEF Blank, Requests, Rows, Steps, Locked, Ended, Scoring, Messaging, Saving
<1>3. TypeOK
  BY <1>1, <1>2, WorkAssumption DEF Init, TypeOK, Rows
<1>4. \A c \in Calls : call[c].pc = "idle" /\ ~call[c].late /\ call[c].event = NoEvent
  BY DEF Init, Blank
<1>. QED
  BY <1>3, <1>4 DEF WorkInv, LockIsHeld, LateInEngine, EventsFit, MsgSteps, SaveSteps, Locked, Messaging, Saving

\* Request c has moved, and nobody else.
Moved(c, pc) ==
    /\ call' \in [Calls -> Requests]
    /\ \A d \in Calls \ {c} : call'[d] = call[d]
    /\ call'[c].pc = pc

Kept(c) ==
    /\ call'[c].event = call[c].event /\ call'[c].match = call[c].match /\ call'[c].hist = call[c].hist
    /\ call'[c].art = call[c].art /\ call'[c].row = call[c].row /\ call'[c].seen = call[c].seen
    /\ call'[c].late = call[c].late

LEMMA BecomesMoves ==
    ASSUME TypeOK, NEW c \in Calls, NEW r \in Requests, call' = [call EXCEPT ![c] = r]
    PROVE  Moved(c, r.pc) /\ call'[c] = r
BY DEF TypeOK, Moved

LEMMA GotoMoves ==
    ASSUME TypeOK, NEW c \in Calls, NEW pc \in Steps, Goto(c, pc)
    PROVE  Moved(c, pc) /\ Kept(c)
<1> DEFINE r == [call[c] EXCEPT !.pc = pc]
<1>1. call' = [call EXCEPT ![c] = r] /\ call[c] \in Requests
  BY DEF TypeOK, Goto
<1>2. /\ r \in Requests /\ r.pc = pc /\ r.hist = call[c].hist /\ r.art = call[c].art /\ r.event = call[c].event
      /\ r.match = call[c].match /\ r.row = call[c].row /\ r.seen = call[c].seen /\ r.late = call[c].late
  BY <1>1 DEF Requests
<1>. HIDE DEF r
<1>3. Moved(c, r.pc) /\ call'[c] = r
  BY <1>1, <1>2, BecomesMoves
<1>. QED
  BY <1>2, <1>3 DEF Kept

\* What a step that takes a copy of the stores leaves of a request.
Loads(c, pc, h, a, w, s) ==
    /\ Moved(c, pc)
    /\ call'[c].hist = h /\ call'[c].art = a /\ call'[c].row = w /\ call'[c].seen = s
    /\ call'[c].event = call[c].event /\ call'[c].match = call[c].match /\ call'[c].late = call[c].late

LEMMA LoadsMove ==
    ASSUME TypeOK, NEW c \in Calls, NEW pc \in Steps, NEW h \in Seq(Texts), NEW a \in SUBSET Edits, NEW w \in Rows, NEW s \in SUBSET Texts,
           call' = [call EXCEPT ![c] = [[[[[call[c] EXCEPT !.pc = pc] EXCEPT !.hist = h] EXCEPT !.art = a] EXCEPT !.row = w] EXCEPT !.seen = s]]
    PROVE  Loads(c, pc, h, a, w, s)
<1> DEFINE r == [[[[[call[c] EXCEPT !.pc = pc] EXCEPT !.hist = h] EXCEPT !.art = a] EXCEPT !.row = w] EXCEPT !.seen = s]
<1>1. call' = [call EXCEPT ![c] = r] /\ call[c] \in Requests
  BY DEF TypeOK
<1>2. /\ r \in Requests /\ r.pc = pc /\ r.hist = h /\ r.art = a /\ r.event = call[c].event
      /\ r.match = call[c].match /\ r.row = w /\ r.seen = s /\ r.late = call[c].late
  BY <1>1 DEF Requests
<1>. HIDE DEF r
<1>3. Moved(c, r.pc) /\ call'[c] = r
  BY <1>1, <1>2, BecomesMoves
<1>. QED
  BY <1>2, <1>3 DEF Loads

LEMMA RequestFields ==
    ASSUME TypeOK, NEW c \in Calls
    PROVE  /\ call[c].pc \in Steps /\ call[c].event \in Texts \cup Edits \cup {NoEvent} /\ call[c].match \in Nat
           /\ call[c].hist \in Seq(Texts) /\ call[c].art \in SUBSET Edits /\ call[c].row \in Rows
           /\ call[c].seen \in SUBSET Texts /\ call[c].late \in BOOLEAN
BY DEF TypeOK, Requests

LEMMA StepNames ==
    {"idle", "msg.lock", "msg.check", "msg.load", "msg.cache", "msg.row", "msg.write", "msg.answer",
     "save.lock", "save.check", "save.load", "save.row", "save.write", "save.cache", "save.version", "save.answer",
     "eval.lookup", "eval.load", "eval.job", "eval.mark", "eval.forget", "done", "failed"} \subseteq Steps
BY DEF Steps, Locked, Messaging, Saving, Scoring, Ended

LEMMA MsgLoadMoves ==
    ASSUME WorkInv, NEW c \in Calls, MsgLoad(c)
    PROVE  /\ call[c].event \in Texts
           /\ Loads(c, "msg.cache", Append(Loaded.hist, call[c].event), call[c].art, call[c].row, call[c].seen)
<1>1. call[c].event \in Texts
  BY DEF MsgLoad, WorkInv, EventsFit, MsgSteps, Messaging
<1> DEFINE h == Append(Loaded.hist, call[c].event)
           r == [[[[[call[c] EXCEPT !.pc = "msg.cache"] EXCEPT !.hist = h] EXCEPT !.art = call[c].art] EXCEPT !.row = call[c].row] EXCEPT !.seen = call[c].seen]
<1>2. h \in Seq(Texts)
  BY <1>1, LoadedTyped, AppendProperties DEF WorkInv
<1>3. TypeOK /\ call' = [call EXCEPT ![c].pc = "msg.cache", ![c].hist = h]
  BY DEF WorkInv, MsgLoad
<1>. HIDE DEF h
<1>4. call' = [call EXCEPT ![c] = r]
  BY <1>3 DEF TypeOK, Requests
<1>5. Loads(c, "msg.cache", h, call[c].art, call[c].row, call[c].seen)
  BY <1>2, <1>3, <1>4, StepNames, RequestFields, LoadsMove
<1>. QED
  BY <1>1, <1>5 DEF h

LEMMA SaveLoadMoves ==
    ASSUME WorkInv, NEW c \in Calls, SaveLoad(c)
    PROVE  /\ call[c].event \in Edits
           /\ Loads(c, "save.row", Loaded.hist, Loaded.art \cup {call[c].event}, call[c].row, call[c].seen)
<1>1. call[c].event \in Edits
  BY DEF SaveLoad, WorkInv, EventsFit, SaveSteps, Saving
<1> DEFINE h == Loaded.hist
           a == Loaded.art \cup {call[c].event}
           r == [[[[[call[c] EXCEPT !.pc = "save.row"] EXCEPT !.hist = h] EXCEPT !.art = a] EXCEPT !.row = call[c].row] EXCEPT !.seen = call[c].seen]
<1>2. h \in Seq(Texts) /\ a \in SUBSET Edits
  BY <1>1, LoadedTyped DEF WorkInv
<1>3. TypeOK /\ call' = [call EXCEPT ![c].pc = "save.row", ![c].hist = h, ![c].art = a]
  BY DEF WorkInv, SaveLoad
<1>. HIDE DEF h, a
<1>4. call' = [call EXCEPT ![c] = r]
  BY <1>3 DEF TypeOK, Requests
<1>5. Loads(c, "save.row", h, a, call[c].row, call[c].seen)
  BY <1>2, <1>3, <1>4, StepNames, RequestFields, LoadsMove
<1>. QED
  BY <1>1, <1>5 DEF h, a

LEMMA EvalLoadMoves ==
    ASSUME WorkInv, NEW c \in Calls, EvalLoad(c)
    PROVE  Loads(c, "eval.job", Loaded.hist, call[c].art, call[c].row, call[c].seen)
<1> DEFINE h == Loaded.hist
           r == [[[[[call[c] EXCEPT !.pc = "eval.job"] EXCEPT !.hist = h] EXCEPT !.art = call[c].art] EXCEPT !.row = call[c].row] EXCEPT !.seen = call[c].seen]
<1>2. h \in Seq(Texts)
  BY LoadedTyped DEF WorkInv
<1>3. TypeOK /\ call' = [call EXCEPT ![c].pc = "eval.job", ![c].hist = h]
  BY DEF WorkInv, EvalLoad
<1>. HIDE DEF h
<1>4. call' = [call EXCEPT ![c] = r]
  BY <1>3 DEF TypeOK, Requests
<1>5. Loads(c, "eval.job", h, call[c].art, call[c].row, call[c].seen)
  BY <1>2, <1>3, <1>4, StepNames, RequestFields, LoadsMove
<1>. QED
  BY <1>5 DEF h

LEMMA EvalAskMoves ==
    ASSUME WorkInv, NEW c \in Calls, EvalAsk(c)
    PROVE  Loads(c, IF report = NoReport THEN "eval.lookup" ELSE "done", call[c].hist, call[c].art, call[c].row, stored \cap Texts)
<1> DEFINE s == stored \cap Texts
           pc == IF report = NoReport THEN "eval.lookup" ELSE "done"
           r == [[[[[call[c] EXCEPT !.pc = pc] EXCEPT !.hist = call[c].hist] EXCEPT !.art = call[c].art] EXCEPT !.row = call[c].row] EXCEPT !.seen = s]
<1>2. s \in SUBSET Texts /\ pc \in Steps
  BY StepNames
<1>3. TypeOK /\ call' = [call EXCEPT ![c].pc = pc, ![c].seen = s]
  BY DEF WorkInv, EvalAsk
<1>. HIDE DEF s, pc
<1>4. call' = [call EXCEPT ![c] = r]
  BY <1>3 DEF TypeOK, Requests
<1>5. Loads(c, pc, call[c].hist, call[c].art, call[c].row, s)
  BY <1>2, <1>3, <1>4, StepNames, RequestFields, LoadsMove
<1>. QED
  BY <1>5 DEF s, pc

LEMMA ReadRowMoves ==
    ASSUME WorkInv, NEW c \in Calls, NEW pc \in Steps, ReadRow(c, pc)
    PROVE  Loads(c, pc, call[c].hist, call[c].art, row, call[c].seen)
<1> DEFINE r == [[[[[call[c] EXCEPT !.pc = pc] EXCEPT !.hist = call[c].hist] EXCEPT !.art = call[c].art] EXCEPT !.row = row] EXCEPT !.seen = call[c].seen]
<1>1. row \in Rows
  BY DEF WorkInv, TypeOK
<1>2. TypeOK /\ call' = [call EXCEPT ![c].pc = pc, ![c].row = row]
  BY DEF WorkInv, ReadRow
<1>4. call' = [call EXCEPT ![c] = r]
  BY <1>2 DEF TypeOK, Requests
<1>. QED
  BY <1>1, <1>2, <1>4, RequestFields, LoadsMove

\* The two requests that name an event.
Asked(c, pc, e, v) ==
    /\ Moved(c, pc)
    /\ call'[c].event = e /\ call'[c].match = v
    /\ call'[c].hist = call[c].hist /\ call'[c].art = call[c].art /\ call'[c].row = call[c].row
    /\ call'[c].seen = call[c].seen /\ call'[c].late = call[c].late

LEMMA AskMoves ==
    ASSUME TypeOK, NEW c \in Calls, NEW pc \in Steps, NEW e \in Texts \cup Edits, NEW v \in Nat,
           call' = [call EXCEPT ![c] = [[[call[c] EXCEPT !.pc = pc] EXCEPT !.event = e] EXCEPT !.match = v]]
    PROVE  Asked(c, pc, e, v)
<1> DEFINE r == [[[call[c] EXCEPT !.pc = pc] EXCEPT !.event = e] EXCEPT !.match = v]
<1>1. call' = [call EXCEPT ![c] = r] /\ call[c] \in Requests
  BY DEF TypeOK
<1>2. /\ r \in Requests /\ r.pc = pc /\ r.hist = call[c].hist /\ r.art = call[c].art /\ r.event = e
      /\ r.match = v /\ r.row = call[c].row /\ r.seen = call[c].seen /\ r.late = call[c].late
  BY <1>1 DEF Requests
<1>. HIDE DEF r
<1>3. Moved(c, r.pc) /\ call'[c] = r
  BY <1>1, <1>2, BecomesMoves
<1>. QED
  BY <1>2, <1>3 DEF Asked

LEMMA MsgAskMoves ==
    ASSUME WorkInv, NEW c \in Calls, NEW e \in Texts, MsgAsk(c, e)
    PROVE  Asked(c, IF e \in stored THEN "done" ELSE "msg.lock", e, call[c].match)
<1> DEFINE pc == IF e \in stored THEN "done" ELSE "msg.lock"
           r == [[[call[c] EXCEPT !.pc = pc] EXCEPT !.event = e] EXCEPT !.match = call[c].match]
<1>1. TypeOK /\ pc \in Steps /\ call' = [call EXCEPT ![c].pc = pc, ![c].event = e]
  BY StepNames DEF WorkInv, MsgAsk
<1>. HIDE DEF pc
<1>2. call' = [call EXCEPT ![c] = r]
  BY <1>1 DEF TypeOK, Requests
<1>3. Asked(c, pc, e, call[c].match)
  BY <1>1, <1>2, RequestFields, AskMoves
<1>. QED
  BY <1>3 DEF pc

LEMMA SaveAskMoves ==
    ASSUME WorkInv, NEW c \in Calls, NEW e \in Edits, NEW v \in Nat, SaveAsk(c, e, v)
    PROVE  Asked(c, IF e \in stored THEN "done" ELSE "save.lock", e, v)
<1> DEFINE pc == IF e \in stored THEN "done" ELSE "save.lock"
           r == [[[call[c] EXCEPT !.pc = pc] EXCEPT !.event = e] EXCEPT !.match = v]
<1>1. TypeOK /\ pc \in Steps /\ call' = [call EXCEPT ![c].pc = pc, ![c].event = e, ![c].match = v]
  BY StepNames DEF WorkInv, SaveAsk
<1>. HIDE DEF pc
<1>2. call' = [call EXCEPT ![c] = r]
  BY <1>1 DEF TypeOK, Requests
<1>3. Asked(c, pc, e, v)
  BY <1>1, <1>2, AskMoves
<1>. QED
  BY <1>3 DEF pc

\* A handler the invoker gives up on goes on where it is.
LEMMA TimeoutMoves ==
    ASSUME WorkInv, NEW c \in Calls, EngineTimesOut(c)
    PROVE  /\ Moved(c, call[c].pc) /\ call'[c].late
           /\ call'[c].hist = call[c].hist /\ call'[c].art = call[c].art /\ call'[c].row = call[c].row
           /\ call'[c].event = call[c].event /\ call'[c].match = call[c].match /\ call'[c].seen = call[c].seen
<1> DEFINE r == [call[c] EXCEPT !.late = TRUE]
<1>1. TypeOK /\ call' = [call EXCEPT ![c] = r] /\ call[c] \in Requests
  BY DEF WorkInv, TypeOK, EngineTimesOut
<1>2. /\ r \in Requests /\ r.pc = call[c].pc /\ r.hist = call[c].hist /\ r.art = call[c].art /\ r.event = call[c].event
      /\ r.match = call[c].match /\ r.row = call[c].row /\ r.seen = call[c].seen /\ r.late
  BY <1>1 DEF Requests
<1>. HIDE DEF r
<1>. QED
  BY <1>1, <1>2, BecomesMoves

\* After a restart there are requests that had ended or not begun, and failed ones.
LEMMA CrashMoves ==
    ASSUME WorkInv, Crash
    PROVE  /\ call' \in [Calls -> Requests]
           /\ \A c \in Calls : \/ call'[c] = call[c] /\ call[c].pc \in {"idle"} \cup Ended
                               \/ call'[c].pc = "failed" /\ ~call'[c].late /\ call'[c].event = NoEvent
<1> DEFINE gone == [Blank EXCEPT !.pc = "failed"]
<1>1. <<>> \in Seq(Texts)
  BY EmptySeq
<1>2. gone \in Requests /\ gone.pc = "failed" /\ ~gone.late /\ gone.event = NoEvent
  BY <1>1, StepNames DEF Blank, Requests, Rows
<1>3. call' = [c \in Calls |-> IF call[c].pc \in {"idle"} \cup Ended THEN call[c] ELSE gone]
  BY DEF Crash
<1>4. call \in [Calls -> Requests]
  BY DEF WorkInv, TypeOK
<1>. HIDE DEF gone
<1>. QED
  BY <1>2, <1>3, <1>4

-----------------------------------------------------------------------------
(* Every step keeps types, the lock and the kinds of the requests *)

StoresTyped ==
    /\ cache \in [live: BOOLEAN, hist: Seq(Texts), art: SUBSET Edits]
    /\ row \in Rows
    /\ report = NoReport \/ report \in Seq(Texts)
    /\ stored \subseteq Texts \cup Edits
    /\ versions \in [Artifacts -> Seq(Versions)]
    /\ registry \in Calls \cup {NoCall}
    /\ crashes \in 0..MaxCrashes /\ scenario \in Scenarios

\* The lock after a step of c: taken by c or given back by it, or as it was.
LockOf(c) ==
    /\ holder' = holder \/ (holder \in {c, NoCall} /\ holder' \in {c, NoCall})
    /\ (call'[c].pc \in Locked /\ ~call'[c].late) <=> holder' = c

\* The kind of a request stays what it is.
KindOf(c) ==
    /\ call'[c].late => call'[c].pc \in Messaging \cup Saving \cup Ended
    /\ call'[c].pc \in MsgSteps => call'[c].event \in Texts
    /\ call'[c].pc \in SaveSteps => call'[c].event \in Edits
    /\ call'[c].event # NoEvent => call'[c].event \in scenario'.events

LEMMA WorkStep ==
    ASSUME WorkInv, NEW c \in Calls, NEW pc, Moved(c, pc), StoresTyped', scenario' = scenario, LockOf(c), KindOf(c)
    PROVE  WorkInv'
<1>1. NoCall \notin Calls
  BY WorkAssumption
<1>2. holder' \in Calls \cup {NoCall}
  BY DEF WorkInv, TypeOK, LockOf
<1>3. \A d \in Calls \ {c} : call'[d] = call[d]
  BY DEF Moved
<1>4. LockIsHeld'
  BY <1>1, <1>3 DEF WorkInv, LockIsHeld, LockOf
<1>5. holder' # NoCall => call'[holder'].pc \in Locked /\ ~call'[holder'].late
  <2>1. CASE holder' = c
    BY <2>1 DEF LockOf
  <2>2. CASE holder' # c
    BY <1>1, <1>3, <2>2 DEF LockOf, WorkInv, TypeOK
  <2>. QED
    BY <2>1, <2>2
<1>6. TypeOK'
  BY <1>2, <1>5 DEF StoresTyped, TypeOK, Moved
<1>7. LateInEngine' /\ EventsFit'
  BY <1>3 DEF WorkInv, LateInEngine, EventsFit, KindOf
<1>. QED
  BY <1>4, <1>6, <1>7 DEF WorkInv

\* What a request at a step is, before it takes it.
LEMMA HolderOrNot ==
    ASSUME WorkInv, NEW c \in Calls
    PROVE  /\ holder = c <=> call[c].pc \in Locked /\ ~call[c].late
           /\ call[c].late => call[c].pc \in Messaging \cup Saving \cup Ended
           /\ call[c].pc \in MsgSteps => call[c].event \in Texts
           /\ call[c].pc \in SaveSteps => call[c].event \in Edits
           /\ call[c].event # NoEvent => call[c].event \in scenario.events
           /\ StoresTyped
BY WorkAssumption DEF WorkInv, TypeOK, LockIsHeld, LateInEngine, EventsFit, StoresTyped

\* A step that goes on inside the same kind, the lock as it was.
LEMMA OnwardStep ==
    ASSUME WorkInv, NEW c \in Calls, NEW pc, Moved(c, pc), StoresTyped', UNCHANGED <<holder, scenario>>,
           call'[c].event = call[c].event, call'[c].late = call[c].late,
           \/ pc \in Ended /\ (call[c].pc \notin Locked \/ call[c].late)
           \/ pc \in Messaging \cup {"msg.answer"} /\ call[c].pc \in {"msg.check"} \cup Messaging /\ (call[c].late => pc \in Messaging)
           \/ pc \in Saving \cup {"save.version", "save.answer"} /\ call[c].pc \in {"save.check", "save.version"} \cup Saving /\ (call[c].late => pc \in Saving)
           \/ pc \in {"eval.lookup", "eval.load"} \cup Scoring /\ call[c].pc \in {"idle", "eval.lookup", "eval.load"} \cup Scoring
    PROVE  WorkInv'
<1>1. LockOf(c)
  BY HolderOrNot DEF LockOf, Moved, Locked, Messaging, Saving, Scoring, Ended
<1>2. KindOf(c)
  BY HolderOrNot DEF KindOf, Moved, MsgSteps, SaveSteps, Messaging, Saving, Scoring, Ended
<1>. QED
  BY <1>1, <1>2, WorkStep

\* A step that ends the request and leaves the lock.
LEMMA LeaveStep ==
    ASSUME WorkInv, NEW c \in Calls, NEW pc \in Ended, Leave(c, pc), StoresTyped', scenario' = scenario
    PROVE  WorkInv'
<1>1. Moved(c, pc) /\ Kept(c)
  BY GotoMoves, StepNames DEF WorkInv, Leave, Ended
<1>2. holder' = IF holder = c THEN NoCall ELSE holder
  BY DEF Leave
<1>3. LockOf(c)
  BY <1>1, <1>2, HolderOrNot, WorkAssumption DEF LockOf, Moved, Ended, Locked, Messaging, Saving
<1>4. KindOf(c)
  BY <1>1, HolderOrNot DEF KindOf, Moved, Kept, MsgSteps, SaveSteps, Messaging, Saving, Ended
<1>. QED
  BY <1>1, <1>3, <1>4, WorkStep

LEMMA MessageKeepsWork ==
    ASSUME WorkInv, NEW c \in Calls, Message(c)
    PROVE  WorkInv'
<1>0. StoresTyped /\ TypeOK
  BY HolderOrNot DEF WorkInv
<1>1. CASE MsgCheck(c)
  <2>1. StoresTyped' /\ scenario' = scenario
    BY <1>0, <1>1 DEF MsgCheck, Stores, StoresTyped
  <2>2. CASE \E pc \in Ended : Leave(c, pc)
    BY <2>1, <2>2, LeaveStep
  <2>3. CASE Goto(c, "msg.load") /\ UNCHANGED holder
    <3>1. Moved(c, "msg.load") /\ Kept(c)
      BY <1>0, <2>3, GotoMoves, StepNames
    <3>. QED
      BY <1>1, <2>1, <2>3, <3>1, OnwardStep, HolderOrNot DEF MsgCheck, Kept, Messaging, Ended, Saving
  <2>. QED
    BY <1>1, <2>2, <2>3 DEF MsgCheck, Ended
<1>2. CASE MsgLoad(c)
  <2>1. StoresTyped' /\ UNCHANGED <<holder, scenario>>
    BY <1>0, <1>2, LoadedTyped DEF MsgLoad, StoresTyped
  <2>. QED
    BY <1>2, <2>1, MsgLoadMoves, OnwardStep DEF Loads, MsgLoad, Messaging
<1>3. CASE MsgCache(c)
  <2>1. StoresTyped' /\ UNCHANGED <<holder, scenario>>
    BY <1>0, <1>3, RequestFields DEF MsgCache, StoresTyped
  <2>2. Moved(c, "msg.row") /\ Kept(c)
    BY <1>0, <1>3, GotoMoves, StepNames DEF MsgCache
  <2>. QED
    BY <1>3, <2>1, <2>2, OnwardStep DEF MsgCache, Kept, Messaging
<1>4. CASE MsgRow(c)
  <2>1. StoresTyped' /\ UNCHANGED <<holder, scenario>> /\ call[c].pc = "msg.row"
    BY <1>0, <1>4 DEF MsgRow, ReadRow, Stores, StoresTyped
  <2>2. Loads(c, "msg.write", call[c].hist, call[c].art, row, call[c].seen)
    BY <1>4, ReadRowMoves, StepNames DEF MsgRow
  <2>. QED
    BY <2>1, <2>2, OnwardStep DEF Loads, Messaging
<1>5. CASE MsgWrite(c)
  <2>1. StoresTyped' /\ UNCHANGED <<holder, scenario>>
    BY <1>0, <1>5, RequestFields DEF MsgWrite, StoresTyped, Rows
  <2>2. PICK pc \in {"done", "msg.answer"} : Goto(c, pc) /\ (pc = "done" <=> call[c].late)
    BY <1>5 DEF MsgWrite
  <2>3. Moved(c, pc) /\ Kept(c)
    BY <1>0, <2>2, GotoMoves, StepNames
  <2>. QED
    BY <1>5, <2>1, <2>2, <2>3, OnwardStep DEF MsgWrite, Kept, Messaging, Ended
<1>6. CASE MsgAnswer(c)
  <2>1. call[c].event \in Texts
    BY <1>6, HolderOrNot DEF MsgAnswer, MsgSteps
  <2>2. StoresTyped' /\ scenario' = scenario
    BY <1>0, <1>6, <2>1 DEF MsgAnswer, StoresTyped
  <2>. QED
    BY <1>6, <2>2, LeaveStep DEF MsgAnswer, Ended
<1>. QED
  BY <1>1, <1>2, <1>3, <1>4, <1>5, <1>6 DEF Message

LEMMA SaveKeepsWork ==
    ASSUME WorkInv, NEW c \in Calls, Save(c)
    PROVE  WorkInv'
<1>0. StoresTyped /\ TypeOK
  BY HolderOrNot DEF WorkInv
<1>1. CASE SaveCheck(c)
  <2>1. StoresTyped' /\ scenario' = scenario
    BY <1>0, <1>1 DEF SaveCheck, Stores, StoresTyped
  <2>2. CASE Leave(c, "failed")
    BY <2>1, <2>2, LeaveStep DEF Ended
  <2>3. CASE Goto(c, "save.load") /\ UNCHANGED holder
    <3>1. Moved(c, "save.load") /\ Kept(c)
      BY <1>0, <2>3, GotoMoves, StepNames
    <3>. QED
      BY <1>1, <2>1, <2>3, <3>1, OnwardStep, HolderOrNot DEF SaveCheck, Kept, Messaging, Ended, Saving
  <2>. QED
    BY <1>1, <2>2, <2>3 DEF SaveCheck
<1>2. CASE SaveLoad(c)
  <2>1. StoresTyped' /\ UNCHANGED <<holder, scenario>>
    BY <1>0, <1>2, LoadedTyped DEF SaveLoad, StoresTyped
  <2>. QED
    BY <1>2, <2>1, SaveLoadMoves, OnwardStep DEF Loads, SaveLoad, Saving
<1>3. CASE SaveRow(c)
  <2>1. StoresTyped' /\ UNCHANGED <<holder, scenario>> /\ call[c].pc = "save.row"
    BY <1>0, <1>3 DEF SaveRow, ReadRow, Stores, StoresTyped
  <2>2. Loads(c, "save.write", call[c].hist, call[c].art, row, call[c].seen)
    BY <1>3, ReadRowMoves, StepNames DEF SaveRow
  <2>. QED
    BY <2>1, <2>2, OnwardStep DEF Loads, Saving
<1>4. CASE SaveWrite(c)
  <2>1. StoresTyped' /\ UNCHANGED <<holder, scenario>>
    BY <1>0, <1>4, RequestFields DEF SaveWrite, StoresTyped, Rows
  <2>2. Moved(c, "save.cache") /\ Kept(c)
    BY <1>0, <1>4, GotoMoves, StepNames DEF SaveWrite
  <2>. QED
    BY <1>4, <2>1, <2>2, OnwardStep DEF SaveWrite, Kept, Saving
<1>5. CASE SaveCache(c)
  <2>1. StoresTyped' /\ UNCHANGED <<holder, scenario>>
    BY <1>0, <1>5, RequestFields DEF SaveCache, StoresTyped
  <2>2. PICK pc \in {"done", "save.version"} : Goto(c, pc) /\ (pc = "done" <=> call[c].late)
    BY <1>5 DEF SaveCache
  <2>3. Moved(c, pc) /\ Kept(c)
    BY <1>0, <2>2, GotoMoves, StepNames
  <2>. QED
    BY <1>5, <2>1, <2>2, <2>3, OnwardStep DEF SaveCache, Kept, Saving, Ended
<1>6. CASE SaveVersion(c)
  <2> DEFINE e == call[c].event
             a == ArtifactOf[e]
             v == [edit |-> e, content |-> {x \in call[c].art : ArtifactOf[x] = a}]
  <2>1. e \in Edits /\ a \in Artifacts
    BY <1>6, HolderOrNot, WorkAssumption DEF SaveVersion, SaveSteps
  <2>2. v \in Versions
    BY <1>0, <2>1, RequestFields DEF Versions
  <2>3. versions' = [versions EXCEPT ![a] = Append(@, v)]
    BY <1>6 DEF SaveVersion
  <2>. HIDE DEF e, a, v
  <2>4. Append(versions[a], v) \in Seq(Versions)
    BY <1>0, <2>1, <2>2, AppendProperties DEF StoresTyped
  <2>5. StoresTyped' /\ UNCHANGED <<holder, scenario>>
    BY <1>0, <1>6, <2>1, <2>3, <2>4 DEF SaveVersion, StoresTyped
  <2>6. Moved(c, "save.answer") /\ Kept(c) /\ call[c].pc = "save.version"
    BY <1>0, <1>6, GotoMoves, StepNames DEF SaveVersion
  <2>. QED
    BY <2>5, <2>6, OnwardStep, HolderOrNot DEF Kept, Saving, Messaging, Ended
<1>7. CASE SaveAnswer(c)
  <2>1. call[c].event \in Edits
    BY <1>7, HolderOrNot DEF SaveAnswer, SaveSteps
  <2>2. StoresTyped' /\ scenario' = scenario
    BY <1>0, <1>7, <2>1 DEF SaveAnswer, StoresTyped
  <2>. QED
    BY <1>7, <2>2, LeaveStep DEF SaveAnswer, Ended
<1>. QED
  BY <1>1, <1>2, <1>3, <1>4, <1>5, <1>6, <1>7 DEF Save

LEMMA EvaluateKeepsWork ==
    ASSUME WorkInv, NEW c \in Calls, Evaluate(c)
    PROVE  WorkInv'
<1>0. StoresTyped /\ TypeOK
  BY HolderOrNot DEF WorkInv
<1>1. CASE EvalLookup(c)
  <2>1. StoresTyped' /\ UNCHANGED <<holder, scenario>> /\ call[c].pc = "eval.lookup"
    BY <1>0, <1>1 DEF EvalLookup, Stores, StoresTyped
  <2>2. PICK pc \in {"done", "eval.load"} : Goto(c, pc)
    BY <1>1 DEF EvalLookup
  <2>3. Moved(c, pc) /\ Kept(c)
    BY <1>0, <2>2, GotoMoves, StepNames
  <2>. QED
    BY <2>1, <2>2, <2>3, OnwardStep DEF Kept, Scoring, Ended, Locked, Messaging, Saving
<1>2. CASE EvalLoad(c)
  <2>1. StoresTyped' /\ UNCHANGED <<holder, scenario>> /\ call[c].pc = "eval.load"
    BY <1>0, <1>2, LoadedTyped DEF EvalLoad, StoresTyped
  <2>2. Loads(c, "eval.job", Loaded.hist, call[c].art, call[c].row, call[c].seen)
    BY <1>2, EvalLoadMoves
  <2>. QED
    BY <2>1, <2>2, OnwardStep DEF Loads, Scoring
<1>3. CASE JobReports(c)
  <2>1. StoresTyped' /\ UNCHANGED <<holder, scenario>> /\ call[c].pc = "eval.job"
    BY <1>0, <1>3, RequestFields DEF JobReports, StoresTyped
  <2>2. Moved(c, "eval.mark") /\ Kept(c)
    BY <1>0, <1>3, GotoMoves, StepNames DEF JobReports
  <2>. QED
    BY <2>1, <2>2, OnwardStep DEF Kept, Scoring
<1>4. CASE JobMarks(c)
  <2>1. StoresTyped' /\ UNCHANGED <<holder, scenario>> /\ call[c].pc = "eval.mark"
    BY <1>0, <1>4, EmptySeq DEF JobMarks, StoresTyped, Rows
  <2>2. Moved(c, "eval.forget") /\ Kept(c)
    BY <1>0, <1>4, GotoMoves, StepNames DEF JobMarks
  <2>. QED
    BY <2>1, <2>2, OnwardStep DEF Kept, Scoring
<1>5. CASE JobForgets(c)
  <2>1. StoresTyped' /\ UNCHANGED <<holder, scenario>> /\ call[c].pc = "eval.forget"
    BY <1>0, <1>5, EmptySeq DEF JobForgets, StoresTyped
  <2>2. Moved(c, "done") /\ Kept(c)
    BY <1>0, <1>5, GotoMoves, StepNames DEF JobForgets
  <2>. QED
    BY <2>1, <2>2, OnwardStep DEF Kept, Scoring, Ended, Locked, Messaging, Saving
<1>. QED
  BY <1>1, <1>2, <1>3, <1>4, <1>5 DEF Evaluate

LEMMA AsksKeepWork ==
    ASSUME WorkInv, NEW c \in Calls, Asks(c)
    PROVE  WorkInv'
<1>0. StoresTyped /\ TypeOK
  BY HolderOrNot DEF WorkInv
<1>1. ASSUME NEW e \in Texts, e \in scenario.events, MsgAsk(c, e) PROVE WorkInv'
  <2>1. StoresTyped' /\ UNCHANGED <<holder, scenario>> /\ call[c].pc = "idle"
    BY <1>0, <1>1 DEF MsgAsk, Stores, StoresTyped
  <2>2. PICK pc \in {"done", "msg.lock"} : Asked(c, pc, e, call[c].match)
    BY <1>1, MsgAskMoves
  <2>3. LockOf(c) /\ KindOf(c)
    BY <1>1, <2>1, <2>2, HolderOrNot DEF LockOf, KindOf, Asked, Moved, Locked, Messaging, Saving, Ended, MsgSteps, SaveSteps
  <2>. QED
    BY <2>1, <2>2, <2>3, WorkStep DEF Asked
<1>2. ASSUME NEW e \in Edits, NEW v \in Nat, e \in scenario.events, SaveAsk(c, e, v) PROVE WorkInv'
  <2>1. StoresTyped' /\ UNCHANGED <<holder, scenario>> /\ call[c].pc = "idle"
    BY <1>0, <1>2 DEF SaveAsk, Stores, StoresTyped
  <2>2. PICK pc \in {"done", "save.lock"} : Asked(c, pc, e, v)
    BY <1>2, SaveAskMoves
  <2>3. LockOf(c) /\ KindOf(c)
    BY <1>2, <2>1, <2>2, HolderOrNot DEF LockOf, KindOf, Asked, Moved, Locked, Messaging, Saving, Ended, MsgSteps, SaveSteps
  <2>. QED
    BY <2>1, <2>2, <2>3, WorkStep DEF Asked
<1>3. CASE EvalAsk(c)
  <2>1. StoresTyped' /\ UNCHANGED <<holder, scenario>> /\ call[c].pc = "idle"
    BY <1>0, <1>3 DEF EvalAsk, Stores, StoresTyped
  <2>2. PICK pc \in {"done", "eval.lookup"} : Loads(c, pc, call[c].hist, call[c].art, call[c].row, stored \cap Texts)
    BY <1>3, EvalAskMoves
  <2>. QED
    BY <2>1, <2>2, OnwardStep DEF Loads, Scoring, Ended, Locked, Messaging, Saving
<1>. QED
  BY <1>1, <1>2, <1>3 DEF Asks

LEMMA OthersKeepWork ==
    ASSUME WorkInv, NEW c \in Calls, Lock(c) \/ Fails(c) \/ JobFails(c) \/ EngineTimesOut(c)
    PROVE  WorkInv'
<1>0. StoresTyped /\ TypeOK
  BY HolderOrNot DEF WorkInv
<1>1. CASE Lock(c)
  <2>1. StoresTyped' /\ scenario' = scenario
    BY <1>0, <1>1 DEF Lock, Stores, StoresTyped
  <2>2. PICK pc \in {"msg.check", "save.check"} :
          Goto(c, pc) /\ (pc = "msg.check" => call[c].pc = "msg.lock") /\ (pc = "save.check" => call[c].pc = "save.lock")
    BY <1>1 DEF Lock
  <2>3. Moved(c, pc) /\ Kept(c)
    BY <1>0, <2>2, GotoMoves, StepNames
  <2>4. holder = NoCall /\ holder' = c
    BY <1>1 DEF Lock
  <2>5. LockOf(c) /\ KindOf(c)
    BY <2>1, <2>2, <2>3, <2>4, HolderOrNot DEF LockOf, KindOf, Kept, Moved, Locked, Messaging, Saving, Ended, MsgSteps, SaveSteps
  <2>. QED
    BY <2>1, <2>3, <2>5, WorkStep
<1>2. CASE Fails(c)
  <2>1. StoresTyped' /\ scenario' = scenario
    BY <1>0, <1>2 DEF Fails, Stores, StoresTyped
  <2>. QED
    BY <1>2, <2>1, LeaveStep DEF Fails, Ended
<1>3. CASE JobFails(c)
  <2>1. StoresTyped' /\ UNCHANGED <<holder, scenario>> /\ call[c].pc \in Scoring
    BY <1>0, <1>3 DEF JobFails, StoresTyped, Scoring
  <2>2. Moved(c, "failed") /\ Kept(c)
    BY <1>0, <1>3, GotoMoves, StepNames DEF JobFails
  <2>. QED
    BY <2>1, <2>2, OnwardStep DEF Kept, Scoring, Ended, Locked, Messaging, Saving
<1>4. CASE EngineTimesOut(c)
  <2>1. StoresTyped' /\ scenario' = scenario
    BY <1>0, <1>4 DEF EngineTimesOut, Stores, StoresTyped
  <2>2. Moved(c, call[c].pc) /\ call'[c].late /\ call'[c].event = call[c].event
    BY <1>4, TimeoutMoves
  <2>3. call[c].pc \in Messaging \cup Saving /\ holder' = IF holder = c THEN NoCall ELSE holder
    BY <1>4 DEF EngineTimesOut, InEngine
  <2>4. LockOf(c)
    BY <2>2, <2>3, WorkAssumption DEF LockOf
  <2>5. KindOf(c)
    BY <2>1, <2>2, <2>3, HolderOrNot DEF KindOf, Moved
  <2>. QED
    BY <2>1, <2>2, <2>4, <2>5, WorkStep
<1>. QED
  BY <1>1, <1>2, <1>3, <1>4

LEMMA CrashKeepsWork == WorkInv /\ Crash => WorkInv'
<1> SUFFICES ASSUME WorkInv, Crash PROVE WorkInv'
  OBVIOUS
<1>1. /\ call' \in [Calls -> Requests]
      /\ \A c \in Calls : \/ call'[c] = call[c] /\ call[c].pc \in {"idle"} \cup Ended
                          \/ call'[c].pc = "failed" /\ ~call'[c].late /\ call'[c].event = NoEvent
  BY CrashMoves
<1>2. TypeOK'
  <2>1. <<>> \in Seq(Texts)
    BY EmptySeq
  <2>2. StoresTyped' /\ holder' = NoCall
    BY <2>1, WorkAssumption DEF Crash, WorkInv, TypeOK, StoresTyped
  <2>. QED
    BY <1>1, <2>2 DEF TypeOK, StoresTyped
<1>3. \A c \in Calls : call'[c].pc \in {"idle"} \cup Ended
  BY <1>1 DEF Ended
<1>4. LockIsHeld'
  BY <1>3 DEF LockIsHeld, Ended, Locked, Messaging, Saving
<1>5. LateInEngine'
  BY <1>1, <1>3 DEF WorkInv, LateInEngine, Ended
<1>6. EventsFit'
  BY <1>1, <1>3 DEF WorkInv, EventsFit, Ended, MsgSteps, SaveSteps, Messaging, Saving, Crash
<1>. QED
  BY <1>2, <1>4, <1>5, <1>6 DEF WorkInv

LEMMA RestKeepsWork == WorkInv /\ UNCHANGED vars => WorkInv'
BY DEF WorkInv, TypeOK, LockIsHeld, LateInEngine, EventsFit, vars

LEMMA NextKeepsWork == WorkInv /\ [Next]_vars => WorkInv'
<1> SUFFICES ASSUME WorkInv, [Next]_vars PROVE WorkInv'
  OBVIOUS
<1>1. ASSUME NEW c \in Calls, Asks(c) \/ Proceeds(c) \/ EngineTimesOut(c) PROVE WorkInv'
  BY <1>1, AsksKeepWork, MessageKeepsWork, SaveKeepsWork, EvaluateKeepsWork, OthersKeepWork DEF Proceeds
<1>. QED
  BY <1>1, CrashKeepsWork, RestKeepsWork DEF Next

\* The types, and that whoever holds the lock is a request between lock and
\* answer whose handler is waited for.
THEOREM WorkTypes == Spec => []TypeOK
<1>1. WorkInv => TypeOK
  BY DEF WorkInv
<1>. QED
  BY <1>1, InitWorkInv, NextKeepsWork, PTL DEF Spec

-----------------------------------------------------------------------------
(* Steps that write nothing *)

QuietSteps == {"msg.lock", "save.lock", "msg.check", "save.check", "msg.load", "save.load",
               "eval.lookup", "eval.load", "done", "failed"}

\* A request goes on without writing a store; what it has looked at it knows.
Quiet(c) ==
    /\ UNCHANGED <<cache, row, report, stored, versions, scenario>>
    /\ call'[c].pc \in QuietSteps /\ Moved(c, call'[c].pc)
    /\ call'[c].pc = "eval.lookup" => report = NoReport /\ call'[c].seen = stored \cap Texts
    /\ call'[c].pc = "eval.load" => call[c].pc = "eval.lookup" /\ call'[c].seen = call[c].seen
    /\ call'[c].pc = "msg.load" =>
         report = NoReport /\ call[c].pc = "msg.check" /\ call'[c].event = call[c].event /\ call[c].event \notin stored
    /\ call'[c].pc = "save.load" =>
         /\ call[c].pc = "save.check" /\ call'[c].event = call[c].event /\ call'[c].match = call[c].match
         /\ call[c].match = Len(versions[ArtifactOf[call[c].event]])
    /\ call'[c].late = call[c].late
    /\ "store" \notin scenario.faults =>
         call[c].pc \notin {"msg.row", "msg.write", "msg.answer", "save.write", "save.cache", "save.version", "save.answer"}

LEMMA QuietStep ==
    ASSUME WorkInv, NEW c \in Calls,
           Asks(c) \/ Lock(c) \/ MsgCheck(c) \/ SaveCheck(c) \/ EvalLookup(c) \/ Fails(c) \/ JobFails(c)
    PROVE  Quiet(c)
<1>0. TypeOK
  BY DEF WorkInv
<1>1. ASSUME NEW e \in Texts, MsgAsk(c, e) PROVE Quiet(c)
  <2>1. Asked(c, IF e \in stored THEN "done" ELSE "msg.lock", e, call[c].match)
    BY <1>1, MsgAskMoves
  <2>. QED
    BY <1>1, <2>1 DEF Asked, Moved, MsgAsk, Stores, Quiet, QuietSteps
<1>2. ASSUME NEW e \in Edits, NEW v \in Nat, SaveAsk(c, e, v) PROVE Quiet(c)
  <2>1. Asked(c, IF e \in stored THEN "done" ELSE "save.lock", e, v)
    BY <1>2, SaveAskMoves
  <2>. QED
    BY <1>2, <2>1 DEF Asked, Moved, SaveAsk, Stores, Quiet, QuietSteps
<1>3. CASE EvalAsk(c)
  <2>1. Loads(c, IF report = NoReport THEN "eval.lookup" ELSE "done", call[c].hist, call[c].art, call[c].row, stored \cap Texts)
    BY <1>3, EvalAskMoves
  <2>. QED
    BY <1>3, <2>1 DEF Loads, Moved, EvalAsk, Stores, Quiet, QuietSteps
<1>4. CASE Lock(c)
  <2>1. PICK pc \in {"msg.check", "save.check"} : Goto(c, pc)
    BY <1>4 DEF Lock
  <2>2. Moved(c, pc) /\ Kept(c)
    BY <1>0, <2>1, GotoMoves, StepNames
  <2>. QED
    BY <1>4, <2>2 DEF Lock, Moved, Kept, Stores, Quiet, QuietSteps
<1>5. CASE MsgCheck(c)
  <2>1. PICK pc \in {"done", "failed", "msg.load"} :
          Goto(c, pc) /\ (pc = "msg.load" => report = NoReport /\ call[c].event \notin stored)
    BY <1>5 DEF MsgCheck, Leave
  <2>2. Moved(c, pc) /\ Kept(c)
    BY <1>0, <2>1, GotoMoves, StepNames
  <2>. QED
    BY <1>5, <2>1, <2>2 DEF MsgCheck, Moved, Kept, Stores, Quiet, QuietSteps
<1>6. CASE SaveCheck(c)
  <2>1. PICK pc \in {"failed", "save.load"} :
          Goto(c, pc) /\ (pc = "save.load" => call[c].match = Len(versions[ArtifactOf[call[c].event]]))
    BY <1>6 DEF SaveCheck, Leave
  <2>2. Moved(c, pc) /\ Kept(c)
    BY <1>0, <2>1, GotoMoves, StepNames
  <2>. QED
    BY <1>6, <2>1, <2>2 DEF SaveCheck, Moved, Kept, Stores, Quiet, QuietSteps
<1>7. CASE EvalLookup(c)
  <2>1. PICK pc \in {"done", "eval.load"} : Goto(c, pc)
    BY <1>7 DEF EvalLookup
  <2>2. Moved(c, pc) /\ Kept(c)
    BY <1>0, <2>1, GotoMoves, StepNames
  <2>. QED
    BY <1>7, <2>2 DEF EvalLookup, Moved, Kept, Stores, Quiet, QuietSteps
<1>8. CASE Fails(c) \/ JobFails(c)
  <2>1. Moved(c, "failed") /\ Kept(c)
    BY <1>0, <1>8, GotoMoves, StepNames DEF Fails, Leave, JobFails
  <2>. QED
    BY <1>8, <2>1 DEF Fails, MayFail, JobFails, Moved, Kept, Stores, Quiet, QuietSteps
<1>. QED
  BY <1>1, <1>2, <1>3, <1>4, <1>5, <1>6, <1>7, <1>8 DEF Asks

\* A step of the system is quiet, one of the writing steps, a timeout or a restart.
LEMMA StepsOfNext ==
    ASSUME WorkInv, [Next]_vars
    PROVE  \/ \E c \in Calls :
                \/ Quiet(c) \/ EngineTimesOut(c)
                \/ MsgLoad(c) \/ MsgCache(c) \/ MsgRow(c) \/ MsgWrite(c) \/ MsgAnswer(c)
                \/ SaveLoad(c) \/ SaveRow(c) \/ SaveWrite(c) \/ SaveCache(c) \/ SaveVersion(c) \/ SaveAnswer(c)
                \/ EvalLoad(c) \/ JobReports(c) \/ JobMarks(c) \/ JobForgets(c)
           \/ Crash
           \/ UNCHANGED vars
BY QuietStep DEF Next, Proceeds, Message, Save, Evaluate

\* The steps that only move their request.
LEMMA WritingMoves ==
    ASSUME WorkInv, NEW c \in Calls
    PROVE  /\ MsgCache(c) => Moved(c, "msg.row") /\ Kept(c)
           /\ MsgWrite(c) => Moved(c, IF call[c].late THEN "done" ELSE "msg.answer") /\ Kept(c)
           /\ MsgAnswer(c) => Moved(c, "done") /\ Kept(c)
           /\ SaveWrite(c) => Moved(c, "save.cache") /\ Kept(c)
           /\ SaveCache(c) => Moved(c, IF call[c].late THEN "done" ELSE "save.version") /\ Kept(c)
           /\ SaveVersion(c) => Moved(c, "save.answer") /\ Kept(c)
           /\ SaveAnswer(c) => Moved(c, "done") /\ Kept(c)
           /\ JobReports(c) => Moved(c, "eval.mark") /\ Kept(c)
           /\ JobMarks(c) => Moved(c, "eval.forget") /\ Kept(c)
           /\ JobForgets(c) => Moved(c, "done") /\ Kept(c)
BY GotoMoves, StepNames DEF WorkInv, MsgCache, MsgWrite, MsgAnswer, SaveWrite, SaveCache, SaveVersion, SaveAnswer, JobReports, JobMarks, JobForgets, Leave

-----------------------------------------------------------------------------
(* What histories hold *)

LEMMA TurnsOfAppend ==
    ASSUME NEW h \in Seq(Texts), NEW e \in Texts
    PROVE  Turns(Append(h, e)) = Turns(h) \cup {e}
<1> DEFINE g == Append(h, e)
<1>1. /\ Len(h) \in Nat /\ Len(g) = Len(h) + 1 /\ g[Len(h) + 1] = e
      /\ \A i \in 1..Len(h) : g[i] = h[i]
  BY AppendProperties, LenProperties
<1>. HIDE DEF g
<1>2. Turns(g) \subseteq Turns(h) \cup {e}
  <2> SUFFICES ASSUME NEW i \in 1..Len(g) PROVE g[i] \in Turns(h) \cup {e}
    BY DEF Turns
  <2>1. i \in 1..Len(h) \/ i = Len(h) + 1
    BY <1>1
  <2>. QED
    BY <1>1, <2>1 DEF Turns
<1>3. Turns(h) \subseteq Turns(g)
  <2>1. \A i \in 1..Len(h) : i \in 1..Len(g) /\ g[i] = h[i]
    BY <1>1
  <2>. QED
    BY <2>1 DEF Turns
<1>4. e \in Turns(g)
  <2>1. Len(h) + 1 \in 1..Len(g)
    BY <1>1
  <2>. QED
    BY <1>1, <2>1 DEF Turns
<1>. QED
  BY <1>2, <1>3, <1>4 DEF g

\* The handlers that carry a history they have loaded.
Past == {"msg.cache", "msg.row", "msg.write", "save.row", "save.write", "save.cache"}

\* Whatever becomes the session's history from here on has the turns T in it:
\* the row's (until it is freed), the cache's, and those under way.
HoldsTurns(T) ==
    /\ row.freed \/ T \subseteq Turns(row.hist)
    /\ cache.live => T \subseteq Turns(cache.hist)
    /\ \A c \in Calls : call[c].pc \in Past => T \subseteq Turns(call[c].hist)
    /\ \A c \in Calls : call[c].pc = "save.write" => call[c].row.freed \/ T \subseteq Turns(call[c].row.hist)

LEMMA HoldsLoaded ==
    ASSUME NEW T, HoldsTurns(T), Loadable
    PROVE  T \subseteq Turns(Loaded.hist)
BY DEF HoldsTurns, Loadable, Loaded

LEMMA HoldsStep ==
    ASSUME NEW T, HoldsTurns(T), NEW c \in Calls, NEW pc, Moved(c, pc),
           row' = row \/ row'.freed \/ T \subseteq Turns(row'.hist),
           cache' = cache \/ ~cache'.live \/ T \subseteq Turns(cache'.hist),
           pc \in Past => T \subseteq Turns(call'[c].hist),
           pc = "save.write" => call'[c].row.freed \/ T \subseteq Turns(call'[c].row.hist)
    PROVE  HoldsTurns(T)'
BY DEF HoldsTurns, Moved

\* Turns that are held stay held, whatever fails, is late or restarts.
LEMMA HeldTurnsStay ==
    ASSUME WorkInv, NEW T, HoldsTurns(T), [Next]_vars
    PROVE  HoldsTurns(T)'
<1>0. TypeOK
  BY DEF WorkInv
<1>1. ASSUME NEW c \in Calls, Quiet(c) PROVE HoldsTurns(T)'
  BY <1>1, HoldsStep DEF Quiet, QuietSteps, Past
<1>2. ASSUME NEW c \in Calls, EngineTimesOut(c) PROVE HoldsTurns(T)'
  BY <1>2, TimeoutMoves, HoldsStep DEF EngineTimesOut, Stores, HoldsTurns
<1>3. ASSUME NEW c \in Calls, MsgLoad(c) PROVE HoldsTurns(T)'
  <2>1. T \subseteq Turns(Loaded.hist) /\ Loaded.hist \in Seq(Texts)
    BY <1>0, <1>3, HoldsLoaded, LoadedTyped DEF MsgLoad
  <2>2. T \subseteq Turns(Append(Loaded.hist, call[c].event))
    BY <1>3, <2>1, MsgLoadMoves, TurnsOfAppend
  <2>. QED
    BY <1>3, <2>1, <2>2, MsgLoadMoves, HoldsStep DEF Loads, MsgLoad
<1>4. ASSUME NEW c \in Calls, MsgCache(c) PROVE HoldsTurns(T)'
  BY <1>4, WritingMoves, HoldsStep DEF MsgCache, HoldsTurns, Kept, Past
<1>5. ASSUME NEW c \in Calls, MsgRow(c) PROVE HoldsTurns(T)'
  <2>1. Loads(c, "msg.write", call[c].hist, call[c].art, row, call[c].seen)
    BY <1>5, ReadRowMoves, StepNames DEF MsgRow
  <2>. QED
    BY <1>5, <2>1, HoldsStep DEF MsgRow, ReadRow, Stores, HoldsTurns, Loads, Past
<1>6. ASSUME NEW c \in Calls, MsgWrite(c) PROVE HoldsTurns(T)'
  <2>1. row'.hist = call[c].hist /\ T \subseteq Turns(call[c].hist)
    BY <1>0, <1>6, RequestFields DEF MsgWrite, HoldsTurns, Past, Rows
  <2>. QED
    BY <1>6, <2>1, WritingMoves, HoldsStep DEF MsgWrite, Past
<1>7. ASSUME NEW c \in Calls, MsgAnswer(c) PROVE HoldsTurns(T)'
  BY <1>7, WritingMoves, HoldsStep DEF MsgAnswer, Past
<1>8. ASSUME NEW c \in Calls, SaveLoad(c) PROVE HoldsTurns(T)'
  <2>1. T \subseteq Turns(Loaded.hist)
    BY <1>8, HoldsLoaded DEF SaveLoad
  <2>. QED
    BY <1>8, <2>1, SaveLoadMoves, HoldsStep DEF Loads, SaveLoad
<1>9. ASSUME NEW c \in Calls, SaveRow(c) PROVE HoldsTurns(T)'
  <2>1. Loads(c, "save.write", call[c].hist, call[c].art, row, call[c].seen)
    BY <1>9, ReadRowMoves, StepNames DEF SaveRow
  <2>2. T \subseteq Turns(call[c].hist) /\ (row.freed \/ T \subseteq Turns(row.hist)) /\ UNCHANGED <<row, cache>>
    BY <1>9 DEF SaveRow, ReadRow, Stores, HoldsTurns, Past
  <2>. QED
    BY <2>1, <2>2, HoldsStep DEF Loads
<1>10. ASSUME NEW c \in Calls, SaveWrite(c) PROVE HoldsTurns(T)'
  <2>1. row'.hist = call[c].row.hist /\ row'.freed = call[c].row.freed
    BY <1>0, <1>10, RequestFields DEF SaveWrite, Rows
  <2>. QED
    BY <1>10, <2>1, WritingMoves, HoldsStep DEF SaveWrite, HoldsTurns, Kept, Past
<1>11. ASSUME NEW c \in Calls, SaveCache(c) PROVE HoldsTurns(T)'
  BY <1>11, WritingMoves, HoldsStep DEF SaveCache, HoldsTurns, Past
<1>12. ASSUME NEW c \in Calls, SaveVersion(c) PROVE HoldsTurns(T)'
  BY <1>12, WritingMoves, HoldsStep DEF SaveVersion, Past
<1>13. ASSUME NEW c \in Calls, SaveAnswer(c) PROVE HoldsTurns(T)'
  BY <1>13, WritingMoves, HoldsStep DEF SaveAnswer, Past
<1>14. ASSUME NEW c \in Calls, EvalLoad(c) PROVE HoldsTurns(T)'
  <2>1. T \subseteq Turns(Loaded.hist)
    BY <1>14, HoldsLoaded DEF EvalLoad
  <2>. QED
    BY <1>14, <2>1, EvalLoadMoves, HoldsStep DEF Loads, EvalLoad, Past
<1>15. ASSUME NEW c \in Calls, JobReports(c) PROVE HoldsTurns(T)'
  BY <1>15, WritingMoves, HoldsStep DEF JobReports, Past
<1>16. ASSUME NEW c \in Calls, JobMarks(c) PROVE HoldsTurns(T)'
  <2>1. row'.freed
    BY <1>0, <1>16 DEF JobMarks, TypeOK, Rows
  <2>. QED
    BY <1>16, <2>1, WritingMoves, HoldsStep DEF JobMarks, Past
<1>17. ASSUME NEW c \in Calls, JobForgets(c) PROVE HoldsTurns(T)'
  BY <1>17, WritingMoves, HoldsStep DEF JobForgets, Past
<1>18. CASE Crash
  <2>1. \A c \in Calls : call'[c].pc \notin Past
    BY <1>18, CrashMoves DEF Past, Ended
  <2>. QED
    BY <1>18, <2>1 DEF Crash, HoldsTurns, Past
<1>19. CASE UNCHANGED vars
  BY <1>19 DEF HoldsTurns, vars
<1>. QED
  BY <1>1, <1>2, <1>3, <1>4, <1>5, <1>6, <1>7, <1>8, <1>9, <1>10, <1>11, <1>12, <1>13, <1>14, <1>15, <1>16, <1>17, <1>18, <1>19, StepsOfNext

-----------------------------------------------------------------------------
(* What was answered, until the session is scored *)

\* A report that is there stays, in one version or another.
LEMMA ReportStays ==
    ASSUME WorkInv, [Next]_vars, report # NoReport
    PROVE  report' # NoReport
<1>1. ASSUME NEW c \in Calls, JobReports(c) PROVE report' # NoReport
  BY <1>1, RequestFields, WorkAssumption DEF JobReports, WorkInv
<1>2. (~ \E c \in Calls : JobReports(c)) => report' = report
  BY StepsOfNext DEF Quiet, EngineTimesOut, MsgLoad, MsgCache, MsgRow, MsgWrite, MsgAnswer, SaveLoad, SaveRow, SaveWrite, SaveCache,
       SaveVersion, SaveAnswer, EvalLoad, JobMarks, JobForgets, Crash, ReadRow, Stores, vars
<1>. QED
  BY <1>1, <1>2

\* The transcript is freed by jobs that have written the report, and a save
\* that carries a freed row has read one.
Reported ==
    /\ row.freed => report # NoReport
    /\ \A c \in Calls :
        /\ call[c].pc \in {"eval.mark", "eval.forget"} => report # NoReport
        /\ call[c].pc = "save.write" /\ call[c].row.freed => report # NoReport

\* A step that brings nothing new about it.
LEMMA ReportedStep ==
    ASSUME WorkInv, Reported, [Next]_vars, NEW c \in Calls, NEW pc, Moved(c, pc),
           row'.freed => row.freed \/ report' # NoReport,
           pc \in {"eval.mark", "eval.forget"} => report' # NoReport,
           pc = "save.write" /\ call'[c].row.freed => report' # NoReport
    PROVE  Reported'
BY ReportStays DEF Reported, Moved

LEMMA ReportedStays == WorkInv /\ Reported /\ [Next]_vars => Reported'
<1> SUFFICES ASSUME WorkInv, Reported, [Next]_vars PROVE Reported'
  OBVIOUS
<1>0. TypeOK
  BY DEF WorkInv
<1>1. ASSUME NEW c \in Calls, Quiet(c) PROVE Reported'
  BY <1>1, ReportedStep DEF Quiet, QuietSteps
<1>2. ASSUME NEW c \in Calls, EngineTimesOut(c) PROVE Reported'
  BY <1>2, TimeoutMoves, ReportedStep DEF EngineTimesOut, Stores, InEngine, Messaging, Saving, Reported
<1>3. ASSUME NEW c \in Calls, MsgLoad(c) \/ MsgCache(c) \/ MsgRow(c) PROVE Reported'
  <2>1. \E pc \in {"msg.cache", "msg.row", "msg.write"} : Moved(c, pc)
    BY <1>3, MsgLoadMoves, WritingMoves, ReadRowMoves, StepNames DEF MsgRow, Loads
  <2>2. row' = row
    BY <1>3 DEF MsgLoad, MsgCache, MsgRow, ReadRow, Stores
  <2>. QED
    BY <2>1, <2>2, ReportedStep
<1>4. ASSUME NEW c \in Calls, MsgWrite(c) PROVE Reported'
  <2>1. ~row'.freed
    BY <1>0, <1>4, RequestFields DEF MsgWrite, Rows
  <2>. QED
    BY <1>4, <2>1, WritingMoves, ReportedStep
<1>5. ASSUME NEW c \in Calls, MsgAnswer(c) \/ SaveVersion(c) \/ SaveAnswer(c) \/ SaveCache(c) \/ JobForgets(c) PROVE Reported'
  <2>1. \E pc \in {"done", "save.answer", "save.version"} : Moved(c, pc)
    BY <1>5, WritingMoves
  <2>2. row' = row
    BY <1>5 DEF MsgAnswer, SaveVersion, SaveAnswer, SaveCache, JobForgets
  <2>. QED
    BY <2>1, <2>2, ReportedStep
<1>6. ASSUME NEW c \in Calls, SaveLoad(c) \/ EvalLoad(c) PROVE Reported'
  <2>1. \E pc \in {"save.row", "eval.job"} : Moved(c, pc)
    BY <1>6, SaveLoadMoves, EvalLoadMoves DEF Loads
  <2>2. row' = row
    BY <1>6 DEF SaveLoad, EvalLoad
  <2>. QED
    BY <2>1, <2>2, ReportedStep
<1>7. ASSUME NEW c \in Calls, SaveRow(c) PROVE Reported'
  <2>1. Loads(c, "save.write", call[c].hist, call[c].art, row, call[c].seen)
    BY <1>7, ReadRowMoves, StepNames DEF SaveRow
  <2>2. UNCHANGED <<row, report>>
    BY <1>7 DEF SaveRow, ReadRow, Stores
  <2>. QED
    BY <2>1, <2>2, ReportedStep DEF Loads, Reported
<1>8. ASSUME NEW c \in Calls, SaveWrite(c) PROVE Reported'
  <2>1. row'.freed = call[c].row.freed /\ report' = report /\ call[c].pc = "save.write"
    BY <1>0, <1>8, RequestFields DEF SaveWrite, Rows
  <2>. QED
    BY <1>8, <2>1, WritingMoves, ReportedStep DEF Reported
<1>9. ASSUME NEW c \in Calls, JobReports(c) PROVE Reported'
  <2>1. report' # NoReport /\ row' = row
    BY <1>0, <1>9, RequestFields, WorkAssumption DEF JobReports
  <2>. QED
    BY <1>9, <2>1, WritingMoves, ReportedStep
<1>10. ASSUME NEW c \in Calls, JobMarks(c) PROVE Reported'
  <2>1. report' # NoReport
    BY <1>10 DEF JobMarks, Reported
  <2>. QED
    BY <1>10, <2>1, WritingMoves, ReportedStep
<1>11. CASE Crash
  BY <1>11, CrashMoves DEF Crash, Reported, Ended
<1>12. CASE UNCHANGED vars
  BY <1>12 DEF Reported, vars
<1>. QED
  BY <1>1, <1>2, <1>3, <1>4, <1>5, <1>6, <1>7, <1>8, <1>9, <1>10, <1>11, <1>12, StepsOfNext

LEMMA ScenarioStays == WorkInv /\ [Next]_vars => scenario' = scenario
BY StepsOfNext DEF Quiet, EngineTimesOut, MsgLoad, MsgCache, MsgRow, MsgWrite, MsgAnswer, SaveLoad, SaveRow, SaveWrite, SaveCache,
     SaveVersion, SaveAnswer, EvalLoad, JobReports, JobMarks, JobForgets, Crash, ReadRow, Stores, vars

\* Where no handler is given up on, none is late, and the lock keeps the
\* requests apart: one at a time is between lock and answer.
NoneLate == \A c \in Calls : ~call[c].late

LEMMA NoneLateStays ==
    ASSUME WorkInv, NoneLate, "timeout" \notin scenario.faults, [Next]_vars
    PROVE  NoneLate' /\ "timeout" \notin scenario'.faults
<1>1. scenario' = scenario
  BY ScenarioStays
<1>2. ASSUME NEW c \in Calls,
             \/ Quiet(c) \/ MsgLoad(c) \/ MsgCache(c) \/ MsgRow(c) \/ MsgWrite(c) \/ MsgAnswer(c)
             \/ SaveLoad(c) \/ SaveRow(c) \/ SaveWrite(c) \/ SaveCache(c) \/ SaveVersion(c) \/ SaveAnswer(c)
             \/ EvalLoad(c) \/ JobReports(c) \/ JobMarks(c) \/ JobForgets(c)
      PROVE  NoneLate'
  <2>1. call'[c].late = call[c].late /\ \E pc : Moved(c, pc)
    BY <1>2, WritingMoves, MsgLoadMoves, SaveLoadMoves, EvalLoadMoves, ReadRowMoves, StepNames DEF Quiet, MsgRow, SaveRow, Loads, Kept
  <2>. QED
    BY <2>1 DEF NoneLate, Moved
<1>3. Crash => NoneLate'
  BY CrashMoves DEF NoneLate
<1>4. UNCHANGED vars => NoneLate'
  BY DEF NoneLate, vars
<1>. QED
  BY <1>1, <1>2, <1>3, <1>4, StepsOfNext DEF EngineTimesOut

LEMMA OneAtATime ==
    ASSUME WorkInv, NoneLate, NEW c \in Calls, NEW d \in Calls, call[c].pc \in Locked, call[d].pc \in Locked
    PROVE  c = d
BY DEF WorkInv, LockIsHeld, NoneLate

\* What a request carries between its steps: a message its turn, and a job
\* what it was asked to score.
Carried ==
    \A c \in Calls :
        /\ call[c].pc \in {"msg.cache", "msg.row", "msg.write"} => call[c].event \in Turns(call[c].hist)
        /\ report = NoReport /\ call[c].pc \in {"msg.row", "msg.write", "msg.answer"} =>
             cache.live /\ call[c].event \in Turns(cache.hist)
        /\ report = NoReport /\ call[c].pc = "msg.answer" => call[c].event \in Turns(row.hist)
        /\ call[c].pc \in Scoring => call[c].seen \subseteq Turns(call[c].hist)

\* Until the session is scored, the row, the cache and every request under way
\* hold the turns that were answered, and a job what it has been asked to score.
Holding ==
    /\ report = NoReport => HoldsTurns(stored \cap Texts)
    /\ \A c \in Calls : call[c].pc \in {"eval.lookup", "eval.load"} => HoldsTurns(call[c].seen)

\* A step of c that leaves the stores the others' turns are in.
LEMMA CarriedStep ==
    ASSUME WorkInv, Carried, [Next]_vars, NEW c \in Calls, NEW pc, Moved(c, pc),
           \A d \in Calls \ {c} : (call[d].pc \in {"msg.row", "msg.write", "msg.answer"} /\ report' = NoReport) =>
               cache' = cache /\ row'.hist = row.hist,
           pc \in {"msg.cache", "msg.row", "msg.write"} => call'[c].event \in Turns(call'[c].hist),
           (report' = NoReport /\ pc \in {"msg.row", "msg.write", "msg.answer"}) => cache'.live /\ call'[c].event \in Turns(cache'.hist),
           (report' = NoReport /\ pc = "msg.answer") => call'[c].event \in Turns(row'.hist),
           pc \in Scoring => call'[c].seen \subseteq Turns(call'[c].hist)
    PROVE  Carried'
BY ReportStays DEF Carried, Moved

LEMMA CarriedStays == WorkInv /\ NoneLate /\ Reported /\ Holding /\ Carried /\ [Next]_vars /\ "timeout" \notin scenario.faults => Carried'
<1> SUFFICES ASSUME WorkInv, NoneLate, Reported, Holding, Carried, [Next]_vars, "timeout" \notin scenario.faults PROVE Carried'
  OBVIOUS
<1>0. TypeOK
  BY DEF WorkInv
<1>1. ASSUME NEW c \in Calls, Quiet(c) PROVE Carried'
  BY <1>1, CarriedStep DEF Quiet, QuietSteps, Scoring
<1>2. ASSUME NEW c \in Calls, MsgLoad(c) PROVE Carried'
  <2>1. Loads(c, "msg.cache", Append(Loaded.hist, call[c].event), call[c].art, call[c].row, call[c].seen) /\ call[c].event \in Texts
    BY <1>2, MsgLoadMoves
  <2>2. call'[c].event \in Turns(call'[c].hist)
    BY <1>0, <2>1, LoadedTyped, TurnsOfAppend DEF Loads
  <2>3. \A d \in Calls \ {c} : call[d].pc \notin {"msg.row", "msg.write", "msg.answer"}
    BY <1>2, OneAtATime DEF MsgLoad, Locked, Messaging
  <2>. QED
    BY <2>1, <2>2, <2>3, CarriedStep DEF Loads, Scoring
<1>3. ASSUME NEW c \in Calls, MsgCache(c) PROVE Carried'
  <2>1. \A d \in Calls \ {c} : call[d].pc \notin {"msg.row", "msg.write", "msg.answer"}
    BY <1>3, OneAtATime DEF MsgCache, Locked, Messaging
  <2>2. call[c].event \in Turns(call[c].hist) /\ cache'.live /\ cache'.hist = call[c].hist
    BY <1>3 DEF MsgCache, Carried
  <2>. QED
    BY <1>3, <2>1, <2>2, WritingMoves, CarriedStep DEF Kept, Scoring
<1>4. ASSUME NEW c \in Calls, MsgRow(c) PROVE Carried'
  <2>1. Loads(c, "msg.write", call[c].hist, call[c].art, row, call[c].seen)
    BY <1>4, ReadRowMoves, StepNames DEF MsgRow
  <2>2. call[c].pc = "msg.row" /\ UNCHANGED <<row, cache, report>>
    BY <1>4 DEF MsgRow, ReadRow, Stores
  <2>. QED
    BY <2>1, <2>2, CarriedStep DEF Loads, Carried, Scoring
<1>5. ASSUME NEW c \in Calls, MsgWrite(c) PROVE Carried'
  <2>1. \A d \in Calls \ {c} : call[d].pc \notin {"msg.row", "msg.write", "msg.answer"}
    BY <1>5, OneAtATime DEF MsgWrite, Locked, Messaging
  <2>2. row'.hist = call[c].hist /\ call[c].pc = "msg.write" /\ UNCHANGED <<cache, report>>
    BY <1>0, <1>5, RequestFields DEF MsgWrite, Rows
  <2>3. Moved(c, "msg.answer") /\ Kept(c)
    BY <1>5, WritingMoves DEF NoneLate
  <2>. QED
    BY <2>1, <2>2, <2>3, CarriedStep DEF Kept, Carried, Scoring
<1>6. ASSUME NEW c \in Calls, MsgAnswer(c) \/ SaveVersion(c) \/ SaveAnswer(c) PROVE Carried'
  <2>1. \E pc \in {"done", "save.answer"} : Moved(c, pc)
    BY <1>6, WritingMoves
  <2>2. UNCHANGED <<row, cache>>
    BY <1>6 DEF MsgAnswer, SaveVersion, SaveAnswer
  <2>. QED
    BY <2>1, <2>2, CarriedStep DEF Scoring
<1>7. ASSUME NEW c \in Calls, SaveLoad(c) \/ SaveRow(c) \/ SaveWrite(c) \/ SaveCache(c) PROVE Carried'
  <2>1. \A d \in Calls \ {c} : call[d].pc \notin {"msg.row", "msg.write", "msg.answer"}
    BY <1>7, OneAtATime DEF SaveLoad, SaveRow, SaveWrite, SaveCache, Locked, Messaging, Saving
  <2>2. \E pc \in {"save.row", "save.write", "save.cache", "save.version", "done"} : Moved(c, pc)
    BY <1>7, SaveLoadMoves, ReadRowMoves, StepNames, WritingMoves DEF Loads, SaveRow
  <2>. QED
    BY <2>1, <2>2, CarriedStep DEF Scoring
<1>8. ASSUME NEW c \in Calls, EvalLoad(c) PROVE Carried'
  <2>1. Loads(c, "eval.job", Loaded.hist, call[c].art, call[c].row, call[c].seen)
    BY <1>8, EvalLoadMoves
  <2>2. call[c].seen \subseteq Turns(Loaded.hist)
    <3>1. PICK T : T = call[c].seen
      OBVIOUS
    <3>2. HoldsTurns(T) /\ Loadable
      BY <1>8, <3>1 DEF Holding, EvalLoad, HoldsTurns
    <3>. QED
      BY <3>1, <3>2, HoldsLoaded
  <2>3. row' = row /\ report' = report /\ (cache.live => cache' = cache)
    BY <1>8 DEF EvalLoad, Loaded
  <2>4. \A d \in Calls \ {c} : call[d].pc \in {"msg.row", "msg.write", "msg.answer"} /\ report' = NoReport =>
            cache' = cache /\ row'.hist = row.hist
    BY <2>3 DEF Carried
  <2>. QED
    BY <2>1, <2>2, <2>4, CarriedStep DEF Loads
<1>9. ASSUME NEW c \in Calls, JobReports(c) PROVE Carried'
  <2>1. report' # NoReport /\ call[c].pc \in Scoring
    BY <1>0, <1>9, RequestFields, WorkAssumption DEF JobReports, Scoring
  <2>. QED
    BY <1>9, <2>1, WritingMoves, CarriedStep DEF Kept, Carried
<1>10. ASSUME NEW c \in Calls, JobMarks(c) \/ JobForgets(c) PROVE Carried'
  <2>1. report' # NoReport /\ call[c].pc \in Scoring
    BY <1>10, ReportStays DEF JobMarks, JobForgets, Reported, Scoring
  <2>2. \E pc \in {"eval.forget", "done"} : Moved(c, pc) /\ Kept(c)
    BY <1>10, WritingMoves
  <2>. QED
    BY <2>1, <2>2, CarriedStep DEF Kept, Carried
<1>11. CASE Crash
  BY <1>11, CrashMoves DEF Carried, Scoring, Ended
<1>12. CASE UNCHANGED vars
  BY <1>12 DEF Carried, vars
<1>. QED
  BY <1>1, <1>2, <1>3, <1>4, <1>5, <1>6, <1>7, <1>8, <1>9, <1>10, <1>11, <1>12, StepsOfNext DEF EngineTimesOut

\* What is answered changes when a message or a save is answered.
LEMMA AnsweredUnless ==
    ASSUME [Next]_vars, WorkInv, ~ \E c \in Calls : MsgAnswer(c) \/ SaveAnswer(c)
    PROVE  stored' = stored
BY StepsOfNext DEF Quiet, EngineTimesOut, MsgLoad, MsgCache, MsgRow, MsgWrite, SaveLoad, SaveRow, SaveWrite, SaveCache,
     SaveVersion, EvalLoad, JobReports, JobMarks, JobForgets, Crash, ReadRow, Stores, vars

LEMMA AnsweredStay ==
    ASSUME WorkInv, HoldsTurns(stored \cap Texts), [Next]_vars, stored' \cap Texts = stored \cap Texts
    PROVE  HoldsTurns(stored \cap Texts)'
<1>1. PICK T : T = stored \cap Texts
  OBVIOUS
<1>2. HoldsTurns(T)
  BY <1>1
<1>3. HoldsTurns(T)'
  BY <1>2, HeldTurnsStay
<1>. QED
  BY <1>1, <1>3 DEF HoldsTurns

\* The answer of a message adds a turn that is in every copy.
LEMMA AnswerIsHeld ==
    ASSUME WorkInv, NoneLate, Carried, report = NoReport, HoldsTurns(stored \cap Texts), NEW c \in Calls, MsgAnswer(c)
    PROVE  HoldsTurns(stored \cap Texts)'
<1>1. stored' \cap Texts \subseteq (stored \cap Texts) \cup {call[c].event} /\ UNCHANGED <<row, cache>>
  BY DEF MsgAnswer
<1>2. call[c].event \in Turns(cache.hist) /\ call[c].event \in Turns(row.hist)
  BY DEF MsgAnswer, Carried
<1>3. Moved(c, "done")
  BY WritingMoves
<1>4. \A d \in Calls : call'[d].pc \notin Past
  BY <1>3, OneAtATime DEF MsgAnswer, Moved, Past, Locked, Messaging, Saving
<1>. QED
  BY <1>1, <1>2, <1>4 DEF HoldsTurns, Past

\* The turns a job was asked to score, from one step to the next.
LEMMA SeenStays ==
    ASSUME WorkInv, [Next]_vars, NEW T, HoldsTurns(T), NEW d \in Calls, call'[d].seen = T
    PROVE  HoldsTurns(call[d].seen)'
<1>1. HoldsTurns(T)'
  BY HeldTurnsStay
<1>. QED
  BY <1>1 DEF HoldsTurns

LEMMA HoldingStays == WorkInv /\ NoneLate /\ Reported /\ Holding /\ Carried /\ [Next]_vars /\ "timeout" \notin scenario.faults => Holding'
<1> SUFFICES ASSUME WorkInv, NoneLate, Reported, Holding, Carried, [Next]_vars, "timeout" \notin scenario.faults PROVE Holding'
  OBVIOUS
<1>1. ASSUME report' = NoReport PROVE HoldsTurns(stored \cap Texts)'
  <2>1. report = NoReport /\ HoldsTurns(stored \cap Texts)
    BY <1>1, ReportStays DEF Holding
  <2>2. CASE \E c \in Calls : MsgAnswer(c)
    BY <2>1, <2>2, AnswerIsHeld
  <2>3. CASE \E c \in Calls : SaveAnswer(c)
    <3>1. stored' \cap Texts = stored \cap Texts
      BY <2>3, WorkAssumption DEF SaveAnswer, WorkInv, EventsFit, SaveSteps
    <3>. QED
      BY <2>1, <3>1, AnsweredStay
  <2>4. CASE ~ \E c \in Calls : MsgAnswer(c) \/ SaveAnswer(c)
    BY <2>1, <2>4, AnsweredUnless, AnsweredStay
  <2>. QED
    BY <2>2, <2>3, <2>4
<1>2. ASSUME NEW d \in Calls, call'[d].pc \in {"eval.lookup", "eval.load"} PROVE HoldsTurns(call[d].seen)'
  <2>1. \/ call[d].pc \in {"eval.lookup", "eval.load"} /\ call'[d].seen = call[d].seen
        \/ report = NoReport /\ call'[d].seen = stored \cap Texts
    <3> DEFINE goal == \/ call[d].pc \in {"eval.lookup", "eval.load"} /\ call'[d].seen = call[d].seen
                       \/ report = NoReport /\ call'[d].seen = stored \cap Texts
    <3>1. ASSUME NEW c \in Calls, Quiet(c) PROVE goal
      BY <1>2, <3>1 DEF Quiet, Moved
    <3>2. ASSUME NEW c \in Calls, NEW pc, pc \notin {"eval.lookup", "eval.load"}, Moved(c, pc) PROVE goal
      BY <1>2, <3>2 DEF Moved
    <3>3. ASSUME NEW c \in Calls,
                 \/ MsgLoad(c) \/ MsgCache(c) \/ MsgRow(c) \/ MsgWrite(c) \/ MsgAnswer(c)
                 \/ SaveLoad(c) \/ SaveRow(c) \/ SaveWrite(c) \/ SaveCache(c) \/ SaveVersion(c) \/ SaveAnswer(c)
                 \/ EvalLoad(c) \/ JobReports(c) \/ JobMarks(c) \/ JobForgets(c)
          PROVE  \E pc : pc \notin {"eval.lookup", "eval.load"} /\ Moved(c, pc)
      BY <3>3, WritingMoves, MsgLoadMoves, SaveLoadMoves, EvalLoadMoves, ReadRowMoves, StepNames DEF MsgRow, SaveRow, Loads
    <3>4. ~Crash
      BY <1>2, CrashMoves DEF Ended
    <3>. QED
      BY <1>2, <3>1, <3>2, <3>3, <3>4, StepsOfNext DEF EngineTimesOut, vars
  <2>2. PICK T : T = call'[d].seen
    OBVIOUS
  <2>3. HoldsTurns(T)
    BY <2>1, <2>2 DEF Holding
  <2>. QED
    BY <2>2, <2>3, SeenStays
<1>. QED
  BY <1>1, <1>2 DEF Holding

TurnInv == WorkInv /\ Reported /\ ("timeout" \notin scenario.faults => NoneLate /\ Holding /\ Carried)

LEMMA InitTurnInv == Init => TurnInv
<1> SUFFICES ASSUME Init PROVE TurnInv
  OBVIOUS
<1>1. \A c \in Calls : call[c].pc = "idle" /\ ~call[c].late
  BY DEF Init, Blank
<1>2. WorkInv
  BY InitWorkInv
<1>3. ~row.freed /\ stored = {}
  BY DEF Init
<1>4. Reported /\ NoneLate /\ Carried
  BY <1>1, <1>3 DEF Reported, NoneLate, Carried, Scoring
<1>5. Holding
  BY <1>1, <1>3 DEF Holding, HoldsTurns, Past
<1>. QED
  BY <1>2, <1>4, <1>5 DEF TurnInv

LEMMA NextTurnInv == TurnInv /\ [Next]_vars => TurnInv'
<1> SUFFICES ASSUME TurnInv, [Next]_vars PROVE TurnInv'
  OBVIOUS
<1>1. scenario' = scenario
  BY ScenarioStays DEF TurnInv
<1>. QED
  BY <1>1, NextKeepsWork, ReportedStays, NoneLateStays, CarriedStays, HoldingStays DEF TurnInv

\* A turn the candidate was answered is in the persisted history until the
\* session is scored, whatever crashes, fails or restarts, when no handler
\* outlives its invoker.
THEOREM AnsweredTurnsAreKept == Spec => []AnsweredTurnsKept
<1>1. TurnInv => AnsweredTurnsKept
  BY DEF TurnInv, Reported, Holding, HoldsTurns, AnsweredTurnsKept
<1>. QED
  BY <1>1, InitTurnInv, NextTurnInv, PTL DEF Spec

\* A scoring job scores every turn that was answered before it was asked for.
THEOREM JobsScoreWhatWasAnswered == Spec => []ScoresWhatWasAnswered
<1>1. TurnInv => ScoresWhatWasAnswered
  BY DEF TurnInv, Carried, ScoresWhatWasAnswered
<1>. QED
  BY <1>1, InitTurnInv, NextTurnInv, PTL DEF Spec

-----------------------------------------------------------------------------
(* One turn per event, where nothing is cut off *)

\* The requests that have begun to write their turn, and the turns that are
\* written or being written.
Undone == {"msg.row", "msg.write", "msg.answer"}
Known == stored \cup {call[c].event : c \in {d \in Calls : call[d].pc \in Undone}}

\* A history of turns of K, each of them once.
Once(h, K) == (\A i, j \in 1..Len(h) : h[i] = h[j] => i = j) /\ Turns(h) \subseteq K

OnceInv ==
    /\ Once(row.hist, Known) /\ Once(cache.hist, Known)
    /\ \A c \in Calls :
        /\ call[c].pc \in Past \ {"msg.cache"} => Once(call[c].hist, Known)
        /\ call[c].pc = "msg.cache" => Once(call[c].hist, Known \cup {call[c].event})
        /\ call[c].pc = "save.write" => Once(call[c].row.hist, Known)
        /\ call[c].pc \in {"msg.load", "msg.cache"} \cup Undone => call[c].event \notin stored

LEMMA OnceMore ==
    ASSUME NEW h, NEW K, NEW L, Once(h, K), K \subseteq L
    PROVE  Once(h, L)
BY DEF Once

LEMMA OnceOfEmpty == \A K : Once(<<>>, K)
BY DEF Once, Turns

LEMMA OnceOfAppend ==
    ASSUME NEW h \in Seq(Texts), NEW e \in Texts, NEW K, Once(h, K), e \notin K
    PROVE  Once(Append(h, e), K \cup {e})
<1> DEFINE g == Append(h, e)
<1>1. /\ Len(h) \in Nat /\ Len(g) = Len(h) + 1 /\ g[Len(h) + 1] = e
      /\ \A i \in 1..Len(h) : g[i] = h[i]
  BY AppendProperties, LenProperties
<1>2. Turns(g) \subseteq K \cup {e}
  BY TurnsOfAppend DEF Once
<1>. HIDE DEF g
<1>3. \A i \in 1..Len(h) : h[i] # e
  BY DEF Once, Turns
<1>4. ASSUME NEW i \in 1..Len(g), NEW j \in 1..Len(g), g[i] = g[j] PROVE i = j
  <2>1. (i \in 1..Len(h) \/ i = Len(h) + 1) /\ (j \in 1..Len(h) \/ j = Len(h) + 1)
    BY <1>1
  <2>2. CASE i \in 1..Len(h) /\ j \in 1..Len(h)
    BY <1>1, <1>4, <2>2 DEF Once
  <2>. QED
    BY <1>1, <1>3, <1>4, <2>1, <2>2
<1>. QED
  BY <1>2, <1>4 DEF Once, g

\* What is known is never forgotten.
LEMMA KnownStep ==
    ASSUME NEW c \in Calls, NEW pc, Moved(c, pc), stored \subseteq stored',
           call[c].pc \in Undone => call[c].event \in stored' \/ (pc \in Undone /\ call'[c].event = call[c].event)
    PROVE  Known \subseteq Known'
BY DEF Known, Moved

\* A step of c that brings no history with a turn twice or out of nowhere.
LEMMA OnceStep ==
    ASSUME WorkInv, OnceInv, NEW c \in Calls, NEW pc, Moved(c, pc), stored \subseteq stored',
           call[c].pc \in Undone => call[c].event \in stored' \/ (pc \in Undone /\ call'[c].event = call[c].event),
           row'.hist = row.hist \/ Once(row'.hist, Known'),
           cache'.hist = cache.hist \/ Once(cache'.hist, Known'),
           pc \in Past \ {"msg.cache"} => Once(call'[c].hist, Known'),
           pc = "msg.cache" => Once(call'[c].hist, Known' \cup {call'[c].event}),
           pc = "save.write" => Once(call'[c].row.hist, Known'),
           pc \in {"msg.load", "msg.cache"} \cup Undone => call'[c].event \notin stored',
           stored' = stored \/ \A d \in Calls \ {c} : call[d].pc \notin {"msg.load", "msg.cache"} \cup Undone
    PROVE  OnceInv'
<1>1. Known \subseteq Known'
  BY KnownStep
<1>2. Once(row'.hist, Known') /\ Once(cache'.hist, Known')
  BY <1>1, OnceMore DEF OnceInv
<1>3. ASSUME NEW d \in Calls \ {c}
      PROVE  /\ call'[d].pc \in Past \ {"msg.cache"} => Once(call'[d].hist, Known')
             /\ call'[d].pc = "msg.cache" => Once(call'[d].hist, Known' \cup {call'[d].event})
             /\ call'[d].pc = "save.write" => Once(call'[d].row.hist, Known')
             /\ call'[d].pc \in {"msg.load", "msg.cache"} \cup Undone => call'[d].event \notin stored'
  <2>1. call'[d] = call[d]
    BY DEF Moved
  <2>2. /\ call[d].pc \in Past \ {"msg.cache"} => Once(call[d].hist, Known)
        /\ call[d].pc = "msg.cache" => Once(call[d].hist, Known \cup {call[d].event})
        /\ call[d].pc = "save.write" => Once(call[d].row.hist, Known)
        /\ call[d].pc \in {"msg.load", "msg.cache"} \cup Undone => call[d].event \notin stored
    BY DEF OnceInv
  <2>3. call[d].pc = "msg.cache" => Once(call[d].hist, Known' \cup {call[d].event})
    <3> DEFINE K == Known \cup {call[d].event}
               L == Known' \cup {call[d].event}
    <3>1. K \subseteq L
      BY <1>1
    <3>2. call[d].pc = "msg.cache" => Once(call[d].hist, K)
      BY <2>2
    <3>. HIDE DEF K, L
    <3>3. call[d].pc = "msg.cache" => Once(call[d].hist, L)
      BY <3>1, <3>2, OnceMore
    <3>. QED
      BY <3>3 DEF L
  <2>4. /\ call[d].pc \in Past \ {"msg.cache"} => Once(call[d].hist, Known')
        /\ call[d].pc = "save.write" => Once(call[d].row.hist, Known')
    BY <1>1, <2>2, OnceMore
  <2>. QED
    BY <2>1, <2>2, <2>3, <2>4
<1>. QED
  BY <1>2, <1>3 DEF OnceInv, Moved

LEMMA LoadedOnce ==
    ASSUME OnceInv
    PROVE  Once(Loaded.hist, Known)
BY DEF OnceInv, Loaded

LEMMA OnceStays == WorkInv /\ NoneLate /\ OnceInv /\ [Next]_vars /\ scenario.faults = {} => OnceInv'
<1> SUFFICES ASSUME WorkInv, NoneLate, OnceInv, [Next]_vars, scenario.faults = {} PROVE OnceInv'
  OBVIOUS
<1>0. TypeOK
  BY DEF WorkInv
<1>1. ASSUME NEW c \in Calls, Quiet(c) PROVE OnceInv'
  <2>1. call[c].pc \notin Undone
    BY <1>1 DEF Quiet, Undone
  <2>. QED
    BY <1>1, <2>1, OnceStep DEF Quiet, QuietSteps, Past, Undone
<1>2. ASSUME NEW c \in Calls, MsgLoad(c) PROVE OnceInv'
  <2>1. Loads(c, "msg.cache", Append(Loaded.hist, call[c].event), call[c].art, call[c].row, call[c].seen) /\ call[c].event \in Texts
    BY <1>2, MsgLoadMoves
  <2>2. call[c].pc = "msg.load" /\ UNCHANGED <<row, stored>> /\ cache'.hist = Loaded.hist
    BY <1>2 DEF MsgLoad
  <2>3. \A d \in Calls : call[d].pc \notin Undone
    BY <2>2, OneAtATime DEF Undone, Locked, Messaging
  <2>4. Known = stored /\ Known' = stored
    BY <2>1, <2>2, <2>3 DEF Known, Loads, Moved, Undone
  <2>5. call[c].event \notin Known
    BY <2>2, <2>4 DEF OnceInv
  <2>6. Once(Loaded.hist, Known) /\ Loaded.hist \in Seq(Texts)
    BY <1>0, LoadedOnce, LoadedTyped
  <2>7. Once(Append(Loaded.hist, call[c].event), Known \cup {call[c].event})
    BY <2>1, <2>5, <2>6, OnceOfAppend
  <2>. QED
    BY <2>1, <2>2, <2>4, <2>5, <2>6, <2>7, OnceStep DEF Loads, Past, Undone
<1>3. ASSUME NEW c \in Calls, MsgCache(c) PROVE OnceInv'
  <2>1. Moved(c, "msg.row") /\ Kept(c) /\ call[c].pc = "msg.cache" /\ UNCHANGED <<row, stored>> /\ cache'.hist = call[c].hist
    BY <1>3, WritingMoves DEF MsgCache
  <2>2. Known \cup {call[c].event} \subseteq Known'
    BY <2>1 DEF Known, Moved, Kept, Undone
  <2>3. Once(call[c].hist, Known \cup {call[c].event}) /\ call[c].event \notin stored
    BY <2>1 DEF OnceInv
  <2>4. Once(call[c].hist, Known')
    <3> DEFINE K == Known \cup {call[c].event}
    <3>. HIDE DEF K
    <3>1. Once(call[c].hist, K) /\ K \subseteq Known'
      BY <2>2, <2>3 DEF K
    <3>. QED
      BY <3>1, OnceMore
  <2>. QED
    BY <2>1, <2>3, <2>4, OnceStep DEF Kept, Past, Undone
<1>4. ASSUME NEW c \in Calls, MsgRow(c) PROVE OnceInv'
  <2>1. Loads(c, "msg.write", call[c].hist, call[c].art, row, call[c].seen)
    BY <1>4, ReadRowMoves, StepNames DEF MsgRow
  <2>2. call[c].pc = "msg.row" /\ UNCHANGED <<row, cache, stored>>
    BY <1>4 DEF MsgRow, ReadRow, Stores
  <2>3. Known \subseteq Known' /\ Once(call[c].hist, Known) /\ call[c].event \notin stored
    BY <2>1, <2>2, KnownStep DEF OnceInv, Past, Undone, Loads
  <2>4. Once(call[c].hist, Known')
    BY <2>3, OnceMore
  <2>. QED
    BY <2>1, <2>2, <2>3, <2>4, OnceStep DEF Loads, Past, Undone
<1>5. ASSUME NEW c \in Calls, MsgWrite(c) PROVE OnceInv'
  <2>1. Moved(c, "msg.answer") /\ Kept(c)
    BY <1>5, WritingMoves DEF NoneLate
  <2>2. row'.hist = call[c].hist /\ call[c].pc = "msg.write" /\ UNCHANGED <<cache, stored>>
    BY <1>0, <1>5, RequestFields DEF MsgWrite, Rows
  <2>3. Known \subseteq Known' /\ Once(call[c].hist, Known) /\ call[c].event \notin stored
    BY <2>1, <2>2, KnownStep DEF OnceInv, Past, Undone, Kept
  <2>4. Once(call[c].hist, Known')
    BY <2>3, OnceMore
  <2>. QED
    BY <2>1, <2>2, <2>3, <2>4, OnceStep DEF Kept, Past, Undone
<1>6. ASSUME NEW c \in Calls, MsgAnswer(c) \/ SaveAnswer(c) PROVE OnceInv'
  <2>1. /\ Moved(c, "done") /\ stored' = stored \cup {call[c].event} /\ UNCHANGED <<row, cache>>
        /\ call[c].pc \in {"msg.answer", "save.answer"}
    BY <1>6, WritingMoves DEF MsgAnswer, SaveAnswer
  <2>2. \A d \in Calls \ {c} : call[d].pc \notin {"msg.load", "msg.cache"} \cup Undone
    BY <2>1, OneAtATime DEF Undone, Locked, Messaging
  <2>. QED
    BY <2>1, <2>2, OnceStep DEF Past, Undone
<1>7. ASSUME NEW c \in Calls, SaveLoad(c) PROVE OnceInv'
  <2>1. Loads(c, "save.row", Loaded.hist, Loaded.art \cup {call[c].event}, call[c].row, call[c].seen)
    BY <1>7, SaveLoadMoves
  <2>2. call[c].pc = "save.load" /\ UNCHANGED <<row, stored>> /\ cache'.hist = Loaded.hist
    BY <1>7 DEF SaveLoad
  <2>3. Known \subseteq Known' /\ Once(Loaded.hist, Known)
    BY <2>1, <2>2, KnownStep, LoadedOnce DEF Undone, Loads
  <2>4. Once(Loaded.hist, Known')
    BY <2>3, OnceMore
  <2>. QED
    BY <2>1, <2>2, <2>4, OnceStep DEF Loads, Undone
<1>8. ASSUME NEW c \in Calls, SaveRow(c) PROVE OnceInv'
  <2>1. Loads(c, "save.write", call[c].hist, call[c].art, row, call[c].seen)
    BY <1>8, ReadRowMoves, StepNames DEF SaveRow
  <2>2. call[c].pc = "save.row" /\ UNCHANGED <<row, cache, stored>>
    BY <1>8 DEF SaveRow, ReadRow, Stores
  <2>3. Known \subseteq Known' /\ Once(call[c].hist, Known) /\ Once(row.hist, Known)
    BY <2>1, <2>2, KnownStep DEF OnceInv, Past, Undone, Loads
  <2>4. Once(call[c].hist, Known') /\ Once(row.hist, Known')
    BY <2>3, OnceMore
  <2>. QED
    BY <2>1, <2>2, <2>4, OnceStep DEF Loads, Undone
<1>9. ASSUME NEW c \in Calls, SaveWrite(c) PROVE OnceInv'
  <2>1. Moved(c, "save.cache") /\ Kept(c)
    BY <1>9, WritingMoves
  <2>2. row'.hist = call[c].row.hist /\ call[c].pc = "save.write" /\ UNCHANGED <<cache, stored>>
    BY <1>0, <1>9, RequestFields DEF SaveWrite, Rows
  <2>3. Known \subseteq Known' /\ Once(call[c].hist, Known) /\ Once(call[c].row.hist, Known)
    BY <2>1, <2>2, KnownStep DEF OnceInv, Past, Undone
  <2>4. Once(call[c].hist, Known') /\ Once(call[c].row.hist, Known')
    BY <2>3, OnceMore
  <2>. QED
    BY <2>1, <2>2, <2>4, OnceStep DEF Kept, Undone
<1>10. ASSUME NEW c \in Calls, SaveCache(c) PROVE OnceInv'
  <2>1. Moved(c, "save.version") /\ Kept(c)
    BY <1>10, WritingMoves DEF NoneLate
  <2>2. cache'.hist = call[c].hist /\ call[c].pc = "save.cache" /\ UNCHANGED <<row, stored>>
    BY <1>10 DEF SaveCache
  <2>3. Known \subseteq Known' /\ Once(call[c].hist, Known)
    BY <2>1, <2>2, KnownStep DEF OnceInv, Past, Undone
  <2>4. Once(call[c].hist, Known')
    BY <2>3, OnceMore
  <2>. QED
    BY <2>1, <2>2, <2>4, OnceStep DEF Past, Undone
<1>11. ASSUME NEW c \in Calls, SaveVersion(c) \/ JobReports(c) PROVE OnceInv'
  <2>1. \E pc \in {"save.answer", "eval.mark"} : Moved(c, pc)
    BY <1>11, WritingMoves
  <2>2. UNCHANGED <<row, cache, stored>> /\ call[c].pc \notin Undone
    BY <1>11 DEF SaveVersion, JobReports, Undone
  <2>. QED
    BY <2>1, <2>2, OnceStep DEF Past, Undone
<1>12. ASSUME NEW c \in Calls, EvalLoad(c) PROVE OnceInv'
  <2>1. Moved(c, "eval.job")
    BY <1>12, EvalLoadMoves DEF Loads
  <2>2. UNCHANGED <<row, stored>> /\ cache'.hist = Loaded.hist /\ call[c].pc \notin Undone
    BY <1>12 DEF EvalLoad, Undone
  <2>3. Known \subseteq Known' /\ Once(Loaded.hist, Known)
    BY <2>1, <2>2, KnownStep, LoadedOnce
  <2>4. Once(Loaded.hist, Known')
    BY <2>3, OnceMore
  <2>. QED
    BY <2>1, <2>2, <2>4, OnceStep DEF Past, Undone
<1>13. ASSUME NEW c \in Calls, JobMarks(c) \/ JobForgets(c) PROVE OnceInv'
  <2>1. \E pc \in {"eval.forget", "done"} : Moved(c, pc)
    BY <1>13, WritingMoves
  <2>2. stored' = stored /\ call[c].pc \notin Undone
    BY <1>13 DEF JobMarks, JobForgets, Undone
  <2>3. /\ row'.hist = row.hist \/ row'.hist = <<>>
        /\ cache'.hist = cache.hist \/ cache'.hist = <<>>
    <3>1. JobMarks(c) => row'.hist = <<>> /\ cache' = cache
      BY <1>0 DEF JobMarks, TypeOK, Rows
    <3>2. JobForgets(c) => cache'.hist = <<>> /\ row' = row
      BY DEF JobForgets
    <3>. QED
      BY <1>13, <3>1, <3>2
  <2>. QED
    BY <2>1, <2>2, <2>3, OnceOfEmpty, OnceStep DEF Past, Undone
<1>14. CASE UNCHANGED vars
  BY <1>14 DEF OnceInv, Known, vars
<1>. QED
  BY <1>1, <1>2, <1>3, <1>4, <1>5, <1>6, <1>7, <1>8, <1>9, <1>10, <1>11, <1>12, <1>13, <1>14, StepsOfNext DEF EngineTimesOut, Crash

-----------------------------------------------------------------------------
(* The cache and the row, where nothing is cut off *)

\* Until the session is scored the cache is live, and ahead of the row only by
\* the message that has written one and not yet the other; a request that has
\* read them writes back what is still there.
Agreed ==
    report = NoReport =>
        /\ cache.live
        /\ (\A c \in Calls : call[c].pc \notin {"msg.row", "msg.write"}) => cache.hist = row.hist
        /\ \A c \in Calls :
            /\ call[c].pc \in Past \ {"msg.cache"} => call[c].hist = cache.hist
            /\ call[c].pc = "save.write" => call[c].row.hist = row.hist

\* A step of c that writes neither history while another request is at work.
LEMMA AgreedStep ==
    ASSUME WorkInv, NoneLate, Agreed, [Next]_vars, NEW c \in Calls, NEW pc, Moved(c, pc),
           report' = NoReport => cache' = cache /\ row'.hist = row.hist,
           call[c].pc \in {"msg.row", "msg.write"} => pc \in {"msg.row", "msg.write"},
           pc \in Past \ {"msg.cache"} => (report = NoReport => call'[c].hist = cache.hist),
           pc = "save.write" => (report = NoReport => call'[c].row.hist = row.hist)
    PROVE  Agreed'
<1> SUFFICES ASSUME report' = NoReport PROVE Agreed'
  BY DEF Agreed
<1>1. report = NoReport /\ cache' = cache /\ row'.hist = row.hist
  BY ReportStays
<1>2. (\A d \in Calls : call'[d].pc \notin {"msg.row", "msg.write"}) => \A d \in Calls : call[d].pc \notin {"msg.row", "msg.write"}
  BY DEF Moved
<1>. QED
  BY <1>1, <1>2 DEF Agreed, Moved

\* A step of the holder of the lock: no other request has read what it writes.
LEMMA AgreedAlone ==
    ASSUME WorkInv, NoneLate, Agreed, [Next]_vars, NEW c \in Calls, NEW pc, Moved(c, pc), call[c].pc \in Locked,
           report' = NoReport =>
              /\ cache'.live
              /\ pc \notin {"msg.row", "msg.write"} => cache'.hist = row'.hist
              /\ pc \in Past \ {"msg.cache"} => call'[c].hist = cache'.hist
              /\ pc = "save.write" => call'[c].row.hist = row'.hist
    PROVE  Agreed'
<1>1. \A d \in Calls \ {c} : call'[d] = call[d] /\ call[d].pc \notin Past
  BY OneAtATime DEF Moved, Past, Locked, Messaging, Saving
<1>2. call'[c].pc = pc
  BY DEF Moved
<1>. QED
  BY <1>1, <1>2 DEF Agreed, Past

LEMMA AgreedStays == WorkInv /\ NoneLate /\ Reported /\ Agreed /\ [Next]_vars /\ scenario.faults = {} => Agreed'
<1> SUFFICES ASSUME WorkInv, NoneLate, Reported, Agreed, [Next]_vars, scenario.faults = {} PROVE Agreed'
  OBVIOUS
<1>0. TypeOK
  BY DEF WorkInv
<1>1. ASSUME NEW c \in Calls, Quiet(c) PROVE Agreed'
  BY <1>1, AgreedStep DEF Quiet, QuietSteps, Past
<1>2. ASSUME NEW c \in Calls, MsgLoad(c) PROVE Agreed'
  <2>1. Moved(c, "msg.cache")
    BY <1>2, MsgLoadMoves DEF Loads
  <2>2. UNCHANGED <<row, report>> /\ (cache.live => cache' = cache) /\ call[c].pc = "msg.load"
    BY <1>2 DEF MsgLoad, Loaded
  <2>. QED
    BY <2>1, <2>2, AgreedStep DEF Agreed
<1>3. ASSUME NEW c \in Calls, MsgCache(c) PROVE Agreed'
  BY <1>3, WritingMoves, AgreedAlone DEF MsgCache, Kept, Locked, Messaging
<1>4. ASSUME NEW c \in Calls, MsgRow(c) PROVE Agreed'
  <2>1. Loads(c, "msg.write", call[c].hist, call[c].art, row, call[c].seen)
    BY <1>4, ReadRowMoves, StepNames DEF MsgRow
  <2>2. call[c].pc = "msg.row" /\ UNCHANGED <<row, cache, report>>
    BY <1>4 DEF MsgRow, ReadRow, Stores
  <2>. QED
    BY <2>1, <2>2, AgreedStep DEF Loads, Agreed, Past
<1>5. ASSUME NEW c \in Calls, MsgWrite(c) PROVE Agreed'
  <2>1. Moved(c, "msg.answer")
    BY <1>5, WritingMoves DEF NoneLate
  <2>2. row'.hist = call[c].hist /\ call[c].pc = "msg.write" /\ UNCHANGED <<cache, report>>
    BY <1>0, <1>5, RequestFields DEF MsgWrite, Rows
  <2>3. report = NoReport => cache.live /\ call[c].hist = cache.hist
    BY <2>2 DEF Agreed, Past
  <2>. QED
    BY <2>1, <2>2, <2>3, AgreedAlone DEF Past, Locked, Messaging
<1>6. ASSUME NEW c \in Calls, MsgAnswer(c) \/ SaveVersion(c) \/ SaveAnswer(c) PROVE Agreed'
  <2>1. \E pc \in {"done", "save.answer"} : Moved(c, pc)
    BY <1>6, WritingMoves
  <2>2. UNCHANGED <<row, cache>> /\ call[c].pc \notin {"msg.row", "msg.write"}
    BY <1>6 DEF MsgAnswer, SaveVersion, SaveAnswer
  <2>. QED
    BY <2>1, <2>2, AgreedStep DEF Past
<1>7. ASSUME NEW c \in Calls, SaveLoad(c) PROVE Agreed'
  <2>1. Loads(c, "save.row", Loaded.hist, Loaded.art \cup {call[c].event}, call[c].row, call[c].seen)
    BY <1>7, SaveLoadMoves
  <2>2. UNCHANGED <<row, report>> /\ (cache.live => cache' = cache /\ Loaded = cache) /\ call[c].pc = "save.load"
    BY <1>7 DEF SaveLoad, Loaded
  <2>. QED
    BY <2>1, <2>2, AgreedStep DEF Loads, Agreed
<1>8. ASSUME NEW c \in Calls, SaveRow(c) PROVE Agreed'
  <2>1. Loads(c, "save.write", call[c].hist, call[c].art, row, call[c].seen)
    BY <1>8, ReadRowMoves, StepNames DEF SaveRow
  <2>2. call[c].pc = "save.row" /\ UNCHANGED <<row, cache, report>>
    BY <1>8 DEF SaveRow, ReadRow, Stores
  <2>. QED
    BY <2>1, <2>2, AgreedStep DEF Loads, Agreed, Past
<1>9. ASSUME NEW c \in Calls, SaveWrite(c) PROVE Agreed'
  <2>1. Moved(c, "save.cache") /\ Kept(c)
    BY <1>9, WritingMoves
  <2>2. row'.hist = call[c].row.hist /\ call[c].pc = "save.write" /\ UNCHANGED <<cache, report>>
    BY <1>0, <1>9, RequestFields DEF SaveWrite, Rows
  <2>. QED
    BY <2>1, <2>2, AgreedStep DEF Kept, Agreed, Past
<1>10. ASSUME NEW c \in Calls, SaveCache(c) PROVE Agreed'
  <2>1. Moved(c, "save.version")
    BY <1>10, WritingMoves DEF NoneLate
  <2>2. cache'.live /\ cache'.hist = call[c].hist /\ call[c].pc = "save.cache" /\ UNCHANGED <<row, report>>
    BY <1>10 DEF SaveCache
  <2>3. \A d \in Calls : call[d].pc \notin {"msg.row", "msg.write"}
    BY <2>2, OneAtATime DEF Locked, Messaging, Saving
  <2>4. report = NoReport => cache'.hist = cache.hist /\ cache.hist = row.hist
    BY <2>2, <2>3 DEF Agreed, Past
  <2>. QED
    BY <2>1, <2>2, <2>4, AgreedAlone DEF Past, Locked, Saving
<1>11. ASSUME NEW c \in Calls, EvalLoad(c) PROVE Agreed'
  <2>1. Moved(c, "eval.job")
    BY <1>11, EvalLoadMoves DEF Loads
  <2>2. UNCHANGED <<row, report>> /\ (cache.live => cache' = cache) /\ call[c].pc = "eval.load"
    BY <1>11 DEF EvalLoad, Loaded
  <2>. QED
    BY <2>1, <2>2, AgreedStep DEF Agreed, Past
<1>12. ASSUME NEW c \in Calls, JobReports(c) \/ JobMarks(c) \/ JobForgets(c) PROVE Agreed'
  <2>1. report' # NoReport
    BY <1>0, <1>12, RequestFields, WorkAssumption, ReportStays DEF JobReports, JobMarks, JobForgets, Reported
  <2>. QED
    BY <2>1 DEF Agreed
<1>13. CASE UNCHANGED vars
  BY <1>13 DEF Agreed, vars
<1>. QED
  BY <1>1, <1>2, <1>3, <1>4, <1>5, <1>6, <1>7, <1>8, <1>9, <1>10, <1>11, <1>12, <1>13, StepsOfNext DEF EngineTimesOut, Crash

SteadyInv == TurnInv /\ (scenario.faults = {} => OnceInv /\ Agreed)

LEMMA InitSteadyInv == Init => SteadyInv
<1> SUFFICES ASSUME Init PROVE SteadyInv
  OBVIOUS
<1>1. \A c \in Calls : call[c].pc = "idle"
  BY DEF Init, Blank
<1>2. cache.live /\ cache.hist = <<>> /\ row.hist = <<>>
  BY DEF Init
<1>3. OnceInv /\ Agreed
  BY <1>1, <1>2, OnceOfEmpty DEF OnceInv, Agreed, Past, Undone
<1>. QED
  BY <1>3, InitTurnInv DEF SteadyInv

LEMMA NextSteadyInv == SteadyInv /\ [Next]_vars => SteadyInv'
<1> SUFFICES ASSUME SteadyInv, [Next]_vars PROVE SteadyInv'
  OBVIOUS
<1>1. TurnInv' /\ scenario' = scenario
  BY NextTurnInv, ScenarioStays DEF SteadyInv, TurnInv
<1>2. ASSUME scenario.faults = {} PROVE OnceInv' /\ Agreed'
  <2>1. NoneLate /\ Reported /\ WorkInv /\ OnceInv /\ Agreed
    BY <1>2 DEF SteadyInv, TurnInv
  <2>. QED
    BY <1>2, <2>1, OnceStays, AgreedStays
<1>. QED
  BY <1>1, <1>2 DEF SteadyInv

LEMMA AtMostOnce ==
    ASSUME NEW h, NEW K, Once(h, K), NEW e
    PROVE  Cardinality({i \in 1..Len(h) : h[i] = e}) <= 1
<1> DEFINE S == {i \in 1..Len(h) : h[i] = e}
<1>1. \A i, j \in S : i = j
  BY DEF Once
<1>2. S = {} \/ \E i : S = {i}
  BY <1>1
<1>. HIDE DEF S
<1>3. Cardinality(S) \in {0, 1}
  BY <1>2, FS_EmptySet, FS_Singleton
<1>. QED
  BY <1>3 DEF S

\* However often an event is sent, its turn is in the histories once, where no
\* call is cut off between its turn and its stored event.
THEOREM TurnsAreTakenOnce == Spec => []TurnOncePerEvent
<1>1. SteadyInv => TurnOncePerEvent
  <2> SUFFICES ASSUME SteadyInv, scenario.faults = {}, NEW e \in Texts, NEW h \in {row.hist, cache.hist}
               PROVE  Cardinality({i \in 1..Len(h) : h[i] = e}) <= 1
    BY DEF TurnOncePerEvent
  <2>1. Once(h, Known)
    BY DEF SteadyInv, OnceInv
  <2>. QED
    BY <2>1, AtMostOnce, ZenonT(60)
<1>. QED
  BY <1>1, InitSteadyInv, NextSteadyInv, PTL DEF Spec

\* With no request in flight the next message builds on the turns a restart
\* would reload.
THEOREM CacheAndRowAgree == Spec => []CacheAgreesWithRow
<1>1. SteadyInv => CacheAgreesWithRow
  BY DEF SteadyInv, Agreed, CacheAgreesWithRow, Ended
<1>. QED
  BY <1>1, InitSteadyInv, NextSteadyInv, PTL DEF Spec

-----------------------------------------------------------------------------
(* Versions of the artifacts, whatever fails, is late or restarts *)

Carrying == {"save.row", "save.write", "save.cache", "save.version"}

\* An edit has a version of its own that contains it.
HasVersion(e) ==
    \E n \in 1..Len(versions[ArtifactOf[e]]) :
        versions[ArtifactOf[e]][n].edit = e /\ e \in versions[ArtifactOf[e]][n].content

\* A save that has loaded the artifacts carries its edit in them, has appended
\* its version before it is answered, and until then no other save has.
VersionInv ==
    /\ \A e \in stored \cap Edits : HasVersion(e)
    /\ \A c \in Calls :
        /\ call[c].pc = "save.answer" => HasVersion(call[c].event)
        /\ call[c].pc \in Carrying => call[c].event \in call[c].art
        /\ call[c].pc \in Carrying \cup {"save.load"} /\ ~call[c].late =>
             call[c].match = Len(versions[ArtifactOf[call[c].event]])

\* A step that appends no version.
LEMMA VersionStep ==
    ASSUME WorkInv, VersionInv, NEW c \in Calls, NEW pc, Moved(c, pc), versions' = versions,
           stored' = stored \/ (call[c].pc \in {"msg.answer", "save.answer"} /\ stored' = stored \cup {call[c].event}),
           pc # "save.answer",
           pc \in Carrying => call'[c].event \in call'[c].art,
           (pc \in Carrying \cup {"save.load"} /\ ~call'[c].late) => call'[c].match = Len(versions[ArtifactOf[call'[c].event]])
    PROVE  VersionInv'
<1>1. ASSUME NEW e \in stored' \cap Edits PROVE HasVersion(e)
  <2>1. CASE e \in stored
    BY <2>1 DEF VersionInv
  <2>2. CASE e \notin stored
    <3>1. e = call[c].event /\ call[c].pc \in {"msg.answer", "save.answer"}
      BY <2>2
    <3>2. call[c].pc # "msg.answer"
      BY <3>1, WorkAssumption DEF WorkInv, EventsFit, MsgSteps
    <3>. QED
      BY <3>1, <3>2 DEF VersionInv
  <2>. QED
    BY <2>1, <2>2
<1>2. \A e \in Edits : HasVersion(e) => HasVersion(e)'
  BY DEF HasVersion
<1>3. \A d \in Calls : HasVersion(call[d].event) /\ call'[d] = call[d] => HasVersion(call[d].event)'
  BY DEF HasVersion
<1>. QED
  BY <1>1, <1>2, <1>3, SMTT(30) DEF VersionInv, Moved, HasVersion

\* The append: versions only grow, and the new one holds the edit.
LEMMA AppendedVersion ==
    ASSUME WorkInv, VersionInv, NEW c \in Calls, SaveVersion(c)
    PROVE  VersionInv'
<1> DEFINE e == call[c].event
           a == ArtifactOf[e]
           v == [edit |-> e, content |-> {x \in call[c].art : ArtifactOf[x] = a}]
<1>1. call[c].pc = "save.version" /\ e \in Edits /\ a \in Artifacts /\ stored' = stored
  BY WorkAssumption DEF SaveVersion, WorkInv, EventsFit, SaveSteps
<1>2. versions \in [Artifacts -> Seq(Versions)] /\ call[c].art \in SUBSET Edits
  BY RequestFields DEF WorkInv, TypeOK
<1>3. v \in Versions /\ v.edit = e /\ v.content = {x \in call[c].art : ArtifactOf[x] = a}
  BY <1>1, <1>2 DEF Versions
<1>4. e \in v.content
  BY <1>1, <1>3 DEF VersionInv, Carrying
<1>5. versions' = [versions EXCEPT ![a] = Append(versions[a], v)]
  BY DEF SaveVersion
<1>6. Moved(c, "save.answer") /\ Kept(c)
  BY WritingMoves
<1>. HIDE DEF v
<1>7. /\ Len(versions'[a]) = Len(versions[a]) + 1 /\ Len(versions[a]) \in Nat
      /\ \A n \in 1..Len(versions[a]) : versions'[a][n] = versions[a][n]
      /\ versions'[a][Len(versions[a]) + 1] = v
      /\ \A b \in Artifacts : b # a => versions'[b] = versions[b]
  <2>1. versions[a] \in Seq(Versions) /\ versions'[a] = Append(versions[a], v)
    BY <1>1, <1>2, <1>5
  <2>2. \A b \in Artifacts : b # a => versions'[b] = versions[b]
    BY <1>2, <1>5
  <2>. QED
    BY <1>3, <2>1, <2>2, AppendProperties, LenProperties
<1>8. \A f \in Edits : HasVersion(f) => HasVersion(f)'
  <2> SUFFICES ASSUME NEW f \in Edits, HasVersion(f) PROVE HasVersion(f)'
    OBVIOUS
  <2> DEFINE b == ArtifactOf[f]
  <2>1. b \in Artifacts
    BY WorkAssumption
  <2>2. PICK n \in 1..Len(versions[b]) : versions[b][n].edit = f /\ f \in versions[b][n].content
    BY DEF HasVersion
  <2>3. n \in 1..Len(versions'[b]) /\ versions'[b][n] = versions[b][n]
    BY <1>1, <1>7, <2>1, <2>2, SMTT(30)
  <2>. QED
    BY <2>2, <2>3 DEF HasVersion
<1>9. HasVersion(e)'
  <2>1. Len(versions[a]) + 1 \in 1..Len(versions'[a])
    BY <1>7
  <2>2. call'[c].event = call[c].event
    BY <1>6 DEF Kept
  <2>. QED
    BY <1>3, <1>4, <1>7, <2>1, <2>2 DEF HasVersion
<1>10. ASSUME NEW d \in Calls \ {c}
       PROVE  /\ call[d].pc # "save.answer"
              /\ ~(call[d].pc \in Carrying \cup {"save.load"} /\ ~call[d].late)
  <2>1. ~call[c].late /\ call[c].pc \in Locked
    BY <1>1 DEF WorkInv, LateInEngine, Messaging, Saving, Ended, Locked
  <2>2. holder = c
    BY <2>1 DEF WorkInv, LockIsHeld
  <2>3. call[d].pc \in Locked => call[d].late
    BY <2>2 DEF WorkInv, LockIsHeld
  <2>. QED
    BY <2>3 DEF WorkInv, LateInEngine, Carrying, Locked, Messaging, Saving, Ended
<1>11. \A f \in stored' \cap Edits : HasVersion(f)'
  BY <1>1, <1>8 DEF VersionInv
<1>12. ASSUME NEW d \in Calls
       PROVE  /\ call'[d].pc = "save.answer" => HasVersion(call[d].event)'
              /\ call'[d].pc \in Carrying => call'[d].event \in call'[d].art
              /\ ~(call'[d].pc \in Carrying \cup {"save.load"} /\ ~call'[d].late)
  <2>1. CASE d = c
    BY <1>6, <1>9, <2>1 DEF Moved, Carrying
  <2>2. CASE d # c
    <3>1. call'[d] = call[d]
      BY <1>6, <2>2 DEF Moved
    <3>2. call[d].pc \in Carrying => call[d].event \in call[d].art
      BY DEF VersionInv
    <3>. QED
      BY <1>10, <2>2, <3>1, <3>2
  <2>. QED
    BY <2>1, <2>2
<1>. QED
  BY <1>11, <1>12 DEF VersionInv

LEMMA VersionsStay == WorkInv /\ VersionInv /\ [Next]_vars => VersionInv'
<1> SUFFICES ASSUME WorkInv, VersionInv, [Next]_vars PROVE VersionInv'
  OBVIOUS
<1>1. ASSUME NEW c \in Calls, Quiet(c) PROVE VersionInv'
  BY <1>1, VersionStep DEF Quiet, QuietSteps, Carrying
<1>2. ASSUME NEW c \in Calls, EngineTimesOut(c) PROVE VersionInv'
  <2>1. Moved(c, call[c].pc) /\ call'[c].late /\ call'[c].event = call[c].event /\ call'[c].art = call[c].art
    BY <1>2, TimeoutMoves
  <2>2. UNCHANGED <<versions, stored>> /\ call[c].pc # "save.answer"
    BY <1>2 DEF EngineTimesOut, Stores, InEngine, Messaging, Saving
  <2>. QED
    BY <2>1, <2>2, VersionStep DEF VersionInv
<1>3. ASSUME NEW c \in Calls,
             \/ MsgLoad(c) \/ MsgCache(c) \/ MsgRow(c) \/ MsgWrite(c) \/ MsgAnswer(c) \/ SaveAnswer(c)
             \/ EvalLoad(c) \/ JobReports(c) \/ JobMarks(c) \/ JobForgets(c)
      PROVE  VersionInv'
  <2>1. \E pc : pc \notin Carrying \cup {"save.load", "save.answer"} /\ Moved(c, pc)
    BY <1>3, WritingMoves, MsgLoadMoves, EvalLoadMoves, ReadRowMoves, StepNames DEF MsgRow, Loads, Carrying
  <2>2. /\ versions' = versions
        /\ stored' = stored \/ (call[c].pc \in {"msg.answer", "save.answer"} /\ stored' = stored \cup {call[c].event})
    BY <1>3 DEF MsgLoad, MsgCache, MsgRow, MsgWrite, MsgAnswer, SaveAnswer, EvalLoad, JobReports, JobMarks, JobForgets, ReadRow, Stores
  <2>. QED
    BY <2>1, <2>2, VersionStep
<1>4. ASSUME NEW c \in Calls, SaveLoad(c) PROVE VersionInv'
  <2>1. Loads(c, "save.row", Loaded.hist, Loaded.art \cup {call[c].event}, call[c].row, call[c].seen)
    BY <1>4, SaveLoadMoves
  <2>2. UNCHANGED <<versions, stored>> /\ call[c].pc = "save.load"
    BY <1>4 DEF SaveLoad
  <2>3. ~call[c].late => call[c].match = Len(versions[ArtifactOf[call[c].event]])
    BY <2>2 DEF VersionInv
  <2>. QED
    BY <2>1, <2>2, <2>3, VersionStep DEF Loads
<1>5. ASSUME NEW c \in Calls, SaveRow(c) PROVE VersionInv'
  <2>1. Loads(c, "save.write", call[c].hist, call[c].art, row, call[c].seen)
    BY <1>5, ReadRowMoves, StepNames DEF SaveRow
  <2>2. UNCHANGED <<versions, stored>> /\ call[c].pc = "save.row"
    BY <1>5 DEF SaveRow, ReadRow, Stores
  <2>3. /\ ~call[c].late => call[c].match = Len(versions[ArtifactOf[call[c].event]])
        /\ call[c].event \in call[c].art
    BY <2>2 DEF VersionInv, Carrying
  <2>. QED
    BY <2>1, <2>2, <2>3, VersionStep DEF Loads
<1>6. ASSUME NEW c \in Calls, SaveWrite(c) \/ SaveCache(c) PROVE VersionInv'
  <2>1. \E pc \in {"save.cache", "save.version", "done"} : Moved(c, pc)
    BY <1>6, WritingMoves
  <2>2. Kept(c) /\ UNCHANGED <<versions, stored>> /\ call[c].pc \in Carrying
    BY <1>6, WritingMoves DEF SaveWrite, SaveCache, Carrying
  <2>3. /\ ~call[c].late => call[c].match = Len(versions[ArtifactOf[call[c].event]])
        /\ call[c].event \in call[c].art
    BY <2>2 DEF VersionInv
  <2>. QED
    BY <2>1, <2>2, <2>3, VersionStep DEF Kept
<1>7. CASE Crash
  <2>1. UNCHANGED <<versions, stored>> /\ \A c \in Calls : call'[c].pc \in {"idle"} \cup Ended
    BY <1>7, CrashMoves DEF Crash, Ended
  <2>2. \A e \in Edits : HasVersion(e) => HasVersion(e)'
    BY <2>1 DEF HasVersion
  <2>. QED
    BY <2>1, <2>2 DEF VersionInv, Carrying, Ended
<1>8. CASE UNCHANGED vars
  BY <1>8 DEF VersionInv, HasVersion, vars
<1>. QED
  BY <1>1, <1>2, <1>3, <1>4, <1>5, <1>6, <1>7, <1>8, AppendedVersion, StepsOfNext

LEMMA InitVersionInv == Init => VersionInv
<1> SUFFICES ASSUME Init PROVE VersionInv
  OBVIOUS
<1>1. stored = {} /\ \A c \in Calls : call[c].pc = "idle"
  BY DEF Init, Blank
<1>. QED
  BY <1>1 DEF VersionInv, Carrying

\* An acknowledged edit has a version of its own that contains it, whatever
\* the candidate sends and whatever fails, is late or restarts.
THEOREM AnsweredEditsHaveVersions == Spec => []AnsweredEditHasVersion
<1>1. VersionInv => AnsweredEditHasVersion
  BY DEF VersionInv, HasVersion, AnsweredEditHasVersion
<1>2. WorkInv /\ VersionInv /\ [Next]_vars => WorkInv' /\ VersionInv'
  BY NextKeepsWork, VersionsStay
<1>. QED
  BY <1>1, <1>2, InitWorkInv, InitVersionInv, PTL DEF Spec

\* The version a save appends is the next one of its artifact: between its
\* check and its append, under the lock, nobody has appended another.
VersionIsNext ==
    \A c \in Calls : call[c].pc = "save.version" => call[c].match = Len(versions[ArtifactOf[call[c].event]])

THEOREM VersionsAreNext == Spec => []VersionIsNext
<1>1. WorkInv /\ VersionInv => VersionIsNext
  BY DEF WorkInv, LateInEngine, VersionInv, VersionIsNext, Carrying, Messaging, Saving, Ended
<1>2. WorkInv /\ VersionInv /\ [Next]_vars => WorkInv' /\ VersionInv'
  BY NextKeepsWork, VersionsStay
<1>. QED
  BY <1>1, <1>2, InitWorkInv, InitVersionInv, PTL DEF Spec

-----------------------------------------------------------------------------
(* Edits that were acknowledged *)

\* What the candidate does in the sessions whose edits are kept: only messages,
\* only edits, each handler waited for, or one edit over and over.
EditsAlone == scenario.events \subseteq Edits /\ "timeout" \notin scenario.faults
OneEdit == \E e \in Edits : scenario.events = {e}
EditsApart == scenario.events \subseteq Texts \/ EditsAlone \/ OneEdit

\* The artifacts have the edits T in them: the row's, the cache's, and those a
\* save is about to write.
HoldsEdits(T) ==
    /\ T \subseteq row.art
    /\ cache.live => T \subseteq cache.art
    /\ \A c \in Calls : call[c].pc \in Carrying => T \subseteq call[c].art

\* A save's own edit is where it has been written.
EditWritten ==
    \A c \in Calls :
        /\ call[c].pc \in {"save.cache", "save.version", "save.answer"} => call[c].event \in row.art
        /\ call[c].pc \in {"save.version", "save.answer"} /\ cache.live => call[c].event \in cache.art

\* In the artifacts as soon as a save of it has written the row.
EditStored(e) ==
    (e \in stored \/ \E c \in Calls : call[c].pc \in {"save.cache", "save.version", "save.answer"}) => e \in row.art

EditInv ==
    /\ WorkInv /\ VersionInv
    /\ stored \subseteq scenario.events
    /\ EditsAlone => NoneLate /\ HoldsEdits(stored \cap Edits) /\ EditWritten
    /\ OneEdit => \A e \in scenario.events : EditStored(e)

\* Where only edits are sent no request is a message.
LEMMA NoMessages ==
    ASSUME WorkInv, scenario.events \subseteq Edits, NEW c \in Calls
    PROVE  call[c].pc \notin MsgSteps
<1>1. call[c].pc \in MsgSteps => call[c].event \in Texts \cap Edits
  BY WorkAssumption DEF WorkInv, EventsFit
<1>. QED
  BY <1>1, WorkAssumption

\* The steps of such a session.
LEMMA StepsOfEdits ==
    ASSUME WorkInv, scenario.events \subseteq Edits, [Next]_vars
    PROVE  \/ \E c \in Calls :
                \/ Quiet(c) \/ EngineTimesOut(c)
                \/ SaveLoad(c) \/ SaveRow(c) \/ SaveWrite(c) \/ SaveCache(c) \/ SaveVersion(c) \/ SaveAnswer(c)
                \/ EvalLoad(c) \/ JobReports(c) \/ JobMarks(c) \/ JobForgets(c)
           \/ Crash
           \/ UNCHANGED vars
BY StepsOfNext, NoMessages DEF MsgLoad, MsgCache, MsgRow, MsgWrite, MsgAnswer, MsgSteps, Messaging

LEMMA EditsStep ==
    ASSUME NEW T, HoldsEdits(T), NEW c \in Calls, NEW pc, Moved(c, pc),
           row'.art = row.art \/ T \subseteq row'.art,
           ~cache'.live \/ (cache.live /\ cache'.art = cache.art) \/ T \subseteq cache'.art,
           pc \in Carrying => T \subseteq call'[c].art
    PROVE  HoldsEdits(T)'
BY DEF HoldsEdits, Moved

\* Edits that are in the artifacts stay there while no message is sent.
LEMMA HeldEditsStay ==
    ASSUME WorkInv, scenario.events \subseteq Edits, NEW T, HoldsEdits(T), [Next]_vars
    PROVE  HoldsEdits(T)'
<1>0. TypeOK
  BY DEF WorkInv
<1>1. ASSUME NEW c \in Calls, Quiet(c) PROVE HoldsEdits(T)'
  BY <1>1, EditsStep DEF Quiet, QuietSteps, Carrying, HoldsEdits
<1>2. ASSUME NEW c \in Calls, EngineTimesOut(c) PROVE HoldsEdits(T)'
  <2>1. UNCHANGED <<row, cache>>
    BY <1>2 DEF EngineTimesOut, Stores
  <2>. QED
    BY <1>2, <2>1, TimeoutMoves, EditsStep DEF HoldsEdits
<1>3. ASSUME NEW c \in Calls, SaveLoad(c) \/ EvalLoad(c) PROVE HoldsEdits(T)'
  <2>1. row' = row /\ cache' = Loaded /\ T \subseteq Loaded.art
    BY <1>3 DEF SaveLoad, EvalLoad, Loaded, HoldsEdits
  <2>2. \/ Moved(c, "save.row") /\ call'[c].art = Loaded.art \cup {call[c].event}
        \/ Moved(c, "eval.job")
    BY <1>3, SaveLoadMoves, EvalLoadMoves DEF Loads
  <2>. QED
    BY <2>1, <2>2, EditsStep DEF Carrying
<1>4. ASSUME NEW c \in Calls, SaveRow(c) PROVE HoldsEdits(T)'
  <2>1. Moved(c, "save.write") /\ call'[c].art = call[c].art
    BY <1>4, ReadRowMoves, StepNames DEF SaveRow, Loads
  <2>2. UNCHANGED <<row, cache>> /\ T \subseteq call[c].art
    BY <1>4 DEF SaveRow, ReadRow, Stores, HoldsEdits, Carrying
  <2>. QED
    BY <2>1, <2>2, EditsStep DEF HoldsEdits
<1>5. ASSUME NEW c \in Calls, SaveWrite(c) PROVE HoldsEdits(T)'
  <2>1. row'.art = call[c].art /\ T \subseteq call[c].art /\ cache' = cache
    BY <1>0, <1>5, RequestFields DEF SaveWrite, HoldsEdits, Carrying, Rows
  <2>. QED
    BY <1>5, <2>1, WritingMoves, EditsStep DEF Kept, HoldsEdits
<1>6. ASSUME NEW c \in Calls, SaveCache(c) PROVE HoldsEdits(T)'
  <2>1. row' = row /\ T \subseteq call[c].art /\ cache'.art = call[c].art
    BY <1>6 DEF SaveCache, HoldsEdits, Carrying
  <2>. QED
    BY <1>6, <2>1, WritingMoves, EditsStep DEF Kept
<1>7. ASSUME NEW c \in Calls, SaveVersion(c) \/ SaveAnswer(c) \/ JobReports(c) PROVE HoldsEdits(T)'
  <2>1. \E pc \in {"save.answer", "done", "eval.mark"} : Moved(c, pc)
    BY <1>7, WritingMoves
  <2>2. UNCHANGED <<row, cache>>
    BY <1>7 DEF SaveVersion, SaveAnswer, JobReports
  <2>. QED
    BY <2>1, <2>2, EditsStep DEF Carrying, HoldsEdits
<1>8. ASSUME NEW c \in Calls, JobMarks(c) PROVE HoldsEdits(T)'
  <2>1. row'.art = row.art /\ cache' = cache
    BY <1>0, <1>8 DEF JobMarks, TypeOK, Rows
  <2>. QED
    BY <1>8, <2>1, WritingMoves, EditsStep DEF Carrying, HoldsEdits
<1>9. ASSUME NEW c \in Calls, JobForgets(c) PROVE HoldsEdits(T)'
  <2>1. row' = row /\ ~cache'.live
    BY <1>9 DEF JobForgets
  <2>. QED
    BY <1>9, <2>1, WritingMoves, EditsStep DEF Carrying
<1>10. CASE Crash
  BY <1>10, CrashMoves DEF Crash, HoldsEdits, Carrying, Ended
<1>11. CASE UNCHANGED vars
  BY <1>11 DEF HoldsEdits, vars
<1>. QED
  BY <1>1, <1>2, <1>3, <1>4, <1>5, <1>6, <1>7, <1>8, <1>9, <1>10, <1>11, StepsOfEdits

\* A step of c that leaves the artifacts the others have written.
LEMMA WrittenStep ==
    ASSUME EditWritten, NEW c \in Calls, NEW pc, Moved(c, pc),
           \A d \in Calls \ {c} : call[d].pc \in {"save.cache", "save.version", "save.answer"} =>
               row'.art = row.art /\ (cache'.live => (cache.live /\ cache'.art = cache.art) \/ (~cache.live /\ cache'.art = row.art)),
           pc \in {"save.cache", "save.version", "save.answer"} => call'[c].event \in row'.art,
           pc \in {"save.version", "save.answer"} /\ cache'.live => call'[c].event \in cache'.art
    PROVE  EditWritten'
<1>1. ASSUME NEW d \in Calls \ {c}
      PROVE  /\ call'[d].pc \in {"save.cache", "save.version", "save.answer"} => call'[d].event \in row'.art
             /\ call'[d].pc \in {"save.version", "save.answer"} /\ cache'.live => call'[d].event \in cache'.art
  BY DEF Moved, EditWritten
<1>. QED
  BY <1>1 DEF EditWritten, Moved

LEMMA WrittenStays == WorkInv /\ VersionInv /\ NoneLate /\ EditsAlone /\ EditWritten /\ [Next]_vars => EditWritten'
<1> SUFFICES ASSUME WorkInv, VersionInv, NoneLate, EditsAlone, EditWritten, [Next]_vars PROVE EditWritten'
  OBVIOUS
<1>0. TypeOK
  BY DEF WorkInv
<1>a. ASSUME NEW c \in Calls, call[c].pc \in Saving PROVE \A d \in Calls \ {c} : call[d].pc \notin {"save.cache", "save.version", "save.answer"}
  BY <1>a, OneAtATime DEF Locked, Saving
<1>1. ASSUME NEW c \in Calls, Quiet(c) PROVE EditWritten'
  BY <1>1, WrittenStep DEF Quiet, QuietSteps
<1>2. ASSUME NEW c \in Calls, SaveLoad(c) \/ SaveRow(c) PROVE EditWritten'
  <2>1. (Moved(c, "save.row") \/ Moved(c, "save.write")) /\ call[c].pc \in Saving
    BY <1>2, SaveLoadMoves, ReadRowMoves, StepNames DEF SaveLoad, SaveRow, Loads, Saving
  <2>. QED
    BY <1>a, <2>1, WrittenStep
<1>3. ASSUME NEW c \in Calls, SaveWrite(c) PROVE EditWritten'
  <2>1. row'.art = call[c].art /\ call[c].event \in call[c].art /\ call[c].pc \in Saving
    BY <1>0, <1>3, RequestFields DEF SaveWrite, VersionInv, Carrying, Saving, Rows
  <2>. QED
    BY <1>a, <1>3, <2>1, WritingMoves, WrittenStep DEF Kept
<1>4. ASSUME NEW c \in Calls, SaveCache(c) PROVE EditWritten'
  <2>1. /\ cache'.art = call[c].art /\ call[c].event \in call[c].art /\ call[c].pc \in Saving
        /\ row' = row /\ call[c].event \in row.art
    BY <1>4 DEF SaveCache, VersionInv, Carrying, Saving, EditWritten
  <2>2. Moved(c, "save.version") /\ Kept(c)
    BY <1>4, WritingMoves DEF NoneLate
  <2>. QED
    BY <1>a, <2>1, <2>2, WrittenStep DEF Kept
<1>5. ASSUME NEW c \in Calls, SaveVersion(c) PROVE EditWritten'
  BY <1>5, WritingMoves, WrittenStep DEF SaveVersion, EditWritten, Kept
<1>6. ASSUME NEW c \in Calls, SaveAnswer(c) \/ JobReports(c) PROVE EditWritten'
  <2>1. \E pc \in {"done", "eval.mark"} : Moved(c, pc)
    BY <1>6, WritingMoves
  <2>2. UNCHANGED <<row, cache>>
    BY <1>6 DEF SaveAnswer, JobReports
  <2>. QED
    BY <2>1, <2>2, WrittenStep
<1>7. ASSUME NEW c \in Calls, EvalLoad(c) PROVE EditWritten'
  <2>1. /\ row' = row
        /\ (cache.live /\ cache'.art = cache.art) \/ (~cache.live /\ cache'.art = row.art)
    BY <1>7 DEF EvalLoad, Loaded
  <2>2. Moved(c, "eval.job")
    BY <1>7, EvalLoadMoves DEF Loads
  <2>. QED
    BY <2>1, <2>2, WrittenStep
<1>8. ASSUME NEW c \in Calls, JobMarks(c) PROVE EditWritten'
  <2>1. row'.art = row.art /\ cache' = cache
    BY <1>0, <1>8 DEF JobMarks, TypeOK, Rows
  <2>. QED
    BY <1>8, <2>1, WritingMoves, WrittenStep
<1>9. ASSUME NEW c \in Calls, JobForgets(c) PROVE EditWritten'
  <2>1. row' = row /\ ~cache'.live
    BY <1>9 DEF JobForgets
  <2>. QED
    BY <1>9, <2>1, WritingMoves, WrittenStep
<1>10. CASE Crash
  BY <1>10, CrashMoves DEF Crash, EditWritten, Ended
<1>11. CASE UNCHANGED vars
  BY <1>11 DEF EditWritten, vars
<1>. QED
  BY <1>1, <1>2, <1>3, <1>4, <1>5, <1>6, <1>7, <1>8, <1>9, <1>10, <1>11, StepsOfEdits DEF EditsAlone, EngineTimesOut

\* The answer of a save adds an edit that is in every copy.
LEMMA AnsweredEditIsHeld ==
    ASSUME WorkInv, NoneLate, EditWritten, HoldsEdits(stored \cap Edits), NEW c \in Calls, SaveAnswer(c)
    PROVE  HoldsEdits(stored \cap Edits)'
<1>1. stored' = stored \cup {call[c].event} /\ UNCHANGED <<row, cache>> /\ call[c].pc = "save.answer"
  BY DEF SaveAnswer
<1>2. call[c].event \in row.art /\ (cache.live => call[c].event \in cache.art)
  BY <1>1 DEF EditWritten
<1>3. Moved(c, "done")
  BY WritingMoves
<1>4. \A d \in Calls : call'[d].pc \notin Carrying
  BY <1>1, <1>3, OneAtATime DEF Moved, Carrying, Locked, Saving
<1>. QED
  BY <1>1, <1>2, <1>4 DEF HoldsEdits

LEMMA AnsweredEditsStay ==
    WorkInv /\ NoneLate /\ EditsAlone /\ EditWritten /\ HoldsEdits(stored \cap Edits) /\ [Next]_vars => HoldsEdits(stored \cap Edits)'
<1> SUFFICES ASSUME WorkInv, NoneLate, EditsAlone, EditWritten, HoldsEdits(stored \cap Edits), [Next]_vars
             PROVE  HoldsEdits(stored \cap Edits)'
  OBVIOUS
<1>1. CASE \E c \in Calls : SaveAnswer(c)
  BY <1>1, AnsweredEditIsHeld
<1>2. CASE ~ \E c \in Calls : SaveAnswer(c)
  <2>1. ~ \E c \in Calls : MsgAnswer(c)
    BY NoMessages DEF EditsAlone, MsgAnswer, MsgSteps
  <2>2. stored' = stored
    BY <1>2, <2>1, AnsweredUnless
  <2>3. PICK T : T = stored \cap Edits
    OBVIOUS
  <2>4. HoldsEdits(T)'
    BY <2>3, HeldEditsStay DEF EditsAlone
  <2>. QED
    BY <2>2, <2>3, <2>4 DEF HoldsEdits
<1>. QED
  BY <1>1, <1>2

\* Only what the candidate sends is stored.
LEMMA StoredIsSent == WorkInv /\ stored \subseteq scenario.events /\ [Next]_vars => stored' \subseteq scenario'.events
<1> SUFFICES ASSUME WorkInv, stored \subseteq scenario.events, [Next]_vars PROVE stored' \subseteq scenario'.events
  OBVIOUS
<1>1. ASSUME NEW c \in Calls, MsgAnswer(c) \/ SaveAnswer(c) PROVE stored' \subseteq scenario.events
  <2>1. stored' = stored \cup {call[c].event} /\ call[c].pc \in {"msg.answer", "save.answer"}
    BY <1>1 DEF MsgAnswer, SaveAnswer
  <2>2. call[c].event \in Texts \cup Edits
    BY <2>1 DEF WorkInv, EventsFit, MsgSteps, SaveSteps
  <2>3. call[c].event \in scenario.events
    BY <2>2, WorkAssumption DEF WorkInv, EventsFit
  <2>. QED
    BY <2>1, <2>3
<1>. QED
  BY <1>1, AnsweredUnless, ScenarioStays

\* Every write of the artifacts holds the only edit there is.
LEMMA OneEditStays ==
    ASSUME WorkInv, VersionInv, NEW e \in Edits, scenario.events = {e}, EditStored(e), [Next]_vars
    PROVE  EditStored(e)'
<1>0. TypeOK
  BY DEF WorkInv
<1>e. \A c \in Calls : call[c].pc \in SaveSteps => call[c].event = e
  BY WorkAssumption DEF WorkInv, EventsFit
<1>a. ASSUME NEW c \in Calls, NEW pc, Moved(c, pc),
             row'.art = row.art \/ e \in row'.art,
             stored' = stored \/ call[c].pc = "save.answer",
             pc \in {"save.cache", "save.version", "save.answer"} => e \in row'.art
      PROVE  EditStored(e)'
  BY <1>a DEF EditStored, Moved
<1>1. ASSUME NEW c \in Calls, Quiet(c) PROVE EditStored(e)'
  BY <1>1, <1>a DEF Quiet, QuietSteps
<1>2. ASSUME NEW c \in Calls, EngineTimesOut(c) PROVE EditStored(e)'
  <2>1. Moved(c, call[c].pc) /\ UNCHANGED <<row, stored>>
    BY <1>2, TimeoutMoves DEF EngineTimesOut, Stores
  <2>. QED
    BY <1>a, <2>1 DEF EditStored
<1>3. ASSUME NEW c \in Calls, SaveLoad(c) \/ SaveRow(c) \/ EvalLoad(c) \/ JobReports(c) \/ JobMarks(c) \/ JobForgets(c) PROVE EditStored(e)'
  <2>1. \E pc \in {"save.row", "save.write", "eval.job", "eval.mark", "eval.forget", "done"} : Moved(c, pc)
    BY <1>3, SaveLoadMoves, ReadRowMoves, StepNames, EvalLoadMoves, WritingMoves DEF Loads, SaveRow
  <2>2. stored' = stored /\ row'.art = row.art
    BY <1>0, <1>3 DEF SaveLoad, SaveRow, ReadRow, Stores, EvalLoad, JobReports, JobMarks, JobForgets, TypeOK, Rows
  <2>. QED
    BY <1>a, <2>1, <2>2
<1>4. ASSUME NEW c \in Calls, SaveWrite(c) PROVE EditStored(e)'
  <2>1. row'.art = call[c].art /\ stored' = stored /\ call[c].pc = "save.write"
    BY <1>0, <1>4, RequestFields DEF SaveWrite, Rows
  <2>2. e \in call[c].art
    BY <1>e, <2>1 DEF VersionInv, Carrying, SaveSteps, Saving
  <2>. QED
    BY <1>4, <1>a, <2>1, <2>2, WritingMoves
<1>5. ASSUME NEW c \in Calls, SaveCache(c) \/ SaveVersion(c) \/ SaveAnswer(c) PROVE EditStored(e)'
  <2>1. \E pc \in {"done", "save.version", "save.answer"} : Moved(c, pc)
    BY <1>5, WritingMoves
  <2>2. row' = row /\ call[c].pc \in {"save.cache", "save.version", "save.answer"} /\ (stored' = stored \/ call[c].pc = "save.answer")
    BY <1>5 DEF SaveCache, SaveVersion, SaveAnswer
  <2>3. e \in row.art
    BY <2>2 DEF EditStored
  <2>. QED
    BY <1>a, <2>1, <2>2, <2>3
<1>6. CASE Crash
  BY <1>6, CrashMoves DEF Crash, EditStored, Ended
<1>7. CASE UNCHANGED vars
  BY <1>7 DEF EditStored, vars
<1>. QED
  BY <1>1, <1>2, <1>3, <1>4, <1>5, <1>6, <1>7, StepsOfEdits

LEMMA InitEditInv == Init => EditInv
<1> SUFFICES ASSUME Init PROVE EditInv
  OBVIOUS
<1>1. stored = {} /\ \A c \in Calls : call[c].pc = "idle" /\ ~call[c].late
  BY DEF Init, Blank
<1>. QED
  BY <1>1, InitWorkInv, InitVersionInv DEF EditInv, NoneLate, HoldsEdits, EditWritten, EditStored, Carrying

LEMMA NextEditInv == EditInv /\ [Next]_vars => EditInv'
<1> SUFFICES ASSUME EditInv, [Next]_vars PROVE EditInv'
  OBVIOUS
<1>1. WorkInv /\ VersionInv /\ stored \subseteq scenario.events
  BY DEF EditInv
<1>2. scenario' = scenario /\ WorkInv' /\ VersionInv' /\ stored' \subseteq scenario'.events
  BY <1>1, ScenarioStays, NextKeepsWork, VersionsStay, StoredIsSent
<1>3. ASSUME EditsAlone PROVE NoneLate' /\ HoldsEdits(stored \cap Edits)' /\ EditWritten'
  <2>1. NoneLate /\ HoldsEdits(stored \cap Edits) /\ EditWritten
    BY <1>3 DEF EditInv
  <2>. QED
    BY <1>1, <1>3, <2>1, NoneLateStays, AnsweredEditsStay, WrittenStays DEF EditsAlone
<1>4. ASSUME OneEdit, NEW e \in scenario.events PROVE EditStored(e)'
  <2>1. e \in Edits /\ scenario.events = {e} /\ EditStored(e)
    BY <1>4 DEF EditInv, OneEdit
  <2>. QED
    BY <1>1, <2>1, OneEditStays
<1>5. \A e \in scenario'.events : OneEdit' => EditStored(e)'
  BY <1>2, <1>4 DEF OneEdit
<1>. QED
  BY <1>2, <1>3, <1>5 DEF EditInv, EditsAlone

\* An acknowledged edit is neither lost from the session nor from its history,
\* where the candidate's messages do not come between edits; with both, a
\* message drops the cached artifacts and the next save writes them back without
\* the edit.
THEOREM AnsweredEditsAreKept == Spec => [](EditsApart => AnsweredEditsKept)
<1>1. EditInv => (EditsApart => AnsweredEditsKept)
  <2> SUFFICES ASSUME EditInv, EditsApart PROVE AnsweredEditsKept
    OBVIOUS
  <2>1. AnsweredEditHasVersion
    BY DEF EditInv, VersionInv, HasVersion, AnsweredEditHasVersion
  <2>. SUFFICES EditsKept
    BY <2>1 DEF AnsweredEditsKept
  <2>2. CASE scenario.events \subseteq Texts
    BY <2>2, WorkAssumption DEF EditInv, EditsKept
  <2>3. CASE EditsAlone
    BY <2>3 DEF EditInv, HoldsEdits, EditsKept
  <2>4. CASE OneEdit
    BY <2>4 DEF EditInv, EditStored, EditsKept
  <2>. QED
    BY <2>2, <2>3, <2>4 DEF EditsApart
<1>. QED
  BY <1>1, InitEditInv, NextEditInv, PTL DEF Spec

=============================================================================
