---------------------------- MODULE MCSessionWork ----------------------------
(* Two messages, edits of two artifacts, and up to three requests, which may  *)
(* repeat an event or finish the session.                                     *)
EXTENDS SessionWork, TLC

CONSTANTS a1, a2, x1, x2, y1

MCArtifactOf == [e \in Edits |-> IF e = y1 THEN a2 ELSE a1]
Meets(faults, events) == [faults |-> faults, events |-> events]
OneText == {CHOOSE m \in Texts : TRUE}
AllScenarios ==
    {Meets({}, Texts), Meets({"crash"}, Texts), Meets({"store"}, OneText), Meets({"timeout"}, OneText),
     Meets({"crash"}, {x1, y1}), Meets({"store"}, {x1, x2}), Meets({"timeout"}, {x1})}
Undisturbed == {Meets({}, Texts \cup Edits)}
=============================================================================
