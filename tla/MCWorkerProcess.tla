--------------------------- MODULE MCWorkerProcess ---------------------------
(***************************************************************************)
(* Small instances of WorkerProcess for TLC: two texts on both sides of    *)
(* what is sufficient, and one reply of the provider for each way in which *)
(* analyzeBrief can end.                                                   *)
(***************************************************************************)
EXTENDS WorkerProcess, TLC

CONSTANTS j1, none

\* Three long words with seven letters among them, and a short one; the same
\* length, but only two of the long words differ.
GoodText == <<<<"c", "a", "m">>, <<"p", "o", "s">>, <<"c", "a", "t">>, <<"a">>>>
PoorText == <<<<"c", "a", "m">>, <<"p", "o", "s">>, <<"c", "a", "m">>, <<"a">>>>
BothTexts == {GoodText, PoorText}

\* The shortest analysis the schema takes, and one that is a letter shorter.
Shortest ==
  [outcome |-> "ANALYZED",
   strings |-> [summary |-> 160, mainObjective |-> 100],
   lists   |-> [targetAudience |-> <<>>, communicationPillars |-> <<15>>,
                suggestedActions |-> <<50>>, risks |-> <<40>>]]
TooShort == [Shortest EXCEPT !.strings.summary = 159]

\* The provider's own judgement of a text.
Insufficient ==
  [outcome |-> "INSUFFICIENT_BRIEF",
   strings |-> [reason |-> 600],
   lists   |-> [missingInformation |-> <<5, 280>>]]

AllReplies ==
  {Silence, Unreachable, Refusal(401), Refusal(408), Refusal(429), Refusal(400),
   Refusal(503), Unusable("slow"), Unusable("noJson"), Answer(Shortest),
   Answer(TooShort), Answer(Insufficient)}

\* A job's process may be killed twice: once more than BullMQ lets it stall.
TwoKills == [[kind \in FaultKinds |-> 1] EXCEPT !["kill"] = 2]

=============================================================================
