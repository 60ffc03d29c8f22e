----------------------------- MODULE MCFrontend -----------------------------
(***************************************************************************)
(* Small instances of Frontend for TLC.                                    *)
(***************************************************************************)
EXTENDS Frontend, TLC

CONSTANTS l1, l2

\* One brief is about to be analysed, one has been, and one is not there yet.
ThreeBriefs ==
  <<NewBrief, Complete(StartAttempt(NewBrief), "ANALYZED", 1), Unborn>>
OneBrief == <<NewBrief>>

\* One of each.
OneEvent == [kind \in Kinds |-> 1]

\* Nothing goes wrong: the worker claims a brief, and its page is opened.
NoFault == [kind \in Kinds |-> IF kind \in {"claim", "visit"} THEN 1 ELSE 0]

=============================================================================
