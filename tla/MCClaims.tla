------------------------------- MODULE MCClaims -------------------------------
(* Small instances of the claim service for TLC. *)
EXTENDS Claims

CONSTANTS c1, a1, b1, p1, p2, h1, h2

OneClaim == {c1}
OneAgent == {a1}
OneHuman == {b1}
OneCaller == {p1}
TwoCallers == {p1, p2}
(* Statuses and reasons that the code treats differently.                  *)
KindsOfStatus == {"claimed", "in-progress", "completed"}
KindsOfReason == {"completed", "handoff", "none"}
TwoHandoffs == {h1, h2}
=============================================================================
