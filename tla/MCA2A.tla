------------------------------- MODULE MCA2A -------------------------------
(* Small instances of the A2A server for TLC. *)
EXTENDS A2AServer

CONSTANTS t1, t2, s1

OneId == {t1}
TwoIds == {t1, t2}
NoSubs == {}
OneSub == {s1}
Notified == {"completed", "failed", "canceled", "input_required"}
NoJobs == {}
TwoJobs == 1 .. 2
=============================================================================
