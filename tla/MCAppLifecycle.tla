---------------------------- MODULE MCAppLifecycle ----------------------------
(* Instances of AppLifecycle for TLC.                                        *)
EXTENDS AppLifecycle

CONSTANTS r1, r2   \* requests

TwoRequests == {r1, r2}
=============================================================================
