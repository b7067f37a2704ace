----------------------------- MODULE MCAsyncRun -----------------------------
(* AsyncRun for TLC; the runs give its constants their values.             *)
EXTENDS AsyncRun
=============================================================================
