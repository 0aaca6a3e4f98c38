----------------------------- MODULE MCWebLive -----------------------------
(* One entity of the dashboard and one page.                               *)
EXTENDS WebLive

CONSTANT temp
=============================================================================
