---------------------------- MODULE MCWebStorage ----------------------------
(* A temperature (numeric) and a pump switch (binary) of the dashboard.    *)
EXTENDS WebStorage

CONSTANTS temp, pump
=============================================================================
