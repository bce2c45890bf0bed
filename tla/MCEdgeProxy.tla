----------------------------- MODULE MCEdgeProxy -----------------------------
(* An instance of EdgeProxy for TLC: two requests at once, an approval that   *)
(* lives for two ticks and a call to gccore that may take one.                *)
EXTENDS EdgeProxy

CONSTANTS h1, h2
=============================================================================
