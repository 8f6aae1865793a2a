-------------------------------- MODULE MCTrace --------------------------------
(* Two threads write to one stream that keeps its first line.                *)
EXTENDS Trace

CONSTANTS t1, t2, f1

===============================================================================
