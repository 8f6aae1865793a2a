-------------------------------- MODULE MCData --------------------------------
(* A small instance of Data; its sizes are in MCData.cfg.                    *)
EXTENDS Data

CONSTANTS o1, o2, o3, f1, f2
===============================================================================
