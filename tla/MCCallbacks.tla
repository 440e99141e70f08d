---------------------------- MODULE MCCallbacks ----------------------------
\* Values of the constants of Callbacks for TLC.
EXTENDS Callbacks, TLC

CONSTANTS u1, x1, x2

OneUser == x1 :> u1 @@ x2 :> u1
=============================================================================
