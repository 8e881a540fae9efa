----------------------------- MODULE MCCallout ------------------------------
(* One callout with a lock and one MPSAFE callout, as model values.        *)
EXTENDS Callout
CONSTANTS a, b, t1
=============================================================================
