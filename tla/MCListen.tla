------------------------------ MODULE MCListen ------------------------------
(* One DID, a short channel, and enough connections that a listener can    *)
(* dial while the handlers of its earlier ones are still ending.           *)
EXTENDS Listen
=============================================================================
