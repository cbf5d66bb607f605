----------------------------- MODULE MCServices -----------------------------
(* The services' own states bound the model.  One process is enough: to it *)
(* another one only lengthens the drain, breaks it off, or keeps a handler *)
(* waiting, all of which it meets alone.  The proofs are for any number.   *)
EXTENDS Services
=============================================================================
