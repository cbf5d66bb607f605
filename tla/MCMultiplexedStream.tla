------------------------ MODULE MCMultiplexedStream ------------------------
(* A request, a resend under the same request_id, and another request.     *)
EXTENDS MultiplexedStream, TLC

CONSTANTS first, resend, other, i1, i2

MCCall == {first, resend, other}
MCId   == (first :> i1) @@ (resend :> i1) @@ (other :> i2)

=============================================================================
