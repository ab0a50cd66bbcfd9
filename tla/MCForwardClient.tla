---------------------------- MODULE MCForwardClient ----------------------------
(* Values for checking ForwardClient with TLC. *)
EXTENDS ForwardClient

CONSTANTS a1, a2

\* one kind that brings an address and one that does not
MCKind    == {"sensor_reg", "sensor_dereg"}
MCAddr    == {a1, a2}
MCPayload == MCKind \cup MCAddr
=============================================================================
