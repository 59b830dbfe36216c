--------------------------- MODULE MCCompositeDevice ---------------------------
(***************************************************************************)
(* A small composite device: interface 0 reads from an endpoint at once    *)
(* (mass storage), interface 1 is an audio stream to the device, interface *)
(* 2 a video stream to the host with two settings, of which only one opens.*)
(***************************************************************************)
EXTENDS CompositeDevice, TLC

MCAlts == [i \in 0 .. 2 |->
    CASE i = 0 -> 0 :> {"out1"}
      [] i = 1 -> 0 :> {} @@ 1 :> {"out2"}
      [] i = 2 -> 0 :> {} @@ 1 :> {"in3"}]

\* The layout is one the theorems are about.
ASSUME MCOrderly == OrderlyLayout
=============================================================================
