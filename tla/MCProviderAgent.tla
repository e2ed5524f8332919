--------------------------- MODULE MCProviderAgent ---------------------------
(***************************************************************************)
(* Small instances of ProviderAgent for TLC.                               *)
(***************************************************************************)
EXTENDS ProviderAgent

CONSTANTS c1, c2, k1, k2, k3

\* The first two sessions are of one device.
MCSessions == 1..3
MCDeviceOf == [x \in Sessions |-> IF x <= 2 THEN c1 ELSE c2]
MCFirstKey == [d \in Consumers |-> IF d = c1 THEN k1 ELSE k2]
\* Sessions 2 and 3, of different devices, start in the same second, or none do.
MCSameSecond == [x \in Sessions |-> IF x = 1 THEN 1 ELSE 2]
MCInOrder == [x \in Sessions |-> x]

MCAddresses == 1..2

\* What Monitor recovers from.
MCRecoverable == {"request", "response", "add", "read", "tunnel", "key"}

=============================================================================
