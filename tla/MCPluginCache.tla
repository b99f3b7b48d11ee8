-------------------------- MODULE MCPluginCache --------------------------
(* PluginCache on small instances. *)
EXTENDS PluginCache

CONSTANTS a, b, c, d

\* Two modules that fit together, one that only fits alone, one that never fits.
Sizes == [k \in Keys |-> CASE k = a -> 1 [] k = b -> 2 [] k = c -> 3 [] k = d -> 4]
=============================================================================
