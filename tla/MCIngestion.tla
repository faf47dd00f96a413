------------------------------ MODULE MCIngestion ------------------------------
(* Two paths; one or two contents with symbols and one without. *)
EXTENDS Ingestion, TLC

CONSTANTS f, g, text, k1, k2, k3

MCSymbols == (f :> {"F"}) @@ (g :> {"G"})
MCSymbolsAndText == (f :> {"F"}) @@ (text :> {})

\* A request of an operator, and one of a task.
FreeOnly == {[fence |-> 0, extract |-> TRUE, cause |-> ""]}
BoundOnly == {[fence |-> 1, extract |-> TRUE, cause |-> ""]}

EmptyOrFull == {<<NoFile, NoFile>>, <<f, f>>}
Full == {<<f, f>>}
Empty == {<<NoFile, NoFile>>}
==============================================================================
