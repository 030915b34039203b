----------------------- MODULE MC_ManifestTranslator -----------------------
(***************************************************************************)
(* Inputs of the translator.  CPU values are decimal flag values; P = 14  *)
(* keeps every integer up to 2^14 exact, and the storage limit 10^6 bytes, *)
(* as float64 keeps every integer up to 2^53, so that a product is off     *)
(* only by the rounding of its decimal operand.                            *)
(***************************************************************************)
EXTENDS ManifestTranslator

\* Half a core and two cores; a commit factor of 1 and of 3.
MCCPUs == {<<1, 2>>, <<2, 1>>}
MCFactors == {<<1, 1>>, <<3, 1>>}

=============================================================================
