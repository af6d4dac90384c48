--------------------------- MODULE MCElasticMatch ---------------------------
(***************************************************************************)
(* ElasticMatch over three letters: patterns that do and do not repeat     *)
(* their first letter, chunks of one and of two bytes.                     *)
(***************************************************************************)
EXTENDS ElasticMatch

CONSTANTS a, b, x

MCPatterns == {<<a, b>>, <<a, a, b>>}

MCChunks == {<<a>>, <<b>>, <<x>>, <<b, a>>}
=============================================================================
