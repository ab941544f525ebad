----------------------------- MODULE MCFactCache -----------------------------
(* Model-checking instances of FactCache.                                  *)
EXTENDS FactCache

CONSTANTS readerA, readerB

MCReaders == {readerA, readerB}

(* A long range, and the inside of it.                                     *)
MCRanges == {<<1, 5>>, <<2, 4>>}
=============================================================================
