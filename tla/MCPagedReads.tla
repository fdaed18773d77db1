---------------------------- MODULE MCPagedReads ----------------------------
(* PagedReads on a text with a two-byte rune and on a body that ends within a *)
(* four-byte rune and so is no text.                                          *)
EXTENDS PagedReads, TLC

CONSTANTS h1, h2

MCBody == (h1 :> <<97, 195, 130, 98, 99>>) @@ (h2 :> <<97, 240, 159>>)
MCOffset == {-1, 0, 2, 4, 5}
MCMaxBytes == {-1, 0, 1, 2, 3}
=============================================================================
