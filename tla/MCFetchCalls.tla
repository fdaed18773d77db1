---------------------------- MODULE MCFetchCalls ----------------------------
(* FetchCalls with a text that begins with a letter and a four-byte rune, and *)
(* a binary body: one byte of the text is text, three are not.                *)
EXTENDS FetchCalls

MCBodies == {<<97, 240, 159, 152, 128>>, <<255, 97>>}

Arg(named, stored, limit) == [session |-> named, store |-> stored, maxBytes |-> limit]

MCArguments ==
    {Arg(TRUE, TRUE, 3), Arg(TRUE, FALSE, 1), Arg(FALSE, TRUE, 5), Arg(FALSE, FALSE, 0),
     Arg(TRUE, TRUE, -1)}

\* A call that leaves the limit to the server.
MCUnlimited == {Arg(FALSE, FALSE, 0)}
=============================================================================
