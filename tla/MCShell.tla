------------------------------ MODULE MCShell ------------------------------
(* A screen of three rows of two cells: the prompt and the longest line take two of them. *)
EXTENDS Shell

MCPrompt == <<">">>
MCBanner == <<"a", Newline>>
MCOutputs == {<<>>, <<"a", Newline>>, <<Newline, Newline>>}
MCGuestCells == {<<0, 1>>, <<2, 0>>}
=============================================================================
