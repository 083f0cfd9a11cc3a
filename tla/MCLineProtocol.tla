--------------------------- MODULE MCLineProtocol ---------------------------
(* LineProtocol on small instances. *)
EXTENDS LineProtocol

\* Carriage return and newline; an empty text, one that holds half a terminator.
MCTerminator == <<13, 10>>
MCTexts == {<< >>, <<97, 13>>}

\* Blocks: data that looks like the beginnings of headers, and one that needs two
\* digits for its size and has what ends a block in its data.
MCBlocks == {<<35>>, <<35, 49>>, <<10, 120, 10, 120, 120, 120, 120, 120, 120, 120>>}
MCNoise == {<< >>, <<120>>}

=============================================================================
