-------------------------- MODULE MCProjectHistory --------------------------
(* A small instance of ProjectHistory for TLC: sources of up to three        *)
(* characters, one of which JSON escapes.                                    *)
EXTENDS ProjectHistory

CONSTANTS a, q

Characters == {a, q}
Quotes == {q}
NewProject == <<a>>
Graphs == {<<a, q>>, <<a, a, q>>, <<q, a, a>>, <<>>, <<a, q, q>>}
=============================================================================
