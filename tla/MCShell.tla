-------------------------------- MODULE MCShell --------------------------------
(* Values for checking Shell and CommandList with TLC: "a", "ab", "?". *)
EXTENDS Shell

MCName == {<<97>>, <<97, 98>>, <<63>>}

\* strcmp
MCRank == [n \in MCName |-> CASE n = <<63>> -> 0 [] n = <<97>> -> 1 [] n = <<97, 98>> -> 2]

\* all short lines of blanks and of letters of names, and lines with up to three
\* words between characters next to the printable ones
MCLines == (BoundedSeq({32, 63, 97}, 2) \ {<<>>}) \cup {<<97, 98>>} \cup [1..5 -> {97, 127}]
=============================================================================
