----------------------------- MODULE MCConsole -----------------------------
EXTENDS Console

CONSTANT a

\* One picture is enough: only Blank matters.
MCGlyph  == {a}

\* A screen of a few cells; strings that end a line, wrap and scroll.
MCText == {<< a, a >>, << a, "\\n" >>, << >>}
=============================================================================
