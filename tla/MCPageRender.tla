--------------------------- MODULE MCPageRender ---------------------------
(* Small instances of PageRender: a page with up to two sections and the   *)
(* layouts a project may pair it with.                                     *)
EXTENDS PageRender

CONSTANTS s1, s2, contents

Text == [op |-> "text", name |-> contents]
Output(p) == [op |-> "output", name |-> p]
IfDefined(p) == [op |-> "outputIfDefined", name |-> p]

MCSections == {s1, s2}

\* The scaffold's default layout (a guarded section before the contents), one
\* with two unguarded sections, one that ignores the sections, one that has a
\* section last, one that ignores the contents, one that outputs a section
\* twice, and the empty layout.
MCLayouts ==
  { << Text, IfDefined(s1), Text, Output(contents) >>,
    << Output(s1), Output(contents), Output(s2) >>,
    << Text, Output(contents) >>,
    << Output(contents), Output(s2) >>,
    << Text, Output(s1) >>,
    << Output(contents), IfDefined(s1), IfDefined(s2), IfDefined(s1) >>,
    << >> }
=============================================================================
