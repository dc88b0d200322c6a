------------------------------- MODULE MCAsObj --------------------------------
EXTENDS AsObj
CONSTANTS f, g
MCLayouts == {[s \in Sections |-> 100 * s], [s \in Sections |-> 1000 - 100 * s]}
MCImports == {[x \in Idents |-> IF x = f THEN 5000 ELSE 7000]}
=============================================================================
