---------------------------- MODULE MCPageTables ----------------------------
EXTENDS PageTables

FewFrames == 0 .. 6
\* The second is not aligned for large blocks.
TwoStarts == {4, 2}
=============================================================================
