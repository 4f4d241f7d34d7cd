------------------------------ MODULE MCUploads ------------------------------
EXTENDS Uploads, TLC

CONSTANTS r1, r2

\* "a" and "a(1)", which is also the second candidate for "a".
MCNames == {<<"a">>, <<"a", 1>>}
\* An image alone, and one for which a size is asked twice.
MCDirs == {<<"img">>, <<"img", "small", "small">>}
Symmetry == Permutations(Requests)
==============================================================================
