---------------------------- MODULE MCHttpRequest ----------------------------
(* HttpRequest for TLC.                                                      *)
EXTENDS HttpRequest

\* Nothing, something that leaves a part of the file, and a value that makes
\* the answer promise more than the file holds.
MCGarbage == {0, 1, -2}
=============================================================================
