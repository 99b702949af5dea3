------------------------- MODULE MCQueryRepository -------------------------
(***************************************************************************)
(* What the manual says of the lines of the input; the run of this module  *)
(* shows where query_repository.cc differs.                                *)
(***************************************************************************)
EXTENDS QueryRepository

\* The manual, of the lines of the input: "Lines beginning with a semicolon (;)
\* are considered comments and ignored.  Empty lines are ignored, too.": an input
\* that has a query and can be read again does not fail, however many they are.
CommentsAreIgnored ==
    QueryLines # {} /\ seekable => status # "failed"

=============================================================================
