--------------------------- MODULE MCStickyComment --------------------------
(***************************************************************************)
(* Model-checking instances of GithubHost, and of the sticky comment in it.*)
(***************************************************************************)
EXTENDS GithubHost

\* QUOTA_COMMENT, the comment of a decision, DEAD_JOB_COMMENT.
Texts == {"quota", "triage", "dead"}

\* A small change; a diff that is cut for the prompt; one that is cut twice,
\* with more files than a page holds.
Pushes ==
    << [bytes |-> 4, files |-> <<"src">>],
       [bytes |-> 6, files |-> <<"src", "test">>],
       [bytes |-> 9, files |-> <<"src", "src", "test">>] >>

=============================================================================
