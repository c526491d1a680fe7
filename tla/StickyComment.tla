---------------------------- MODULE StickyComment ---------------------------
(***************************************************************************)
(* GithubHost::upsert_triage_comment of scaffold-github: list the comments *)
(* of a pull request, look for the one that starts with COMMENT_MARKER,    *)
(* and update it or create it.  Three requests, and between them people    *)
(* comment and delete comments.                                            *)
(*                                                                         *)
(* GitHub is external: it lists the comments in the order they were made,  *)
(* one page of them, which is all the code asks for.                       *)
(***************************************************************************)
EXTENDS Naturals, Sequences, FiniteSets

CONSTANTS
    Writers,      \* the tasks that write triage comments: the workers
    Bodies,       \* what a triage comment may say
    PageSize,     \* comments on a page of the listing
    MaxOthers,    \* bound on the comments of people
    MaxDeletes,   \* bound on the comments people delete
    MaxFaults     \* bound on the requests that fail

ASSUME PageAssumption   == PageSize \in Nat \ {0}
ASSUME BodyAssumption   == "other" \notin Bodies
ASSUME BoundsAssumption == /\ MaxOthers \in Nat
                           /\ MaxDeletes \in Nat
                           /\ MaxFaults \in Nat

VARIABLES
    comments,   \* the comments of the pull request, oldest first
    upsert,     \* upsert[w]: the call writer w has in progress
    deletes,    \* comments deleted so far
    faults,     \* requests failed so far
    intended    \* ghost: the bodies written since the last call that succeeded

vars == <<comments, upsert, deletes, faults, intended>>

Comment == [ marked : BOOLEAN, body : Bodies \cup {"other"}, live : BOOLEAN ]

Ids  == 1 .. Len(comments)
Live == { i \in Ids : comments[i].live }

\* The comments that start with COMMENT_MARKER.
Sticky == { i \in Live : comments[i].marked }

NoCall == [ step |-> "idle" ]

At(w, step) == upsert[w].step = step
Doing(w, step, body, target) ==
    upsert' = [upsert EXCEPT ![w] = [step |-> step, body |-> body, target |-> target]]

Fault == faults < MaxFaults /\ faults' = faults + 1

-----------------------------------------------------------------------------

Init ==
    /\ comments = << >>
    /\ upsert = [w \in Writers |-> NoCall]
    /\ deletes = 0
    /\ faults = 0
    /\ intended = {}

OtherComments ==
    /\ Cardinality({ i \in Ids : ~ comments[i].marked }) < MaxOthers
    /\ comments' = Append(comments, [marked |-> FALSE, body |-> "other", live |-> TRUE])
    /\ UNCHANGED <<upsert, deletes, faults, intended>>

DeleteComment(i) ==
    /\ deletes < MaxDeletes
    /\ comments' = [comments EXCEPT ![i].live = FALSE]
    /\ deletes' = deletes + 1
    /\ UNCHANGED <<upsert, faults, intended>>

\* upsert_triage_comment is called.
Start(w, body) ==
    /\ At(w, "idle")
    /\ Doing(w, "list", body, 0)
    /\ intended' = intended \cup {body}
    /\ UNCHANGED <<comments, deletes, faults>>

\* list_comments(..).send(): the first page.
FirstPage == { i \in Live : Cardinality({ j \in Live : j < i }) < PageSize }

\* c.body.starts_with(COMMENT_MARKER)
Matches(i) == comments[i].marked

\* The first comment of the page that carries the marker, if there is one.
Found == { i \in FirstPage : /\ Matches(i)
                             /\ \A j \in FirstPage : Matches(j) => i <= j }

\* Back to the caller.
ReturnOk(w) == upsert' = [upsert EXCEPT ![w] = NoCall] /\ intended' = {upsert[w].body}
ReturnErr(w) == upsert' = [upsert EXCEPT ![w] = NoCall] /\ UNCHANGED intended

\* Mutant: a failed listing counts as an empty one.
ListDegraded(w) ==
    /\ At(w, "list")
    /\ \/ /\ IF Found = {} THEN Doing(w, "create", upsert[w].body, 0)
             ELSE \E i \in Found : Doing(w, "update", upsert[w].body, i)
          /\ UNCHANGED faults
       \/ Doing(w, "create", upsert[w].body, 0) /\ Fault
    /\ UNCHANGED <<comments, deletes, intended>>

List(w) ==
    /\ At(w, "list")
    /\ \/ /\ IF Found = {} THEN Doing(w, "create", upsert[w].body, 0)
             ELSE \E i \in Found : Doing(w, "update", upsert[w].body, i)
          /\ UNCHANGED <<faults, intended>>
       \/ ReturnErr(w) /\ Fault
    /\ UNCHANGED <<comments, deletes>>

\* Mutant: the error of update_comment is not propagated.
UpdateUnchecked(w) ==
    /\ At(w, "update")
    /\ ReturnOk(w)
    /\ \/ /\ comments[upsert[w].target].live /\ UNCHANGED faults
          /\ comments' = [comments EXCEPT ![upsert[w].target].body = upsert[w].body]
       \/ Fault /\ UNCHANGED comments
    /\ UNCHANGED deletes

\* update_comment: an error when somebody has deleted the comment meanwhile.
Update(w) ==
    LET i == upsert[w].target
        written == [comments EXCEPT ![i].body = upsert[w].body]
    IN
    /\ At(w, "update")
    /\ \/ comments[i].live /\ comments' = written /\ ReturnOk(w) /\ UNCHANGED faults
       \/ ~ comments[i].live /\ ReturnErr(w) /\ UNCHANGED <<comments, faults>>
       \/ /\ comments[i].live /\ comments' \in {comments, written}
          /\ ReturnErr(w) /\ Fault
    /\ UNCHANGED deletes

\* create_comment
Create(w) ==
    LET created == Append(comments, [marked |-> TRUE, body |-> upsert[w].body, live |-> TRUE])
    IN
    /\ At(w, "create")
    /\ \/ comments' = created /\ ReturnOk(w) /\ UNCHANGED faults
       \/ comments' \in {comments, created} /\ ReturnErr(w) /\ Fault
    /\ UNCHANGED deletes

Next ==
    \/ OtherComments
    \/ \E i \in Live : DeleteComment(i)
    \/ \E w \in Writers :
         \/ \E body \in Bodies : Start(w, body)
         \/ List(w) \/ Update(w) \/ Create(w)

Spec == Init /\ [][Next]_vars

-----------------------------------------------------------------------------

\* Type invariant.
TypeOK ==
    /\ comments \in Seq(Comment)
    /\ \A i \in Ids : comments[i].marked <=> comments[i].body # "other"
    /\ upsert \in [Writers -> {NoCall} \cup
                     [step : {"list", "create", "update"}, body : Bodies, target : {0} \cup Ids]]
    /\ \A w \in Writers : At(w, "update") => comments[upsert[w].target].marked
    /\ deletes \in 0 .. MaxDeletes
    /\ faults \in 0 .. MaxFaults
    /\ intended \subseteq Bodies

\* traits.rs: "Create or update the single sticky triage comment on the PR".  A
\* request that fails after it took effect, and is tried again with another
\* text, finds its comment; a comment that was deleted is made anew.
OneSticky == Cardinality(Sticky) <= 1

\* The workers of several processes write to one pull request, and two that list
\* it at a time create a comment each.  But that is all: what one of them has
\* created the others find, and a failed or repeated call adds no other.  (With one
\* writer it is OneSticky.)
StickyPerWriter == Cardinality(Sticky) <= Cardinality(Writers)

\* The pull request never shows a text older than the last one that was
\* reported written.
NoStaleText == \A i \in Sticky : comments[i].body \in intended

=============================================================================
