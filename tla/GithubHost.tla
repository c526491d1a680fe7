----------------------------- MODULE GithubHost -----------------------------
(***************************************************************************)
(* The GitHub client of scaffold-github over one pull request:             *)
(* fetch_snapshot, four requests to a pull request that is being pushed    *)
(* to, what render_snapshot of scaffold-anthropic makes of the answer, and *)
(* the sticky comment of module StickyComment that a task writes after it. *)
(*                                                                         *)
(* A revision of the pull request is the bytes of its diff and its changed *)
(* files, in the order GitHub lists them.  A text is its length: where a   *)
(* cut falls among the characters is open.                                 *)
(***************************************************************************)
EXTENDS StickyComment

CONSTANTS
    Revisions,      \* Revisions[n]: the pull request after its n-th push
    FilesPage,      \* files on a page of the listing
    HostBudget,     \* DIFF_BYTE_BUDGET
    PromptBudget,   \* DIFF_PROMPT_BUDGET
    CharBytes,      \* bytes of the longest character
    None            \* no value

Revision == [bytes : Nat, files : Seq({"src", "test"})]

ASSUME RevisionsAssumption == Revisions \in Seq(Revision) /\ Len(Revisions) > 0
ASSUME BudgetAssumption ==
    /\ {FilesPage, HostBudget, PromptBudget, CharBytes} \subseteq Nat \ {0}
    /\ CharBytes <= HostBudget /\ CharBytes <= PromptBudget

VARIABLES
    head,   \* the revision the branch is at
    fetch   \* fetch[w]: the fetch_snapshot of w, in progress or done

commentVars == <<comments, upsert, deletes, faults, intended>>
hostVars    == <<commentVars, head, fetch>>

NoFetch == [step |-> "details"]

\* The request w is about to make for its snapshot.
Fetching(w, step) == fetch[w].step = step
Got(w, snapshot) == fetch' = [fetch EXCEPT ![w] = snapshot]

\* An error other than that of the check runs ends the fetch.
FetchFails(w) == Fault /\ Got(w, NoFetch)

-----------------------------------------------------------------------------
(* Cutting a diff.                                                         *)

\* The lengths a text of n bytes may have, cut at a character boundary at or
\* below the budget.
Cuts(n, budget) == IF n <= budget THEN {n} ELSE (budget - CharBytes + 1) .. budget

\* Mutant: the note is written when the host has cut the diff, only.
NotedByHost(snapshot, shown) == snapshot.truncated

\* render_snapshot writes the note when the host has cut the diff or it does so
\* itself.
Noted(snapshot, shown) == snapshot.truncated \/ shown < snapshot.bytes

\* What a prompt shows of the diff, and whether it says that it is not all.
Prompts(snapshot) ==
    { [shown |-> n, note |-> Noted(snapshot, n)] : n \in Cuts(snapshot.bytes, PromptBudget) }

-----------------------------------------------------------------------------

HostInit ==
    /\ Init
    /\ head = 1
    /\ fetch = [w \in Writers |-> NoFetch]

\* Somebody pushes.  (Bound: while a snapshot is being fetched; a push at
\* another time is one before the first request.)
Push ==
    /\ head < Len(Revisions)
    /\ \E w \in Writers : fetch[w].step \notin {"details", "done"}
    /\ head' = head + 1
    /\ UNCHANGED <<commentVars, fetch>>

\* pulls.get: the description, and the head the rest is about.
FetchDetails(w) ==
    /\ Fetching(w, "details") /\ At(w, "idle")
    /\ \/ Got(w, [step |-> "diff", sha |-> head]) /\ UNCHANGED faults
       \/ FetchFails(w)
    /\ UNCHANGED <<comments, upsert, deletes, intended, head>>

\* pulls.get_diff: of the pull request as it is now, cut to the budget.
FetchDiff(w) ==
    LET n == Revisions[head].bytes IN
    /\ Fetching(w, "diff")
    /\ \/ /\ \E cut \in Cuts(n, HostBudget) :
               Got(w, [ step |-> "files", sha |-> fetch[w].sha, diffOf |-> head,
                        bytes |-> cut, truncated |-> n > HostBudget ])
          /\ UNCHANGED faults
       \/ FetchFails(w)
    /\ UNCHANGED <<comments, upsert, deletes, intended, head>>

\* pulls.list_files: the first page of them.
FirstFiles(files) == IF Len(files) <= FilesPage THEN files ELSE SubSeq(files, 1, FilesPage)

ListFiles(w) ==
    /\ Fetching(w, "files")
    /\ \/ /\ Got(w, [ step |-> "checks", sha |-> fetch[w].sha, diffOf |-> fetch[w].diffOf,
                      bytes |-> fetch[w].bytes, truncated |-> fetch[w].truncated,
                      filesOf |-> head, files |-> FirstFiles(Revisions[head].files) ])
          /\ UNCHANGED faults
       \/ FetchFails(w)
    /\ UNCHANGED <<comments, upsert, deletes, intended, head>>

Snapshot(w, checks) ==
    [ step |-> "done", sha |-> fetch[w].sha, diffOf |-> fetch[w].diffOf,
      bytes |-> fetch[w].bytes, truncated |-> fetch[w].truncated,
      filesOf |-> fetch[w].filesOf, files |-> fetch[w].files, checksOf |-> checks ]

\* Mutant: the check runs are those of the branch.
ListChecksOfBranch(w) ==
    /\ Fetching(w, "checks")
    /\ Got(w, Snapshot(w, head)) \/ Got(w, Snapshot(w, None))
    /\ UNCHANGED <<commentVars, head>>

\* list_check_runs_for_git_ref of the head the details named; an error is no
\* check runs.
ListChecks(w) ==
    /\ Fetching(w, "checks")
    /\ Got(w, Snapshot(w, fetch[w].sha)) \/ Got(w, Snapshot(w, None))
    /\ UNCHANGED <<commentVars, head>>

\* The task goes on with its snapshot: it writes its comment, or fails before.
WriteComment(w) ==
    /\ Fetching(w, "done")
    /\ Got(w, NoFetch)
    /\ UNCHANGED head
    /\ (\E body \in Bodies : Start(w, body)) \/ UNCHANGED commentVars

\* A comment without a snapshot: of a gated job, or of a dead one.
CommentOnly(w) ==
    /\ Fetching(w, "details")
    /\ \E body \in Bodies : Start(w, body)
    /\ UNCHANGED <<head, fetch>>

HostNext ==
    \/ Push
    \/ /\ OtherComments \/ \E i \in Live : DeleteComment(i)
       /\ UNCHANGED <<head, fetch>>
    \/ \E w \in Writers :
         \/ FetchDetails(w) \/ FetchDiff(w) \/ ListFiles(w) \/ ListChecks(w)
         \/ WriteComment(w) \/ CommentOnly(w)
         \/ (List(w) \/ Update(w) \/ Create(w)) /\ UNCHANGED <<head, fetch>>

HostSpec == HostInit /\ [][HostNext]_hostVars

-----------------------------------------------------------------------------

\* What the model is asked about is put together from four answers, while the
\* author pushes.  The diff is never older than the head the snapshot names, nor
\* the files older than the diff; the check runs are those of that head and not
\* of a later push, so that a diff without its tests is never judged by a later
\* build; and the files are all of one revision's, unless they fill a page.
SnapshotIsCoherent ==
    \A w \in Writers :
        Fetching(w, "done") =>
            LET s == fetch[w] IN
            /\ s.sha <= s.diffOf /\ s.diffOf <= s.filesOf /\ s.filesOf <= head
            /\ s.checksOf \in {s.sha, None}
            /\ Len(s.files) < FilesPage => s.files = Revisions[s.filesOf].files

\* prompts.rs: "(NOTE: diff truncated ...)".  Wherever the two cuts fall, a
\* prompt shows a whole diff of one revision, or it says that it does not; and
\* it says so of no whole diff.
TruncationIsTold ==
    \A w \in Writers :
        Fetching(w, "done") =>
            \A p \in Prompts(fetch[w]) :
                p.note <=> p.shown < Revisions[fetch[w].diffOf].bytes

=============================================================================
