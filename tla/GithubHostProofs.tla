-------------------------- MODULE GithubHostProofs --------------------------
(***************************************************************************)
(* Theorems about the snapshots of GithubHost, for any pull request, any   *)
(* number of pushes, any budgets and any number of tasks; and about its    *)
(* sticky comment in a thread where people's comments fill no page, of one *)
(* writer and of any number of them.                                       *)
(***************************************************************************)
EXTENDS GithubHost, SequenceTheorems, FiniteSetTheorems, WellFoundedInduction, TLAPS

Shas == 1 .. Len(Revisions)

\* The fetches in progress, by what they have got so far.
Begun  == [step : {"diff"}, sha : Shas]
Diffed == [step : {"files"}, sha : Shas, diffOf : Shas, bytes : Nat, truncated : BOOLEAN]
Listed == [ step : {"checks"}, sha : Shas, diffOf : Shas, bytes : Nat, truncated : BOOLEAN,
            filesOf : Shas, files : Seq({"src", "test"}) ]
Done   == [ step : {"done"}, sha : Shas, diffOf : Shas, bytes : Nat, truncated : BOOLEAN,
            filesOf : Shas, files : Seq({"src", "test"}), checksOf : Shas \cup {None} ]

\* The cut of the host, and whether it was one.
CutRight(s) ==
    /\ s.bytes \in Cuts(Revisions[s.diffOf].bytes, HostBudget)
    /\ s.truncated = (Revisions[s.diffOf].bytes > HostBudget)

FilesRight(s) == s.files = FirstFiles(Revisions[s.filesOf].files)

\* What is true of a fetch, however many pushes come in between.
Sane(s) ==
    \/ s = NoFetch
    \/ s \in Begun /\ s.sha <= head
    \/ s \in Diffed /\ s.sha <= s.diffOf /\ s.diffOf <= head /\ CutRight(s)
    \/ /\ s \in Listed /\ s.sha <= s.diffOf /\ s.diffOf <= s.filesOf /\ s.filesOf <= head
       /\ CutRight(s) /\ FilesRight(s)
    \/ /\ s \in Done /\ s.sha <= s.diffOf /\ s.diffOf <= s.filesOf /\ s.filesOf <= head
       /\ CutRight(s) /\ FilesRight(s) /\ s.checksOf \in {s.sha, None}

HostInv ==
    /\ head \in Shas
    /\ DOMAIN fetch = Writers
    /\ fetch = [w \in Writers |-> fetch[w]]
    /\ \A w \in Writers : Sane(fetch[w])

\* A cut text is no longer than the text, and shorter exactly when it was cut.
LEMMA CutLengths ==
    ASSUME NEW n \in Nat, NEW budget \in Nat, CharBytes <= budget, NEW m \in Cuts(n, budget)
    PROVE  m \in Nat /\ m <= n /\ (m < n <=> n > budget)
  BY BudgetAssumption DEF Cuts

LEMMA PageOfFiles ==
    ASSUME NEW files \in Seq({"src", "test"})
    PROVE  /\ FirstFiles(files) \in Seq({"src", "test"})
           /\ Len(FirstFiles(files)) < FilesPage => FirstFiles(files) = files
  <1>1. FilesPage \in Nat \ {0} /\ Len(files) \in Nat
    BY BudgetAssumption, LenProperties
  <1>2. CASE Len(files) <= FilesPage
    BY <1>2 DEF FirstFiles
  <1>3. CASE ~ (Len(files) <= FilesPage)
    <2>1. FirstFiles(files) = SubSeq(files, 1, FilesPage)
      BY <1>3 DEF FirstFiles
    <2>2. /\ SubSeq(files, 1, FilesPage) \in Seq({"src", "test"})
          /\ Len(SubSeq(files, 1, FilesPage)) = FilesPage
      BY <1>1, <1>3, SubSeqProperties
    <2> QED
      BY <1>1, <2>1, <2>2
  <1> QED
    BY <1>2, <1>3

LEMMA RevisionTypes == \A n \in Shas : Revisions[n].bytes \in Nat /\ Revisions[n].files \in Seq({"src", "test"})
  <1> SUFFICES ASSUME NEW n \in Shas
               PROVE  Revisions[n].bytes \in Nat /\ Revisions[n].files \in Seq({"src", "test"})
    OBVIOUS
  <1>1. Revisions[n] \in Revision
    BY RevisionsAssumption, ElementOfSeq DEF Shas
  <1> QED
    BY <1>1 DEF Revision

\* One fetch moves, the others stay.
LEMMA FetchMoves ==
    ASSUME HostInv, UNCHANGED head, NEW w \in Writers, NEW s, Got(w, s), Sane(s)
    PROVE  HostInv'
  <1>1. fetch' = [v \in Writers |-> IF v = w THEN s ELSE fetch[v]]
    BY DEF HostInv, Got
  <1>2. \A v \in Writers : Sane(fetch[v])' <=> Sane(fetch'[v])
    BY DEF Sane, CutRight, FilesRight
  <1>3. \A v \in Writers : Sane(fetch'[v])
    BY <1>1 DEF HostInv
  <1> QED
    BY <1>1, <1>2, <1>3 DEF HostInv, Shas

LEMMA HostStep == HostInv /\ [HostNext]_hostVars => HostInv'
  <1> SUFFICES ASSUME HostInv, [HostNext]_hostVars PROVE HostInv'
    OBVIOUS
  <1>1. CASE UNCHANGED <<head, fetch>>
    BY <1>1 DEF HostInv, Sane, CutRight, FilesRight
  <1>2. CASE Push
    <2>1. head' = head + 1 /\ fetch' = fetch /\ head' \in Shas /\ head \in Nat
      BY <1>2, RevisionsAssumption, LenProperties DEF Push, HostInv, Shas
    <2>2. ASSUME NEW w \in Writers PROVE Sane(fetch[w])'
      <3>1. Sane(fetch[w])
        BY DEF HostInv
      <3> QED
        BY <2>1, <3>1 DEF Sane, Shas, Begun, Diffed, Listed, Done, CutRight, FilesRight
    <2> QED
      BY <2>1, <2>2 DEF HostInv, Shas
  <1>3. ASSUME NEW w \in Writers, FetchDetails(w) \/ FetchDiff(w) \/ ListFiles(w) \/ ListChecks(w) \/ WriteComment(w)
        PROVE  HostInv'
    <2>1. UNCHANGED head /\ head \in Shas /\ Sane(fetch[w])
      BY <1>3 DEF FetchDetails, FetchDiff, ListFiles, ListChecks, WriteComment, HostInv
    <2>2. CASE Got(w, NoFetch)
      BY <2>1, <2>2, FetchMoves DEF Sane
    <2>3. CASE FetchDetails(w) /\ ~ Got(w, NoFetch)
      <3>1. Got(w, [step |-> "diff", sha |-> head])
        BY <2>3 DEF FetchDetails, FetchFails
      <3>2. Sane([step |-> "diff", sha |-> head])
        BY <2>1 DEF Sane, Begun, Shas
      <3> QED
        BY <2>1, <3>1, <3>2, FetchMoves
    <2>4. CASE FetchDiff(w) /\ ~ Got(w, NoFetch)
      <3>1. fetch[w] \in Begun /\ fetch[w].sha <= head
        BY <2>1, <2>4 DEF FetchDiff, Fetching, Sane, NoFetch, Diffed, Listed, Done
      <3> DEFINE n == Revisions[head].bytes
      <3>2. PICK cut \in Cuts(n, HostBudget) :
               Got(w, [ step |-> "files", sha |-> fetch[w].sha, diffOf |-> head,
                        bytes |-> cut, truncated |-> n > HostBudget ])
        BY <2>4 DEF FetchDiff, FetchFails
      <3>3. n \in Nat /\ cut \in Nat
        BY <2>1, RevisionTypes, CutLengths, BudgetAssumption
      <3>4. Sane([ step |-> "files", sha |-> fetch[w].sha, diffOf |-> head,
                   bytes |-> cut, truncated |-> n > HostBudget ])
        BY <2>1, <3>1, <3>3 DEF Sane, Begun, Diffed, CutRight, Shas
      <3> QED
        BY <2>1, <3>2, <3>4, FetchMoves
    <2>5. CASE ListFiles(w) /\ ~ Got(w, NoFetch)
      <3>1. fetch[w] \in Diffed /\ fetch[w].sha <= fetch[w].diffOf /\ fetch[w].diffOf <= head /\ CutRight(fetch[w])
        BY <2>1, <2>5 DEF ListFiles, Fetching, Sane, NoFetch, Begun, Listed, Done
      <3> DEFINE files == FirstFiles(Revisions[head].files)
                 s == [ step |-> "checks", sha |-> fetch[w].sha, diffOf |-> fetch[w].diffOf,
                        bytes |-> fetch[w].bytes, truncated |-> fetch[w].truncated,
                        filesOf |-> head, files |-> files ]
      <3>2. Got(w, s)
        BY <2>5 DEF ListFiles, FetchFails
      <3>3. files \in Seq({"src", "test"})
        BY <2>1, RevisionTypes, PageOfFiles
      <3>4. s \in Listed /\ FilesRight(s) /\ CutRight(s)
        BY <2>1, <3>1, <3>3 DEF Diffed, Listed, CutRight, FilesRight, Shas
      <3>5. Sane(s)
        BY <2>1, <3>1, <3>4 DEF Sane, Shas
      <3> QED
        BY <2>1, <3>2, <3>5, FetchMoves
    <2>6. CASE ListChecks(w) /\ ~ Got(w, NoFetch)
      <3>1. /\ fetch[w] \in Listed /\ fetch[w].sha <= fetch[w].diffOf
            /\ fetch[w].diffOf <= fetch[w].filesOf /\ fetch[w].filesOf <= head
            /\ CutRight(fetch[w]) /\ FilesRight(fetch[w])
        BY <2>1, <2>6 DEF ListChecks, Fetching, Sane, NoFetch, Begun, Diffed, Done
      <3>2. PICK c \in {fetch[w].sha, None} : Got(w, Snapshot(w, c))
        BY <2>6 DEF ListChecks
      <3>3. Snapshot(w, c) \in Done /\ FilesRight(Snapshot(w, c)) /\ CutRight(Snapshot(w, c))
        BY <3>1 DEF Listed, Done, CutRight, FilesRight, Snapshot
      <3>4. Sane(Snapshot(w, c))
        BY <3>1, <3>3 DEF Sane, Snapshot
      <3> QED
        BY <2>1, <3>2, <3>4, FetchMoves
    <2> QED
      BY <1>3, <2>2, <2>3, <2>4, <2>5, <2>6 DEF WriteComment
  <1> QED
    BY <1>1, <1>2, <1>3 DEF HostNext, hostVars, CommentOnly

LEMMA HostInitially == HostInit => HostInv
  BY RevisionsAssumption, LenProperties DEF HostInit, HostInv, Shas, Sane

LEMMA HostInvariance == HostSpec => []HostInv
  BY HostInitially, HostStep, PTL DEF HostSpec

\* What the model is asked about is no mixture of revisions in the wrong order,
\* however often the author pushes between the requests.
THEOREM SnapshotsAreCoherent == HostSpec => []SnapshotIsCoherent
  <1>1. ASSUME HostInv, NEW w \in Writers, Fetching(w, "done")
        PROVE  LET s == fetch[w] IN
               /\ s.sha <= s.diffOf /\ s.diffOf <= s.filesOf /\ s.filesOf <= head
               /\ s.checksOf \in {s.sha, None}
               /\ Len(s.files) < FilesPage => s.files = Revisions[s.filesOf].files
    <2>1. /\ fetch[w] \in Done
          /\ fetch[w].sha <= fetch[w].diffOf /\ fetch[w].diffOf <= fetch[w].filesOf
          /\ fetch[w].filesOf <= head /\ fetch[w].checksOf \in {fetch[w].sha, None}
          /\ FilesRight(fetch[w])
      BY <1>1 DEF HostInv, Fetching, Sane, NoFetch, Begun, Diffed, Listed
    <2>2. Revisions[fetch[w].filesOf].files \in Seq({"src", "test"})
      BY <2>1, RevisionTypes DEF Done
    <2> QED
      BY <2>1, <2>2, PageOfFiles DEF FilesRight
  <1>2. HostInv => SnapshotIsCoherent
    BY <1>1 DEF SnapshotIsCoherent
  <1> QED
    BY <1>2, HostInvariance, PTL

\* The model is told of a cut diff, and of no other, whichever of the two budgets
\* is the smaller and however many bytes a character has.
THEOREM TruncationIsAlwaysTold == HostSpec => []TruncationIsTold
  <1>1. ASSUME HostInv, NEW w \in Writers, Fetching(w, "done"), NEW p \in Prompts(fetch[w])
        PROVE  p.note <=> p.shown < Revisions[fetch[w].diffOf].bytes
    <2>1. fetch[w] \in Done /\ CutRight(fetch[w])
      BY <1>1 DEF HostInv, Fetching, Sane, NoFetch, Begun, Diffed, Listed
    <2> DEFINE n == Revisions[fetch[w].diffOf].bytes
               m == fetch[w].bytes
    <2>2. n \in Nat /\ m \in Nat
      BY <2>1, RevisionTypes DEF Done
    <2>3. m <= n /\ (m < n <=> n > HostBudget) /\ fetch[w].truncated = (n > HostBudget)
      BY <2>1, <2>2, CutLengths, BudgetAssumption DEF CutRight
    <2>4. PICK k \in Cuts(m, PromptBudget) : p = [shown |-> k, note |-> Noted(fetch[w], k)]
      BY <1>1 DEF Prompts
    <2>5. k \in Nat /\ k <= m
      BY <2>2, CutLengths, BudgetAssumption
    <2>6. p.shown = k /\ (p.note <=> fetch[w].truncated \/ k < m)
      BY <2>4 DEF Noted
    <2>7. k < n <=> k < m \/ m < n
      BY <2>2, <2>3, <2>5
    <2> HIDE DEF n, m
    <2>8. p.note <=> k < n
      BY <2>3, <2>6, <2>7
    <2> QED
      BY <2>6, <2>8 DEF n
  <1>2. HostInv => TruncationIsTold
    BY <1>1 DEF TruncationIsTold
  <1> QED
    BY <1>2, HostInvariance, PTL

-----------------------------------------------------------------------------
(* The sticky comment, of one writer and while the comments of people fill *)
(* no page: what main.rs spawns, and what the first page is enough for.    *)

SmallThread == (\A v, w \in Writers : v = w) /\ MaxOthers < PageSize

Others == { i \in Ids : ~ comments[i].marked }

\* What a call in progress relies on: the comment it updates is the triage's, and
\* the one it creates is the only one.
CallInv(w) ==
    /\ upsert[w].step \in {"idle", "list", "create", "update"}
    /\ ~ At(w, "idle") => upsert[w].body \in intended /\ upsert[w].body \in Bodies
    /\ At(w, "create") => Sticky = {}
    /\ At(w, "update") => upsert[w].target \in Ids /\ comments[upsert[w].target].marked

CommentInv ==
    /\ comments \in Seq(Comment)
    /\ Cardinality(Others) <= MaxOthers
    /\ \A i, j \in Sticky : i = j
    /\ \A i \in Sticky : comments[i].body \in intended
    /\ upsert = [w \in Writers |-> upsert[w]]
    /\ \A w \in Writers : CallInv(w)

LEMMA CommentTypes ==
    ASSUME comments \in Seq(Comment)
    PROVE  /\ Len(comments) \in Nat
           /\ comments = [i \in Ids |-> comments[i]]
           /\ \A i \in Ids : comments[i] \in Comment
           /\ IsFiniteSet(Others) /\ Cardinality(Others) \in Nat
  <1>1. Len(comments) \in Nat /\ comments = [i \in Ids |-> comments[i]]
    BY SeqDef, LenProperties DEF Ids
  <1>2. \A i \in Ids : comments[i] \in Comment
    BY ElementOfSeq DEF Ids
  <1>3. IsFiniteSet(Ids) /\ Others \subseteq Ids
    BY <1>1, FS_Interval DEF Ids, Others
  <1> QED
    BY <1>1, <1>2, <1>3, FS_Subset, FS_CardinalityType

LEMMA CommentReplaced ==
    ASSUME NEW s \in Seq(Comment), NEW i \in 1 .. Len(s), NEW c \in Comment,
           NEW t, t = [s EXCEPT ![i] = c]
    PROVE  /\ t \in Seq(Comment) /\ Len(t) = Len(s)
           /\ \A j \in 1 .. Len(s) : t[j] = IF j = i THEN c ELSE s[j]
  <1>1. /\ [s EXCEPT ![i] = c] \in Seq(Comment)
        /\ Len([s EXCEPT ![i] = c]) = Len(s)
        /\ \A j \in 1 .. Len(s) : [s EXCEPT ![i] = c][j] = IF j = i THEN c ELSE s[j]
    BY ExceptSeq
  <1> QED
    BY <1>1

\* A page that is longer than all comments of people shows the sticky one.
LEMMA PageShowsSticky ==
    ASSUME SmallThread, CommentInv, Found = {}
    PROVE  Sticky = {}
  <1> SUFFICES ASSUME NEW i \in Sticky PROVE FALSE
    OBVIOUS
  <1> DEFINE Before == { j \in Live : j < i }
  <1>1. \A j \in Sticky : j = i
    BY DEF CommentInv
  <1>2. Len(comments) \in Nat /\ IsFiniteSet(Others) /\ Cardinality(Others) \in Nat
    BY CommentTypes DEF CommentInv
  <1>3. i \in Ids /\ i \in Live /\ comments[i].marked /\ Ids \subseteq Nat
    BY DEF Sticky, Live, Ids
  <1>4. Before \subseteq Others
    <2> SUFFICES ASSUME NEW j \in Before PROVE j \in Others
      OBVIOUS
    <2>1. j \in Live /\ j < i /\ j \in Ids
      BY DEF Live
    <2>2. ~ comments[j].marked
      BY <1>1, <1>3, <2>1 DEF Sticky
    <2> QED
      BY <2>1, <2>2 DEF Others
  <1>5. Cardinality(Before) <= Cardinality(Others) /\ Cardinality(Before) \in Nat
    BY <1>2, <1>4, FS_Subset, FS_CardinalityType
  <1>6. Cardinality(Before) < PageSize
    BY <1>2, <1>5, PageAssumption, BoundsAssumption DEF SmallThread, CommentInv
  <1>7. i \in FirstPage
    BY <1>3, <1>6 DEF FirstPage
  <1>8. \A j \in FirstPage : Matches(j) => i <= j
    BY <1>1, <1>3 DEF FirstPage, Matches, Sticky
  <1> QED
    BY <1>3, <1>7, <1>8 DEF Found, Matches

\* Nothing of the comments but some of their lives ends, or some text changes.
LEMMA SameThread ==
    ASSUME CommentInv,
           DOMAIN comments' = DOMAIN comments, Len(comments') = Len(comments),
           comments' \in Seq(Comment),
           \A i \in Ids : comments'[i].marked = comments[i].marked,
           \A i \in Ids : comments'[i].live => comments[i].live
    PROVE  Ids' = Ids /\ Others' = Others /\ Sticky' \subseteq Sticky
  BY DEF Ids, Others, Sticky, Live

\* A call of the only writer ends.
LEMMA CallEnds ==
    ASSUME SmallThread, CommentInv, NEW w \in Writers, upsert' = [upsert EXCEPT ![w] = NoCall]
    PROVE  upsert' = [v \in Writers |-> upsert'[v]] /\ \A v \in Writers : CallInv(v)'
  <1>1. upsert' = [v \in Writers |-> IF v = w THEN NoCall ELSE upsert[v]]
    BY DEF CommentInv
  <1>2. ASSUME NEW v \in Writers PROVE CallInv(v)'
    <2>1. upsert'[v] = NoCall
      BY <1>1 DEF SmallThread
    <2>2. upsert'[v].step = "idle"
      BY <2>1 DEF NoCall
    <2> QED
      BY <2>2 DEF CallInv, At
  <1> QED
    BY <1>1, <1>2

LEMMA CommentInitially == HostInit => CommentInv
  <1> SUFFICES ASSUME HostInit PROVE CommentInv
    OBVIOUS
  <1>1. comments = << >> /\ Len(comments) = 0 /\ comments \in Seq(Comment)
    BY DEF HostInit, Init
  <1>2. Ids = {}
    BY <1>1 DEF Ids
  <1>3. Others = {} /\ Sticky = {}
    BY <1>2 DEF Others, Sticky, Live
  <1>4. Cardinality(Others) = 0
    BY <1>3, FS_EmptySet
  <1>5. \A w \in Writers : upsert[w] = NoCall
    BY DEF HostInit, Init
  <1> QED
    BY <1>1, <1>3, <1>4, <1>5, BoundsAssumption DEF CommentInv, HostInit, Init, CallInv, NoCall, At

LEMMA OthersStep == CommentInv /\ OtherComments => CommentInv'
  <1> SUFFICES ASSUME CommentInv, OtherComments PROVE CommentInv'
    OBVIOUS
  <1> DEFINE c == [marked |-> FALSE, body |-> "other", live |-> TRUE]
             n == Len(comments) + 1
  <1>1. /\ comments' = Append(comments, c) /\ c \in Comment /\ comments \in Seq(Comment)
        /\ Cardinality(Others) < MaxOthers /\ UNCHANGED <<upsert, intended>>
    BY DEF OtherComments, CommentInv, Comment, Others
  <1> HIDE DEF c
  <1>2. /\ comments' \in Seq(Comment) /\ Len(comments') = n
        /\ comments'[n] = c /\ \A i \in Ids : comments'[i] = comments[i]
    BY <1>1, AppendProperties DEF Ids
  <1>3. Ids' = Ids \cup {n} /\ n \notin Ids /\ Len(comments) \in Nat
    BY <1>1, <1>2, CommentTypes DEF Ids
  <1>4. ~ c.marked
    BY DEF c
  <1>5. Others' = Others \cup {n} /\ n \notin Others
    BY <1>2, <1>3, <1>4 DEF Others
  <1>6. Sticky' = Sticky /\ Sticky \subseteq Ids
    BY <1>2, <1>3, <1>4 DEF Sticky, Live
  <1>7. Cardinality(Others') <= MaxOthers
    <2>1. IsFiniteSet(Others) /\ Cardinality(Others) \in Nat
      BY <1>1, CommentTypes
    <2>2. Cardinality(Others \cup {n}) = Cardinality(Others) + 1
      BY <1>5, <2>1, FS_AddElement
    <2>3. Cardinality(Others') = Cardinality(Others) + 1
      BY <1>5, <2>2
    <2> QED
      BY <1>1, <2>1, <2>3, BoundsAssumption
  <1>8. ASSUME NEW w \in Writers PROVE CallInv(w)'
    <2>1. CallInv(w)
      BY DEF CommentInv
    <2> QED
      BY <1>1, <1>2, <1>3, <1>6, <2>1 DEF CallInv, At
  <1> QED
    BY <1>1, <1>2, <1>6, <1>7, <1>8 DEF CommentInv

LEMMA DeleteStep == ASSUME NEW i \in Live, CommentInv, DeleteComment(i) PROVE CommentInv'
  <1>1. /\ comments' = [comments EXCEPT ![i].live = FALSE] /\ UNCHANGED <<upsert, intended>>
        /\ comments \in Seq(Comment) /\ i \in Ids
    BY DEF DeleteComment, CommentInv, Live
  <1>2. /\ comments = [j \in Ids |-> comments[j]] /\ \A j \in Ids : comments[j] \in Comment
        /\ Len(comments) \in Nat
    BY <1>1, CommentTypes
  <1> DEFINE c == [comments[i] EXCEPT !.live = FALSE]
  <1>3. c \in Comment /\ c.marked = comments[i].marked /\ c.body = comments[i].body /\ ~ c.live
    BY <1>1, <1>2 DEF Comment
  <1>4. comments' = [comments EXCEPT ![i] = c]
    BY <1>1
  <1> HIDE DEF c
  <1>5. /\ comments' \in Seq(Comment) /\ Len(comments') = Len(comments) /\ DOMAIN comments' = DOMAIN comments
        /\ \A j \in Ids : comments'[j] = IF j = i THEN c ELSE comments[j]
    <2>1. i \in 1 .. Len(comments) /\ comments \in Seq(Comment)
      BY <1>1 DEF Ids
    <2>2. /\ comments' \in Seq(Comment) /\ Len(comments') = Len(comments)
          /\ \A j \in 1 .. Len(comments) : comments'[j] = IF j = i THEN c ELSE comments[j]
      BY <1>3, <1>4, <2>1, CommentReplaced
    <2>3. DOMAIN comments' = DOMAIN comments
      BY <1>4
    <2> QED
      BY <2>2, <2>3 DEF Ids
  <1>6. /\ \A j \in Ids : comments'[j].marked = comments[j].marked /\ comments'[j].body = comments[j].body
        /\ \A j \in Ids : comments'[j].live => comments[j].live
    BY <1>3, <1>5
  <1>7. Ids' = Ids /\ Others' = Others /\ Sticky' \subseteq Sticky
    BY <1>5, <1>6, SameThread
  <1>8. Sticky \subseteq Ids
    BY DEF Sticky, Live
  <1>9. ASSUME NEW w \in Writers PROVE CallInv(w)'
    <2>1. CallInv(w)
      BY DEF CommentInv
    <2> QED
      BY <1>1, <1>6, <1>7, <2>1 DEF CallInv, At
  <1> QED
    BY <1>1, <1>5, <1>6, <1>7, <1>8, <1>9 DEF CommentInv

\* A comment is given another text by its only writer.
LEMMA UpdateStep == ASSUME SmallThread, NEW w \in Writers, CommentInv, Update(w) PROVE CommentInv'
  <1> DEFINE i == upsert[w].target
             c == [comments[i] EXCEPT !.body = upsert[w].body]
  <1>1. /\ i \in Ids /\ comments[i].marked /\ upsert[w].body \in intended /\ upsert[w].body \in Bodies
        /\ comments \in Seq(Comment) /\ CallInv(w)
    BY DEF CommentInv, CallInv, Update, At
  <1>2. /\ upsert' = [upsert EXCEPT ![w] = NoCall]
        /\ upsert' = [v \in Writers |-> upsert'[v]]
        /\ \A v \in Writers : CallInv(v)'
    <2>1. upsert' = [upsert EXCEPT ![w] = NoCall]
      BY DEF Update, ReturnOk, ReturnErr
    <2> QED
      BY <2>1, CallEnds
  <1>3. CASE UNCHANGED comments
    <2>1. intended' = intended \/ (intended' = {upsert[w].body} /\ comments[i].live /\ comments' = [comments EXCEPT ![i].body = upsert[w].body])
      BY DEF Update, ReturnOk, ReturnErr
    <2>2. ASSUME NEW j \in Sticky PROVE comments[j].body \in intended'
      <3>1. CASE intended' = intended
        BY <3>1 DEF CommentInv
      <3>2. CASE /\ intended' = {upsert[w].body} /\ comments[i].live
                 /\ comments' = [comments EXCEPT ![i].body = upsert[w].body]
        <4>1. i \in Sticky
          BY <1>1, <3>2 DEF Sticky, Live
        <4>2. j = i
          BY <4>1 DEF CommentInv
        <4>3. comments' = [comments EXCEPT ![i] = c]
          BY <3>2
        <4>4. comments'[i] = c /\ c.body = upsert[w].body
          BY <1>1, <4>3, CommentTypes DEF Comment
        <4>5. comments'[i] = comments[i]
          BY <1>3
        <4> QED
          BY <3>2, <4>2, <4>4, <4>5
      <3> QED
        BY <2>1, <3>1, <3>2
    <2> QED
      BY <1>2, <1>3, <2>2 DEF CommentInv, Others, Sticky, Live, Ids
  <1>4. CASE ~ UNCHANGED comments
    <2>1. /\ comments' = [comments EXCEPT ![i].body = upsert[w].body] /\ comments[i].live
          /\ upsert[w].body \in intended'
      BY <1>1, <1>4 DEF Update, ReturnOk, ReturnErr
    <2>2. comments' = [comments EXCEPT ![i] = c]
      BY <2>1
    <2>3. /\ c \in Comment /\ c.marked = comments[i].marked /\ c.body = upsert[w].body
          /\ c.live = comments[i].live
      BY <1>1, CommentTypes DEF Comment
    <2>4. comments \in Seq(Comment) /\ i \in 1 .. Len(comments) /\ comments[i].live /\ upsert[w].body \in intended'
      BY <1>1, <2>1 DEF Ids
    <2> HIDE DEF c, i
    <2>5. /\ comments' \in Seq(Comment) /\ Len(comments') = Len(comments)
          /\ \A j \in 1 .. Len(comments) : comments'[j] = IF j = i THEN c ELSE comments[j]
      BY <2>2, <2>3, <2>4, CommentReplaced
    <2>6. DOMAIN comments' = DOMAIN comments
      BY <2>2
    <2>7. Ids' = Ids /\ Others' = Others /\ Sticky' \subseteq Sticky
      <3>1. \A j \in Ids : comments'[j].marked = comments[j].marked
        BY <2>3, <2>5 DEF Ids
      <3>2. \A j \in Ids : comments'[j].live => comments[j].live
        BY <2>3, <2>5 DEF Ids
      <3> QED
        BY <2>5, <2>6, <3>1, <3>2, SameThread
    <2>8. i \in Sticky
      BY <1>1, <2>4 DEF Sticky, Live
    <2>9. \A j \in Sticky : j = i
      BY <2>8 DEF CommentInv
    <2>10. comments'[i].body \in intended'
      BY <2>3, <2>4, <2>5
    <2> QED
      BY <1>2, <2>5, <2>7, <2>9, <2>10 DEF CommentInv
  <1> QED
    BY <1>3, <1>4

LEMMA CreateStep == ASSUME SmallThread, NEW w \in Writers, CommentInv, Create(w) PROVE CommentInv'
  <1> DEFINE c == [marked |-> TRUE, body |-> upsert[w].body, live |-> TRUE]
             n == Len(comments) + 1
  <1>1. /\ Sticky = {} /\ upsert[w].body \in intended /\ upsert[w].body \in Bodies
        /\ comments \in Seq(Comment) /\ c \in Comment
    BY DEF CommentInv, CallInv, Create, At, Comment
  <1>2. /\ upsert' = [v \in Writers |-> upsert'[v]] /\ \A v \in Writers : CallInv(v)'
    <2>1. upsert' = [upsert EXCEPT ![w] = NoCall]
      BY DEF Create, ReturnOk, ReturnErr
    <2> QED
      BY <2>1, CallEnds
  <1>3. /\ comments' \in {comments, Append(comments, c)} /\ upsert[w].body \in intended'
    BY <1>1 DEF Create, ReturnOk, ReturnErr
  <1>4. c.marked /\ c.body = upsert[w].body
    OBVIOUS
  <1> HIDE DEF c
  <1>5. CASE comments' = comments
    BY <1>1, <1>2, <1>5 DEF CommentInv, Others, Sticky, Live, Ids
  <1>6. CASE comments' = Append(comments, c)
    <2>1. /\ comments' \in Seq(Comment) /\ Len(comments') = n
          /\ comments'[n] = c /\ \A i \in Ids : comments'[i] = comments[i]
      BY <1>1, <1>6, AppendProperties DEF Ids
    <2>2. Ids' = Ids \cup {n} /\ n \notin Ids
      BY <1>1, <2>1, CommentTypes DEF Ids
    <2>3. Others' = Others
      BY <1>4, <2>1, <2>2 DEF Others
    <2>4. Sticky' \subseteq {n}
      BY <1>1, <2>1, <2>2 DEF Sticky, Live
    <2>5. comments'[n].body \in intended'
      BY <1>3, <1>4, <2>1
    <2> QED
      BY <1>2, <2>1, <2>3, <2>4, <2>5 DEF CommentInv
  <1> QED
    BY <1>3, <1>5, <1>6

\* One call moves, the thread stays.
LEMMA CallMoves ==
    ASSUME SmallThread, CommentInv, NEW w \in Writers, UNCHANGED comments, intended \subseteq intended',
           NEW call, upsert' = [upsert EXCEPT ![w] = call], CallInv(w)'
    PROVE  CommentInv'
  <1>1. upsert' = [v \in Writers |-> IF v = w THEN call ELSE upsert[v]]
    BY DEF CommentInv
  <1>2. \A v \in Writers : CallInv(v)'
    BY DEF SmallThread
  <1>3. Ids' = Ids /\ Others' = Others /\ Sticky' = Sticky
    BY DEF Ids, Others, Sticky, Live
  <1> QED
    BY <1>1, <1>2, <1>3 DEF CommentInv

LEMMA StartStep ==
    ASSUME SmallThread, NEW w \in Writers, NEW body \in Bodies, CommentInv, Start(w, body)
    PROVE  CommentInv'
  <1> DEFINE call == [step |-> "list", body |-> body, target |-> 0]
  <1>1. /\ upsert' = [upsert EXCEPT ![w] = call] /\ UNCHANGED comments
        /\ intended' = intended \cup {body}
    BY DEF Start, Doing
  <1>2. upsert'[w] = call
    BY <1>1 DEF CommentInv
  <1>3. CallInv(w)'
    BY <1>1, <1>2 DEF CallInv, At
  <1> QED
    BY <1>1, <1>3, CallMoves

LEMMA ListStep == ASSUME SmallThread, NEW w \in Writers, CommentInv, List(w) PROVE CommentInv'
  <1>1. /\ UNCHANGED comments /\ intended' = intended
        /\ upsert[w].body \in intended /\ upsert[w].body \in Bodies
    BY DEF List, ReturnErr, CommentInv, CallInv, At
  <1>2. Ids' = Ids /\ Sticky' = Sticky
    BY <1>1 DEF Ids, Sticky, Live
  <1>3. CASE Found = {} /\ Doing(w, "create", upsert[w].body, 0)
    <2> DEFINE call == [step |-> "create", body |-> upsert[w].body, target |-> 0]
    <2>1. upsert' = [upsert EXCEPT ![w] = call]
      BY <1>3 DEF Doing
    <2>2. upsert'[w] = call
      BY <2>1 DEF CommentInv
    <2>3. Sticky = {}
      BY <1>3, PageShowsSticky
    <2>4. CallInv(w)'
      BY <1>1, <1>2, <2>2, <2>3 DEF CallInv, At
    <2> QED
      BY <1>1, <2>1, <2>4, CallMoves
  <1>4. ASSUME NEW i \in Found, Doing(w, "update", upsert[w].body, i)
        PROVE  CommentInv'
    <2> DEFINE call == [step |-> "update", body |-> upsert[w].body, target |-> i]
    <2>1. upsert' = [upsert EXCEPT ![w] = call]
      BY <1>4 DEF Doing
    <2>2. upsert'[w] = call
      BY <2>1 DEF CommentInv
    <2>3. i \in Ids /\ comments[i].marked
      BY DEF Found, FirstPage, Live, Matches
    <2>4. CallInv(w)'
      BY <1>1, <1>2, <2>2, <2>3 DEF CallInv, At
    <2> QED
      BY <1>1, <2>1, <2>4, CallMoves
  <1>5. CASE ReturnErr(w)
    <2>1. upsert' = [upsert EXCEPT ![w] = NoCall]
      BY <1>5 DEF ReturnErr
    <2>2. CallInv(w)'
      BY <2>1, CallEnds
    <2> QED
      BY <1>1, <2>1, <2>2, CallMoves
  <1> QED
    BY <1>3, <1>4, <1>5 DEF List

LEMMA CommentStep == SmallThread /\ CommentInv /\ [HostNext]_hostVars => CommentInv'
  <1> SUFFICES ASSUME SmallThread, CommentInv, [HostNext]_hostVars PROVE CommentInv'
    OBVIOUS
  <1>1. CASE UNCHANGED <<comments, upsert, intended>>
    <2>1. Ids' = Ids /\ Others' = Others /\ Sticky' = Sticky
      BY <1>1 DEF Ids, Others, Sticky, Live
    <2> QED
      BY <1>1, <2>1 DEF CommentInv, CallInv, At
  <1>2. CASE \E i \in Live : DeleteComment(i)
    BY <1>2, DeleteStep
  <1>3. CASE OtherComments
    BY <1>3, OthersStep
  <1>4. ASSUME NEW w \in Writers, List(w) \/ Update(w) \/ Create(w)
        PROVE  CommentInv'
    BY <1>4, ListStep, UpdateStep, CreateStep
  <1>5. ASSUME NEW w \in Writers, NEW body \in Bodies, Start(w, body)
        PROVE  CommentInv'
    BY <1>5, StartStep
  <1>6. ASSUME NEW w \in Writers, FetchDetails(w) \/ FetchDiff(w) \/ ListFiles(w) \/ ListChecks(w)
        PROVE  UNCHANGED <<comments, upsert, intended>>
    BY <1>6 DEF FetchDetails, FetchDiff, ListFiles, ListChecks, commentVars
  <1>7. UNCHANGED hostVars \/ Push => UNCHANGED <<comments, upsert, intended>>
    BY DEF hostVars, commentVars, Push
  <1>8. ASSUME NEW w \in Writers, WriteComment(w) \/ CommentOnly(w)
        PROVE  CommentInv'
    <2>1. (\E body \in Bodies : Start(w, body)) \/ UNCHANGED <<comments, upsert, intended>>
      BY <1>8 DEF WriteComment, CommentOnly, commentVars
    <2> QED
      BY <1>1, <1>5, <2>1
  <1> QED
    BY <1>1, <1>2, <1>3, <1>4, <1>6, <1>7, <1>8 DEF HostNext

LEMMA CommentInvariance == SmallThread => (HostSpec => []CommentInv)
  <1> SUFFICES ASSUME SmallThread PROVE HostSpec => []CommentInv
    OBVIOUS
  <1>1. CommentInv /\ [HostNext]_hostVars => CommentInv'
    BY CommentStep
  <1> QED
    BY <1>1, CommentInitially, PTL DEF HostSpec

\* The comment is one, whatever requests fail with or without effect, and
\* whatever people write and delete in between: with one writer, and fewer
\* comments of people than a page holds.
THEOREM StickyCommentIsSingle == SmallThread => (HostSpec => []OneSticky)
  <1>1. CommentInv => OneSticky
    <2> SUFFICES ASSUME CommentInv PROVE Cardinality(Sticky) <= 1
      BY DEF OneSticky
    <2>1. CASE Sticky = {}
      BY <2>1, FS_EmptySet
    <2>2. ASSUME NEW i \in Sticky PROVE Cardinality(Sticky) <= 1
      <3>1. Sticky = {i}
        BY DEF CommentInv
      <3>2. Cardinality({i}) = 1
        BY FS_Singleton
      <3> QED
        BY <3>1, <3>2
    <2> QED
      BY <2>1, <2>2
  <1> QED
    BY <1>1, CommentInvariance, PTL

\* It never shows a text older than the last one that was reported written.
THEOREM StickyTextIsCurrent == SmallThread => (HostSpec => []NoStaleText)
  <1>1. CommentInv => NoStaleText
    BY DEF CommentInv, NoStaleText
  <1> QED
    BY <1>1, CommentInvariance, PTL


-----------------------------------------------------------------------------
(* The sticky comments of any number of writers.                            *)

\* A call of a writer: what it is to write, and which comment it updates.
Sound(u) ==
    \/ u = NoCall
    \/ u \in [step : {"list", "create"}, body : Bodies, target : {0}]
    \/ /\ u \in [step : {"update"}, body : Bodies, target : Ids]
       /\ comments[u.target].marked

ThreadInv ==
    /\ comments \in Seq(Comment)
    /\ \A i \in Ids : comments[i].marked <=> comments[i].body # "other"
    /\ upsert = [w \in Writers |-> upsert[w]]
    /\ \A w \in Writers : Sound(upsert[w])
    /\ deletes \in 0 .. MaxDeletes /\ faults \in 0 .. MaxFaults
    /\ intended \subseteq Bodies

\* The comments that were there are there, and are the triage's or a person's as
\* before.
Kept ==
    /\ comments' \in Seq(Comment)
    /\ Ids \subseteq Ids'
    /\ \A i \in Ids : comments'[i].marked = comments[i].marked
    /\ \A i \in Ids' : comments'[i].marked <=> comments'[i].body # "other"

LEMMA SoundStays ==
    ASSUME Kept
    PROVE  \A u : Sound(u) => Sound(u)'
  BY DEF Kept, Sound

\* No call but that of w moves.
LEMMA ThreadMoves ==
    ASSUME ThreadInv, Kept, NEW w \in Writers, NEW u, Sound(u)',
           upsert' = [upsert EXCEPT ![w] = u],
           deletes' \in 0 .. MaxDeletes, faults' \in 0 .. MaxFaults, intended' \subseteq Bodies
    PROVE  ThreadInv'
  <1>1. upsert' = [v \in Writers |-> IF v = w THEN u ELSE upsert[v]]
    BY DEF ThreadInv
  <1>2. ASSUME NEW v \in Writers PROVE Sound(upsert[v])'
    <2>1. PICK x \in {upsert[v], u} : x = upsert'[v] /\ (x = u \/ Sound(x))
      BY <1>1 DEF ThreadInv
    <2>2. Sound(x)'
      BY <2>1, SoundStays
    <2> QED
      BY <2>1, <2>2
  <1> QED
    BY <1>1, <1>2 DEF ThreadInv, Kept

LEMMA ThreadRests ==
    ASSUME ThreadInv, Kept, UNCHANGED <<upsert, faults, intended>>, deletes' \in 0 .. MaxDeletes
    PROVE  ThreadInv'
  <1>1. ASSUME NEW v \in Writers PROVE Sound(upsert[v])'
    <2>1. PICK x \in {upsert[v]} : x = upsert'[v] /\ Sound(x)
      BY DEF ThreadInv
    <2> QED
      BY <2>1, SoundStays
  <1> QED
    BY <1>1 DEF ThreadInv, Kept

LEMMA NothingMoves ==
    ASSUME ThreadInv, UNCHANGED comments
    PROVE  Kept
  BY DEF ThreadInv, Kept, Ids

\* A comment is added at the end.
LEMMA Added ==
    ASSUME ThreadInv, NEW c \in Comment, c.marked <=> c.body # "other",
           comments' = Append(comments, c)
    PROVE  /\ Kept /\ Len(comments) + 1 \notin Ids
           /\ Ids' = Ids \cup {Len(comments) + 1}
           /\ comments'[Len(comments) + 1] = c /\ \A i \in Ids : comments'[i] = comments[i]
  <1>1. comments \in Seq(Comment) /\ Len(comments) \in Nat
    BY CommentTypes DEF ThreadInv
  <1>2. /\ comments' \in Seq(Comment) /\ Len(comments') = Len(comments) + 1
        /\ comments'[Len(comments) + 1] = c /\ \A i \in Ids : comments'[i] = comments[i]
    BY <1>1, AppendProperties DEF Ids
  <1>3. Ids' = Ids \cup {Len(comments) + 1} /\ Len(comments) + 1 \notin Ids
    BY <1>1, <1>2 DEF Ids
  <1> QED
    BY <1>2, <1>3 DEF Kept, ThreadInv

\* A comment is given another life or text.
LEMMA Changed ==
    ASSUME ThreadInv, NEW i \in Ids, NEW c \in Comment, c.marked = comments[i].marked,
           c.marked <=> c.body # "other", comments' = [comments EXCEPT ![i] = c]
    PROVE  /\ Kept /\ Ids' = Ids
           /\ \A j \in Ids : comments'[j] = IF j = i THEN c ELSE comments[j]
  <1>1. comments \in Seq(Comment) /\ i \in 1 .. Len(comments)
    BY DEF ThreadInv, Ids
  <1>2. /\ comments' \in Seq(Comment) /\ Len(comments') = Len(comments)
        /\ \A j \in 1 .. Len(comments) : comments'[j] = IF j = i THEN c ELSE comments[j]
    BY <1>1, CommentReplaced
  <1>3. Ids' = Ids /\ \A j \in Ids : comments'[j] = IF j = i THEN c ELSE comments[j]
    BY <1>2 DEF Ids
  <1> QED
    BY <1>2, <1>3 DEF Kept, ThreadInv

\* What each step does to the thread of comments.
LEMMA OthersThread ==
    ASSUME ThreadInv, OtherComments
    PROVE  ThreadInv' /\ Kept /\ Sticky' = Sticky
  <1> DEFINE c == [marked |-> FALSE, body |-> "other", live |-> TRUE]
  <1>1. comments' = Append(comments, c) /\ UNCHANGED <<upsert, deletes, faults, intended>>
    BY DEF OtherComments
  <1>2. c \in Comment /\ ~ c.marked /\ (c.marked <=> c.body # "other")
    BY DEF Comment
  <1> HIDE DEF c
  <1>3. /\ Kept /\ Ids' = Ids \cup {Len(comments) + 1} /\ Len(comments) + 1 \notin Ids
        /\ comments'[Len(comments) + 1] = c /\ \A i \in Ids : comments'[i] = comments[i]
    BY <1>1, <1>2, Added
  <1>4. Sticky' = Sticky
    BY <1>2, <1>3 DEF Sticky, Live
  <1>5. deletes' \in 0 .. MaxDeletes
    BY <1>1 DEF ThreadInv
  <1> QED
    BY <1>1, <1>3, <1>4, <1>5, ThreadRests

LEMMA DeleteThread ==
    ASSUME ThreadInv, NEW i \in Live, DeleteComment(i)
    PROVE  ThreadInv' /\ Kept /\ Ids' = Ids /\ Sticky' \subseteq Sticky
  <1> DEFINE c == [comments[i] EXCEPT !.live = FALSE]
  <1>1. /\ comments' = [comments EXCEPT ![i].live = FALSE] /\ i \in Ids
        /\ deletes < MaxDeletes /\ deletes' = deletes + 1 /\ UNCHANGED <<upsert, faults, intended>>
    BY DEF DeleteComment, Live
  <1>2. comments[i] \in Comment /\ comments' = [comments EXCEPT ![i] = c]
    BY <1>1, CommentTypes DEF ThreadInv
  <1>3. /\ c \in Comment /\ c.marked = comments[i].marked /\ c.body = comments[i].body
        /\ ~ c.live
    BY <1>2 DEF Comment
  <1>4. c.marked <=> c.body # "other"
    BY <1>1, <1>3 DEF ThreadInv
  <1> HIDE DEF c
  <1>5. Kept /\ Ids' = Ids /\ \A j \in Ids : comments'[j] = IF j = i THEN c ELSE comments[j]
    BY <1>1, <1>2, <1>3, <1>4, Changed
  <1>6. Sticky' \subseteq Sticky
    BY <1>3, <1>5 DEF Sticky, Live
  <1>7. deletes' \in 0 .. MaxDeletes
    BY <1>1, BoundsAssumption DEF ThreadInv
  <1> QED
    BY <1>1, <1>5, <1>6, <1>7, ThreadRests

LEMMA StartThread ==
    ASSUME ThreadInv, NEW w \in Writers, NEW body \in Bodies, Start(w, body)
    PROVE  ThreadInv' /\ Kept /\ UNCHANGED comments /\ upsert'[w].step = "list"
  <1> DEFINE u == [step |-> "list", body |-> body, target |-> 0]
  <1>1. /\ upsert' = [upsert EXCEPT ![w] = u] /\ UNCHANGED <<comments, deletes, faults>>
        /\ intended' = intended \cup {body}
    BY DEF Start, Doing
  <1>2. Sound(u)'
    BY DEF Sound
  <1>3. Kept
    BY <1>1, NothingMoves
  <1>4. /\ deletes' \in 0 .. MaxDeletes /\ faults' \in 0 .. MaxFaults /\ intended' \subseteq Bodies
    BY <1>1 DEF ThreadInv
  <1>5. upsert'[w].step = "list"
    BY <1>1 DEF ThreadInv
  <1> HIDE DEF u
  <1> QED
    BY <1>1, <1>2, <1>3, <1>4, <1>5, ThreadMoves

LEMMA EndsThread ==
    ASSUME ThreadInv, Kept, NEW w \in Writers, upsert' = [upsert EXCEPT ![w] = NoCall],
           deletes' = deletes, faults' = faults \/ Fault,
           intended' = intended \/ (intended' = {upsert[w].body} /\ upsert[w] # NoCall)
    PROVE  ThreadInv' /\ upsert'[w].step = "idle"
  <1>1. Sound(NoCall)'
    BY DEF Sound
  <1>2. deletes' \in 0 .. MaxDeletes /\ faults' \in 0 .. MaxFaults
    BY BoundsAssumption DEF ThreadInv, Fault
  <1>3. intended' \subseteq Bodies
    BY DEF ThreadInv, Sound
  <1>4. PICK u \in {NoCall} : TRUE
    OBVIOUS
  <1>5. Sound(u)' /\ upsert' = [upsert EXCEPT ![w] = u]
    BY <1>1, <1>4
  <1>6. upsert'[w].step = "idle"
    BY DEF ThreadInv, NoCall
  <1> QED
    BY <1>2, <1>3, <1>5, <1>6, ThreadMoves

LEMMA ListThread ==
    ASSUME ThreadInv, NEW w \in Writers, List(w)
    PROVE  /\ ThreadInv' /\ Kept /\ UNCHANGED comments
           /\ upsert'[w].step = "create" => Found = {}
  <1>1. /\ UNCHANGED <<comments, deletes>> /\ upsert[w].step = "list"
        /\ \/ /\ IF Found = {} THEN Doing(w, "create", upsert[w].body, 0)
                 ELSE \E i \in Found : Doing(w, "update", upsert[w].body, i)
              /\ UNCHANGED <<faults, intended>>
           \/ ReturnErr(w) /\ Fault
    BY DEF List, At
  <1>2. Kept
    BY <1>1, NothingMoves
  <1>3. /\ deletes' \in 0 .. MaxDeletes /\ faults \in 0 .. MaxFaults /\ intended \subseteq Bodies
    BY <1>1 DEF ThreadInv
  <1>4. PICK body \in Bodies : body = upsert[w].body
    BY <1>1 DEF ThreadInv, Sound, NoCall
  <1>5. ASSUME NEW step \in {"create", "update"}, NEW target, Doing(w, step, body, target),
               UNCHANGED <<faults, intended>>,
               step = "create" => target = 0 /\ Found = {},
               step = "update" => target \in Found
        PROVE  ThreadInv' /\ (upsert'[w].step = "create" => Found = {})
    <2> DEFINE u == [step |-> step, body |-> body, target |-> target]
    <2>1. upsert' = [upsert EXCEPT ![w] = u]
      BY <1>5 DEF Doing
    <2>2. target \in Found => target \in Ids /\ comments[target].marked
      BY DEF Found, FirstPage, Live, Matches
    <2>3. Ids' = Ids
      BY <1>1 DEF Ids
    <2>4. Sound(u)'
      BY <1>1, <1>5, <2>2, <2>3 DEF Sound
    <2>5. upsert'[w].step = step
      BY <2>1 DEF ThreadInv
    <2> HIDE DEF u
    <2>6. ThreadInv'
      BY <1>2, <1>3, <1>5, <2>1, <2>4, ThreadMoves
    <2> QED
      BY <1>5, <2>5, <2>6
  <1>6. CASE Found = {} /\ Doing(w, "create", body, 0) /\ UNCHANGED <<faults, intended>>
    BY <1>1, <1>2, <1>5, <1>6
  <1>7. ASSUME NEW i \in Found, Doing(w, "update", body, i), UNCHANGED <<faults, intended>>
        PROVE  ThreadInv' /\ (upsert'[w].step = "create" => Found = {})
    BY <1>5, <1>7
  <1>8. CASE ReturnErr(w) /\ Fault
    <2>1. ThreadInv' /\ upsert'[w].step = "idle"
      BY <1>1, <1>2, <1>8, EndsThread DEF ReturnErr
    <2> QED
      BY <1>1, <1>2, <2>1
  <1> QED
    BY <1>1, <1>2, <1>4, <1>6, <1>7, <1>8

LEMMA UpdateThread ==
    ASSUME ThreadInv, NEW w \in Writers, Update(w)
    PROVE  /\ ThreadInv' /\ Kept /\ upsert'[w].step = "idle"
           /\ Ids' = Ids /\ Sticky' = Sticky
  <1> DEFINE i == upsert[w].target
             c == [comments[i] EXCEPT !.body = upsert[w].body]
  <1>1. /\ i \in Ids /\ comments[i].marked /\ upsert[w].body \in Bodies /\ upsert[w] # NoCall
        /\ comments \in Seq(Comment)
    BY DEF ThreadInv, Sound, Update, At, NoCall
  <1>2. c \in Comment /\ c.marked = comments[i].marked /\ c.live = comments[i].live
        /\ c.body = upsert[w].body
    BY <1>1, CommentTypes DEF Comment
  <1>3. c.marked <=> c.body # "other"
    BY <1>1, <1>2, BodyAssumption
  <1>4. comments' = comments \/ comments' = [comments EXCEPT ![i] = c]
    BY DEF Update
  <1> HIDE DEF c
  <1>5. Kept /\ Ids' = Ids /\ Sticky' = Sticky
    <2>1. CASE comments' = comments
      BY <2>1, NothingMoves DEF Sticky, Live, Ids
    <2>2. CASE comments' = [comments EXCEPT ![i] = c]
      <3> HIDE DEF i
      <3>1. Kept /\ Ids' = Ids /\ \A j \in Ids : comments'[j] = IF j = i THEN c ELSE comments[j]
        BY <1>1, <1>2, <1>3, <2>2, Changed
      <3> QED
        BY <1>2, <3>1 DEF Sticky, Live
    <2> QED
      BY <1>4, <2>1, <2>2
  <1>6. /\ upsert' = [upsert EXCEPT ![w] = NoCall] /\ deletes' = deletes
        /\ faults' = faults \/ Fault
        /\ intended' = intended \/ (intended' = {upsert[w].body} /\ upsert[w] # NoCall)
    BY <1>1 DEF Update, ReturnOk, ReturnErr
  <1> QED
    BY <1>5, <1>6, EndsThread

LEMMA CreateThread ==
    ASSUME ThreadInv, NEW w \in Writers, Create(w)
    PROVE  /\ ThreadInv' /\ Kept /\ upsert[w].step = "create" /\ upsert'[w].step = "idle"
           /\ Sticky' = Sticky \/ \E n : n \notin Sticky /\ Sticky' = Sticky \cup {n}
           /\ \A i \in Ids' \ Ids : comments'[i].marked
  <1> DEFINE c == [marked |-> TRUE, body |-> upsert[w].body, live |-> TRUE]
  <1>1. upsert[w].step = "create" /\ upsert[w].body \in Bodies /\ upsert[w] # NoCall
    BY DEF ThreadInv, Sound, Create, At, NoCall
  <1>2. c \in Comment /\ c.marked /\ c.live /\ (c.marked <=> c.body # "other")
    BY <1>1, BodyAssumption DEF Comment
  <1>3. comments' = comments \/ comments' = Append(comments, c)
    BY DEF Create
  <1> HIDE DEF c
  <1>4. /\ Kept /\ \A i \in Ids' \ Ids : comments'[i].marked
        /\ Sticky' = Sticky \/ \E n : n \notin Sticky /\ Sticky' = Sticky \cup {n}
    <2>1. CASE comments' = comments
      BY <2>1, NothingMoves DEF Sticky, Live, Ids
    <2>2. CASE comments' = Append(comments, c)
      <3> DEFINE n == Len(comments) + 1
      <3>1. /\ Kept /\ Ids' = Ids \cup {n} /\ n \notin Ids
            /\ comments'[n] = c /\ \A i \in Ids : comments'[i] = comments[i]
        BY <1>2, <2>2, Added
      <3> HIDE DEF n
      <3>2. Sticky' = Sticky \cup {n} /\ n \notin Sticky
        BY <1>2, <3>1 DEF Sticky, Live
      <3> QED
        BY <1>2, <3>1, <3>2
    <2> QED
      BY <1>3, <2>1, <2>2
  <1>5. /\ upsert' = [upsert EXCEPT ![w] = NoCall] /\ deletes' = deletes
        /\ faults' = faults \/ Fault
        /\ intended' = intended \/ (intended' = {upsert[w].body} /\ upsert[w] # NoCall)
    BY <1>1 DEF Create, ReturnOk, ReturnErr
  <1>6. ThreadInv' /\ upsert'[w].step = "idle"
    BY <1>4, <1>5, EndsThread
  <1> QED
    BY <1>1, <1>4, <1>6

\* A step of the process that writes no comment.
LEMMA HostSteps ==
    ASSUME [HostNext]_hostVars
    PROVE  \/ UNCHANGED <<comments, upsert, deletes, intended>> /\ (faults' = faults \/ Fault)
           \/ OtherComments
           \/ \E i \in Live : DeleteComment(i)
           \/ \E w \in Writers :
                (\E body \in Bodies : Start(w, body)) \/ List(w) \/ Update(w) \/ Create(w)
  BY DEF HostNext, hostVars, commentVars, Push, FetchDetails, FetchDiff, ListFiles, ListChecks,
         FetchFails, WriteComment, CommentOnly

LEMMA ThreadInvariance == HostSpec => []ThreadInv
  <1>1. HostInit => ThreadInv
    <2> SUFFICES ASSUME HostInit PROVE ThreadInv
      OBVIOUS
    <2>1. comments = << >> /\ Ids = {} /\ comments \in Seq(Comment)
      BY DEF HostInit, Init, Ids
    <2> QED
      BY <2>1, BoundsAssumption DEF ThreadInv, HostInit, Init, Sound
  <1>2. ThreadInv /\ [HostNext]_hostVars => ThreadInv'
    <2> SUFFICES ASSUME ThreadInv, [HostNext]_hostVars PROVE ThreadInv'
      OBVIOUS
    <2>1. CASE UNCHANGED <<comments, upsert, deletes, intended>> /\ (faults' = faults \/ Fault)
      <3>1. faults' \in 0 .. MaxFaults
        BY <2>1, BoundsAssumption DEF ThreadInv, Fault
      <3>2. Ids' = Ids
        BY <2>1 DEF Ids
      <3> QED
        BY <2>1, <3>1, <3>2 DEF ThreadInv, Sound
    <2> QED
      BY <2>1, HostSteps, OthersThread, DeleteThread, StartThread, ListThread, UpdateThread, CreateThread
  <1> QED
    BY <1>1, <1>2, PTL DEF HostSpec

\* StickyComment's type invariant; in it, that only a triage comment is updated,
\* whoever writes and deletes comments between the listing and the update.
THEOREM CommentTypeCorrect == HostSpec => []TypeOK
  <1>1. ThreadInv => TypeOK
    <2> SUFFICES ASSUME ThreadInv PROVE TypeOK
      OBVIOUS
    <2>1. \A w \in Writers :
            upsert[w] \in {NoCall} \cup
              [step : {"list", "create", "update"}, body : Bodies, target : {0} \cup Ids]
      BY DEF ThreadInv, Sound
    <2>2. \A w \in Writers : At(w, "update") => comments[upsert[w].target].marked
      BY DEF ThreadInv, Sound, At, NoCall
    <2> QED
      BY <2>1, <2>2 DEF ThreadInv, TypeOK
  <1> QED
    BY <1>1, ThreadInvariance, PTL

\* No more sticky comments than writers: as long as a page shows the oldest one
\* of them, only writers that listed before there was any create one each.
WidePage == IsFiniteSet(Writers) /\ MaxOthers < PageSize

Creating == { w \in Writers : upsert[w].step = "create" }

CountInv ==
    /\ ThreadInv
    /\ Cardinality(Others) <= MaxOthers
    /\ Cardinality(Sticky) + Cardinality(Creating) <= Cardinality(Writers)

LEMMA CountTypes ==
    ASSUME ThreadInv, WidePage
    PROVE  /\ IsFiniteSet(Others) /\ Cardinality(Others) \in Nat
           /\ IsFiniteSet(Sticky) /\ Cardinality(Sticky) \in Nat
           /\ IsFiniteSet(Creating) /\ Cardinality(Creating) \in Nat
           /\ Cardinality(Writers) \in Nat
  <1>1. IsFiniteSet(Others) /\ Cardinality(Others) \in Nat /\ Len(comments) \in Nat
    BY CommentTypes DEF ThreadInv
  <1>2. IsFiniteSet(Ids) /\ Sticky \subseteq Ids
    BY <1>1, FS_Interval DEF Ids, Sticky, Live
  <1>3. IsFiniteSet(Sticky)
    BY <1>2, FS_Subset
  <1>4. Creating \subseteq Writers /\ IsFiniteSet(Writers)
    BY DEF Creating, WidePage
  <1>5. IsFiniteSet(Creating)
    BY <1>4, FS_Subset
  <1> QED
    BY <1>1, <1>3, <1>4, <1>5, FS_CardinalityType

\* The oldest sticky comment is on the first page.
LEMMA PageShowsOldest ==
    ASSUME WidePage, ThreadInv, Cardinality(Others) <= MaxOthers, Found = {}
    PROVE  Sticky = {}
  <1> SUFFICES ASSUME Sticky # {} PROVE FALSE
    OBVIOUS
  <1>1. Sticky \subseteq Ids /\ Ids \subseteq Nat
    BY DEF Sticky, Live, Ids
  <1>2. PICK i \in Sticky : \A j \in Sticky : ~ (<<j, i>> \in OpToRel(<, Nat))
    <2>1. Sticky \subseteq Nat
      BY <1>1
    <2> QED
      BY <2>1, WFMin, NatLessThanWellFounded
  <1>3. \A j \in Sticky : i <= j
    <2> TAKE j \in Sticky
    <2>1. i \in Nat /\ j \in Nat
      BY <1>1
    <2>2. ~ (j < i)
      BY <1>2, <2>1, Zenon DEF OpToRel
    <2> QED
      BY <2>1, <2>2
  <1> DEFINE Before == { j \in Live : j < i }
  <1>4. Before \subseteq Others
    <2> SUFFICES ASSUME NEW j \in Before PROVE j \in Others
      OBVIOUS
    <2>1. j \in Live /\ j < i /\ j \in Ids
      BY DEF Live
    <2>2. j \notin Sticky
      BY <1>1, <1>3, <2>1
    <2> QED
      BY <2>1, <2>2 DEF Others, Sticky
  <1>5. IsFiniteSet(Others) /\ Cardinality(Others) \in Nat
    BY CountTypes
  <1>6. Cardinality(Before) <= Cardinality(Others) /\ Cardinality(Before) \in Nat
    BY <1>4, <1>5, FS_Subset, FS_CardinalityType
  <1>7. Cardinality(Before) < PageSize
    BY <1>5, <1>6, PageAssumption, BoundsAssumption DEF WidePage
  <1>8. i \in FirstPage /\ Matches(i)
    BY <1>7 DEF FirstPage, Matches, Sticky
  <1>9. \A j \in FirstPage : Matches(j) => i <= j
    BY <1>3 DEF FirstPage, Matches, Sticky
  <1> QED
    BY <1>8, <1>9 DEF Found

\* Neither more sticky comments nor more calls that create one.
LEMMA CountShrinks ==
    ASSUME WidePage, CountInv, ThreadInv', Others' = Others,
           Sticky' \subseteq Sticky, Creating' \subseteq Creating
    PROVE  CountInv'
  <1>1. /\ IsFiniteSet(Sticky) /\ Cardinality(Sticky) \in Nat
        /\ IsFiniteSet(Creating) /\ Cardinality(Creating) \in Nat
        /\ Cardinality(Writers) \in Nat
    BY CountTypes DEF CountInv
  <1>2. Cardinality(Sticky') <= Cardinality(Sticky) /\ Cardinality(Sticky') \in Nat
    BY <1>1, FS_Subset, FS_CardinalityType
  <1>3. Cardinality(Creating') <= Cardinality(Creating) /\ Cardinality(Creating') \in Nat
    BY <1>1, FS_Subset, FS_CardinalityType
  <1>4. Cardinality(Sticky') + Cardinality(Creating') <= Cardinality(Writers)
    BY <1>1, <1>2, <1>3 DEF CountInv
  <1> QED
    BY <1>4 DEF CountInv

\* A call moves, and the others stay where they are.
LEMMA CallsOfOthers ==
    ASSUME ThreadInv, NEW w \in Writers,
           (\E body \in Bodies : Start(w, body)) \/ List(w) \/ Update(w) \/ Create(w)
    PROVE  Creating' \ {w} = Creating \ {w}
  <1>1. \A v \in Writers \ {w} : upsert'[v] = upsert[v]
    BY DEF ThreadInv, Start, List, Update, Create, Doing, ReturnOk, ReturnErr
  <1> QED
    BY <1>1 DEF Creating

LEMMA CountOthers ==
    ASSUME WidePage, CountInv, OtherComments
    PROVE  CountInv'
  <1> DEFINE c == [marked |-> FALSE, body |-> "other", live |-> TRUE]
             n == Len(comments) + 1
  <1>1. /\ comments' = Append(comments, c) /\ UNCHANGED upsert /\ ThreadInv
        /\ Cardinality(Others) < MaxOthers
    BY DEF OtherComments, CountInv, Others
  <1>2. c \in Comment /\ ~ c.marked /\ (c.marked <=> c.body # "other")
    BY DEF Comment
  <1> HIDE DEF c
  <1>3. /\ Ids' = Ids \cup {n} /\ n \notin Ids
        /\ comments'[n] = c /\ \A i \in Ids : comments'[i] = comments[i]
    BY <1>1, <1>2, Added
  <1> HIDE DEF n
  <1>4. Others' = Others \cup {n} /\ n \notin Others
    BY <1>2, <1>3 DEF Others
  <1>5. IsFiniteSet(Others) /\ Cardinality(Others) \in Nat
    BY <1>1, CountTypes
  <1>6. Cardinality(Others \cup {n}) = Cardinality(Others) + 1
    BY <1>4, <1>5, FS_AddElement
  <1>7. Cardinality(Others') <= MaxOthers
    BY <1>1, <1>4, <1>5, <1>6, BoundsAssumption
  <1>8. ThreadInv' /\ Sticky' = Sticky
    BY <1>1, OthersThread
  <1>9. Creating' = Creating
    BY <1>1 DEF Creating
  <1> QED
    BY <1>7, <1>8, <1>9 DEF CountInv

LEMMA CountList ==
    ASSUME WidePage, CountInv, NEW w \in Writers, List(w)
    PROVE  CountInv'
  <1>1. /\ ThreadInv' /\ UNCHANGED comments /\ (upsert'[w].step = "create" => Found = {})
    BY ListThread DEF CountInv
  <1>2. Ids' = Ids /\ Others' = Others /\ Sticky' = Sticky
    BY <1>1 DEF Ids, Others, Sticky, Live
  <1>3. CASE upsert'[w].step = "create"
    <2>1. Sticky' = {}
      BY <1>1, <1>2, <1>3, PageShowsOldest DEF CountInv
    <2>2. Cardinality(Sticky') = 0
      BY <2>1, FS_EmptySet
    <2>3. IsFiniteSet(Writers) /\ Creating' \subseteq Writers
      BY DEF WidePage, Creating
    <2>4. /\ Cardinality(Creating') <= Cardinality(Writers)
          /\ Cardinality(Creating') \in Nat /\ Cardinality(Writers) \in Nat
      BY <2>3, FS_Subset, FS_CardinalityType
    <2>5. Cardinality(Sticky') + Cardinality(Creating') <= Cardinality(Writers)
      BY <2>2, <2>4
    <2> QED
      BY <1>1, <1>2, <2>5 DEF CountInv
  <1>4. CASE upsert'[w].step # "create"
    <2>1. w \notin Creating'
      BY <1>4 DEF Creating
    <2>2. Creating' \subseteq Creating
      BY <2>1, CallsOfOthers DEF CountInv
    <2> QED
      BY <1>1, <1>2, <2>2, CountShrinks
  <1> QED
    BY <1>3, <1>4

LEMMA CountCreate ==
    ASSUME WidePage, CountInv, NEW w \in Writers, Create(w)
    PROVE  CountInv'
  <1>1. /\ ThreadInv' /\ Kept /\ upsert[w].step = "create" /\ upsert'[w].step = "idle"
        /\ Sticky' = Sticky \/ \E n : n \notin Sticky /\ Sticky' = Sticky \cup {n}
        /\ \A i \in Ids' \ Ids : comments'[i].marked
    BY CreateThread DEF CountInv
  <1>2. Others' = Others
    BY <1>1 DEF Kept, Others
  <1>3. w \in Creating /\ w \notin Creating'
    BY <1>1 DEF Creating
  <1>4. Creating' = Creating \ {w}
    BY <1>3, CallsOfOthers DEF CountInv
  <1>5. /\ IsFiniteSet(Sticky) /\ Cardinality(Sticky) \in Nat
        /\ IsFiniteSet(Creating) /\ Cardinality(Creating) \in Nat
        /\ Cardinality(Writers) \in Nat
    BY CountTypes DEF CountInv
  <1>6. CASE Sticky' = Sticky
    BY <1>1, <1>2, <1>4, <1>6, CountShrinks
  <1>7. ASSUME NEW n, n \notin Sticky, Sticky' = Sticky \cup {n}
        PROVE  CountInv'
    <2>1. Cardinality(Sticky') = Cardinality(Sticky) + 1
      <3>1. Cardinality(Sticky \cup {n}) = Cardinality(Sticky) + 1
        BY <1>5, <1>7, FS_AddElement
      <3> QED
        BY <1>7, <3>1
    <2>2. Cardinality(Creating') = Cardinality(Creating) - 1
      <3>1. Cardinality(Creating \ {w}) = Cardinality(Creating) - 1
        BY <1>3, <1>5, FS_RemoveElement
      <3> QED
        BY <1>4, <3>1
    <2>3. Cardinality(Sticky') + Cardinality(Creating') <= Cardinality(Writers)
      BY <1>5, <2>1, <2>2 DEF CountInv
    <2> QED
      BY <1>1, <1>2, <2>3 DEF CountInv
  <1> QED
    BY <1>1, <1>6, <1>7

LEMMA CountStep ==
    ASSUME WidePage, CountInv, [HostNext]_hostVars
    PROVE  CountInv'
  <1>1. CASE UNCHANGED <<comments, upsert, deletes, intended>> /\ (faults' = faults \/ Fault)
    <2>1. Ids' = Ids /\ Others' = Others /\ Sticky' = Sticky /\ Creating' = Creating
      BY <1>1 DEF Ids, Others, Sticky, Live, Creating
    <2>2. faults' \in 0 .. MaxFaults
      BY <1>1, BoundsAssumption DEF CountInv, ThreadInv, Fault
    <2>3. ThreadInv'
      BY <1>1, <2>1, <2>2 DEF CountInv, ThreadInv, Sound
    <2> QED
      BY <2>1, <2>3, CountShrinks
  <1>2. CASE OtherComments
    BY <1>2, CountOthers
  <1>3. ASSUME NEW i \in Live, DeleteComment(i) PROVE CountInv'
    <2>1. ThreadInv' /\ Kept /\ Ids' = Ids /\ Sticky' \subseteq Sticky
      BY <1>3, DeleteThread DEF CountInv
    <2>2. Others' = Others
      BY <2>1 DEF Kept, Others
    <2>3. Creating' = Creating
      BY <1>3 DEF DeleteComment, Creating
    <2> QED
      BY <2>1, <2>2, <2>3, CountShrinks
  <1>4. ASSUME NEW w \in Writers, NEW body \in Bodies, Start(w, body) PROVE CountInv'
    <2>1. ThreadInv' /\ UNCHANGED comments /\ upsert'[w].step = "list"
      BY <1>4, StartThread DEF CountInv
    <2>2. Ids' = Ids /\ Others' = Others /\ Sticky' = Sticky
      BY <2>1 DEF Ids, Others, Sticky, Live
    <2>3. w \notin Creating'
      BY <2>1 DEF Creating
    <2>4. Creating' \subseteq Creating
      BY <1>4, <2>3, CallsOfOthers DEF CountInv
    <2> QED
      BY <2>1, <2>2, <2>4, CountShrinks
  <1>5. ASSUME NEW w \in Writers, Update(w) PROVE CountInv'
    <2>1. ThreadInv' /\ Kept /\ upsert'[w].step = "idle" /\ Ids' = Ids /\ Sticky' = Sticky
      BY <1>5, UpdateThread DEF CountInv
    <2>2. Others' = Others
      BY <2>1 DEF Kept, Others
    <2>3. w \notin Creating'
      BY <2>1 DEF Creating
    <2>4. Creating' \subseteq Creating
      BY <1>5, <2>3, CallsOfOthers DEF CountInv
    <2> QED
      BY <2>1, <2>2, <2>4, CountShrinks
  <1> QED
    BY <1>1, <1>2, <1>3, <1>4, <1>5, CountList, CountCreate, HostSteps

\* With any number of writers the thread never has more sticky comments than there
\* are writers, whatever fails, is repeated, or is deleted in between: the race of
\* list and create is lost once by each writer, and by no retry of it.
THEOREM StickyCommentPerWriter == WidePage => (HostSpec => []StickyPerWriter)
  <1> SUFFICES ASSUME WidePage PROVE HostSpec => []StickyPerWriter
    OBVIOUS
  <1>1. HostInit => CountInv
    <2> SUFFICES ASSUME HostInit PROVE CountInv
      OBVIOUS
    <2>1. ThreadInv /\ Others = {} /\ Sticky = {} /\ Creating = {}
      <3>1. comments = << >> /\ Ids = {} /\ comments \in Seq(Comment)
        BY DEF HostInit, Init, Ids
      <3>2. ThreadInv
        BY <3>1, BoundsAssumption DEF ThreadInv, HostInit, Init, Sound
      <3> QED
        BY <3>1, <3>2 DEF Others, Sticky, Live, Creating, HostInit, Init, NoCall
    <2>2. Cardinality({}) = 0 /\ Cardinality(Writers) \in Nat
      BY FS_EmptySet, FS_CardinalityType DEF WidePage
    <2> QED
      BY <2>1, <2>2, BoundsAssumption DEF CountInv
  <1>2. CountInv /\ [HostNext]_hostVars => CountInv'
    BY CountStep
  <1>3. CountInv => StickyPerWriter
    <2> SUFFICES ASSUME CountInv PROVE StickyPerWriter
      OBVIOUS
    <2>1. Cardinality(Sticky) \in Nat /\ Cardinality(Creating) \in Nat /\ Cardinality(Writers) \in Nat
      BY CountTypes DEF CountInv
    <2> QED
      BY <2>1 DEF CountInv, StickyPerWriter
  <1> QED
    BY <1>1, <1>2, <1>3, PTL DEF HostSpec

=============================================================================
