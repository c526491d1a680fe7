---------------------------- MODULE ServerProofs ----------------------------
(***************************************************************************)
(* Theorems about the webhook route in a process that crashes and starts   *)
(* again, for any number of handlers, deliveries, attempts and failures:   *)
(* what is acknowledged is queued, the repositories that are reported      *)
(* drift by no more than the failures explain, and the billing client      *)
(* keeps its promises; and about the start, for any variables and any      *)
(* environment.                                                            *)
(***************************************************************************)
EXTENDS Server, SequenceTheorems, FiniteSetTheorems, TLAPS

\* What the handlers know of the deliveries they serve: only one that is to be
\* triaged is enqueued, and a success is answered only after it was.
HandlersInv ==
    \A h \in Handlers :
        /\ pc[h] # "idle" => serves[h] \in Deliveries
        /\ pc[h] = "enqueue" => ToTriage(serves[h])
        /\ pc[h] \in {"ensure", "ensuring", "track", "tracking"} => ~ ToTriage(serves[h])
        /\ pc[h] = "reply" /\ ToTriage(serves[h]) /\ Success(status[h]) => Known(jobs, serves[h])

WebhookInv ==
    /\ jobs \in Seq(Row)
    /\ DOMAIN pc = Handlers
    /\ serves = [h \in Handlers |-> serves[h]]
    /\ status = [h \in Handlers |-> status[h]]
    /\ DOMAIN answered = Deliveries
    /\ HandlersInv
    /\ AckedIsQueued

\* Dispatch sends to enqueue_job what is to be triaged, and nothing else.
LEMMA DispatchIsRight ==
    ASSUME NEW d \in Deliveries
    PROVE  Dispatch(EventOf[d]) = "enqueue" <=> ToTriage(d)
  BY EventAssumption DEF Dispatch, ToTriage, Accepts, Trigger

LEMMA NewRowType ==
    ASSUME NEW d \in Deliveries, NEW t \in Nat, NEW id \in Nat
    PROVE  NewRow(d, t, id) \in Row /\ NewRow(d, t, id).delivery = d
  BY DEF NewRow, Row, Status

\* enqueue_job makes a delivery known, keeps what is known, and adds no second
\* row.
LEMMA EnqueueKnows ==
    ASSUME NEW T \in Seq(Row), NEW d \in Deliveries, NEW id \in Nat,
           \A i, j \in Ids(T) : T[i].delivery = T[j].delivery => i = j
    PROVE  LET U == EnqueueJob(T, d, 0, id) IN
           /\ U \in Seq(Row)
           /\ Known(U, d)
           /\ \A e : Known(T, e) => Known(U, e)
           /\ \A i, j \in Ids(U) : U[i].delivery = U[j].delivery => i = j
           /\ \A i \in Ids(U) : U[i].delivery = d \/ \E j \in Ids(T) : T[j].delivery = U[i].delivery
  <1>1. CASE Known(T, d)
    BY <1>1 DEF EnqueueJob
  <1>2. CASE ~ Known(T, d)
    <2> DEFINE r == NewRow(d, 0, id)
               U == Append(T, r)
    <2>1. r \in Row /\ r.delivery = d
      BY NewRowType
    <2>2. EnqueueJob(T, d, 0, id) = U
      BY <1>2 DEF EnqueueJob
    <2>3. Len(T) \in Nat
      BY LenProperties
    <2> HIDE DEF r
    <2>4. U \in Seq(Row) /\ Len(U) = Len(T) + 1 /\ U[Len(T) + 1] = r
      BY <2>1, <2>3, AppendProperties
    <2>5. \A i \in Ids(T) : U[i] = T[i] /\ i \in Ids(U)
      BY <2>1, <2>3, <2>4, AppendProperties DEF Ids
    <2>6. Ids(U) = Ids(T) \cup {Len(T) + 1} /\ Len(T) + 1 \in Ids(U)
      BY <2>3, <2>4 DEF Ids
    <2>7. \A i \in Ids(T) : T[i].delivery # d
      BY <1>2 DEF Known
    <2> HIDE DEF U
    <2>8. Known(U, d)
      BY <2>1, <2>4, <2>6 DEF Known
    <2>9. \A e : Known(T, e) => Known(U, e)
      BY <2>5 DEF Known
    <2>10. \A i, j \in Ids(U) : U[i].delivery = U[j].delivery => i = j
      BY <2>1, <2>4, <2>5, <2>6, <2>7
    <2>11. \A i \in Ids(U) : U[i].delivery = d \/ \E j \in Ids(T) : T[j].delivery = U[i].delivery
      BY <2>1, <2>4, <2>5, <2>6
    <2> QED
      BY <2>2, <2>4, <2>8, <2>9, <2>10, <2>11
  <1> QED
    BY <1>1, <1>2

\* A step after which GitHub takes no further delivery for delivered, and that
\* leaves table and handlers alone.
LEMMA QuietStep ==
    ASSUME WebhookInv, UNCHANGED <<jobs, pc, serves, status>>,
           DOMAIN answered' = Deliveries,
           \A d \in Deliveries : answered'[d] = "ok" => answered[d] = "ok"
    PROVE  WebhookInv'
  BY DEF WebhookInv, HandlersInv, AckedIsQueued

\* The table keeps what it knows, has one row per delivery, and none but of
\* deliveries to be triaged.
Grown ==
    /\ jobs' \in Seq(Row)
    /\ \A e : Known(jobs, e) => Known(jobs', e)
    /\ \A i, j \in Ids(jobs') : jobs'[i].delivery = jobs'[j].delivery => i = j
    /\ \A i \in Ids(jobs') : ToTriage(jobs'[i].delivery)

LEMMA TableStays == WebhookInv /\ UNCHANGED jobs => Grown
  BY DEF WebhookInv, AckedIsQueued, Grown

\* The table gets the row of the delivery a handler serves.
LEMMA InsertStep ==
    ASSUME WebhookInv, NEW h \in Handlers, pc[h] = "enqueue",
           jobs' \in Inserted(serves[h])
    PROVE  Grown /\ Known(jobs', serves[h])
  <1>1. serves[h] \in Deliveries /\ ToTriage(serves[h])
    BY DEF WebhookInv, HandlersInv
  <1>2. PICK id \in FreeIds(jobs) : jobs' = EnqueueJob(jobs, serves[h], 0, id)
    BY DEF Inserted
  <1>3. id \in Nat
    BY DEF FreeIds
  <1>4. /\ jobs' \in Seq(Row)
        /\ Known(jobs', serves[h])
        /\ \A e : Known(jobs, e) => Known(jobs', e)
        /\ \A i, j \in Ids(jobs') : jobs'[i].delivery = jobs'[j].delivery => i = j
        /\ \A i \in Ids(jobs') : jobs'[i].delivery = serves[h] \/ \E j \in Ids(jobs) : jobs[j].delivery = jobs'[i].delivery
    BY <1>1, <1>2, <1>3, EnqueueKnows DEF WebhookInv, AckedIsQueued
  <1> QED
    BY <1>1, <1>4 DEF Grown, WebhookInv, AckedIsQueued

\* A handler moves to a place it may be at; of the answers, at most that of a
\* delivery that is known becomes a success.
LEMMA HandlerStep ==
    ASSUME WebhookInv, Grown, NEW h \in Handlers,
           NEW place, NEW d, NEW code,
           pc' = [pc EXCEPT ![h] = place],
           serves' = [serves EXCEPT ![h] = d],
           status' = [status EXCEPT ![h] = code],
           place # "idle" => d \in Deliveries,
           place = "enqueue" => ToTriage(d),
           place \in {"ensure", "ensuring", "track", "tracking"} => ~ ToTriage(d),
           place = "reply" /\ ToTriage(d) /\ Success(code) => Known(jobs', d),
           DOMAIN answered' = Deliveries,
           \A e \in Deliveries : answered'[e] = "ok" /\ ToTriage(e) => answered[e] = "ok" \/ Known(jobs, e)
    PROVE  WebhookInv'
  BY DEF WebhookInv, HandlersInv, AckedIsQueued, Grown

\* The same when the handler does not change its delivery, or its status.
LEMMA HandlerStays ==
    ASSUME WebhookInv, NEW h \in Handlers
    PROVE  /\ serves = [serves EXCEPT ![h] = serves[h]]
           /\ status = [status EXCEPT ![h] = status[h]]
  BY DEF WebhookInv

LEMMA WebhookStep == WebhookInv /\ Serve => WebhookInv'
  <1> SUFFICES ASSUME WebhookInv, NEW h \in Handlers,
                      \/ \E d \in Deliveries : Receive(h, d)
                      \/ Progress(h) \/ GiveUp(h) \/ Drop(h)
               PROVE  WebhookInv'
    BY DEF Serve
  <1> USE DEF At
  <1>0. /\ DOMAIN answered = Deliveries
        /\ pc[h] # "idle" => serves[h] \in Deliveries
        /\ pc[h] \in {"ensure", "ensuring", "track", "tracking"} => ~ ToTriage(serves[h])
        /\ pc[h] = "reply" /\ ToTriage(serves[h]) /\ Success(status[h]) => Known(jobs, serves[h])
    BY DEF WebhookInv, HandlersInv
  <1>1. ASSUME NEW d \in Deliveries, Receive(h, d) PROVE WebhookInv'
    <2> DEFINE place == Dispatch(EventOf[d])
               code == IF place = "reply" THEN StatusAtOnce(EventOf[d]) ELSE 0
    <2>1. /\ UNCHANGED jobs
          /\ pc' = [pc EXCEPT ![h] = place]
          /\ serves' = [serves EXCEPT ![h] = d]
          /\ status' = [status EXCEPT ![h] = code]
          /\ answered' = [answered EXCEPT ![d] = "pending"]
      BY <1>1 DEF Receive, Goto
    <2>2. place = "enqueue" <=> ToTriage(d)
      BY DispatchIsRight
    <2>3. Grown
      BY <2>1, TableStays
    <2>4. \A e \in Deliveries : answered'[e] = "ok" => answered[e] = "ok"
      BY <1>0, <2>1
    <2>5. DOMAIN answered' = Deliveries
      BY <1>0, <2>1
    <2> HIDE DEF place, code
    <2> QED
      BY <2>1, <2>2, <2>3, <2>4, <2>5, HandlerStep
  <1>2. CASE Enqueue(h)
    <2>1. pc[h] = "enqueue" /\ UNCHANGED <<serves, answered>>
      BY <1>2 DEF Enqueue, githubVars
    <2>2. PICK place \in {"reply"}, code \in Int :
             /\ pc' = [pc EXCEPT ![h] = place]
             /\ status' = [status EXCEPT ![h] = code]
             /\ \/ jobs' \in Inserted(serves[h])
                \/ jobs' = jobs /\ code = 500
      BY <1>2 DEF Enqueue, Answer, Goto
    <2>3. Grown /\ (Success(code) => Known(jobs', serves[h]))
      BY <2>1, <2>2, InsertStep, TableStays DEF Success
    <2>4. serves' = [serves EXCEPT ![h] = serves[h]] /\ serves[h] \in Deliveries
      BY <1>0, <2>1, HandlerStays
    <2>5. /\ DOMAIN answered' = Deliveries
          /\ \A e \in Deliveries : answered'[e] = "ok" => answered[e] = "ok"
      BY <1>0, <2>1
    <2>6. /\ place # "idle" => serves[h] \in Deliveries
          /\ place = "enqueue" => ToTriage(serves[h])
          /\ place \in {"ensure", "ensuring", "track", "tracking"} => ~ ToTriage(serves[h])
          /\ place = "reply" /\ ToTriage(serves[h]) /\ Success(code) => Known(jobs', serves[h])
      BY <2>2, <2>3, <2>4
    <2>7. AckedIsQueued'
      BY <2>3, <2>5 DEF WebhookInv, AckedIsQueued, Grown
    <2>8. HandlersInv'
      BY <2>1, <2>2, <2>3, <2>4, <2>6 DEF WebhookInv, HandlersInv, Grown
    <2>9. DOMAIN pc' = Handlers /\ serves' = [g \in Handlers |-> serves'[g]]
      BY <2>1, <2>2 DEF WebhookInv
    <2>10. status' = [g \in Handlers |-> status'[g]]
      BY <2>2 DEF WebhookInv
    <2> QED
      BY <2>3, <2>5, <2>7, <2>8, <2>9, <2>10 DEF WebhookInv, Grown
  <1>3. CASE EnsureCustomer(h) \/ Ensured(h) \/ TrackRepo(h) \/ Tracked(h)
    <2>1. /\ pc[h] \in {"ensure", "ensuring", "track", "tracking"}
          /\ UNCHANGED <<jobs, serves, answered>>
      BY <1>3 DEF EnsureCustomer, Ensured, TrackRepo, Tracked, githubVars
    <2>2. PICK place \in {"ensuring", "track", "tracking", "reply"}, code \in {200, status[h]} :
             /\ pc' = [pc EXCEPT ![h] = place]
             /\ status' = [status EXCEPT ![h] = code]
      <3>1. CASE EnsureCustomer(h)
        BY <3>1, HandlerStays DEF EnsureCustomer, Goto
      <3>2. CASE Ensured(h)
        BY <3>2, HandlerStays DEF Ensured, Goto, Answer
      <3>3. CASE TrackRepo(h)
        BY <3>3, HandlerStays DEF TrackRepo, Goto
      <3>4. CASE Tracked(h)
        BY <3>4 DEF Tracked, Goto, Answer
      <3> QED
        BY <1>3, <3>1, <3>2, <3>3, <3>4
    <2>3. Grown
      BY <2>1, TableStays
    <2> QED
      BY <1>0, <2>1, <2>2, <2>3, HandlerStays, HandlerStep
  <1>4. CASE Billing(h)
    BY <1>0, <1>4, QuietStep DEF Billing, githubVars
  <1>5. CASE Reply(h)
    <2>1. /\ pc[h] = "reply" /\ UNCHANGED jobs
          /\ pc' = [pc EXCEPT ![h] = "idle"]
          /\ serves' = [serves EXCEPT ![h] = "none"]
          /\ status' = [status EXCEPT ![h] = 0]
          /\ answered' = IF waiting[h]
                           THEN [answered EXCEPT ![serves[h]] = IF Success(status[h]) THEN "ok" ELSE "failed"]
                           ELSE answered
      BY <1>5 DEF Reply, Forget, Goto
    <2>2. DOMAIN answered' = Deliveries
      BY <1>0, <2>1
    <2>3. \A e \in Deliveries : answered'[e] = "ok" /\ ToTriage(e) => answered[e] = "ok" \/ Known(jobs, e)
      BY <1>0, <2>1
    <2>4. Grown
      BY <2>1, TableStays
    <2> QED
      BY <2>1, <2>2, <2>3, <2>4, HandlerStep
  <1>6. CASE GiveUp(h)
    <2>1. /\ UNCHANGED <<jobs, pc, serves, status>>
          /\ answered' = [answered EXCEPT ![serves[h]] = "failed"]
      BY <1>6 DEF GiveUp
    <2> QED
      BY <1>0, <2>1, QuietStep
  <1>7. CASE Drop(h)
    <2>1. /\ pc' = [pc EXCEPT ![h] = "idle"]
          /\ serves' = [serves EXCEPT ![h] = "none"]
          /\ status' = [status EXCEPT ![h] = 0]
          /\ answered' = answered
          /\ jobs' = jobs \/ (pc[h] = "enqueue" /\ jobs' \in Inserted(serves[h]))
      BY <1>7 DEF Drop, Forget, Goto, githubVars
    <2>2. Grown
      BY <2>1, TableStays, InsertStep
    <2> QED
      BY <1>0, <2>1, <2>2, HandlerStep
  <1> QED
    BY <1>1, <1>2, <1>3, <1>4, <1>5, <1>6, <1>7 DEF Progress

LEMMA ServerStep == WebhookInv /\ [ServerNext]_allVars => WebhookInv'
  <1> SUFFICES ASSUME WebhookInv, [ServerNext]_allVars PROVE WebhookInv'
    OBVIOUS
  <1>0. DOMAIN answered = Deliveries
    BY DEF WebhookInv
  <1>1. CASE StartUp
    <2>1. UNCHANGED <<jobs, pc, serves, status, answered>>
      BY <1>1 DEF StartUp, Load, Connect, BuildClient, Bind, Correct, webhookVars, vars, githubVars
    <2> QED
      BY <1>0, <2>1, QuietStep
  <1>2. CASE Crash
    <2>1. /\ UNCHANGED <<jobs, pc, serves, status>>
          /\ DOMAIN answered' = Deliveries
          /\ \A d \in Deliveries : answered'[d] \in {"failed", answered[d]}
      BY <1>2 DEF Crash
    <2> QED
      BY <2>1, QuietStep
  <1>3. ASSUME NEW d \in Deliveries, Refused(d) PROVE WebhookInv'
    <2>1. /\ UNCHANGED <<jobs, pc, serves, status>>
          /\ answered' = [answered EXCEPT ![d] = "failed"]
      BY <1>3 DEF Refused
    <2> QED
      BY <1>0, <2>1, QuietStep
  <1>4. CASE Serve
    BY <1>4, WebhookStep
  <1>5. ASSUME NEW d \in Deliveries, Redeliver(d) PROVE WebhookInv'
    <2>1. /\ UNCHANGED <<jobs, pc, serves, status>>
          /\ answered' = [answered EXCEPT ![d] = "failed"]
      BY <1>5 DEF Redeliver
    <2> QED
      BY <1>0, <2>1, QuietStep
  <1>6. CASE UNCHANGED allVars
    <2>1. UNCHANGED <<jobs, pc, serves, status, answered>>
      BY <1>6 DEF allVars, webhookVars, vars, githubVars
    <2> QED
      BY <1>0, <2>1, QuietStep
  <1> QED
    BY <1>1, <1>2, <1>3, <1>4, <1>5, <1>6 DEF ServerNext

LEMMA ServerInitially == ServerInit => WebhookInv
  <1> SUFFICES ASSUME ServerInit PROVE WebhookInv
    OBVIOUS
  <1>1. jobs = << >> /\ jobs \in Seq(Row) /\ Ids(jobs) = {}
    BY EmptySeq DEF ServerInit, Init, Ids
  <1>2. /\ pc = [h \in Handlers |-> "idle"]
        /\ serves = [h \in Handlers |-> "none"]
        /\ status = [h \in Handlers |-> 0]
        /\ answered = [d \in Deliveries |-> "none"]
    BY DEF ServerInit, Init
  <1> QED
    BY <1>1, <1>2 DEF WebhookInv, HandlersInv, AckedIsQueued

\* Nothing that GitHub takes for delivered is lost, and nothing is queued twice,
\* whatever times out, fails, is sent again or crashes.
THEOREM AcknowledgedIsQueued == ServerSpec => []AckedIsQueued
  <1>1. WebhookInv => AckedIsQueued
    BY DEF WebhookInv
  <1> QED
    BY <1>1, ServerInitially, ServerStep, PTL DEF ServerSpec

-----------------------------------------------------------------------------
(* The starts of the process, and the operator who corrects what they      *)
(* report.                                                                 *)

\* The problems that are not about a variable that has only to be set.
Named == { ".env", "GITHUB_APP_ID", "inline key", "no key", "key unreadable", "key file",
           "database", "RSA key", "GITHUB_BASE_URL", "BIND_ADDR" }

LEMMA NamesDiffer == \A p \in Required : p \notin Named
  BY RequiredAssumption DEF Named

\* A start with environment e stops with this report.
Reported(e, report) ==
    /\ report # {}
    /\ \/ report = LoadReport(e)
       \/ LoadReport(e) = {} /\ report \in {DatabaseReport(e), ClientReport(e), BindReport(e)}

GoodKey(e) == e.inline = "rsa" \/ (e.inline = "none" /\ e.file = "rsa")

\* A problem is gone for good: neither this environment has it nor any it is
\* corrected to.
Gone(p, e) ==
    /\ p = ".env" => e.dotenv # "malformed"
    /\ p \in Required => p \notin e.unset
    /\ p = "GITHUB_APP_ID" => e.appId = "number"
    /\ p = "inline key" => e.inline # "text"
    /\ p = "key unreadable" => e.file # "unreadable"
    /\ p \in {"no key", "key file", "RSA key"} => GoodKey(e)
    /\ p = "database" => e.database
    /\ p = "GITHUB_BASE_URL" => e.baseUrl
    /\ p = "BIND_ADDR" => e.bindAddr

\* What a report leaves, once it is corrected.
Past(report, e) ==
    /\ \A p \in report : Gone(p, e)
    /\ e.dotenv # "malformed"
    /\ report = {".env"} \/ (e.unset = {} /\ e.appId = "number")
    /\ report \cap Late # {} => LoadReport(e) = {}

StartInv ==
    /\ env \in Env
    /\ reports \in Seq(SUBSET (Required \cup Named))
    /\ process \in {"connect", "client", "bind"} => LoadReport(env) = {}
    /\ process = "failed" => Len(reports) > 0 /\ Reported(env, reports[Len(reports)])
    /\ \A i \in 1 .. Len(reports) : i < Len(reports) \/ process # "failed" => Past(reports[i], env)
    /\ OneRoundOfFixes

\* The problems of a report, and what they say of the environment.
LEMMA ReportedProblems ==
    ASSUME NEW e \in Env, NEW report, Reported(e, report), NEW p \in report
    PROVE  /\ p \in Required \cup Named
           /\ ~ Gone(p, e)
           /\ p = "inline key" => e.inline = "text"
           /\ p = "key unreadable" => e.inline = "none" /\ e.file = "unreadable"
           /\ p = "no key" => e.inline = "none" /\ e.file = "none"
           /\ p = "key file" => e.inline = "none" /\ e.file = "text"
           /\ p = "RSA key" => ~ GoodKey(e)
           /\ p \in Required \cup {"GITHUB_APP_ID", ".env"} => report = LoadReport(e)
           /\ p \in Late => LoadReport(e) = {}
  <1> USE DEF Late
  <1>1. /\ e.unset \subseteq Required
        /\ e.dotenv \in {"none", "malformed", "fine"} /\ e.appId \in {"none", "text", "number"}
        /\ e.inline \in {"none", "text", "pem", "rsa"}
        /\ e.file \in {"none", "unreadable", "text", "pem", "rsa"}
        /\ e.database \in BOOLEAN /\ e.baseUrl \in BOOLEAN /\ e.bindAddr \in BOOLEAN
    BY DEF Env
  <1>2. CASE report = LoadReport(e) /\ e.dotenv = "malformed"
    <2>1. p = ".env"
      BY <1>2 DEF LoadReport
    <2> QED
      BY <1>1, <1>2, <2>1, NamesDiffer DEF Gone, Named
  <1>3. CASE report = LoadReport(e) /\ e.dotenv # "malformed"
    <2>1. \/ p \in e.unset
          \/ p = "GITHUB_APP_ID" /\ e.appId # "number"
          \/ p = "inline key" /\ e.inline = "text"
          \/ p = "no key" /\ e.inline = "none" /\ e.file = "none"
          \/ p = "key unreadable" /\ e.inline = "none" /\ e.file = "unreadable"
          \/ p = "key file" /\ e.inline = "none" /\ e.file = "text"
      BY <1>1, <1>3 DEF LoadReport, Problems, KeyProblems
    <2> QED
      BY <1>1, <1>3, <2>1, NamesDiffer DEF Gone, GoodKey, Named
  <1>4. CASE report = ClientReport(e) /\ LoadReport(e) = {}
    <2>1. \/ p = "RSA key" /\ Key(e) # "rsa"
          \/ p = "GITHUB_BASE_URL" /\ ~ e.baseUrl
      BY <1>1, <1>4 DEF ClientReport
    <2> QED
      BY <1>1, <1>4, <2>1, NamesDiffer DEF Gone, GoodKey, Key, Named
  <1>5. CASE report = BindReport(e) /\ LoadReport(e) = {}
    <2>1. p = "BIND_ADDR" /\ ~ e.bindAddr
      BY <1>1, <1>5 DEF BindReport
    <2> QED
      BY <1>1, <1>5, <2>1, NamesDiffer DEF Gone, Named
  <1>6. CASE report = DatabaseReport(e) /\ LoadReport(e) = {}
    <2>1. p = "database" /\ ~ e.database
      BY <1>1, <1>6 DEF DatabaseReport
    <2> QED
      BY <1>1, <1>6, <2>1, NamesDiffer DEF Gone, Named
  <1> QED
    BY <1>2, <1>3, <1>4, <1>5, <1>6 DEF Reported

\* What the operator makes of the keys.
LEMMA KeysCorrected ==
    ASSUME NEW e \in Env, NEW report, Reported(e, report), NEW k \in CorrectedKeys(e, report)
    PROVE  /\ k.inline \in {"none", "text", "pem", "rsa"}
           /\ k.file \in {"none", "unreadable", "text", "pem", "rsa"}
           /\ k.inline = "text" => e.inline = "text" /\ "inline key" \notin report
           /\ k.file = "unreadable" => e.file = "unreadable" /\ "key unreadable" \notin report
           /\ GoodKey(e) => GoodKey(k)
           /\ report \cap {"no key", "key file", "RSA key"} # {} => GoodKey(k)
  <1>1. /\ e.inline \in {"none", "text", "pem", "rsa"}
        /\ e.file \in {"none", "unreadable", "text", "pem", "rsa"}
    BY DEF Env
  <1>2. /\ "inline key" \in report => e.inline = "text"
        /\ "key unreadable" \in report => e.inline = "none" /\ e.file = "unreadable"
        /\ "no key" \in report => e.inline = "none" /\ e.file = "none"
        /\ "key file" \in report => e.inline = "none" /\ e.file = "text"
        /\ "RSA key" \in report => ~ GoodKey(e)
    BY ReportedProblems
  <1> DEFINE Bad == report \cap {"no key", "key file", "RSA key"}
  <1>3. Bad # {} => "inline key" \notin report /\ "key unreadable" \notin report
    <2>1. "RSA key" \in report => report = {"RSA key"}
      <3> SUFFICES ASSUME "RSA key" \in report PROVE report = {"RSA key"}
        OBVIOUS
      <3>1. report # LoadReport(e)
        <4> SUFFICES ASSUME report = LoadReport(e) PROVE FALSE
          OBVIOUS
        <4>1. "RSA key" \notin e.unset
          BY NamesDiffer DEF Env, Named
        <4>2. "RSA key" \notin KeyProblems(e)
          BY <1>1 DEF KeyProblems
        <4>3. "RSA key" \notin Problems(e)
          BY <4>1, <4>2 DEF Problems
        <4> QED
          BY <4>3 DEF LoadReport
      <3> QED
        BY <3>1 DEF Reported, DatabaseReport, ClientReport, BindReport
    <2>2. Bad # {} => "no key" \in report \/ "key file" \in report \/ "RSA key" \in report
      OBVIOUS
    <2>3. "RSA key" \in report => "inline key" \notin report /\ "key unreadable" \notin report
      <3> SUFFICES ASSUME "RSA key" \in report
                   PROVE  "inline key" \notin report /\ "key unreadable" \notin report
        OBVIOUS
      <3>1. report = {"RSA key"}
        BY <2>1, Zenon
      <3>2. report \subseteq {"RSA key"}
        BY <3>1
      <3>3. \A p \in report : p = "RSA key"
        BY <3>2
      <3> HIDE DEF Bad
      <3> QED
        BY <3>3
    <2>4. "no key" \in report \/ "key file" \in report => "inline key" \notin report /\ "key unreadable" \notin report
      BY <1>2
    <2> HIDE DEF Bad
    <2> QED
      BY <2>2, <2>3, <2>4, Zenon
  <1> HIDE DEF Bad
  <1>4. CASE "inline key" \in report
    <2>1. e.inline = "text" /\ ~ GoodKey(e) /\ Bad = {} /\ "key unreadable" \notin report
      BY <1>2, <1>3, <1>4 DEF GoodKey
    <2>2. k.inline \in {"none", "rsa"} /\ k.file = e.file
      <3>1. k \in { [[inline |-> e.inline, file |-> e.file] EXCEPT !.inline = x] : x \in {"none", "rsa"} }
        BY <1>4, <2>1 DEF CorrectedKeys, Bad
      <3>2. PICK x \in {"none", "rsa"} : k = [[inline |-> e.inline, file |-> e.file] EXCEPT !.inline = x]
        BY <3>1
      <3> QED
        BY <3>2
    <2> QED
      BY <1>1, <1>4, <2>1, <2>2 DEF Bad
  <1>5. CASE "key unreadable" \in report
    <2>1. "inline key" \notin report /\ Bad = {} /\ ~ GoodKey(e) /\ e.inline = "none"
      BY <1>2, <1>3, <1>5 DEF GoodKey
    <2>2. k.inline = e.inline /\ k.file \in {"text", "pem", "rsa"}
      BY <1>5, <2>1 DEF CorrectedKeys, Bad
    <2> QED
      BY <1>1, <1>5, <2>1, <2>2 DEF Bad
  <1>6. CASE Bad # {}
    <2>1. "inline key" \notin report /\ "key unreadable" \notin report
      BY <1>3, <1>6
    <2>2. \/ k.inline = "rsa" /\ k.file = e.file
          \/ e.inline = "none" /\ k.inline = "none" /\ k.file = "rsa"
      BY <1>6, <2>1 DEF CorrectedKeys, Bad
    <2>3. GoodKey(k)
      BY <2>2 DEF GoodKey
    <2> QED
      BY <1>1, <2>1, <2>2, <2>3
  <1>7. CASE "inline key" \notin report /\ "key unreadable" \notin report /\ Bad = {}
    <2>1. k.inline = e.inline /\ k.file = e.file
      <3>1. k \in {[inline |-> e.inline, file |-> e.file]}
        BY <1>7 DEF CorrectedKeys, Bad
      <3> QED
        BY <3>1
    <2> QED
      BY <1>1, <1>7, <2>1 DEF GoodKey, Bad
  <1> QED
    BY <1>4, <1>5, <1>6, <1>7

\* The operator answers the whole report, and brings no old problem back.
LEMMA CorrectedIsPast ==
    ASSUME NEW e \in Env, NEW report, Reported(e, report), NEW f \in Corrected(e, report)
    PROVE  /\ f \in Env
           /\ Past(report, f)
           /\ \A old : Past(old, e) => Past(old, f)
  <1>1. PICK k \in CorrectedKeys(e, report) :
          f = [ dotenv   |-> IF ".env" \in report THEN "fine" ELSE e.dotenv,
                unset    |-> e.unset \ report,
                appId    |-> IF "GITHUB_APP_ID" \in report THEN "number" ELSE e.appId,
                inline   |-> k.inline,
                file     |-> k.file,
                database |-> e.database \/ "database" \in report,
                baseUrl  |-> e.baseUrl \/ "GITHUB_BASE_URL" \in report,
                bindAddr |-> e.bindAddr \/ "BIND_ADDR" \in report ]
    BY DEF Corrected
  <1>2. /\ f.dotenv = IF ".env" \in report THEN "fine" ELSE e.dotenv
        /\ f.unset = e.unset \ report
        /\ f.appId = IF "GITHUB_APP_ID" \in report THEN "number" ELSE e.appId
        /\ f.inline = k.inline
        /\ f.file = k.file
    BY <1>1
  <1>3. /\ f.database <=> (e.database \/ "database" \in report)
        /\ f.baseUrl <=> (e.baseUrl \/ "GITHUB_BASE_URL" \in report)
        /\ f.bindAddr <=> (e.bindAddr \/ "BIND_ADDR" \in report)
    BY <1>1
  <1>4. f \in Env
    <2>1. e.unset \ report \in SUBSET Required
      BY DEF Env
    <2>2. k.inline \in {"none", "text", "pem", "rsa"} /\ k.file \in {"none", "unreadable", "text", "pem", "rsa"}
      BY KeysCorrected
    <2> QED
      BY <1>1, <2>1, <2>2 DEF Env
  <1>5. /\ f.inline = "text" => e.inline = "text" /\ "inline key" \notin report
        /\ f.file = "unreadable" => e.file = "unreadable" /\ "key unreadable" \notin report
        /\ GoodKey(e) => GoodKey(f)
        /\ report \cap {"no key", "key file", "RSA key"} # {} => GoodKey(f)
    <2>1. /\ k.inline = "text" => e.inline = "text" /\ "inline key" \notin report
          /\ k.file = "unreadable" => e.file = "unreadable" /\ "key unreadable" \notin report
          /\ GoodKey(e) => GoodKey(k)
          /\ report \cap {"no key", "key file", "RSA key"} # {} => GoodKey(k)
      BY KeysCorrected
    <2>2. GoodKey(k) => GoodKey(f)
      BY <1>2 DEF GoodKey
    <2> QED
      BY <1>2, <2>1, <2>2
  <1>6. \A p : Gone(p, e) => Gone(p, f)
    BY <1>2, <1>3, <1>5 DEF Gone
  <1>11. LoadReport(e) = {} => LoadReport(f) = {}
    <2> SUFFICES ASSUME LoadReport(e) = {} PROVE LoadReport(f) = {}
      OBVIOUS
    <2>1. e.dotenv # "malformed" /\ e.unset = {} /\ e.appId = "number" /\ KeyProblems(e) = {}
      BY DEF LoadReport, Problems
    <2>2. f.dotenv # "malformed" /\ f.unset = {} /\ f.appId = "number"
      BY <1>2, <2>1
    <2>3. KeyProblems(f) = {}
      <3>1. /\ e.inline # "text"
            /\ e.inline = "none" => e.file \notin {"none", "unreadable", "text"}
        BY <2>1 DEF KeyProblems
      <3>2. /\ "inline key" \notin report /\ "key unreadable" \notin report
            /\ "no key" \notin report /\ "key file" \notin report
        BY <3>1, ReportedProblems
      <3>3. /\ f.inline # "text"
            /\ f.inline = "none" => f.file \notin {"none", "unreadable", "text"}
        <4>1. \/ k.inline = e.inline /\ k.file = e.file
              \/ GoodKey(k)
          <5>1. CASE report \cap {"no key", "key file", "RSA key"} # {}
            BY <5>1, KeysCorrected
          <5>2. CASE report \cap {"no key", "key file", "RSA key"} = {}
            <6>1. k \in {[inline |-> e.inline, file |-> e.file]}
              BY <3>2, <5>2 DEF CorrectedKeys
            <6> QED
              BY <6>1
          <5> QED
            BY <5>1, <5>2
        <4> QED
          BY <1>2, <3>1, <4>1 DEF GoodKey
      <3> QED
        BY <3>3 DEF KeyProblems
    <2> QED
      BY <2>2, <2>3 DEF LoadReport, Problems
  <1>7. \A old : Past(old, e) => Past(old, f)
    BY <1>2, <1>6, <1>11 DEF Past
  <1>8. \A p \in report : Gone(p, f)
    BY <1>2, <1>3, <1>5 DEF Gone
  <1>9. f.dotenv # "malformed" /\ (report = {".env"} \/ (f.unset = {} /\ f.appId = "number"))
    <2>1. CASE report = LoadReport(e) /\ e.dotenv = "malformed"
      BY <1>2, <2>1 DEF LoadReport
    <2>2. CASE report = LoadReport(e) /\ e.dotenv # "malformed"
      BY <1>2, <2>2 DEF LoadReport, Problems
    <2>3. CASE LoadReport(e) = {}
      <3>1. e.dotenv # "malformed" /\ e.unset = {} /\ e.appId = "number"
        BY <2>3 DEF LoadReport, Problems
      <3> QED
        BY <1>2, <3>1
    <2> QED
      BY <2>1, <2>2, <2>3 DEF Reported
  <1>10. report \cap Late # {} => LoadReport(f) = {}
    BY <1>11, ReportedProblems
  <1> QED
    BY <1>4, <1>7, <1>8, <1>9, <1>10 DEF Past

LEMMA ReportsStay ==
    ASSUME StartInv, UNCHANGED <<env, reports>>, process # "failed",
           process' \notin {"failed", "connect", "client", "bind"}
                \/ (process' # "failed" /\ LoadReport(env) = {})
    PROVE  StartInv'
  BY DEF StartInv, OneRoundOfFixes

\* A start stops with a report.
LEMMA StopStep ==
    ASSUME StartInv, NEW report, UNCHANGED env, process # "failed", Reported(env, report),
           reports' = Append(reports, report), process' = "failed"
    PROVE  StartInv'
  <1> DEFINE n == Len(reports) + 1
  <1>1. /\ env \in Env /\ Len(reports) \in Nat
        /\ reports \in Seq(SUBSET (Required \cup Named))
        /\ \A i \in 1 .. Len(reports) : Past(reports[i], env)
    BY LenProperties DEF StartInv
  <1>2. report \subseteq Required \cup Named
    BY <1>1, ReportedProblems
  <1>3. /\ reports' \in Seq(SUBSET (Required \cup Named))
        /\ Len(reports') = n /\ reports'[n] = report
        /\ \A i \in 1 .. Len(reports) : reports'[i] = reports[i]
    BY <1>1, <1>2, AppendProperties
  <1>4. \A i \in 1 .. n : i # n => i \in 1 .. Len(reports)
    BY <1>1
  <1>5. ASSUME NEW i \in 1 .. Len(reports)
        PROVE  /\ reports[i] \cap report = {}
               /\ report \cap (Required \cup {"GITHUB_APP_ID"}) # {} => reports[i] = {".env"}
               /\ ".env" \notin report
               /\ reports[i] \cap Late # {} => report \subseteq Late
    <2>1. \A p \in reports[i] : Gone(p, env)
      BY <1>1 DEF Past
    <2>2. env.dotenv # "malformed" /\ (reports[i] = {".env"} \/ (env.unset = {} /\ env.appId = "number"))
      BY <1>1 DEF Past
    <2>3. \A p \in report : ~ Gone(p, env)
      BY <1>1, ReportedProblems
    <2>4. ASSUME NEW p \in report PROVE p # ".env" /\ (p \in Required \cup {"GITHUB_APP_ID"} => reports[i] = {".env"})
      <3>1. ~ Gone(p, env)
        BY <2>3
      <3> QED
        BY <2>2, <3>1, NamesDiffer DEF Gone, Named
    <2>5. reports[i] \cap Late # {} => report \subseteq Late
      <3> SUFFICES ASSUME reports[i] \cap Late # {} PROVE report \subseteq Late
        OBVIOUS
      <3>1. LoadReport(env) = {}
        BY <1>1 DEF Past
      <3> QED
        BY <3>1 DEF Reported, DatabaseReport, ClientReport, BindReport, Late
    <2> QED
      BY <2>1, <2>3, <2>4, <2>5
  <1>6. ASSUME NEW i \in 1 .. n, NEW j \in 1 .. n, i < j
        PROVE  /\ reports'[i] \cap reports'[j] = {}
               /\ reports'[j] \cap (Required \cup {"GITHUB_APP_ID"}) # {} => reports'[i] = {".env"}
               /\ ".env" \notin reports'[j]
               /\ reports'[i] \cap Late # {} => reports'[j] \subseteq Late
    <2>1. i \in 1 .. Len(reports) /\ reports'[i] = reports[i]
      BY <1>1, <1>3, <1>6
    <2>2. CASE j = n
      BY <1>3, <1>5, <2>1, <2>2
    <2>3. CASE j # n
      <3>1. j \in 1 .. Len(reports) /\ reports'[j] = reports[j]
        BY <1>3, <1>4, <2>3
      <3> QED
        BY <1>6, <2>1, <3>1 DEF StartInv, OneRoundOfFixes
    <2> QED
      BY <2>2, <2>3
  <1>7. OneRoundOfFixes'
    BY <1>3, <1>6 DEF OneRoundOfFixes
  <1>8. \A i \in 1 .. n : i < n => Past(reports'[i], env')
    BY <1>1, <1>3
  <1> QED
    BY <1>1, <1>3, <1>7, <1>8 DEF StartInv

LEMMA CheckedStep ==
    ASSUME StartInv, NEW report, NEW next, UNCHANGED env, Checked(report, next), process # "failed",
           report # {} => Reported(env, report),
           report = {} => next \in {"connect", "client", "bind", "serving"} /\ LoadReport(env) = {}
    PROVE  StartInv'
  <1>1. CASE report = {}
    BY <1>1, ReportsStay DEF Checked, Becomes
  <1>2. CASE report # {}
    BY <1>2, StopStep DEF Checked, Becomes
  <1> QED
    BY <1>1, <1>2

LEMMA CorrectStep == StartInv /\ Correct => StartInv'
  <1> SUFFICES ASSUME StartInv, Correct PROVE StartInv'
    OBVIOUS
  <1>1. /\ process = "failed" /\ process' = "down" /\ reports' = reports
        /\ env' \in Corrected(env, reports[Len(reports)])
        /\ env \in Env /\ Reported(env, reports[Len(reports)]) /\ Len(reports) \in Nat
    BY LenProperties DEF StartInv, Correct, Is, Becomes
  <1>2. /\ env' \in Env
        /\ Past(reports[Len(reports)], env')
        /\ \A old : Past(old, env) => Past(old, env')
    BY <1>1, CorrectedIsPast
  <1>3. \A i \in 1 .. Len(reports) : Past(reports[i], env')
    BY <1>1, <1>2 DEF StartInv
  <1> QED
    BY <1>1, <1>2, <1>3 DEF StartInv, OneRoundOfFixes

LEMMA SoundIsClear == Sound \in Env /\ LoadReport(Sound) = {}
  BY DEF Sound, Env, LoadReport, Problems, KeyProblems

LEMMA StartStep == StartInv /\ [ServerNext]_allVars => StartInv'
  <1> SUFFICES ASSUME StartInv, [ServerNext]_allVars PROVE StartInv'
    OBVIOUS
  <1> USE DEF Is, Becomes
  <1>1. CASE Load
    BY <1>1, CheckedStep DEF Load, Reported
  <1>2. CASE Connect
    <2>1. process = "connect" /\ LoadReport(env) = {} /\ UNCHANGED env
      BY <1>2 DEF Connect, StartInv
    <2>2. CASE Checked(DatabaseReport(env), "client")
      BY <2>1, <2>2, CheckedStep DEF Reported
    <2>3. CASE process' = "down" /\ UNCHANGED reports
      BY <2>1, <2>3, ReportsStay
    <2> QED
      BY <1>2, <2>2, <2>3 DEF Connect
  <1>3. CASE BuildClient
    <2>1. LoadReport(env) = {}
      BY <1>3 DEF BuildClient, StartInv
    <2> QED
      BY <1>3, <2>1, CheckedStep DEF BuildClient, Reported
  <1>4. CASE Bind
    <2>1. LoadReport(env) = {} /\ process = "bind"
      BY <1>4 DEF Bind, StartInv
    <2>2. CASE process' = "serving" /\ env' = Sound /\ reports' = << >>
      <3>1. reports' \in Seq(SUBSET (Required \cup Named)) /\ Len(reports') = 0
        BY <2>2
      <3> QED
        BY <2>2, <3>1, SoundIsClear DEF StartInv, OneRoundOfFixes
    <2>3. CASE BindReport(env) # {} /\ Checked(BindReport(env), "serving") /\ UNCHANGED env
      BY <2>1, <2>3, CheckedStep DEF Reported
    <2>4. CASE process' = "down" /\ UNCHANGED <<env, reports>>
      BY <2>1, <2>4, ReportsStay
    <2> QED
      BY <1>4, <2>2, <2>3, <2>4 DEF Bind
  <1>5. CASE Correct
    BY <1>5, CorrectStep
  <1>6. CASE Crash
    BY <1>6, ReportsStay DEF Crash
  <1>7. CASE UNCHANGED serverVars
    BY <1>7 DEF serverVars, StartInv, OneRoundOfFixes, Late
  <1> QED
    BY <1>1, <1>2, <1>3, <1>4, <1>5, <1>6, <1>7 DEF ServerNext, StartUp, Refused, allVars

LEMMA StartInitially == ServerInit => StartInv
  <1> SUFFICES ASSUME ServerInit PROVE StartInv
    OBVIOUS
  <1>1. env \in Env /\ process = "down" /\ reports = << >> /\ Len(reports) = 0
    BY DEF ServerInit
  <1>2. reports \in Seq(SUBSET (Required \cup Named))
    BY <1>1
  <1> QED
    BY <1>1, <1>2 DEF StartInv, OneRoundOfFixes

\* An operator who corrects what was reported never sees a problem again, and
\* sees what load finds unset or not a number at once; a database, an RSA key, a
\* base URL or an address that is no good comes in later starts, and then nothing
\* of what load looks at.  Whichever variables there are, and in whatever state of
\* those modelled the environment was.
THEOREM StartsReportAtOnce == ServerSpec => []OneRoundOfFixes
  <1>1. StartInv => OneRoundOfFixes
    BY DEF StartInv
  <1> QED
    BY <1>1, StartInitially, StartStep, PTL DEF ServerSpec

-----------------------------------------------------------------------------
(* Sums over finite sets.  MapThenSumSet is defined by a recursive function *)
(* on the subsets, which takes the elements in an order of its own; what is *)
(* needed of it is that any element may be taken out first.                 *)

\* Induction over the subsets of a finite set: P is the set of those that have
\* the property.
LEMMA SubsetInduction ==
    ASSUME NEW S, IsFiniteSet(S), NEW P,
           \A T \in SUBSET S : (\A U \in SUBSET T : U # T => U \in P) => T \in P
    PROVE  \A T \in SUBSET S : T \in P
  <1> DEFINE Bad == { T \in SUBSET S : T \notin P }
             R   == StrictSubsetOrdering(S)
  <1>1. Bad \subseteq FiniteSubsetsOf(S)
    BY FS_Subset DEF FiniteSubsetsOf
  <1>2. IsWellFoundedOn(R, FiniteSubsetsOf(S))
    BY FS_StrictSubsetOrderingWellFounded
  <1>3. SUFFICES ASSUME Bad # {} PROVE FALSE
    OBVIOUS
  <1>4. PICK T \in Bad : \A U \in Bad : ~ (<<U, T>> \in R)
    <2> HIDE DEF Bad, R
    <2> QED
      BY <1>1, <1>2, <1>3, WFMin
  <1>5. \A U \in SUBSET T : U # T => U \in P
    <2> SUFFICES ASSUME NEW U \in SUBSET T, U # T, U \notin P PROVE FALSE
      OBVIOUS
    <2>1. U \in SUBSET S /\ T \in SUBSET S
      OBVIOUS
    <2>2. <<U, T>> \in R
      BY <2>1 DEF StrictSubsetOrdering
    <2> QED
      BY <1>4, <2>1, <2>2
  <1> QED
    BY <1>5

Pick(s) == CHOOSE x \in s : TRUE

\* g is the function that MapThenSumSet defines on the subsets of S.
IsSum(g, f, S) ==
    g = [s \in SUBSET S |-> IF s = {} THEN 0 ELSE f[Pick(s)] + g[s \ {Pick(s)}]]

TheSum(f, S) == CHOOSE g : IsSum(g, f, S)

LEMMA SumIsFold == ASSUME NEW f, NEW S PROVE SumOf(f, S) = TheSum(f, S)[S]
  BY Zenon DEF SumOf, MapThenSumSet, MapThenFoldSet, TheSum, IsSum, Pick

LEMMA PickIn == ASSUME NEW s, s # {} PROVE Pick(s) \in s
  BY DEF Pick

\* Two such functions agree on the subsets of both sets.
LEMMA SumsAgree ==
    ASSUME NEW f, NEW S, NEW T \in SUBSET S, IsFiniteSet(T), NEW g, NEW h,
           IsSum(g, f, S), IsSum(h, f, T)
    PROVE  \A s \in SUBSET T : g[s] = h[s]
  <1> DEFINE P == { s \in SUBSET T : g[s] = h[s] }
  <1>1. ASSUME NEW s \in SUBSET T, \A r \in SUBSET s : r # s => r \in P
        PROVE  s \in P
    <2>1. /\ g[s] = IF s = {} THEN 0 ELSE f[Pick(s)] + g[s \ {Pick(s)}]
          /\ h[s] = IF s = {} THEN 0 ELSE f[Pick(s)] + h[s \ {Pick(s)}]
      BY DEF IsSum
    <2>2. s # {} => s \ {Pick(s)} \in SUBSET s /\ s \ {Pick(s)} # s
      BY PickIn
    <2> QED
      BY <1>1, <2>1, <2>2
  <1> HIDE DEF P
  <1>2. \A s \in SUBSET T : s \in P
    BY <1>1, SubsetInduction
  <1> QED
    BY <1>2 DEF P

\* The function exists, so CHOOSE finds it.
LEMMA SumExists ==
    ASSUME NEW f, NEW S, IsFiniteSet(S)
    PROVE  \A T \in SUBSET S : IsSum(TheSum(f, T), f, T)
  <1> DEFINE P == { T \in SUBSET S : IsSum(TheSum(f, T), f, T) }
  <1>1. ASSUME NEW T \in SUBSET S, \A U \in SUBSET T : U # T => U \in P
        PROVE  T \in P
    <2> DEFINE F(s) == TheSum(f, s)[s]
               g == [s \in SUBSET T |-> IF s = {} THEN 0 ELSE f[Pick(s)] + F(s \ {Pick(s)})]
    <2>1. ASSUME NEW r \in SUBSET T, r # T PROVE g[r] = F(r)
      <3>1. IsSum(TheSum(f, r), f, r)
        BY <1>1, <2>1
      <3>2. F(r) = IF r = {} THEN 0 ELSE f[Pick(r)] + TheSum(f, r)[r \ {Pick(r)}]
        BY <3>1 DEF IsSum
      <3>3. CASE r = {}
        BY <3>2, <3>3
      <3>4. CASE r # {}
        <4> DEFINE q == r \ {Pick(r)}
        <4>1. q \in SUBSET r /\ q # T /\ q \in SUBSET T
          BY <2>1
        <4>2. IsSum(TheSum(f, q), f, q)
          BY <1>1, <4>1
        <4>3. IsFiniteSet(q)
          BY <4>1, FS_Subset
        <4>4. TheSum(f, r)[q] = TheSum(f, q)[q]
          <5> HIDE DEF q
          <5> QED
            BY <3>1, <4>1, <4>2, <4>3, SumsAgree
        <4> QED
          BY <3>2, <3>4, <4>4
      <3> QED
        BY <3>3, <3>4
    <2>2. ASSUME NEW s \in SUBSET T, s # {}
          PROVE  g[s \ {Pick(s)}] = F(s \ {Pick(s)})
      <3>1. s \ {Pick(s)} \in SUBSET T /\ s \ {Pick(s)} # T
        BY <2>2, PickIn
      <3> QED
        BY <2>1, <3>1
    <2>3. g = [s \in SUBSET T |-> IF s = {} THEN 0 ELSE f[Pick(s)] + g[s \ {Pick(s)}]]
      <3> DEFINE k == [s \in SUBSET T |-> IF s = {} THEN 0 ELSE f[Pick(s)] + g[s \ {Pick(s)}]]
      <3>1. \A s \in SUBSET T : g[s] = k[s]
        BY <2>2
      <3> QED
        BY <3>1
    <2>4. IsSum(g, f, T)
      BY <2>3 DEF IsSum
    <2> HIDE DEF g
    <2>5. IsSum(TheSum(f, T), f, T)
      BY <2>4 DEF TheSum
    <2> QED
      BY <2>5
  <1> HIDE DEF P
  <1>2. \A T \in SUBSET S : T \in P
    BY <1>1, SubsetInduction
  <1> QED
    BY <1>2 DEF P

LEMMA SumEmpty == ASSUME NEW f PROVE SumOf(f, {}) = 0
  <1>1. IsSum(TheSum(f, {}), f, {})
    BY SumExists, FS_EmptySet
  <1> QED
    BY <1>1, SumIsFold DEF IsSum

LEMMA SumPick ==
    ASSUME NEW f, NEW S, IsFiniteSet(S), S # {}
    PROVE  SumOf(f, S) = f[Pick(S)] + SumOf(f, S \ {Pick(S)})
  <1> DEFINE T == S \ {Pick(S)}
  <1>1. T \in SUBSET S /\ IsFiniteSet(T)
    BY FS_Subset
  <1>2. IsSum(TheSum(f, S), f, S) /\ IsSum(TheSum(f, T), f, T)
    BY <1>1, SumExists
  <1>3. TheSum(f, S)[T] = TheSum(f, T)[T]
    <2> HIDE DEF T
    <2> QED
      BY <1>1, <1>2, SumsAgree
  <1>4. TheSum(f, S)[S] = f[Pick(S)] + TheSum(f, S)[T]
    BY <1>2 DEF IsSum
  <1> QED
    BY <1>3, <1>4, SumIsFold

\* A sum of integers is one.
LEMMA SumInt ==
    ASSUME NEW f, NEW S, IsFiniteSet(S), \A x \in S : f[x] \in Int
    PROVE  SumOf(f, S) \in Int
  <1> DEFINE P == { T \in SUBSET S : SumOf(f, T) \in Int }
  <1>1. ASSUME NEW T \in SUBSET S, \A U \in SUBSET T : U # T => U \in P
        PROVE  T \in P
    <2>1. CASE T = {}
      BY <2>1, SumEmpty
    <2>2. CASE T # {}
      <3>1. IsFiniteSet(T) /\ Pick(T) \in T /\ T \ {Pick(T)} \in P
        BY <1>1, <2>2, FS_Subset, PickIn
      <3>2. SumOf(f, T) = f[Pick(T)] + SumOf(f, T \ {Pick(T)})
        BY <2>2, <3>1, SumPick
      <3> QED
        BY <3>1, <3>2
    <2> QED
      BY <2>1, <2>2
  <1> HIDE DEF P
  <1>2. \A T \in SUBSET S : T \in P
    BY <1>1, SubsetInduction
  <1> QED
    BY <1>2 DEF P

\* Any element may be taken out first.
LEMMA SumRemove ==
    ASSUME NEW f, NEW S, IsFiniteSet(S), \A x \in S : f[x] \in Int, NEW a \in S
    PROVE  SumOf(f, S) = f[a] + SumOf(f, S \ {a})
  <1> DEFINE P == { T \in SUBSET S : \A x \in T : SumOf(f, T) = f[x] + SumOf(f, T \ {x}) }
  <1>1. ASSUME NEW T \in SUBSET S, \A U \in SUBSET T : U # T => U \in P
        PROVE  T \in P
    <2> SUFFICES ASSUME NEW x \in T PROVE SumOf(f, T) = f[x] + SumOf(f, T \ {x})
      OBVIOUS
    <2> DEFINE p == Pick(T)
    <2>1. IsFiniteSet(T) /\ p \in T
      BY FS_Subset, PickIn
    <2>2. SumOf(f, T) = f[p] + SumOf(f, T \ {p})
      BY <2>1, SumPick
    <2>3. CASE p = x
      BY <2>2, <2>3
    <2>4. CASE p # x
      <3> HIDE DEF p
      <3> DEFINE Q == (T \ {p}) \ {x}
      <3>1. T \ {p} \in P /\ T \ {x} \in P
        BY <1>1, <2>1
      <3>2. SumOf(f, T \ {p}) = f[x] + SumOf(f, Q)
        BY <2>4, <3>1
      <3>3. (T \ {x}) \ {p} = Q
        OBVIOUS
      <3>4. SumOf(f, T \ {x}) = f[p] + SumOf(f, Q)
        BY <2>1, <2>4, <3>1, <3>3
      <3>5. f[p] \in Int /\ f[x] \in Int
        BY <2>1
      <3>6. IsFiniteSet(Q) /\ \A y \in Q : f[y] \in Int
        BY <2>1, FS_Subset
      <3>7. SumOf(f, Q) \in Int
        BY <3>6, SumInt
      <3> QED
        BY <2>2, <3>2, <3>4, <3>5, <3>7
    <2> QED
      BY <2>3, <2>4
  <1> HIDE DEF P
  <1>2. \A T \in SUBSET S : T \in P
    BY <1>1, SubsetInduction
  <1> QED
    BY <1>2 DEF P

\* Induction over the subsets, element by element.
LEMMA ElementInduction ==
    ASSUME NEW S, IsFiniteSet(S), NEW P, {} \in P,
           \A T \in SUBSET S : \A a \in T : T \ {a} \in P => T \in P
    PROVE  S \in P
  <1>1. ASSUME NEW T \in SUBSET S, \A U \in SUBSET T : U # T => U \in P
        PROVE  T \in P
    <2>1. CASE T # {}
      <3>1. PICK a \in T : TRUE
        BY <2>1
      <3>2. T \ {a} \in SUBSET T /\ T \ {a} # T
        OBVIOUS
      <3> QED
        BY <1>1, <3>2
    <2> QED
      BY <2>1
  <1> QED
    BY <1>1, SubsetInduction

\* g is f, raised by m on the elements of K.
RaisedOn(K, m, f, g, S) ==
    \A x \in S : f[x] \in Int /\ g[x] = f[x] + IF x \in K THEN m ELSE 0

LEMMA SumRaised ==
    ASSUME NEW S, IsFiniteSet(S), NEW f, NEW g, NEW K, NEW m \in Int, RaisedOn(K, m, f, g, S)
    PROVE  SumOf(g, S) = SumOf(f, S) + Cardinality(S \cap K) * m
  <1> DEFINE Raised(T) == SumOf(g, T) = SumOf(f, T) + Cardinality(T \cap K) * m
             P == { T \in SUBSET S : Raised(T) }
  <1>0. \A x \in S : f[x] \in Int /\ g[x] = f[x] + IF x \in K THEN m ELSE 0
    BY DEF RaisedOn
  <1>1. {} \in P
    <2>1. SumOf(f, {}) = 0 /\ SumOf(g, {}) = 0
      BY SumEmpty
    <2>2. Cardinality({} \cap K) = 0
      <3>1. {} \cap K = {}
        OBVIOUS
      <3> QED
        BY <3>1, FS_EmptySet
    <2> QED
      BY <2>1, <2>2
  <1>2. ASSUME NEW T \in SUBSET S, NEW a \in T, T \ {a} \in P
        PROVE  T \in P
    <2> DEFINE Q == T \ {a}
               n == Cardinality(Q \cap K)
    <2>1. IsFiniteSet(T) /\ IsFiniteSet(Q) /\ IsFiniteSet(Q \cap K)
      BY FS_Subset
    <2>2. n \in Nat
      BY <2>1, FS_CardinalityType
    <2>3. Cardinality(T \cap K) = IF a \in K THEN n + 1 ELSE n
      <3>1. CASE a \in K
        <4>1. T \cap K = (Q \cap K) \cup {a} /\ a \notin Q \cap K
          BY <3>1
        <4> QED
          BY <2>1, <3>1, <4>1, FS_AddElement
      <3>2. CASE a \notin K
        <4>1. T \cap K = Q \cap K
          BY <3>2
        <4> QED
          BY <3>2, <4>1
      <3> QED
        BY <3>1, <3>2
    <2>4. SumOf(f, T) = f[a] + SumOf(f, Q)
      BY <1>0, <2>1, SumRemove
    <2>5. \A x \in S : g[x] \in Int
      BY <1>0
    <2>6. SumOf(g, T) = g[a] + SumOf(g, Q)
      BY <2>1, <2>5, SumRemove
    <2>7. SumOf(f, Q) \in Int
      <3>1. \A x \in Q : f[x] \in Int
        BY <1>0
      <3> HIDE DEF Q
      <3> QED
        BY <2>1, <3>1, SumInt
    <2>8. SumOf(g, Q) = SumOf(f, Q) + n * m
      BY <1>2
    <2>9. f[a] \in Int /\ g[a] = f[a] + IF a \in K THEN m ELSE 0
      BY <1>0
    <2> HIDE DEF Q, n
    <2>10. (n + 1) * m = n * m + m /\ n * m \in Int
      BY <2>2
    <2>11. Raised(T)
      BY <2>2, <2>3, <2>4, <2>6, <2>7, <2>8, <2>9, <2>10
    <2> QED
      BY <2>11
  <1> HIDE DEF P
  <1>3. S \in P
    BY <1>1, <1>2, ElementInduction
  <1> QED
    BY <1>3 DEF P

\* Sums of what is close, element by element, are close.
LEMMA SumsClose ==
    ASSUME NEW S, IsFiniteSet(S), NEW u, NEW p, NEW q, NEW b,
           \A x \in S : /\ u[x] \in Int /\ p[x] \in Int /\ q[x] \in Int /\ b[x] \in Int
                        /\ u[x] - (p[x] - q[x]) <= b[x] /\ (p[x] - q[x]) - u[x] <= b[x]
    PROVE  /\ SumOf(u, S) - (SumOf(p, S) - SumOf(q, S)) <= SumOf(b, S)
           /\ (SumOf(p, S) - SumOf(q, S)) - SumOf(u, S) <= SumOf(b, S)
  <1> DEFINE Close(T) == /\ SumOf(u, T) - (SumOf(p, T) - SumOf(q, T)) <= SumOf(b, T)
                         /\ (SumOf(p, T) - SumOf(q, T)) - SumOf(u, T) <= SumOf(b, T)
             P == { T \in SUBSET S : Close(T) }
  <1>1. {} \in P
    <2>1. SumOf(u, {}) = 0 /\ SumOf(p, {}) = 0 /\ SumOf(q, {}) = 0 /\ SumOf(b, {}) = 0
      BY SumEmpty
    <2> QED
      BY <2>1
  <1>2. ASSUME NEW T \in SUBSET S, NEW a \in T, T \ {a} \in P
        PROVE  T \in P
    <2> DEFINE Q == T \ {a}
    <2>1. IsFiniteSet(T) /\ IsFiniteSet(Q)
      BY FS_Subset
    <2>2. ASSUME NEW f, \A x \in S : f[x] \in Int
          PROVE  SumOf(f, T) = f[a] + SumOf(f, Q) /\ SumOf(f, Q) \in Int
      <3>1. SumOf(f, T) = f[a] + SumOf(f, Q)
        BY <2>1, <2>2, SumRemove
      <3>2. \A x \in Q : f[x] \in Int
        BY <2>2
      <3> HIDE DEF Q
      <3>3. SumOf(f, Q) \in Int
        BY <2>1, <3>2, SumInt
      <3> QED
        BY <3>1, <3>3
    <2>3. Close(Q)
      BY <1>2
    <2> HIDE DEF Q
    <2>4. SumOf(u, T) = u[a] + SumOf(u, Q) /\ SumOf(u, Q) \in Int
      BY <2>2
    <2>5. SumOf(p, T) = p[a] + SumOf(p, Q) /\ SumOf(p, Q) \in Int
      BY <2>2
    <2>6. SumOf(q, T) = q[a] + SumOf(q, Q) /\ SumOf(q, Q) \in Int
      BY <2>2
    <2>7. SumOf(b, T) = b[a] + SumOf(b, Q) /\ SumOf(b, Q) \in Int
      BY <2>2
    <2>8. Close(T)
      BY <2>3, <2>4, <2>5, <2>6, <2>7
    <2> QED
      BY <2>8
  <1> HIDE DEF P
  <1>3. S \in P
    BY <1>1, <1>2, ElementInduction
  <1> QED
    BY <1>3 DEF P

\* Of what is not negative, a part sums up to no more than the whole.
LEMMA SumOfPart ==
    ASSUME NEW S, IsFiniteSet(S), NEW f, \A x \in S : f[x] \in Nat, NEW R \in SUBSET S
    PROVE  SumOf(f, R) <= SumOf(f, S)
  <1> DEFINE P == { T \in SUBSET S : SumOf(f, T \cap R) <= SumOf(f, T) }
  <1>1. {} \in P
    <2>1. {} \cap R = {}
      OBVIOUS
    <2> QED
      BY <2>1, SumEmpty
  <1>2. ASSUME NEW T \in SUBSET S, NEW a \in T, T \ {a} \in P
        PROVE  T \in P
    <2> DEFINE Q == T \ {a}
    <2>1. IsFiniteSet(T) /\ IsFiniteSet(Q) /\ IsFiniteSet(T \cap R) /\ IsFiniteSet(Q \cap R)
      BY FS_Subset
    <2>2. \A x \in S : f[x] \in Int
      OBVIOUS
    <2>3. SumOf(f, T) = f[a] + SumOf(f, Q)
      BY <2>1, <2>2, SumRemove
    <2>4. SumOf(f, Q \cap R) \in Int /\ SumOf(f, Q) \in Int
      <3>1. (\A x \in Q : f[x] \in Int) /\ (\A x \in Q \cap R : f[x] \in Int)
        BY <2>2
      <3> HIDE DEF Q
      <3> QED
        BY <2>1, <3>1, SumInt
    <2>5. SumOf(f, T \cap R) = SumOf(f, Q \cap R) + IF a \in R THEN f[a] ELSE 0
      <3>1. CASE a \in R
        <4>1. (T \cap R) \ {a} = Q \cap R /\ a \in T \cap R /\ \A x \in T \cap R : f[x] \in Int
          BY <2>2, <3>1
        <4>2. SumOf(f, T \cap R) = f[a] + SumOf(f, (T \cap R) \ {a})
          BY <2>1, <4>1, SumRemove
        <4>3. f[a] \in Int
          BY <2>2
        <4> HIDE DEF Q
        <4>4. SumOf(f, T \cap R) = f[a] + SumOf(f, Q \cap R)
          BY <4>1, <4>2, Zenon
        <4> QED
          BY <2>4, <3>1, <4>3, <4>4
      <3>2. CASE a \notin R
        <4>1. T \cap R = Q \cap R
          BY <3>2
        <4> HIDE DEF Q
        <4> QED
          BY <2>4, <3>2, <4>1
      <3> QED
        BY <3>1, <3>2
    <2>6. SumOf(f, Q \cap R) <= SumOf(f, Q) /\ f[a] \in Nat
      BY <1>2
    <2>7. SumOf(f, T \cap R) <= SumOf(f, T)
      <3> HIDE DEF Q
      <3> QED
        BY <2>3, <2>4, <2>5, <2>6
    <2> QED
      BY <2>7
  <1> HIDE DEF P
  <1>3. S \in P /\ S \cap R = R
    BY <1>1, <1>2, ElementInduction
  <1> QED
    BY <1>3 DEF P

\* A sum of zeros is zero.
LEMMA SumOfZeros ==
    ASSUME NEW S, IsFiniteSet(S), NEW f, \A x \in S : f[x] = 0
    PROVE  SumOf(f, S) = 0
  <1> DEFINE P == { T \in SUBSET S : SumOf(f, T) = 0 }
  <1>1. ASSUME NEW T \in SUBSET S, \A U \in SUBSET T : U # T => U \in P
        PROVE  T \in P
    <2>1. CASE T # {}
      <3>1. IsFiniteSet(T) /\ Pick(T) \in T /\ T \ {Pick(T)} \in P
        BY <1>1, <2>1, FS_Subset, PickIn
      <3>2. SumOf(f, T) = f[Pick(T)] + SumOf(f, T \ {Pick(T)})
        BY <2>1, <3>1, SumPick
      <3> QED
        BY <3>1, <3>2
    <2> QED
      BY <2>1, SumEmpty
  <1> HIDE DEF P
  <1>2. \A T \in SUBSET S : T \in P
    BY <1>1, SubsetInduction
  <1> QED
    BY <1>2 DEF P

-----------------------------------------------------------------------------
(* The drift of the reported repositories.  The usage of a customer is the  *)
(* sum of what was recorded for each of its events, and every failure       *)
(* explains that one event was recorded once too often or once too rarely.  *)

BP == INSTANCE AutumnBillingProofs WITH Callers <- Handlers

Repos == "repos"
RepoPlaces == {"ensure", "ensuring", "track", "tracking"}

\* What the runs assume: finitely many deliveries and requests at a time, and a
\* feature repos that is in Autumn's dashboard (an answer feature_not_found is no
\* failure of the model, and nothing is ever recorded for it).
Finite == IsFiniteSet(Deliveries) /\ Deliveries # {} /\ IsFiniteSet(Handlers)
ReposExist == Repos \in Features \ Misconfigured

\* An event is what GitHub sends: it parses, an installation that comes lists what
\* it adds, one that goes what it removes, and any other changes no repository.
WellFormed(e) ==
    e.signed /\ e.kind \in {"installation", "installation_repositories"} =>
        /\ e.parses
        /\ e.kind = "installation" =>
             \/ e.action = "created" /\ e.removed = 0
             \/ e.action = "deleted" /\ e.added = 0
             \/ e.action \notin {"created", "deleted"} /\ e.added = e.removed

DriftAssumptions == Finite /\ ReposExist /\ \A d \in Deliveries : WellFormed(EventOf[d])

\* What delivery d is to record.
Weight(d) == IF Accepts(EventOf[d]) /\ EventOf[d].parses THEN Delta(EventOf[d]) ELSE 0

\* Handler h may still record it.
Unrecorded(h) ==
    \/ pc[h] \in {"ensure", "ensuring", "track"}
    \/ pc[h] = "tracking" /\ call[h].result = "none"

\* The handlers that may still record d though GitHub holds it for failed.
Strays(d) == { h \in Handlers : serves[h] = d /\ ~ waiting[h] /\ Unrecorded(h) }

\* GitHub holds d for delivered, or will when the handler it waits for answers.
Settled(d) ==
    \/ answered[d] = "ok"
    \/ \E h \in Handlers : waiting[h] /\ serves[h] = d /\ ~ Unrecorded(h)

Target(d) == IF Settled(d) THEN Weight(d) ELSE 0

Size(y) == IF y < 0 THEN - y ELSE y

\* How far y, recorded for d, may still end from where it belongs.
Off(y, d) == Size(y - Target(d)) + Cardinality(Strays(d)) * MostRepos

\* Where handler h is, and what that says of its delivery and its call.
Placed(h) ==
    /\ pc[h] # "idle" => serves[h] \in Deliveries
    /\ waiting[h] => pc[h] # "idle" /\ answered[serves[h]] = "pending"
    /\ pc[h] = "enqueue" => Accepts(Event(h)) /\ Weight(serves[h]) = 0
    /\ pc[h] \in RepoPlaces => Accepts(Event(h)) /\ Event(h).parses
    /\ call[h] # BP!NoCall <=> pc[h] \in {"ensuring", "tracking"}
    /\ pc[h] = "ensuring" => call[h].op = "ensure"
    /\ pc[h] = "tracking" => /\ call[h].op = "track" /\ call[h].feature = Repos
                             /\ call[h].customer = Event(h).customer
                             /\ call[h].value = Delta(Event(h))
    /\ pc[h] = "reply" => /\ Success(status[h]) => Accepts(Event(h))
                          /\ Weight(serves[h]) # 0 => status[h] = 200

Typed ==
    /\ pc \in [Handlers -> Places]
    /\ serves \in [Handlers -> Deliveries \cup {"none"}]
    /\ status \in [Handlers -> Int]
    /\ waiting \in [Handlers -> BOOLEAN]
    /\ answered \in [Deliveries -> {"none", "pending", "ok", "failed"}]

PlaceInv ==
    /\ BP!IInv
    /\ Typed
    /\ \A h \in Handlers : Placed(h)
    /\ \A g, h \in Handlers : waiting[g] /\ waiting[h] /\ serves[g] = serves[h] => g = h
    /\ \A d \in Deliveries : answered[d] = "ok" => Accepts(EventOf[d])

\* u[d] was recorded for d, and b[d] bounds how far that may end from its place.
Account ==
    \E u \in [Deliveries -> Int], b \in [Deliveries -> Nat] :
        /\ \A c \in Customers : usage[c][Repos] = SumOf(u, RepoEvents(c))
        /\ \A d \in Deliveries : Off(u[d], d) <= b[d]
        /\ SumOf(b, Deliveries) <= faults * MostRepos

-----------------------------------------------------------------------------
(* The billing gate of Webhook is that of AutumnBillingProofs.             *)

LEMMA SameNames ==
    /\ B!NoCall = BP!NoCall
    /\ \A h \in Handlers : B!Open(h) <=> BP!Open(h)
  BY DEF B!NoCall, BP!NoCall, B!Open, BP!Open

LEMMA SameAnswer ==
    ASSUME NEW h \in Handlers, B!Answer(h)
    PROVE  BP!TrackFeature(h) \/ BP!CheckFeature(h) \/ BP!EnsureCustomerExists(h)
  <1>1. CASE B!CheckFeature(h)
    <2>1. BP!CheckFeature(h)
      BY <1>1
      DEF B!CheckFeature, B!Asking, B!Open, B!Served, B!Missing, B!Clean, B!Finish, B!Verdict,
          B!NoFeature, B!Unknown, B!NotFound, B!Faulty, B!Create,
          BP!CheckFeature, BP!Asking, BP!Open, BP!Served, BP!Missing, BP!Clean, BP!Finish, BP!Verdict,
          BP!NoFeature, BP!Unknown, BP!NotFound, BP!Faulty, BP!Create
    <2> QED
      BY <2>1
  <1>2. CASE B!TrackFeature(h)
    <2>1. BP!TrackFeature(h)
      BY <1>2
      DEF B!TrackFeature, B!Asking, B!Open, B!Served, B!Missing, B!Clean, B!Finish, B!Record,
          B!NoFeature, B!Unknown, B!NotFound, B!Faulty, B!Create,
          BP!TrackFeature, BP!Asking, BP!Open, BP!Served, BP!Missing, BP!Clean, BP!Finish, BP!Record,
          BP!NoFeature, BP!Unknown, BP!NotFound, BP!Faulty, BP!Create
    <2> QED
      BY <2>1
  <1>3. CASE B!EnsureCustomerExists(h)
    <2>1. BP!EnsureCustomerExists(h)
      BY <1>3
      DEF B!EnsureCustomerExists, B!Creating, B!Open, B!Clean, B!Finish, B!Faulty,
          BP!EnsureCustomerExists, BP!Creating, BP!Open, BP!Clean, BP!Finish, BP!Faulty
    <2> QED
      BY <2>1
  <1> QED
    BY <1>1, <1>2, <1>3 DEF B!Answer

LEMMA SameReturn ==
    ASSUME NEW h \in Handlers
    PROVE  /\ B!Return(h) => BP!Return(h)
           /\ B!Cancel(h) => BP!Cancel(h)
           /\ \A op, c, f, v : B!Request(h, op, c, f, v) => BP!Request(h, op, c, f, v)
  <1>1. B!Return(h) => BP!Return(h)
    BY DEF B!Return, BP!Return, B!NoCall, BP!NoCall, B!NewTrace, BP!NewTrace
  <1>2. B!Cancel(h) => BP!Cancel(h)
    BY DEF B!Cancel, BP!Cancel, B!NoCall, BP!NoCall, B!NewTrace, BP!NewTrace, B!Open, BP!Open,
           B!Creating, BP!Creating, B!Asking, BP!Asking, B!Served, BP!Served, B!Missing, BP!Missing,
           B!Record, BP!Record
  <1>3. ASSUME NEW op, NEW c, NEW f, NEW v, B!Request(h, op, c, f, v)
        PROVE  BP!Request(h, op, c, f, v)
    BY <1>3 DEF B!Request, BP!Request, B!NoCall, BP!NoCall, B!NewTrace, BP!NewTrace
  <1> QED
    BY <1>1, <1>2, <1>3

-----------------------------------------------------------------------------
(* What the steps do to the account.                                        *)

LEMMA MaxOfFinite ==
    ASSUME NEW S, IsFiniteSet(S), S # {}, S \subseteq Nat
    PROVE  Max(S) \in S /\ \A y \in S : y <= Max(S)
  <1> DEFINE HasMax(T) == T = {} \/ \E x \in T : \A y \in T : x >= y
             P == { T \in SUBSET S : HasMax(T) }
  <1>1. ASSUME NEW T \in SUBSET S, NEW a \in T, T \ {a} \in P PROVE T \in P
    <2>1. CASE T \ {a} = {}
      <3>1. T = {a} /\ a \in Nat
        BY <2>1
      <3> QED
        BY <3>1
    <2>2. CASE \E x \in T \ {a} : \A y \in T \ {a} : x >= y
      <3>1. PICK x \in T \ {a} : \A y \in T \ {a} : x >= y
        BY <2>2
      <3>2. x \in Nat /\ a \in Nat /\ T \subseteq Nat
        OBVIOUS
      <3>3. HasMax(T)
        <4>1. CASE x >= a
          BY <3>1, <3>2, <4>1
        <4>2. CASE ~ (x >= a)
          <5>1. \A y \in T : a >= y
            BY <3>1, <3>2, <4>2
          <5> QED
            BY <5>1
        <4> QED
          BY <4>1, <4>2
      <3> QED
        BY <3>3
    <2> QED
      BY <1>1, <2>1, <2>2
  <1>2. {} \in P
    OBVIOUS
  <1> HIDE DEF P
  <1>3. S \in P
    BY <1>1, <1>2, ElementInduction
  <1>4. \E x \in S : \A y \in S : x >= y
    BY <1>3 DEF P
  <1>5. Max(S) \in S /\ \A y \in S : Max(S) >= y
    BY <1>4, Zenon DEF Max
  <1> QED
    BY <1>5

LEMMA WeightBound ==
    ASSUME DriftAssumptions
    PROVE  /\ MostRepos \in Nat
           /\ \A d \in Deliveries :
                Weight(d) \in Int /\ Weight(d) <= MostRepos /\ - Weight(d) <= MostRepos
  <1> DEFINE S == { EventOf[d].added + EventOf[d].removed : d \in Deliveries }
  <1>1. IsFiniteSet(S)
    <2>1. IsFiniteSet(Deliveries)
      BY DEF DriftAssumptions, Finite
    <2> DEFINE n == [d \in Deliveries |-> EventOf[d].added + EventOf[d].removed]
    <2>2. n \in Surjection(Deliveries, S)
      BY DEF Surjection
    <2> HIDE DEF n, S
    <2> QED
      BY <2>1, <2>2, FS_Surjection
  <1>2. S # {} /\ S \subseteq Nat
    BY EventAssumption DEF DriftAssumptions, Finite
  <1>3. MostRepos = Max(S)
    BY DEF MostRepos
  <1>4. \A d \in Deliveries : EventOf[d].added + EventOf[d].removed \in S
    OBVIOUS
  <1> HIDE DEF S
  <1>5. MostRepos \in S /\ \A y \in S : y <= MostRepos
    BY <1>1, <1>2, <1>3, MaxOfFinite
  <1>6. ASSUME NEW d \in Deliveries
        PROVE  Weight(d) \in Int /\ Weight(d) <= MostRepos /\ - Weight(d) <= MostRepos
    <2> DEFINE p == EventOf[d].added
               q == EventOf[d].removed
    <2>1. p \in Nat /\ q \in Nat /\ p + q <= MostRepos
      BY <1>4, <1>5, EventAssumption
    <2>2. Weight(d) \in {0, p, - q, p - q}
      BY DEF Weight, Delta
    <2>3. MostRepos \in Nat
      BY <1>2, <1>5
    <2> HIDE DEF p, q
    <2> QED
      BY <2>1, <2>2, <2>3
  <1> QED
    BY <1>2, <1>5, <1>6

LEMMA ProductGrows ==
    ASSUME NEW m \in Nat, NEW i \in Nat, NEW j \in Nat, i <= j
    PROVE  i * m <= j * m
  <1>1. PICK r \in Nat : j = i + r
    <2>1. j - i \in Nat /\ j = i + (j - i)
      OBVIOUS
    <2> QED
      BY <2>1
  <1>2. j * m = i * m + r * m
    BY <1>1
  <1>3. i * m \in Nat /\ r * m \in Nat
    OBVIOUS
  <1> QED
    BY <1>2, <1>3

LEMMA EventsAreFinite ==
    ASSUME DriftAssumptions, NEW c \in Customers
    PROVE  /\ RepoEvents(c) \in SUBSET Deliveries /\ IsFiniteSet(RepoEvents(c))
           /\ IsFiniteSet(Deliveries)
  <1>1. RepoEvents(c) \in SUBSET Deliveries /\ IsFiniteSet(Deliveries)
    BY DEF RepoEvents, DriftAssumptions, Finite
  <1> QED
    BY <1>1, FS_Subset

LEMMA StraysAreFinite ==
    ASSUME DriftAssumptions, NEW d \in Deliveries
    PROVE  /\ IsFiniteSet(Strays(d)) /\ Cardinality(Strays(d)) \in Nat
           /\ IsFiniteSet(Strays(d))' /\ Cardinality(Strays(d))' \in Nat
  <1>1. Strays(d) \in SUBSET Handlers /\ Strays(d)' \in SUBSET Handlers
    BY DEF Strays
  <1>2. IsFiniteSet(Handlers)
    BY DEF DriftAssumptions, Finite
  <1>3. \A H \in SUBSET Handlers : IsFiniteSet(H) /\ Cardinality(H) \in Nat
    BY <1>2, FS_Subset, FS_CardinalityType
  <1> QED
    BY <1>1, <1>3

LEMMA OffIsInt ==
    ASSUME DriftAssumptions
    PROVE  \A d \in Deliveries : \A y \in Int : Off(y, d) \in Int /\ Off(y, d)' \in Int
  <1> SUFFICES ASSUME NEW d \in Deliveries, NEW y \in Int
               PROVE  Off(y, d) \in Int /\ Off(y, d)' \in Int
    OBVIOUS
  <1>1. MostRepos \in Nat /\ Weight(d) \in Int
    BY WeightBound
  <1>2. Target(d) \in Int /\ Target(d)' \in Int
    BY <1>1 DEF Target
  <1>3. Cardinality(Strays(d)) \in Nat /\ Cardinality(Strays(d))' \in Nat
    BY StraysAreFinite
  <1>4. /\ Size(y - Target(d)) \in Int /\ Size(y - Target(d))' \in Int
    BY <1>2 DEF Size
  <1>5. \A n \in Nat : n * MostRepos \in Int
    BY <1>1
  <1> QED
    BY <1>3, <1>4, <1>5 DEF Off

\* A step records x for delivery d.
Booked(d, x) ==
    \A c \in Customers :
        usage'[c][Repos] = usage[c][Repos] + IF d \in RepoEvents(c) THEN x ELSE 0

\* It leaves no delivery further from its place, but for those of K: a failure
\* each.
Explained(K, d, x) ==
    \A e \in Deliveries : \A y, z \in Int :
        z = (y + IF e = d THEN x ELSE 0) =>
            Off(z, e)' <= Off(y, e) + (IF e \in K THEN MostRepos ELSE 0)

LEMMA AccountStep ==
    ASSUME DriftAssumptions, Account, faults \in Nat, faults' \in Nat,
           NEW K \in SUBSET Deliveries, NEW d \in Deliveries, NEW x \in Int,
           faults + Cardinality(K) <= faults', Booked(d, x), Explained(K, d, x)
    PROVE  Account'
  <1>1. PICK u \in [Deliveries -> Int], b \in [Deliveries -> Nat] :
          /\ \A c \in Customers : usage[c][Repos] = SumOf(u, RepoEvents(c))
          /\ \A e \in Deliveries : Off(u[e], e) <= b[e]
          /\ SumOf(b, Deliveries) <= faults * MostRepos
    BY DEF Account
  <1>2. MostRepos \in Nat
    BY WeightBound
  <1> DEFINE v == [e \in Deliveries |-> u[e] + IF e \in {d} THEN x ELSE 0]
             w == [e \in Deliveries |-> b[e] + IF e \in K THEN MostRepos ELSE 0]
  <1>3. v \in [Deliveries -> Int] /\ w \in [Deliveries -> Nat]
    BY <1>2
  <1>4. ASSUME NEW c \in Customers PROVE usage'[c][Repos] = SumOf(v, RepoEvents(c))
    <2> DEFINE R == RepoEvents(c)
    <2>1. R \in SUBSET Deliveries /\ IsFiniteSet(R)
      BY EventsAreFinite
    <2>2. RaisedOn({d}, x, u, v, R) /\ \A e \in R : u[e] \in Int
      BY <2>1 DEF RaisedOn
    <2> HIDE DEF v, R
    <2>3. SumOf(v, R) = SumOf(u, R) + Cardinality(R \cap {d}) * x
      BY <2>1, <2>2, SumRaised
    <2>4. CASE d \in R
      <3>1. R \cap {d} = {d}
        BY <2>4
      <3>2. Cardinality(R \cap {d}) = 1
        BY <3>1, FS_Singleton
      <3>3. SumOf(v, R) = SumOf(u, R) + x
        BY <2>3, <3>2
      <3> QED
        BY <1>1, <2>4, <3>3 DEF R, Booked
    <2>5. CASE d \notin R
      <3>1. R \cap {d} = {}
        BY <2>5
      <3>2. Cardinality(R \cap {d}) = 0
        BY <3>1, FS_EmptySet
      <3>3. SumOf(u, R) \in Int
        BY <2>1, <2>2, SumInt
      <3>4. SumOf(v, R) = SumOf(u, R)
        BY <2>3, <3>2, <3>3
      <3>5. usage[c][Repos] = SumOf(u, R)
        BY <1>1 DEF R
      <3>6. usage'[c][Repos] = usage[c][Repos] + 0
        BY <2>5 DEF R, Booked
      <3> QED
        BY <3>3, <3>4, <3>5, <3>6 DEF R
    <2> QED
      BY <2>4, <2>5
  <1>5. ASSUME NEW e \in Deliveries PROVE Off(v[e], e)' <= w[e]
    <2>1. PICK y \in Int, z \in Int : y = u[e] /\ z = v[e]
      BY <1>3
    <2>2. z = y + IF e = d THEN x ELSE 0
      BY <2>1
    <2>3. Off(z, e)' <= Off(y, e) + (IF e \in K THEN MostRepos ELSE 0)
      BY <2>2 DEF Explained
    <2>4. Off(y, e) <= b[e] /\ b[e] \in Nat
      BY <1>1, <2>1
    <2>5. w[e] = b[e] + IF e \in K THEN MostRepos ELSE 0
      OBVIOUS
    <2>6. Off(z, e)' \in Int /\ Off(y, e) \in Int
      BY OffIsInt
    <2> HIDE DEF v, w
    <2>7. Off(z, e)' <= w[e]
      BY <1>2, <2>3, <2>4, <2>5, <2>6
    <2> QED
      BY <2>1, <2>7
  <1>6. SumOf(w, Deliveries) <= faults' * MostRepos
    <2>1. IsFiniteSet(Deliveries) /\ IsFiniteSet(K) /\ Deliveries \cap K = K
      BY FS_Subset DEF DriftAssumptions, Finite
    <2>2. RaisedOn(K, MostRepos, b, w, Deliveries) /\ \A e \in Deliveries : b[e] \in Int
      BY <1>1 DEF RaisedOn
    <2> HIDE DEF w
    <2>8. MostRepos \in Int
      BY <1>2
    <2>3. SumOf(w, Deliveries) = SumOf(b, Deliveries) + Cardinality(Deliveries \cap K) * MostRepos
      BY <2>1, <2>2, <2>8, SumRaised
    <2>4. Cardinality(K) \in Nat
      BY <2>1, FS_CardinalityType
    <2>5. faults * MostRepos + Cardinality(K) * MostRepos <= faults' * MostRepos
      <3>1. faults + Cardinality(K) \in Nat
        BY <2>4
      <3>2. (faults + Cardinality(K)) * MostRepos <= faults' * MostRepos
        BY <1>2, <3>1, ProductGrows
      <3>3. (faults + Cardinality(K)) * MostRepos = faults * MostRepos + Cardinality(K) * MostRepos
        BY <1>2, <2>4
      <3> QED
        BY <3>2, <3>3
    <2>6. SumOf(b, Deliveries) \in Int
      BY <2>1, <2>2, SumInt
    <2>7. /\ faults * MostRepos \in Int /\ faults' * MostRepos \in Int
          /\ Cardinality(K) * MostRepos \in Int
      BY <1>2, <2>4
    <2>9. SumOf(w, Deliveries) = SumOf(b, Deliveries) + Cardinality(K) * MostRepos
      BY <2>1, <2>3
    <2> QED
      BY <1>1, <2>5, <2>6, <2>7, <2>9
  <1> HIDE DEF v, w
  <1> QED
    BY <1>3, <1>4, <1>5, <1>6 DEF Account

-----------------------------------------------------------------------------
(* What a step changes of Off.                                              *)

\* Nothing is recorded, and no delivery is moved from its place or towards it.
StillFor(d) == Target(d)' = Target(d) /\ Strays(d)' = Strays(d)

LEMMA StillStep ==
    ASSUME DriftAssumptions, Account, faults \in Nat, faults' \in Nat, faults <= faults',
           \A c \in Customers : usage'[c][Repos] = usage[c][Repos],
           \A d \in Deliveries : StillFor(d)
    PROVE  Account'
  <1>1. PICK u \in [Deliveries -> Int], b \in [Deliveries -> Nat] :
          /\ \A c \in Customers : usage[c][Repos] = SumOf(u, RepoEvents(c))
          /\ \A e \in Deliveries : Off(u[e], e) <= b[e]
          /\ SumOf(b, Deliveries) <= faults * MostRepos
    BY DEF Account
  <1>2. ASSUME NEW e \in Deliveries PROVE Off(u[e], e)' <= b[e]
    <2>1. Off(u[e], e)' = Off(u[e], e)
      BY DEF StillFor, Off
    <2> QED
      BY <1>1, <2>1
  <1>3. SumOf(b, Deliveries) <= faults' * MostRepos
    <2>1. MostRepos \in Nat
      BY WeightBound
    <2>2. faults * MostRepos <= faults' * MostRepos
      BY <2>1, ProductGrows
    <2>3. SumOf(b, Deliveries) \in Int
      <3>1. IsFiniteSet(Deliveries) /\ \A e \in Deliveries : b[e] \in Int
        BY DEF DriftAssumptions, Finite
      <3> QED
        BY <3>1, SumInt
    <2>4. faults * MostRepos \in Int /\ faults' * MostRepos \in Int
      BY <2>1
    <2> QED
      BY <1>1, <2>2, <2>3, <2>4
  <1> QED
    BY <1>1, <1>2, <1>3 DEF Account

\* The other handlers stay where they are.
OthersStay(h) ==
    \A g \in Handlers : g # h => /\ serves'[g] = serves[g] /\ waiting'[g] = waiting[g]
                                 /\ Unrecorded(g)' = Unrecorded(g)

\* Handler h has nothing to do with any delivery but d.
OnlyAbout(h, d) == serves[h] = d \/ (~ waiting[h] /\ ~ Unrecorded(h))

LEMMA Elsewhere ==
    ASSUME NEW h \in Handlers, NEW d \in Deliveries, OthersStay(h),
           OnlyAbout(h, d), OnlyAbout(h, d)',
           NEW e \in Deliveries, e # d, answered'[e] = answered[e]
    PROVE  StillFor(e)
  <1>1. Strays(e)' = Strays(e)
    BY DEF Strays, OthersStay, OnlyAbout
  <1>2. Settled(e)' <=> Settled(e)
    BY DEF Settled, OthersStay, OnlyAbout
  <1> QED
    BY <1>1, <1>2 DEF StillFor, Target

\* What h itself is to delivery d.
LEMMA StrayCount ==
    ASSUME DriftAssumptions, NEW h \in Handlers, NEW d \in Deliveries, OthersStay(h)
    PROVE  LET n == Cardinality(Strays(d)) IN
           /\ h \in Strays(d)' <=> h \in Strays(d) => Strays(d)' = Strays(d)
           /\ h \in Strays(d) /\ h \notin Strays(d)' => n > 0 /\ Cardinality(Strays(d))' = n - 1
           /\ h \notin Strays(d) /\ h \in Strays(d)' => Cardinality(Strays(d))' = n + 1
  <1>1. \A g \in Handlers : g # h => (g \in Strays(d)' <=> g \in Strays(d))
    BY DEF Strays, OthersStay
  <1>2. Strays(d) \subseteq Handlers /\ Strays(d)' \subseteq Handlers
    BY DEF Strays
  <1>3. IsFiniteSet(Strays(d)) /\ Cardinality(Strays(d)) \in Nat
    BY StraysAreFinite
  <1>4. ASSUME h \in Strays(d)' <=> h \in Strays(d) PROVE Strays(d)' = Strays(d)
    BY <1>1, <1>2, <1>4
  <1>5. ASSUME h \in Strays(d), h \notin Strays(d)'
        PROVE  Cardinality(Strays(d)) > 0 /\ Cardinality(Strays(d))' = Cardinality(Strays(d)) - 1
    <2>1. Strays(d)' = Strays(d) \ {h}
      BY <1>1, <1>2, <1>5
    <2>2. Cardinality(Strays(d) \ {h}) = Cardinality(Strays(d)) - 1
      BY <1>3, <1>5, FS_RemoveElement
    <2>3. Cardinality(Strays(d)) # 0
      BY <1>3, <1>5, FS_EmptySet
    <2> QED
      BY <1>3, <2>1, <2>2, <2>3
  <1>6. ASSUME h \notin Strays(d), h \in Strays(d)'
        PROVE  Cardinality(Strays(d))' = Cardinality(Strays(d)) + 1
    <2>1. Strays(d)' = Strays(d) \cup {h}
      BY <1>1, <1>2, <1>6
    <2>2. Cardinality(Strays(d) \cup {h}) = Cardinality(Strays(d)) + 1
      BY <1>3, <1>6, FS_AddElement
    <2> QED
      BY <2>1, <2>2
  <1> QED
    BY <1>4, <1>5, <1>6

\* The same for the one delivery d.
ExplainedHere(K, d, x) ==
    \A y, z \in Int : z = y + x => Off(z, d)' <= Off(y, d) + IF d \in K THEN MostRepos ELSE 0

\* A step of one handler that records x for the delivery it serves.
LEMMA OneDelivery ==
    ASSUME DriftAssumptions, Account, faults \in Nat, faults' \in Nat,
           NEW h \in Handlers, NEW d \in Deliveries, OthersStay(h),
           OnlyAbout(h, d), OnlyAbout(h, d)', UNCHANGED answered,
           NEW x \in Int, NEW K \in SUBSET {d}, faults + Cardinality(K) <= faults',
           Booked(d, x), ExplainedHere(K, d, x)
    PROVE  Account'
  <1>1. \A e \in Deliveries : \A y \in Int : Off(y, e) \in Int /\ Off(y, e)' \in Int
    BY OffIsInt
  <1>2. ASSUME NEW e \in Deliveries, NEW y \in Int, NEW z \in Int, z = y + IF e = d THEN x ELSE 0
        PROVE  Off(z, e)' <= Off(y, e) + (IF e \in K THEN MostRepos ELSE 0)
    <2>1. CASE e = d
      BY <1>2, <2>1 DEF ExplainedHere
    <2>2. CASE e # d
      <3>1. StillFor(e)
        BY <2>2, Elsewhere
      <3>2. z = y /\ e \notin K
        BY <1>2, <2>2
      <3>3. Off(y, e)' = Off(y, e)
        BY <3>1 DEF StillFor, Off
      <3>4. Off(y, e) \in Int
        BY <1>1
      <3> QED
        BY <3>2, <3>3, <3>4
    <2> QED
      BY <2>1, <2>2
  <1>3. K \in SUBSET Deliveries
    OBVIOUS
  <1>4. Explained(K, d, x)
    BY <1>2 DEF Explained
  <1> QED
    BY <1>3, <1>4, AccountStep

\* Nobody but h waits for d, and GitHub does not hold it for delivered.
OnlyOne(h, d) ==
    waiting[h] => answered[d] # "ok" /\ \A g \in Handlers : waiting[g] /\ serves[g] = d => g = h

\* The handler of d is done with what it had to record: it has recorded it, or a
\* failure explains that it has not.
LEMMA SettleStep ==
    ASSUME DriftAssumptions, NEW h \in Handlers, NEW d \in Deliveries, serves[h] = d,
           Unrecorded(h), ~ Unrecorded(h)', OthersStay(h), OnlyOne(h, d), waiting[h] \in BOOLEAN,
           UNCHANGED <<serves, waiting, answered>>,
           NEW x \in {0, Weight(d)}, NEW y \in Int, NEW z \in Int, z = y + x
    PROVE  Off(z, d)' <= Off(y, d) + IF x = Weight(d) THEN 0 ELSE MostRepos
  <1> DEFINE n == Cardinality(Strays(d))
             W == Weight(d)
             M == MostRepos
             T == Target(d)
  <1>1. M \in Nat /\ W \in Int /\ W <= M /\ - W <= M
    BY WeightBound
  <1>2. n \in Nat
    BY StraysAreFinite
  <1>3. CASE waiting[h]
    <2>1. ~ Settled(d)
      BY <1>3 DEF Settled, OnlyOne
    <2>2. Settled(d)'
      BY <1>3 DEF Settled
    <2>3. T = 0 /\ Target(d)' = W
      BY <2>1, <2>2 DEF Target, Weight
    <2>4. Strays(d)' = Strays(d)
      <3>1. h \notin Strays(d) /\ h \notin Strays(d)'
        BY <1>3 DEF Strays
      <3> QED
        BY <3>1, StrayCount
    <2>5. Off(y, d) = Size(y - 0) + n * M /\ Off(z, d)' = Size(z - W) + n * M
      BY <2>3, <2>4 DEF Off, Size
    <2>6. n * M \in Int
      BY <1>1, <1>2
    <2>7. Size(z - W) <= Size(y - 0) + IF x = W THEN 0 ELSE M
      <3> HIDE DEF n, W, M, T
      <3> QED
        BY <1>1 DEF Size, W
    <2> HIDE DEF n, W, M, T
    <2>8. Size(y - 0) \in Int /\ Size(z - W) \in Int
      BY <1>1 DEF Size
    <2> QED
      BY <1>1, <2>5, <2>6, <2>7, <2>8 DEF W, M
  <1>4. CASE ~ waiting[h]
    <2>1. Settled(d)' = Settled(d)
      BY <1>4 DEF Settled, OthersStay
    <2>2. Target(d)' = T /\ T \in Int
      BY <1>1, <2>1 DEF Target, Weight
    <2>3. n > 0 /\ Cardinality(Strays(d))' = n - 1
      <3>1. h \in Strays(d) /\ h \notin Strays(d)'
        BY <1>4 DEF Strays
      <3> QED
        BY <3>1, StrayCount
    <2>5. Off(y, d) = Size(y - T) + n * M /\ Off(z, d)' = Size(z - T) + (n - 1) * M
      BY <2>2, <2>3 DEF Off, Size
    <2>6. n * M \in Int /\ (n - 1) * M = n * M - M
      BY <1>1, <1>2
    <2>7. Size(z - T) <= Size(y - T) + M
      <3> HIDE DEF n, W, M, T
      <3> QED
        BY <1>1, <2>2 DEF Size, W
    <2> HIDE DEF n, W, M, T
    <2>8. Size(y - T) \in Int /\ Size(z - T) \in Int
      BY <2>2 DEF Size
    <2> QED
      BY <1>1, <2>5, <2>6, <2>7, <2>8 DEF W, M
  <1> QED
    BY <1>3, <1>4

\* A handler nobody waits for is dropped, with what it had under way or without.
LEMMA DropOff ==
    ASSUME DriftAssumptions, NEW h \in Handlers, NEW d \in Deliveries, serves[h] = d,
           ~ waiting[h], ~ waiting'[h], ~ Unrecorded(h)', OthersStay(h), UNCHANGED answered,
           NEW x \in {0, Weight(d)}, x # 0 => Unrecorded(h), NEW y \in Int, NEW z \in Int, z = y + x
    PROVE  Off(z, d)' <= Off(y, d)
  <1> DEFINE n == Cardinality(Strays(d))
             W == Weight(d)
             M == MostRepos
             T == Target(d)
  <1>1. M \in Nat /\ W \in Int /\ W <= M /\ - W <= M
    BY WeightBound
  <1>2. n \in Nat
    BY StraysAreFinite
  <1>3. Settled(d)' = Settled(d)
    BY DEF Settled, OthersStay
  <1>4. Target(d)' = T /\ T \in Int
    BY <1>1, <1>3 DEF Target, Weight
  <1>5. h \notin Strays(d)'
    BY DEF Strays
  <1>6. CASE Unrecorded(h)
    <2>1. h \in Strays(d)
      BY <1>6 DEF Strays
    <2>2. n > 0 /\ Cardinality(Strays(d))' = n - 1
      BY <1>5, <2>1, StrayCount
    <2>3. Off(y, d) = Size(y - T) + n * M /\ Off(z, d)' = Size(z - T) + (n - 1) * M
      BY <1>4, <2>2 DEF Off, Size
    <2>4. n * M \in Int /\ (n - 1) * M = n * M - M
      BY <1>1, <1>2
    <2>5. Size(z - T) <= Size(y - T) + M
      <3> HIDE DEF n, W, M, T
      <3> QED
        BY <1>1, <1>4 DEF Size, W
    <2> HIDE DEF n, W, M, T
    <2>6. Size(y - T) \in Int /\ Size(z - T) \in Int
      BY <1>4 DEF Size
    <2> QED
      BY <1>1, <2>3, <2>4, <2>5, <2>6
  <1>7. CASE ~ Unrecorded(h)
    <2>1. h \notin Strays(d)
      BY <1>7 DEF Strays
    <2>2. Strays(d)' = Strays(d)
      BY <1>5, <2>1, StrayCount
    <2>3. z = y
      BY <1>7
    <2>4. Off(y, d)' = Off(y, d)
      BY <1>4, <2>2 DEF Off
    <2>5. Off(y, d) \in Int
      BY OffIsInt
    <2> QED
      BY <2>3, <2>4, <2>5
  <1> QED
    BY <1>6, <1>7

\* Nobody waits any more for the handlers of H: GitHub gave up on them, or the
\* process crashed.
LEMMA AbandonStep ==
    ASSUME DriftAssumptions, PlaceInv, Account, faults \in Nat, faults' \in Nat,
           NEW H \in SUBSET Handlers, \A h \in H : waiting[h],
           \A h \in Handlers : waiting'[h] <=> (waiting[h] /\ h \notin H),
           UNCHANGED <<serves, pc, call, usage>>,
           \A d \in Deliveries :
               answered'[d] = IF \E h \in H : serves[h] = d THEN "failed" ELSE answered[d],
           faults + Cardinality(H) <= faults'
    PROVE  Account'
  <1> DEFINE K == { serves[h] : h \in H }
             M == MostRepos
  <1>1. \A h \in Handlers : Unrecorded(h)' <=> Unrecorded(h)
    BY DEF Unrecorded
  <1>2. \A h \in H : serves[h] \in Deliveries /\ answered[serves[h]] = "pending"
    BY DEF PlaceInv, Placed
  <1>3. K \in SUBSET Deliveries
    BY <1>2
  <1>4. faults + Cardinality(K) <= faults'
    <2>1. IsFiniteSet(H)
      BY FS_Subset DEF DriftAssumptions, Finite
    <2> DEFINE f == [h \in H |-> serves[h]]
    <2>2. f \in Surjection(H, K)
      BY DEF Surjection
    <2> HIDE DEF f, K
    <2>3. IsFiniteSet(K) /\ Cardinality(K) <= Cardinality(H)
      BY <2>1, <2>2, FS_Surjection
    <2>4. Cardinality(K) \in Nat /\ Cardinality(H) \in Nat
      BY <2>1, <2>3, FS_CardinalityType
    <2> QED
      BY <2>3, <2>4
  <1>5. ASSUME NEW e \in Deliveries, NEW y \in Int
        PROVE  Off(y, e)' <= Off(y, e) + (IF e \in K THEN M ELSE 0)
    <2>1. CASE e \notin K
      <3>1. \A h \in H : serves[h] # e
        BY <2>1
      <3>2. Strays(e)' = Strays(e)
        BY <1>1, <3>1 DEF Strays
      <3>3. Settled(e)' <=> Settled(e)
        BY <1>1, <3>1 DEF Settled
      <3>4. Off(y, e)' = Off(y, e)
        BY <3>2, <3>3 DEF Off, Target, Size
      <3>5. Off(y, e) \in Int
        BY OffIsInt
      <3> QED
        BY <2>1, <3>4, <3>5
    <2>2. CASE e \in K
      <3> DEFINE n == Cardinality(Strays(e))
                 W == Weight(e)
                 T == Target(e)
      <3>1. PICK h \in H : serves[h] = e
        BY <2>2
      <3>2. waiting[h] /\ ~ waiting'[h] /\ answered[e] = "pending" /\ answered'[e] = "failed"
        BY <1>2, <3>1
      <3>3. \A g \in Handlers : waiting[g] /\ serves[g] = e => g = h
        BY <3>1, <3>2 DEF PlaceInv
      <3>4. ~ Settled(e)'
        BY <3>2, <3>3 DEF Settled
      <3>5. Settled(e) <=> ~ Unrecorded(h)
        BY <3>1, <3>2, <3>3 DEF Settled
      <3>6. M \in Nat /\ W \in Int /\ W <= M /\ - W <= M
        BY WeightBound
      <3>7. n \in Nat /\ IsFiniteSet(Strays(e))
        BY StraysAreFinite
      <3>8. n * M \in Int /\ (n + 1) * M = n * M + M
        BY <3>6, <3>7
      <3>9. CASE Unrecorded(h)
        <4>1. T = 0 /\ Target(e)' = 0
          BY <3>4, <3>5, <3>9 DEF Target
        <4>2. Strays(e)' = Strays(e) \cup {h} /\ h \notin Strays(e)
          BY <1>1, <3>1, <3>2, <3>3, <3>9 DEF Strays
        <4>3. Cardinality(Strays(e))' = n + 1
          BY <3>7, <4>2, FS_AddElement
        <4>4. Off(y, e) = Size(y - 0) + n * M /\ Off(y, e)' = Size(y - 0) + (n + 1) * M
          BY <4>1, <4>3 DEF Off, Size
        <4>5. Size(y - 0) \in Int
          BY DEF Size
        <4> HIDE DEF n, W, T, M, K
        <4> QED
          BY <2>2, <3>6, <3>8, <4>4, <4>5
      <3>10. CASE ~ Unrecorded(h)
        <4>1. T = W /\ Target(e)' = 0
          BY <3>4, <3>5, <3>10 DEF Target
        <4>2. Strays(e)' = Strays(e)
          BY <1>1, <3>1, <3>2, <3>3, <3>10 DEF Strays
        <4>4. Off(y, e) = Size(y - W) + n * M /\ Off(y, e)' = Size(y - 0) + n * M
          BY <4>1, <4>2 DEF Off, Size
        <4> HIDE DEF n, W, T, M, K
        <4>5. Size(y - 0) <= Size(y - W) + M /\ Size(y - 0) \in Int /\ Size(y - W) \in Int
          BY <3>6 DEF Size
        <4> QED
          BY <2>2, <3>6, <3>8, <4>4, <4>5
      <3> QED
        BY <3>9, <3>10
    <2> QED
      BY <2>1, <2>2
  <1>6. PICK d \in Deliveries : TRUE
    BY DEF DriftAssumptions, Finite
  <1>7. Explained(K, d, 0)
    <2> SUFFICES ASSUME NEW e \in Deliveries, NEW y \in Int, NEW z \in Int,
                        z = (y + IF e = d THEN 0 ELSE 0)
                 PROVE  Off(z, e)' <= Off(y, e) + (IF e \in K THEN MostRepos ELSE 0)
      BY DEF Explained
    <2>1. z = y
      OBVIOUS
    <2> HIDE DEF K
    <2> QED
      BY <1>5, <2>1
  <1>8. Booked(d, 0)
    <2>1. BP!Types /\ Repos \in Features
      BY DEF PlaceInv, BP!IInv, DriftAssumptions, ReposExist
    <2>2. \A c \in Customers : usage[c][Repos] \in Int
      BY <2>1 DEF BP!Types
    <2> QED
      BY <2>2 DEF Booked
  <1> HIDE DEF K
  <1> QED
    BY <1>3, <1>4, <1>7, <1>8, AccountStep

-----------------------------------------------------------------------------
(* The steps.                                                               *)

DriftInv == PlaceInv /\ Account

LEMMA Numbers ==
    ASSUME DriftAssumptions, BP!IInv
    PROVE  /\ faults \in Nat /\ faults <= MaxFaults /\ MaxFaults \in Nat
           /\ \A c \in Customers : usage[c][Repos] \in Int
           /\ call \in BP!Calls /\ trace \in BP!Traces
  <1>1. BP!Types /\ Repos \in Features /\ MaxFaults \in Nat
    BY BillingAssumption DEF BP!IInv, DriftAssumptions, ReposExist
  <1> QED
    BY <1>1 DEF BP!Types

\* A failure that is none of the gate's.
LEMMA GateStays ==
    ASSUME DriftAssumptions, BP!IInv, UNCHANGED <<customers, usage, call, trace>>,
           \/ faults' = faults
           \/ faults' \in Nat /\ faults <= faults' /\ faults' <= MaxFaults
    PROVE  /\ BP!IInv' /\ faults \in Nat /\ faults' \in Nat /\ faults <= faults'
           /\ \A h \in Handlers : BP!CallMoves(h)
  <1>1. /\ faults \in Nat /\ faults' \in Nat /\ faults <= faults' /\ faults' <= MaxFaults
        /\ call \in BP!Calls /\ MaxFaults \in Nat
    BY Numbers
  <1>2. faults' \in 0 .. MaxFaults
    BY <1>1
  <1>3. BP!IInv'
    BY <1>2 DEF BP!IInv, BP!Types, BP!Healed
  <1> QED
    BY <1>1, <1>3 DEF BP!CallMoves

\* Only handler h moves.
Alone(h) ==
    \A g \in Handlers : g # h =>
        /\ pc'[g] = pc[g] /\ serves'[g] = serves[g] /\ status'[g] = status[g]
        /\ waiting'[g] = waiting[g] /\ call'[g] = call[g]

LEMMA Moved ==
    ASSUME Typed, NEW h \in Handlers, NEW p \in Places, NEW d \in Deliveries \cup {"none"},
           NEW code \in Int, NEW w \in BOOLEAN, BP!CallMoves(h),
           pc' = [pc EXCEPT ![h] = p], serves' = [serves EXCEPT ![h] = d],
           status' = [status EXCEPT ![h] = code], waiting' = [waiting EXCEPT ![h] = w],
           answered' \in [Deliveries -> {"none", "pending", "ok", "failed"}]
    PROVE  /\ Typed' /\ Alone(h)
           /\ pc'[h] = p /\ serves'[h] = d /\ status'[h] = code /\ waiting'[h] = w
  BY DEF Typed, Alone, BP!CallMoves

LEMMA Stays ==
    ASSUME Typed, NEW h \in Handlers
    PROVE  /\ pc = [pc EXCEPT ![h] = pc[h]] /\ pc[h] \in Places
           /\ serves = [serves EXCEPT ![h] = serves[h]] /\ serves[h] \in Deliveries \cup {"none"}
           /\ status = [status EXCEPT ![h] = status[h]] /\ status[h] \in Int
           /\ waiting = [waiting EXCEPT ![h] = waiting[h]] /\ waiting[h] \in BOOLEAN
  BY DEF Typed

LEMMA AloneIsEnough == ASSUME NEW h \in Handlers, Alone(h) PROVE OthersStay(h)
  BY DEF Alone, OthersStay, Unrecorded

LEMMA PlaceStep ==
    ASSUME PlaceInv, NEW h \in Handlers, BP!IInv', Typed', Alone(h), Placed(h)',
           \A g \in Handlers : g # h /\ waiting[g] => answered'[serves[g]] = answered[serves[g]],
           \A g \in Handlers : g # h /\ waiting[g] /\ waiting'[h] => serves[g] # serves'[h],
           \A d \in Deliveries : answered'[d] = "ok" => Accepts(EventOf[d])
    PROVE  PlaceInv'
  <1>1. ASSUME NEW g \in Handlers, g # h PROVE Placed(g)'
    <2>1. Placed(g)
      BY DEF PlaceInv
    <2>2. /\ pc'[g] = pc[g] /\ serves'[g] = serves[g] /\ status'[g] = status[g]
          /\ waiting'[g] = waiting[g] /\ call'[g] = call[g]
          /\ waiting[g] => answered'[serves[g]] = answered[serves[g]]
      BY <1>1 DEF Alone
    <2> QED
      BY <2>1, <2>2 DEF Placed, Event, Weight
  <1>2. \A f, g \in Handlers : waiting'[f] /\ waiting'[g] /\ serves'[f] = serves'[g] => f = g
    BY DEF PlaceInv, Alone
  <1> QED
    BY <1>1, <1>2 DEF PlaceInv

\* Where a request goes, and what it is worth.
LEMMA DispatchPlaces ==
    ASSUME NEW d \in Deliveries
    PROVE  LET p == Dispatch(EventOf[d]) IN
           /\ p \in {"reply", "enqueue", "ensure", "track"}
           /\ p \in {"reply", "enqueue"} => Weight(d) = 0
           /\ p # "reply" => Accepts(EventOf[d]) /\ EventOf[d].parses
           /\ StatusAtOnce(EventOf[d]) \in {200, 400, 401}
           /\ p = "reply" /\ Success(StatusAtOnce(EventOf[d])) => Accepts(EventOf[d])
  <1> DEFINE e == EventOf[d]
             p == Dispatch(e)
  <1>1. CASE ~ Accepts(e) \/ ~ e.parses
    <2>1. p = "reply" /\ Weight(d) = 0
      BY <1>1 DEF Dispatch, Weight
    <2> QED
      BY <2>1 DEF StatusAtOnce, Success, Accepts
  <1>2. CASE Accepts(e) /\ e.parses /\ e.kind = "pull_request"
    <2>1. Delta(e) = 0
      BY <1>2 DEF Delta
    <2>2. p \in {"reply", "enqueue"} /\ Weight(d) = 0
      BY <1>2, <2>1 DEF Dispatch, Weight
    <2> QED
      BY <1>2, <2>2 DEF StatusAtOnce, Success, Accepts
  <1>3. CASE Accepts(e) /\ e.parses /\ e.kind # "pull_request"
    <2>1. p \in {"reply", "ensure", "track"} /\ (p = "reply" => Weight(d) = 0)
      BY <1>3 DEF Dispatch, Weight
    <2> QED
      BY <1>3, <2>1 DEF StatusAtOnce, Success, Accepts
  <1> QED
    BY <1>1, <1>2, <1>3

LEMMA ReceiveKeeps ==
    ASSUME DriftAssumptions, DriftInv, NEW h \in Handlers, NEW d \in Deliveries, Receive(h, d)
    PROVE  DriftInv'
  <1> DEFINE p == Dispatch(EventOf[d])
             code == IF p = "reply" THEN StatusAtOnce(EventOf[d]) ELSE 0
  <1>1. /\ pc[h] = "idle" /\ answered[d] \in {"none", "failed"}
        /\ pc' = [pc EXCEPT ![h] = p]
        /\ serves' = [serves EXCEPT ![h] = d]
        /\ status' = [status EXCEPT ![h] = code]
        /\ waiting' = [waiting EXCEPT ![h] = TRUE]
        /\ answered' = [answered EXCEPT ![d] = "pending"]
        /\ UNCHANGED <<customers, usage, call, faults, trace>>
    BY DEF Receive, At, Goto, billingVars
  <1>2. /\ p \in {"reply", "enqueue", "ensure", "track"} /\ code \in Int
        /\ p \in {"reply", "enqueue"} => Weight(d) = 0
        /\ p # "reply" => Accepts(EventOf[d]) /\ EventOf[d].parses
        /\ p = "reply" /\ Success(code) => Accepts(EventOf[d])
    BY DispatchPlaces
  <1>3. /\ PlaceInv /\ BP!IInv /\ Typed /\ Account
        /\ \A g \in Handlers : waiting[g] => answered[serves[g]] = "pending"
        /\ call[h] = BP!NoCall /\ ~ waiting[h]
    BY <1>1 DEF DriftInv, PlaceInv, Placed
  <1> HIDE DEF p, code
  <1>4. /\ BP!IInv' /\ faults \in Nat /\ faults' \in Nat /\ faults <= faults' /\ BP!CallMoves(h)
    BY <1>1, <1>3, GateStays
  <1>5. p \in Places /\ answered' \in [Deliveries -> {"none", "pending", "ok", "failed"}]
    BY <1>1, <1>2, <1>3 DEF Places, Typed
  <1>6. /\ Typed' /\ Alone(h)
        /\ pc'[h] = p /\ serves'[h] = d /\ status'[h] = code /\ waiting'[h]
    BY <1>1, <1>2, <1>3, <1>4, <1>5, Moved
  <1>7. answered'[d] = "pending" /\ \A e \in Deliveries : e # d => answered'[e] = answered[e]
    BY <1>1, <1>3 DEF Typed
  <1>8. \A g \in Handlers : waiting[g] => serves[g] \in Deliveries /\ serves[g] # d
    BY <1>1, <1>3 DEF PlaceInv, Placed
  <1>9. PlaceInv'
    <2>1. Placed(h)'
      BY <1>1, <1>2, <1>3, <1>6, <1>7 DEF Placed, RepoPlaces, Event, Weight
    <2>2. \A e \in Deliveries : answered'[e] = "ok" => Accepts(EventOf[e])
      BY <1>3, <1>7 DEF PlaceInv
    <2> QED
      BY <1>3, <1>4, <1>6, <1>7, <1>8, <2>1, <2>2, PlaceStep
  <1>10. ASSUME NEW e \in Deliveries PROVE StillFor(e)
    <2>1. ~ Unrecorded(h) /\ OthersStay(h)
      BY <1>1, <1>6, AloneIsEnough DEF Unrecorded
    <2>2. CASE e # d
      BY <1>3, <1>6, <1>7, <2>1, <2>2, Elsewhere DEF OnlyAbout
    <2>3. CASE e = d
      <3>1. h \notin Strays(d) /\ h \notin Strays(d)'
        BY <1>6, <2>1 DEF Strays
      <3>2. Strays(d)' = Strays(d)
        BY <2>1, <3>1, StrayCount
      <3>3. ~ Settled(d)
        BY <1>1, <1>8 DEF Settled
      <3>4. Settled(d)' => p \in {"reply", "enqueue"}
        <4>1. \A g \in Handlers : g # h => ~ (waiting'[g] /\ serves'[g] = d)
          BY <1>6, <1>8 DEF Alone
        <4> QED
          BY <1>2, <1>6, <1>7, <4>1 DEF Settled, Unrecorded
      <3>5. Target(d) = 0 /\ Target(d)' = 0
        BY <1>2, <3>3, <3>4 DEF Target, Weight
      <3> QED
        BY <2>3, <3>2, <3>5 DEF StillFor
    <2> QED
      BY <2>2, <2>3
  <1>11. Account'
    BY <1>1, <1>3, <1>4, <1>10, StillStep
  <1> QED
    BY <1>9, <1>11 DEF DriftInv

\* A handler that waits for a delivery is the only one.
LEMMA WaitsAlone ==
    ASSUME PlaceInv, NEW h \in Handlers
    PROVE  /\ OnlyOne(h, serves[h])
           /\ pc[h] # "idle" => serves[h] \in Deliveries
           /\ waiting[h] => \A g \in Handlers : g # h /\ waiting[g] => serves[g] # serves[h]
           /\ \A g \in Handlers : waiting[g] => serves[g] \in Deliveries
           /\ Typed /\ BP!IInv
  BY DEF PlaceInv, Placed, OnlyOne

LEMMA NothingBooked ==
    ASSUME DriftAssumptions, PlaceInv, UNCHANGED usage
    PROVE  \A d \in Deliveries : Booked(d, 0)
  <1>1. \A c \in Customers : usage[c][Repos] \in Int
    BY Numbers DEF PlaceInv
  <1> QED
    BY <1>1 DEF Booked

\* The account when handler h is done with what it had to record.
LEMMA SettleAccount ==
    ASSUME DriftAssumptions, DriftInv, NEW h \in Handlers, NEW d \in Deliveries, d = serves[h],
           Alone(h), UNCHANGED <<serves, waiting, answered>>,
           Unrecorded(h), ~ Unrecorded(h)', NEW x \in {0, Weight(d)}, Booked(d, x),
           faults \in Nat, faults' \in Nat, faults <= faults', x = Weight(d) \/ faults < faults'
    PROVE  Account'
  <1> DEFINE K == IF x = Weight(d) THEN {} ELSE {d}
  <1>1. PlaceInv /\ Account
    BY DEF DriftInv
  <1>2. OthersStay(h) /\ OnlyOne(h, d) /\ waiting[h] \in BOOLEAN
    BY <1>1, AloneIsEnough, WaitsAlone, Stays
  <1>3. x \in Int
    BY WeightBound
  <1>4. faults + Cardinality(K) <= faults'
    <2>1. CASE x = Weight(d)
      <3>1. Cardinality(K) = 0
        BY <2>1, FS_EmptySet
      <3> QED
        BY <3>1
    <2>2. CASE x # Weight(d)
      <3>1. Cardinality(K) = 1
        BY <2>2, FS_Singleton
      <3> QED
        BY <2>2, <3>1
    <2> QED
      BY <2>1, <2>2
  <1>5. ASSUME NEW y \in Int, NEW z \in Int, z = y + x
        PROVE  Off(z, d)' <= Off(y, d) + IF d \in K THEN MostRepos ELSE 0
    <2>1. Off(z, d)' <= Off(y, d) + IF x = Weight(d) THEN 0 ELSE MostRepos
      BY <1>2, <1>5, SettleStep
    <2>2. d \in K <=> x # Weight(d)
      OBVIOUS
    <2> HIDE DEF K
    <2> QED
      BY <2>1, <2>2
  <1>6. K \in SUBSET {d} /\ OnlyAbout(h, d) /\ OnlyAbout(h, d)'
    BY DEF OnlyAbout
  <1> HIDE DEF K
  <1>7. ExplainedHere(K, d, x)
    BY <1>5 DEF ExplainedHere
  <1> QED
    BY <1>1, <1>2, <1>3, <1>4, <1>6, <1>7, OneDelivery

\* A handler moves on, and still has to record what it had to, or had nothing to
\* record.
LEMMA Walks ==
    ASSUME DriftAssumptions, DriftInv, NEW h \in Handlers, pc[h] # "idle",
           BP!IInv', BP!CallMoves(h), faults <= faults',
           UNCHANGED <<usage, serves, waiting, answered>>,
           NEW p \in Places, NEW code \in Int,
           pc' = [pc EXCEPT ![h] = p], status' = [status EXCEPT ![h] = code],
           pc'[h] = p /\ status'[h] = code => Placed(h)',
           \/ Unrecorded(h)' <=> Unrecorded(h)
           \/ Unrecorded(h) /\ ~ Unrecorded(h)' /\ Weight(serves[h]) = 0
    PROVE  DriftInv'
  <1>1. PlaceInv /\ Typed /\ Account /\ BP!IInv /\ serves[h] \in Deliveries
    BY WaitsAlone DEF DriftInv
  <1>2. answered' \in [Deliveries -> {"none", "pending", "ok", "failed"}]
    BY <1>1 DEF Typed
  <1>3. Typed' /\ Alone(h) /\ pc'[h] = p /\ status'[h] = code
    <2>1. /\ serves' = [serves EXCEPT ![h] = serves[h]] /\ serves[h] \in Deliveries \cup {"none"}
          /\ waiting' = [waiting EXCEPT ![h] = waiting[h]] /\ waiting[h] \in BOOLEAN
      BY <1>1, Stays
    <2> QED
      BY <1>1, <1>2, <2>1, Moved
  <1>4. PlaceInv'
    <2>1. \A d \in Deliveries : answered'[d] = "ok" => Accepts(EventOf[d])
      BY <1>1 DEF PlaceInv
    <2>2. \A g \in Handlers : g # h /\ waiting[g] /\ waiting'[h] => serves[g] # serves'[h]
      BY <1>1, WaitsAlone
    <2> QED
      BY <1>1, <1>3, <2>1, <2>2, PlaceStep
  <1>5. faults \in Nat /\ faults' \in Nat
    <2>1. faults \in Nat /\ BP!Types'
      BY <1>1, Numbers DEF BP!IInv
    <2>2. faults' \in 0 .. MaxFaults
      BY <2>1 DEF BP!Types
    <2> QED
      BY <2>1, <2>2, BillingAssumption
  <1>6. CASE Unrecorded(h)' <=> Unrecorded(h)
    <2>1. \A g \in Handlers : Unrecorded(g)' <=> Unrecorded(g)
      BY <1>3, <1>6, AloneIsEnough DEF OthersStay
    <2>2. ASSUME NEW e \in Deliveries PROVE StillFor(e)
      BY <2>1 DEF StillFor, Target, Settled, Strays, Weight
    <2> QED
      BY <1>1, <1>4, <1>5, <2>2, StillStep DEF DriftInv
  <1>7. CASE Unrecorded(h) /\ ~ Unrecorded(h)' /\ Weight(serves[h]) = 0
    <2>1. PICK d \in Deliveries : d = serves[h]
      BY <1>1
    <2>2. Booked(d, 0) /\ Weight(d) = 0
      BY <1>1, <1>7, <2>1, NothingBooked
    <2>3. Account'
      BY <1>3, <1>5, <1>7, <2>1, <2>2, SettleAccount
    <2> QED
      BY <1>4, <2>3 DEF DriftInv
  <1> QED
    BY <1>6, <1>7

LEMMA FaultOfStore ==
    ASSUME DriftAssumptions, BP!IInv, StoreFault
    PROVE  /\ BP!IInv' /\ faults \in Nat /\ faults' \in Nat /\ faults < faults' /\ faults <= faults'
           /\ UNCHANGED <<usage, call>> /\ \A h \in Handlers : BP!CallMoves(h)
  <1>1. faults \in Nat /\ MaxFaults \in Nat
    BY Numbers
  <1>2. /\ faults' = faults + 1 /\ faults < MaxFaults
        /\ UNCHANGED <<customers, usage, call, trace>>
    BY DEF StoreFault
  <1>3. faults' \in Nat /\ faults < faults' /\ faults <= faults' /\ faults' <= MaxFaults
    BY <1>1, <1>2
  <1> QED
    BY <1>1, <1>2, <1>3, GateStays

LEMMA EnqueueKeeps ==
    ASSUME DriftAssumptions, DriftInv, NEW h \in Handlers, Enqueue(h)
    PROVE  DriftInv'
  <1>1. PlaceInv /\ BP!IInv /\ Placed(h) /\ pc[h] = "enqueue"
    BY DEF DriftInv, PlaceInv, Enqueue, At
  <1>2. PICK code \in Int :
          /\ pc' = [pc EXCEPT ![h] = "reply"] /\ status' = [status EXCEPT ![h] = code]
          /\ UNCHANGED <<serves, waiting, answered>>
          /\ UNCHANGED billingVars \/ StoreFault
    BY DEF Enqueue, Answer, Goto, githubVars
  <1>3. BP!IInv' /\ BP!CallMoves(h) /\ faults <= faults' /\ UNCHANGED <<usage, call>>
    <2>1. CASE UNCHANGED billingVars
      BY <1>1, <2>1, GateStays DEF billingVars
    <2>2. CASE StoreFault
      BY <1>1, <2>2, FaultOfStore
    <2> QED
      BY <1>2, <2>1, <2>2
  <1>4. ASSUME pc'[h] = "reply", status'[h] = code PROVE Placed(h)' /\ ~ Unrecorded(h)'
    BY <1>1, <1>2, <1>3, <1>4 DEF Placed, RepoPlaces, Event, Weight, Unrecorded
  <1>5. ~ Unrecorded(h) /\ ~ Unrecorded(h)'
    <2>1. pc'[h] = "reply"
      BY <1>1, <1>2 DEF PlaceInv, Typed
    <2> QED
      BY <1>1, <2>1 DEF Unrecorded
  <1>6. "reply" \in Places
    BY DEF Places
  <1> QED
    BY <1>1, <1>2, <1>3, <1>4, <1>5, <1>6, Walks

LEMMA EnsureStarts ==
    ASSUME DriftAssumptions, DriftInv, NEW h \in Handlers, EnsureCustomer(h)
    PROVE  DriftInv'
  <1>1. /\ PlaceInv /\ BP!IInv /\ Placed(h) /\ pc[h] = "ensure" /\ Typed
        /\ serves[h] \in Deliveries
    BY DEF DriftInv, PlaceInv, Placed, EnsureCustomer, At
  <1>2. /\ BP!Request(h, "ensure", Event(h).customer, Repos, 0)
        /\ pc' = [pc EXCEPT ![h] = "ensuring"]
        /\ UNCHANGED <<serves, status, waiting, answered>>
    BY SameReturn DEF EnsureCustomer, Goto, githubVars, Repos
  <1>3. PICK c \in Customers : c = Event(h).customer
    BY <1>1, EventAssumption DEF Event
  <1>4. "ensure" \in BP!Ops /\ Repos \in Features /\ 0 \in Int
    BY DEF BP!Ops, DriftAssumptions, ReposExist
  <1>5. BP!Request(h, "ensure", c, Repos, 0)
    BY <1>2, <1>3
  <1>6. /\ BP!IInv' /\ BP!CallMoves(h) /\ call'[h] # BP!NoCall /\ call'[h].op = "ensure"
    BY <1>1, <1>4, <1>5, BP!RequestKeeps, BillingAssumption
  <1>7. faults <= faults' /\ UNCHANGED usage
    BY <1>1, <1>5, Numbers DEF BP!Request
  <1>8. PICK code \in Int : code = status[h] /\ status' = [status EXCEPT ![h] = code]
    BY <1>1, <1>2, Stays
  <1>9. pc'[h] = "ensuring"
    BY <1>1, <1>2 DEF Typed
  <1>10. Placed(h)'
    BY <1>1, <1>2, <1>6, <1>9 DEF Placed, RepoPlaces, Event, Weight
  <1>11. Unrecorded(h) /\ Unrecorded(h)'
    BY <1>1, <1>9 DEF Unrecorded
  <1>12. "ensuring" \in Places
    BY DEF Places
  <1> QED
    BY <1>1, <1>2, <1>6, <1>7, <1>8, <1>10, <1>11, <1>12, Walks

LEMMA ReturnStep ==
    ASSUME DriftAssumptions, DriftInv, NEW h \in Handlers, B!Return(h)
    PROVE  /\ BP!IInv' /\ BP!CallMoves(h) /\ call'[h] = BP!NoCall /\ call[h].result # "none"
           /\ faults <= faults' /\ UNCHANGED usage
  <1>1. BP!IInv
    BY DEF DriftInv, PlaceInv
  <1>2. BP!Return(h)
    BY SameReturn
  <1>3. BP!IInv' /\ BP!CallMoves(h) /\ call'[h] = BP!NoCall
    BY <1>1, <1>2, BP!RestKeeps, BillingAssumption
  <1>4. call[h].result # "none" /\ faults' = faults /\ UNCHANGED usage
    BY <1>2 DEF BP!Return
  <1> QED
    BY <1>1, <1>3, <1>4, Numbers

LEMMA EnsureEnds ==
    ASSUME DriftAssumptions, DriftInv, NEW h \in Handlers, Ensured(h)
    PROVE  DriftInv'
  <1>1. /\ PlaceInv /\ BP!IInv /\ Placed(h) /\ pc[h] = "ensuring" /\ Typed
        /\ serves[h] \in Deliveries
    BY DEF DriftInv, PlaceInv, Placed, Ensured, At
  <1>2. /\ BP!IInv' /\ BP!CallMoves(h) /\ call'[h] = BP!NoCall
        /\ faults <= faults' /\ UNCHANGED usage
    BY ReturnStep DEF Ensured
  <1>3. UNCHANGED <<serves, waiting, answered>>
    BY DEF Ensured, githubVars
  <1>4. Weight(serves[h]) = Delta(Event(h))
    BY <1>1 DEF Placed, RepoPlaces, Weight, Event
  <1>5. {"track", "reply"} \subseteq Places
    BY DEF Places
  <1>6. Unrecorded(h)
    BY <1>1 DEF Unrecorded
  <1>7. CASE Delta(Event(h)) # 0
    <2>1. pc' = [pc EXCEPT ![h] = "track"] /\ UNCHANGED status
      BY <1>7 DEF Ensured, Goto
    <2>2. PICK code \in Int : status' = [status EXCEPT ![h] = code]
      BY <1>1, <2>1, Stays
    <2>3. pc'[h] = "track"
      BY <1>1, <2>1 DEF Typed
    <2>4. Placed(h)'
      BY <1>1, <1>2, <1>3, <2>3 DEF Placed, RepoPlaces, Event, Weight
    <2>5. Unrecorded(h)'
      BY <2>3 DEF Unrecorded
    <2> QED
      BY <1>1, <1>2, <1>3, <1>5, <1>6, <2>1, <2>2, <2>4, <2>5, Walks
  <1>8. CASE Delta(Event(h)) = 0
    <2>1. pc' = [pc EXCEPT ![h] = "reply"] /\ status' = [status EXCEPT ![h] = 200]
      BY <1>8 DEF Ensured, Answer, Goto
    <2>2. pc'[h] = "reply" /\ status'[h] = 200
      BY <1>1, <2>1 DEF Typed
    <2>3. Placed(h)'
      BY <1>1, <1>2, <1>3, <2>2 DEF Placed, RepoPlaces, Event, Weight
    <2>4. ~ Unrecorded(h)'
      BY <2>2 DEF Unrecorded
    <2>5. PICK code \in Int : code = 200
      OBVIOUS
    <2>6. status' = [status EXCEPT ![h] = code]
      BY <2>1, <2>5
    <2> QED
      BY <1>1, <1>2, <1>3, <1>4, <1>5, <1>6, <1>8, <2>1, <2>3, <2>4, <2>6, Walks
  <1> QED
    BY <1>7, <1>8

LEMMA TrackStarts ==
    ASSUME DriftAssumptions, DriftInv, NEW h \in Handlers, TrackRepo(h)
    PROVE  DriftInv'
  <1>1. /\ PlaceInv /\ BP!IInv /\ Placed(h) /\ pc[h] = "track" /\ Typed
        /\ serves[h] \in Deliveries
    BY DEF DriftInv, PlaceInv, Placed, TrackRepo, At
  <1>2. /\ BP!Request(h, "track", Event(h).customer, Repos, Delta(Event(h)))
        /\ pc' = [pc EXCEPT ![h] = "tracking"]
        /\ UNCHANGED <<serves, status, waiting, answered>>
    BY SameReturn DEF TrackRepo, Goto, githubVars, Repos
  <1>3. PICK c \in Customers, v \in Int : c = Event(h).customer /\ v = Delta(Event(h))
    BY <1>1, EventAssumption DEF Event, Delta
  <1>4. "track" \in BP!Ops /\ Repos \in Features
    BY DEF BP!Ops, DriftAssumptions, ReposExist
  <1>5. BP!Request(h, "track", c, Repos, v)
    BY <1>2, <1>3
  <1>6. /\ BP!IInv' /\ BP!CallMoves(h) /\ call'[h] # BP!NoCall /\ call'[h].op = "track"
        /\ call'[h].result = "none" /\ call'[h].customer = c /\ call'[h].feature = Repos
        /\ call'[h].value = v
    BY <1>1, <1>4, <1>5, BP!RequestKeeps, BillingAssumption
  <1>7. faults <= faults' /\ UNCHANGED usage
    BY <1>1, <1>5, Numbers DEF BP!Request
  <1>8. PICK code \in Int : code = status[h] /\ status' = [status EXCEPT ![h] = code]
    BY <1>1, <1>2, Stays
  <1>9. pc'[h] = "tracking"
    BY <1>1, <1>2 DEF Typed
  <1>10. Placed(h)'
    BY <1>1, <1>2, <1>3, <1>6, <1>9 DEF Placed, RepoPlaces, Event, Weight
  <1>11. Unrecorded(h) /\ Unrecorded(h)'
    BY <1>1, <1>6, <1>9 DEF Unrecorded
  <1>12. "tracking" \in Places
    BY DEF Places
  <1> QED
    BY <1>1, <1>2, <1>6, <1>7, <1>8, <1>10, <1>11, <1>12, Walks

LEMMA TrackEnds ==
    ASSUME DriftAssumptions, DriftInv, NEW h \in Handlers, Tracked(h)
    PROVE  DriftInv'
  <1>1. /\ PlaceInv /\ BP!IInv /\ Placed(h) /\ pc[h] = "tracking" /\ Typed
        /\ serves[h] \in Deliveries
    BY DEF DriftInv, PlaceInv, Placed, Tracked, At
  <1>2. /\ BP!IInv' /\ BP!CallMoves(h) /\ call'[h] = BP!NoCall /\ call[h].result # "none"
        /\ faults <= faults' /\ UNCHANGED usage
    BY ReturnStep DEF Tracked
  <1>3. /\ pc' = [pc EXCEPT ![h] = "reply"] /\ status' = [status EXCEPT ![h] = 200]
        /\ UNCHANGED <<serves, waiting, answered>>
    BY DEF Tracked, Answer, Goto, githubVars
  <1>4. pc'[h] = "reply" /\ status'[h] = 200
    BY <1>1, <1>3 DEF Typed
  <1>5. Placed(h)'
    BY <1>1, <1>2, <1>3, <1>4 DEF Placed, RepoPlaces, Event, Weight
  <1>6. ~ Unrecorded(h) /\ ~ Unrecorded(h)'
    BY <1>1, <1>2, <1>4 DEF Unrecorded
  <1>7. "reply" \in Places
    BY DEF Places
  <1>8. PICK code \in Int : code = 200
    OBVIOUS
  <1>9. status' = [status EXCEPT ![h] = code]
    BY <1>3, <1>8
  <1> QED
    BY <1>1, <1>2, <1>3, <1>5, <1>6, <1>7, <1>9, Walks

\* What is recorded for the customer of an event is recorded for that event.
LEMMA BooksOfEvent ==
    ASSUME DriftAssumptions, DriftInv, NEW h \in Handlers, NEW d \in Deliveries, d = serves[h],
           pc[h] = "tracking", BP!Books(call[h].customer, call[h].feature, call[h].value)
    PROVE  Booked(d, Weight(d))
  <1>1. /\ Placed(h) /\ BP!IInv /\ Repos \in Features
    BY DEF DriftInv, PlaceInv, DriftAssumptions, ReposExist
  <1>2. /\ call[h].feature = Repos /\ call[h].customer = EventOf[d].customer
        /\ call[h].value = Weight(d)
        /\ EventOf[d].signed
    BY <1>1 DEF Placed, RepoPlaces, Event, Weight, Accepts
  <1>3. EventOf[d].kind \notin {"installation", "installation_repositories"} => Weight(d) = 0
    BY DEF Weight, Delta
  <1>4. \A c \in Customers : d \in RepoEvents(c) <=>
           /\ EventOf[d].customer = c
           /\ EventOf[d].kind \in {"installation", "installation_repositories"}
    BY <1>2 DEF RepoEvents
  <1>5. \A c \in Customers :
           usage'[c][Repos] = usage[c][Repos] + IF c = EventOf[d].customer THEN Weight(d) ELSE 0
    BY <1>1, <1>2 DEF BP!Books
  <1> QED
    BY <1>3, <1>4, <1>5 DEF Booked

\* The gate's request is answered.
LEMMA BillingKeeps ==
    ASSUME DriftAssumptions, DriftInv, NEW h \in Handlers, Billing(h)
    PROVE  DriftInv'
  <1>1. /\ PlaceInv /\ BP!IInv /\ Placed(h) /\ Typed
        /\ UNCHANGED <<pc, serves, status, waiting, answered>>
    BY DEF DriftInv, PlaceInv, Billing, githubVars
  <1>2. BP!TrackFeature(h) \/ BP!CheckFeature(h) \/ BP!EnsureCustomerExists(h)
    BY SameAnswer DEF Billing
  <1>3. BP!Open(h)
    BY <1>2 DEF BP!TrackFeature, BP!CheckFeature, BP!EnsureCustomerExists, BP!Asking, BP!Creating
  <1>4. /\ BP!IInv' /\ call[h] \in BP!Call /\ call[h].result = "none"
    BY <1>1, <1>2, <1>3, BP!Asked, BP!CheckKeeps, BP!TrackKeeps, BP!EnsureKeeps, BillingAssumption
  <1>5. call[h] # BP!NoCall /\ pc[h] \in {"ensuring", "tracking"} /\ serves[h] \in Deliveries
    <2>1. call[h] # BP!NoCall
      BY <1>3 DEF BP!Open, BP!NoCall
    <2> QED
      BY <1>1, <2>1 DEF Placed
  <1>6. ASSUME BP!TrackFeature(h) PROVE ~ BP!Unknown(h) /\ pc[h] = "tracking"
    <2>1. call[h].op = "track"
      BY <1>6 DEF BP!TrackFeature, BP!Asking
    <2>2. pc[h] = "tracking" /\ call[h].feature = Repos
      BY <1>1, <1>5, <2>1 DEF Placed
    <2> QED
      BY <2>2 DEF BP!Unknown, DriftAssumptions, ReposExist
  <1>7. /\ BP!CallMoves(h) /\ BP!SameQuestion(call[h], call'[h]) /\ faults <= faults'
        /\ \/ UNCHANGED usage /\ (pc[h] = "tracking" /\ call'[h].result # "none" => faults < faults')
           \/ /\ pc[h] = "tracking" /\ call'[h].result # "none"
              /\ BP!Books(call[h].customer, call[h].feature, call[h].value)
    <2>1. CASE BP!TrackFeature(h)
      BY <1>1, <1>6, <2>1, BP!TrackEffect, BillingAssumption
    <2>2. CASE BP!CheckFeature(h) \/ BP!EnsureCustomerExists(h)
      <3>1. pc[h] = "tracking" => call[h].op = "track"
        BY <1>1 DEF Placed
      <3> QED
        BY <1>1, <2>2, <3>1, BP!OtherEffect, BillingAssumption
    <2> QED
      BY <1>2, <2>1, <2>2
  <1>8. Placed(h)'
    <2>1. call'[h] # BP!NoCall
      BY <1>7 DEF BP!SameQuestion, BP!Call, BP!Ops, BP!NoCall
    <2> QED
      BY <1>1, <1>5, <1>7, <2>1 DEF Placed, RepoPlaces, Event, Weight, BP!SameQuestion
  <1>9. PICK p \in Places, code \in Int :
          pc' = [pc EXCEPT ![h] = p] /\ status' = [status EXCEPT ![h] = code]
    BY <1>1, Stays
  <1>10. Unrecorded(h) /\ (Unrecorded(h)' <=> ~ (pc[h] = "tracking" /\ call'[h].result # "none"))
    BY <1>1, <1>4, <1>5 DEF Unrecorded
  <1>11. CASE UNCHANGED usage /\ ~ (pc[h] = "tracking" /\ call'[h].result # "none")
    BY <1>1, <1>4, <1>5, <1>7, <1>8, <1>9, <1>10, <1>11, Walks
  <1>12. CASE pc[h] = "tracking" /\ call'[h].result # "none"
    <2>1. PICK d \in Deliveries : d = serves[h]
      BY <1>5
    <2>2. PICK x \in {0, Weight(d)} : Booked(d, x) /\ (x = Weight(d) \/ faults < faults')
      <3>1. CASE UNCHANGED usage /\ faults < faults'
        <4>1. Booked(d, 0)
          BY <1>1, <3>1, NothingBooked
        <4> QED
          BY <3>1, <4>1
      <3>2. CASE BP!Books(call[h].customer, call[h].feature, call[h].value)
        <4>1. Booked(d, Weight(d))
          BY <1>12, <2>1, <3>2, BooksOfEvent
        <4> QED
          BY <4>1
      <3> QED
        BY <1>7, <1>12, <3>1, <3>2
    <2>3. Typed' /\ Alone(h)
      BY <1>1, <1>7 DEF Typed, Alone, BP!CallMoves
    <2>4. PlaceInv'
      <3>1. \A e \in Deliveries : answered'[e] = "ok" => Accepts(EventOf[e])
        BY <1>1 DEF PlaceInv
      <3>2. \A g \in Handlers : g # h /\ waiting[g] /\ waiting'[h] => serves[g] # serves'[h]
        BY <1>1, WaitsAlone
      <3> QED
        BY <1>1, <1>4, <1>8, <2>3, <3>1, <3>2, PlaceStep
    <2>5. faults \in Nat /\ faults' \in Nat
      <3>1. faults \in Nat /\ BP!Types'
        BY <1>1, <1>4, Numbers DEF BP!IInv
      <3>2. faults' \in 0 .. MaxFaults
        BY <3>1 DEF BP!Types
      <3> QED
        BY <3>1, <3>2, BillingAssumption
    <2>6. Account'
      BY <1>1, <1>7, <1>10, <1>12, <2>1, <2>2, <2>3, <2>5, SettleAccount
    <2> QED
      BY <2>4, <2>6 DEF DriftInv
  <1> QED
    BY <1>7, <1>11, <1>12

\* The answer reaches GitHub.
LEMMA ReplyKeeps ==
    ASSUME DriftAssumptions, DriftInv, NEW h \in Handlers, Reply(h)
    PROVE  DriftInv'
  <1>1. /\ PlaceInv /\ Account /\ BP!IInv /\ Placed(h) /\ Typed /\ pc[h] = "reply"
        /\ serves[h] \in Deliveries /\ call[h] = BP!NoCall
    BY DEF DriftInv, PlaceInv, Placed, Reply, At
  <1>2. /\ pc' = [pc EXCEPT ![h] = "idle"] /\ serves' = [serves EXCEPT ![h] = "none"]
        /\ status' = [status EXCEPT ![h] = 0] /\ waiting' = [waiting EXCEPT ![h] = FALSE]
        /\ UNCHANGED <<customers, usage, call, faults, trace>>
    BY DEF Reply, Forget, Goto, billingVars
  <1>3. PICK d \in Deliveries : d = serves[h]
    BY <1>1
  <1>4. /\ \A e \in Deliveries : e # d => answered'[e] = answered[e]
        /\ answered'[d] = IF waiting[h] THEN IF Success(status[h]) THEN "ok" ELSE "failed"
                                        ELSE answered[d]
        /\ answered' \in [Deliveries -> {"none", "pending", "ok", "failed"}]
    BY <1>1, <1>3 DEF Reply, Typed
  <1>5. /\ BP!IInv' /\ faults \in Nat /\ faults' \in Nat /\ faults <= faults' /\ BP!CallMoves(h)
    BY <1>1, <1>2, GateStays
  <1>6. /\ Typed' /\ Alone(h)
        /\ pc'[h] = "idle" /\ serves'[h] = "none" /\ ~ waiting'[h]
    <2>1. PICK p \in Places, e \in Deliveries \cup {"none"} : p = "idle" /\ e = "none"
      BY DEF Places
    <2>2. PICK code \in Int : code = 0
      OBVIOUS
    <2>3. PICK w \in BOOLEAN : w = FALSE
      OBVIOUS
    <2> QED
      BY <1>1, <1>2, <1>4, <1>5, <2>1, <2>2, <2>3, Moved
  <1>7. waiting[h] => \A g \in Handlers : g # h /\ waiting[g] => serves[g] # d
    BY <1>1, <1>3, WaitsAlone
  <1>8. \A g \in Handlers : waiting[g] => serves[g] \in Deliveries
    BY <1>1, WaitsAlone
  <1>9. PlaceInv'
    <2>1. Placed(h)'
      BY <1>1, <1>2, <1>6 DEF Placed, RepoPlaces
    <2>2. \A e \in Deliveries : answered'[e] = "ok" => Accepts(EventOf[e])
      BY <1>1, <1>3, <1>4 DEF PlaceInv, Placed, Event
    <2>3. \A g \in Handlers : g # h /\ waiting[g] => answered'[serves[g]] = answered[serves[g]]
      BY <1>4, <1>7, <1>8
    <2> QED
      BY <1>1, <1>5, <1>6, <2>1, <2>2, <2>3, PlaceStep
  <1>10. ~ Unrecorded(h) /\ ~ Unrecorded(h)' /\ OthersStay(h)
    BY <1>1, <1>6, AloneIsEnough DEF Unrecorded
  <1>11. ASSUME NEW e \in Deliveries PROVE StillFor(e)
    <2>1. CASE e # d
      BY <1>3, <1>4, <1>6, <1>10, <2>1, Elsewhere DEF OnlyAbout
    <2>2. CASE e = d
      <3>1. h \notin Strays(d) /\ h \notin Strays(d)'
        BY <1>10 DEF Strays
      <3>2. Strays(d)' = Strays(d)
        BY <1>10, <3>1, StrayCount
      <3>3. CASE waiting[h]
        <4>1. Settled(d)
          BY <1>3, <1>10, <3>3 DEF Settled
        <4>2. \A g \in Handlers : ~ (waiting'[g] /\ serves'[g] = d)
          BY <1>6, <1>7, <3>3 DEF Alone
        <4>3. Settled(d)' <=> Success(status[h])
          BY <1>4, <3>3, <4>2 DEF Settled
        <4>4. Weight(d) # 0 => Success(status[h])
          BY <1>1, <1>3 DEF Placed, Success
        <4>5. Target(d)' = Target(d)
          BY <4>1, <4>3, <4>4 DEF Target, Weight
        <4> QED
          BY <2>2, <3>2, <4>5 DEF StillFor
      <3>4. CASE ~ waiting[h]
        <4>1. Settled(d)' <=> Settled(d)
          BY <1>4, <1>6, <1>10, <3>4 DEF Settled, OthersStay
        <4> QED
          BY <2>2, <3>2, <4>1 DEF StillFor, Target, Weight
      <3> QED
        BY <3>3, <3>4
    <2> QED
      BY <2>1, <2>2
  <1>12. Account'
    BY <1>1, <1>2, <1>5, <1>11, StillStep
  <1> QED
    BY <1>9, <1>12 DEF DriftInv

\* GitHub gives up.
LEMMA GiveUpKeeps ==
    ASSUME DriftAssumptions, DriftInv, NEW h \in Handlers, GiveUp(h)
    PROVE  DriftInv'
  <1>1. /\ PlaceInv /\ Account /\ BP!IInv /\ Placed(h) /\ Typed /\ waiting[h]
        /\ serves[h] \in Deliveries
    BY DEF DriftInv, PlaceInv, Placed, GiveUp
  <1>2. /\ waiting' = [waiting EXCEPT ![h] = FALSE]
        /\ answered' = [answered EXCEPT ![serves[h]] = "failed"]
        /\ UNCHANGED <<pc, serves, status>>
        /\ StoreFault
    BY DEF GiveUp
  <1>3. /\ BP!IInv' /\ faults \in Nat /\ faults' \in Nat /\ faults < faults'
        /\ UNCHANGED <<usage, call>>
    BY <1>1, <1>2, FaultOfStore
  <1>4. /\ Typed' /\ Alone(h) /\ ~ waiting'[h]
        /\ \A g \in Handlers : waiting'[g] <=> (waiting[g] /\ g \notin {h})
    BY <1>1, <1>2, <1>3 DEF Typed, Alone
  <1>5. \A d \in Deliveries :
          answered'[d] = IF \E g \in {h} : serves[g] = d THEN "failed" ELSE answered[d]
    BY <1>1, <1>2 DEF Typed
  <1>6. PlaceInv'
    <2>1. Placed(h)'
      BY <1>1, <1>2, <1>3, <1>4 DEF Placed, RepoPlaces, Event, Weight
    <2>2. \A e \in Deliveries : answered'[e] = "ok" => Accepts(EventOf[e])
      BY <1>1, <1>5 DEF PlaceInv
    <2>3. \A g \in Handlers : g # h /\ waiting[g] => answered'[serves[g]] = answered[serves[g]]
      BY <1>1, <1>5, WaitsAlone
    <2> QED
      BY <1>1, <1>3, <1>4, <2>1, <2>2, <2>3, PlaceStep
  <1>7. faults + Cardinality({h}) <= faults'
    <2>1. Cardinality({h}) = 1
      BY FS_Singleton
    <2> QED
      BY <1>3, <2>1
  <1>8. {h} \in SUBSET Handlers /\ (\A g \in {h} : waiting[g])
    BY <1>1
  <1>9. Account'
    <2> DEFINE H == {h}
    <2>1. /\ H \in SUBSET Handlers /\ (\A g \in H : waiting[g])
          /\ \A g \in Handlers : waiting'[g] <=> (waiting[g] /\ g \notin H)
          /\ \A d \in Deliveries :
               answered'[d] = IF \E g \in H : serves[g] = d THEN "failed" ELSE answered[d]
          /\ faults + Cardinality(H) <= faults'
      BY <1>4, <1>5, <1>7, <1>8
    <2> HIDE DEF H
    <2> QED
      BY <1>1, <1>2, <1>3, <2>1, AbandonStep
  <1> QED
    BY <1>6, <1>9 DEF DriftInv

\* A handler is dropped, and what it had under way takes effect or does not.
LEMMA DropKeeps ==
    ASSUME DriftAssumptions, DriftInv, NEW h \in Handlers, Drop(h)
    PROVE  DriftInv'
  <1>1. /\ PlaceInv /\ Account /\ BP!IInv /\ Placed(h) /\ Typed /\ ~ waiting[h]
        /\ pc[h] # "idle" /\ serves[h] \in Deliveries
    BY DEF DriftInv, PlaceInv, Placed, Drop
  <1>2. /\ pc' = [pc EXCEPT ![h] = "idle"] /\ serves' = [serves EXCEPT ![h] = "none"]
        /\ status' = [status EXCEPT ![h] = 0] /\ waiting' = [waiting EXCEPT ![h] = FALSE]
        /\ UNCHANGED answered
    BY DEF Drop, Forget, Goto, githubVars
  <1>3. PICK d \in Deliveries : d = serves[h]
    BY <1>1
  <1>4. /\ BP!IInv' /\ BP!CallMoves(h) /\ call'[h] = BP!NoCall
        /\ faults \in Nat /\ faults' = faults
        /\ \/ UNCHANGED usage
           \/ /\ pc[h] = "tracking" /\ call[h].result = "none"
              /\ BP!Books(call[h].customer, call[h].feature, call[h].value)
    <2>1. faults \in Nat
      BY <1>1, Numbers
    <2>2. CASE call[h] = BP!NoCall
      <3>1. ~ B!Open(h) /\ call[h] = B!NoCall
        BY <2>2, SameNames DEF BP!NoCall, B!Open
      <3>2. UNCHANGED billingVars
        BY <3>1 DEF Drop
      <3>3. UNCHANGED <<customers, usage, call, trace, faults>>
        BY <3>2 DEF billingVars
      <3> QED
        BY <1>1, <2>1, <2>2, <3>3, GateStays
    <2>3. CASE call[h] # BP!NoCall
      <3>1. BP!Return(h) \/ BP!Cancel(h)
        BY <2>3, SameNames, SameReturn DEF Drop
      <3>2. BP!IInv' /\ BP!CallMoves(h) /\ call'[h] = BP!NoCall
        BY <1>1, <3>1, BP!RestKeeps, BillingAssumption
      <3>3. /\ faults' = faults
            /\ \/ UNCHANGED usage
               \/ /\ BP!Open(h) /\ call[h].op = "track"
                  /\ BP!Books(call[h].customer, call[h].feature, call[h].value)
        BY <1>1, <3>1, BP!CancelEffect, BillingAssumption
      <3>4. BP!Open(h) /\ call[h].op = "track" => pc[h] = "tracking" /\ call[h].result = "none"
        BY <1>1, <2>3 DEF Placed, BP!Open
      <3> QED
        BY <2>1, <3>2, <3>3, <3>4
    <2> QED
      BY <2>2, <2>3
  <1>5. answered' \in [Deliveries -> {"none", "pending", "ok", "failed"}]
    BY <1>1, <1>2 DEF Typed
  <1>6. Typed' /\ Alone(h) /\ pc'[h] = "idle" /\ serves'[h] = "none" /\ ~ waiting'[h]
    <2>1. PICK p \in Places, e \in Deliveries \cup {"none"} : p = "idle" /\ e = "none"
      BY DEF Places
    <2>2. PICK code \in Int : code = 0
      OBVIOUS
    <2>3. PICK w \in BOOLEAN : w = FALSE
      OBVIOUS
    <2> QED
      BY <1>1, <1>2, <1>4, <1>5, <2>1, <2>2, <2>3, Moved
  <1>7. PlaceInv'
    <2>1. Placed(h)'
      BY <1>4, <1>6 DEF Placed, RepoPlaces
    <2>2. \A e \in Deliveries : answered'[e] = "ok" => Accepts(EventOf[e])
      BY <1>1, <1>2 DEF PlaceInv
    <2> QED
      BY <1>1, <1>2, <1>4, <1>6, <2>1, <2>2, PlaceStep
  <1>8. PICK x \in {0, Weight(d)} :
          /\ Booked(d, x)
          /\ x # 0 => Unrecorded(h)
    <2>1. CASE UNCHANGED usage
      <3>1. Booked(d, 0)
        BY <1>1, <2>1, NothingBooked
      <3> QED
        BY <3>1
    <2>2. CASE ~ UNCHANGED usage
      <3>1. Booked(d, Weight(d))
        BY <1>3, <1>4, <2>2, BooksOfEvent
      <3>2. Unrecorded(h)
        BY <1>4, <2>2 DEF Unrecorded
      <3> QED
        BY <3>1, <3>2
    <2> QED
      BY <2>1, <2>2
  <1>9. ~ Unrecorded(h)' /\ OthersStay(h) /\ OnlyAbout(h, d) /\ OnlyAbout(h, d)'
    BY <1>3, <1>6, AloneIsEnough DEF Unrecorded, OnlyAbout
  <1>10. ASSUME NEW y \in Int, NEW z \in Int, z = y + x PROVE Off(z, d)' <= Off(y, d)
    BY <1>1, <1>2, <1>3, <1>6, <1>8, <1>9, <1>10, DropOff
  <1>11. Account'
    <2> DEFINE K == {}
    <2>1. ExplainedHere(K, d, x)
      <3> SUFFICES ASSUME NEW y \in Int, NEW z \in Int, z = y + x
                   PROVE  Off(z, d)' <= Off(y, d) + IF d \in K THEN MostRepos ELSE 0
        BY DEF ExplainedHere
      <3>1. Off(z, d)' <= Off(y, d) /\ Off(y, d) \in Int
        BY <1>10, OffIsInt
      <3> QED
        BY <3>1
    <2>2. faults + Cardinality(K) <= faults' /\ K \in SUBSET {d} /\ x \in Int /\ faults' \in Nat
      <3>1. Cardinality(K) = 0
        BY FS_EmptySet
      <3>2. x \in Int
        BY WeightBound
      <3> QED
        BY <1>4, <3>1, <3>2
    <2> HIDE DEF K
    <2> QED
      BY <1>1, <1>2, <1>4, <1>8, <1>9, <2>1, <2>2, OneDelivery
  <1> QED
    BY <1>7, <1>11 DEF DriftInv

LEMMA ServeKeeps ==
    ASSUME DriftAssumptions, DriftInv, Serve
    PROVE  DriftInv'
  <1>1. PICK h \in Handlers :
          \/ \E d \in Deliveries : Receive(h, d)
          \/ Progress(h) \/ GiveUp(h) \/ Drop(h)
    BY DEF Serve
  <1>2. CASE Progress(h)
    BY <1>2, EnqueueKeeps, EnsureStarts, EnsureEnds, TrackStarts, TrackEnds, BillingKeeps, ReplyKeeps
    DEF Progress
  <1> QED
    BY <1>1, <1>2, ReceiveKeeps, GiveUpKeeps, DropKeeps

\* A step of the process that does not concern the handlers.
LEMMA QuietDrift ==
    ASSUME DriftAssumptions, DriftInv, UNCHANGED <<usage, call, pc, serves, status, waiting>>,
           BP!IInv', faults <= faults', faults' \in Nat,
           answered' \in [Deliveries -> {"none", "pending", "ok", "failed"}],
           \A d \in Deliveries : /\ answered'[d] = "ok" <=> answered[d] = "ok"
                                 /\ answered[d] = "pending" => answered'[d] = "pending"
    PROVE  DriftInv'
  <1>1. PlaceInv /\ Account /\ BP!IInv /\ Typed
    BY DEF DriftInv, PlaceInv
  <1>2. \A h \in Handlers : Unrecorded(h)' <=> Unrecorded(h)
    BY DEF Unrecorded
  <1>3. \A h \in Handlers : Placed(h)'
    BY <1>1 DEF PlaceInv, Placed, Event, Weight
  <1>4. PlaceInv'
    BY <1>1, <1>3 DEF PlaceInv, Typed
  <1>5. ASSUME NEW d \in Deliveries PROVE StillFor(d)
    BY <1>2 DEF StillFor, Target, Settled, Strays, Weight
  <1>6. faults \in Nat
    BY <1>1, Numbers
  <1>7. Account'
    BY <1>1, <1>5, <1>6, StillStep
  <1> QED
    BY <1>4, <1>7 DEF DriftInv

LEMMA CrashKeeps ==
    ASSUME DriftAssumptions, DriftInv, Crash
    PROVE  DriftInv'
  <1> DEFINE H == Waiting
             busy == { h \in Handlers : ~ At(h, "idle") }
  <1>1. PlaceInv /\ Account /\ BP!IInv /\ Typed
    BY DEF DriftInv, PlaceInv
  <1>2. /\ UNCHANGED <<customers, usage, call, trace, pc, serves, status>>
        /\ faults' = faults + Max({1, Cardinality(busy)}) /\ faults' <= MaxFaults
        /\ waiting' = [h \in Handlers |-> FALSE]
        /\ answered' = [d \in Deliveries |->
                          IF \E h \in H : serves[h] = d THEN "failed" ELSE answered[d]]
    BY DEF Crash
  <1>3. /\ H \in SUBSET Handlers /\ (\A h \in H : waiting[h]) /\ H \subseteq busy
        /\ \A h \in Handlers : waiting[h] => h \in H
    BY <1>1 DEF Waiting, At, PlaceInv, Placed
  <1>4. IsFiniteSet(busy) /\ Cardinality(busy) \in Nat /\ Cardinality(H) \in Nat
        /\ Cardinality(H) <= Cardinality(busy)
    <2>1. IsFiniteSet(Handlers) /\ busy \in SUBSET Handlers
      BY DEF DriftAssumptions, Finite
    <2>2. IsFiniteSet(busy)
      BY <2>1, FS_Subset
    <2> HIDE DEF busy
    <2>3. IsFiniteSet(H) /\ Cardinality(H) <= Cardinality(busy)
      BY <1>3, <2>2, FS_Subset
    <2> QED
      BY <2>2, <2>3, FS_CardinalityType
  <1> HIDE DEF H, busy
  <1>5. faults \in Nat /\ faults' \in Nat /\ faults + Cardinality(H) <= faults' /\ faults <= faults'
    <2> DEFINE n == Cardinality(busy)
               S == {1, n}
    <2>1. faults \in Nat /\ n \in Nat
      BY <1>1, <1>4, Numbers
    <2>2. IsFiniteSet(S) /\ S # {} /\ S \subseteq Nat
      <3>1. IsFiniteSet({1})
        BY FS_Singleton
      <3>2. IsFiniteSet({1} \cup {n})
        BY <3>1, FS_AddElement
      <3>3. {1} \cup {n} = S
        OBVIOUS
      <3> QED
        BY <2>1, <3>2, <3>3
    <2>3. n \in S /\ faults' = faults + Max(S)
      BY <1>2
    <2> HIDE DEF S
    <2>4. Max(S) \in Nat /\ n <= Max(S)
      BY <2>2, <2>3, MaxOfFinite
    <2> HIDE DEF n
    <2>5. faults' \in Nat /\ faults + n <= faults' /\ faults <= faults'
      BY <2>1, <2>3, <2>4
    <2> QED
      BY <1>4, <2>1, <2>5 DEF n
  <1>6. BP!IInv'
    BY <1>1, <1>2, <1>5, GateStays
  <1>7. Account'
    <2>1. \A h \in Handlers : waiting'[h] <=> (waiting[h] /\ h \notin H)
      BY <1>2, <1>3
    <2> QED
      BY <1>1, <1>2, <1>3, <1>5, <2>1, AbandonStep
  <1>8. PlaceInv'
    <2>1. Typed'
      BY <1>1, <1>2 DEF Typed
    <2>2. ASSUME NEW h \in Handlers PROVE Placed(h)'
      <3>1. Placed(h) /\ ~ waiting'[h]
        BY <1>1, <1>2 DEF PlaceInv
      <3> QED
        BY <1>2, <3>1 DEF Placed, Event, Weight
    <2>3. \A e \in Deliveries : answered'[e] = "ok" => Accepts(EventOf[e])
      BY <1>1, <1>2 DEF PlaceInv
    <2> QED
      BY <1>2, <1>6, <2>1, <2>2, <2>3 DEF PlaceInv
  <1> QED
    BY <1>7, <1>8 DEF DriftInv


LEMMA RefusedKeeps ==
    ASSUME DriftAssumptions, DriftInv, NEW d \in Deliveries, Refused(d)
    PROVE  DriftInv'
  <1>1. /\ StoreFault /\ answered[d] \in {"none", "failed"}
        /\ answered' = [answered EXCEPT ![d] = "failed"]
        /\ UNCHANGED <<pc, serves, status, waiting>>
    BY DEF Refused
  <1>2. Typed /\ BP!IInv
    BY DEF DriftInv, PlaceInv
  <1>3. /\ BP!IInv' /\ faults' \in Nat /\ faults <= faults' /\ UNCHANGED <<usage, call>>
    BY <1>1, <1>2, FaultOfStore
  <1>4. answered \in [Deliveries -> {"none", "pending", "ok", "failed"}]
    BY <1>2 DEF Typed
  <1> QED
    BY <1>1, <1>3, <1>4, QuietDrift

\* An acknowledged delivery is replayed: what was recorded for it may now be too
\* much.
LEMMA RedeliverKeeps ==
    ASSUME DriftAssumptions, DriftInv, NEW d \in Deliveries, Redeliver(d)
    PROVE  DriftInv'
  <1>1. /\ StoreFault /\ answered[d] = "ok"
        /\ answered' = [answered EXCEPT ![d] = "failed"]
        /\ UNCHANGED <<pc, serves, status, waiting>>
    BY DEF Redeliver
  <1>2. PlaceInv /\ Account /\ Typed /\ BP!IInv
    BY DEF DriftInv, PlaceInv
  <1>3. /\ BP!IInv' /\ faults \in Nat /\ faults' \in Nat /\ faults < faults'
        /\ UNCHANGED <<usage, call>>
    BY <1>1, <1>2, FaultOfStore
  <1>4. answered'[d] = "failed" /\ \A e \in Deliveries : e # d => answered'[e] = answered[e]
    BY <1>1, <1>2 DEF Typed
  <1>5. PlaceInv'
    <2>1. ASSUME NEW g \in Handlers PROVE Placed(g)'
      <3>1. Placed(g)
        BY <1>2 DEF PlaceInv
      <3>2. waiting[g] => serves[g] \in Deliveries /\ answered'[serves[g]] = answered[serves[g]]
        BY <1>1, <1>4, <3>1 DEF Placed
      <3> QED
        BY <1>1, <1>3, <3>1, <3>2 DEF Placed, Event, Weight
    <2>2. \A e \in Deliveries : answered'[e] = "ok" => Accepts(EventOf[e])
      BY <1>2, <1>4 DEF PlaceInv
    <2>3. Typed'
      BY <1>1, <1>2 DEF Typed
    <2> QED
      BY <1>1, <1>2, <1>3, <2>1, <2>2, <2>3 DEF PlaceInv
  <1>6. \A h \in Handlers : Unrecorded(h)' <=> Unrecorded(h)
    BY <1>1, <1>3 DEF Unrecorded
  <1>7. ASSUME NEW e \in Deliveries PROVE Strays(e)' = Strays(e)
    BY <1>1, <1>6 DEF Strays
  <1>8. ASSUME NEW e \in Deliveries, NEW y \in Int
        PROVE  Off(y, e)' <= Off(y, e) + IF e \in {d} THEN MostRepos ELSE 0
    <2>1. Off(y, e) \in Int
      BY OffIsInt
    <2>2. CASE e # d
      <3>1. Settled(e)' <=> Settled(e)
        BY <1>1, <1>4, <1>6, <2>2 DEF Settled
      <3>2. Off(y, e)' = Off(y, e)
        BY <1>7, <3>1 DEF Off, Target, Weight
      <3> QED
        BY <2>1, <2>2, <3>2
    <2>3. CASE e = d
      <3> DEFINE W == Weight(d)
                 M == MostRepos
                 T == Target(d)
                 U == Target(d)'
                 k == Cardinality(Strays(d)) * M
      <3>1. M \in Nat /\ W \in Int /\ W <= M /\ - W <= M
        BY WeightBound
      <3>2. T \in {0, W} /\ U \in {0, W}
        BY DEF Target, Weight
      <3>3. Cardinality(Strays(d)) \in Nat
        BY StraysAreFinite
      <3>4. k \in Int
        BY <3>1, <3>3
      <3>5. Off(y, d) = Size(y - T) + k /\ Off(y, d)' = Size(y - U) + k
        BY <1>7 DEF Off, Size
      <3> HIDE DEF W, M, T, U, k
      <3>6. Size(y - U) <= Size(y - T) + M /\ Size(y - U) \in Int /\ Size(y - T) \in Int
        BY <3>1, <3>2 DEF Size
      <3>7. Off(y, d)' <= Off(y, d) + M
        BY <3>1, <3>4, <3>5, <3>6
      <3> QED
        BY <2>3, <3>7 DEF M
    <2> QED
      BY <2>2, <2>3
  <1>9. Explained({d}, d, 0)
    <2> SUFFICES ASSUME NEW e \in Deliveries, NEW y \in Int, NEW z \in Int,
                        z = y + IF e = d THEN 0 ELSE 0
                 PROVE  Off(z, e)' <= Off(y, e) + (IF e \in {d} THEN MostRepos ELSE 0)
      BY DEF Explained
    <2>1. z = y
      OBVIOUS
    <2> QED
      BY <1>8, <2>1
  <1>10. faults + Cardinality({d}) <= faults'
    <2>1. Cardinality({d}) = 1
      BY FS_Singleton
    <2> QED
      BY <1>3, <2>1
  <1>11. Booked(d, 0) /\ 0 \in Int /\ {d} \in SUBSET Deliveries
    BY <1>2, <1>3, NothingBooked
  <1>12. Account'
    BY <1>2, <1>3, <1>9, <1>10, <1>11, AccountStep
  <1> QED
    BY <1>5, <1>12 DEF DriftInv

\* What leaves the webhook alone, or is only a failure of the store.
LEMMA IdleDrift ==
    ASSUME DriftAssumptions, DriftInv, UNCHANGED <<pc, serves, status, waiting, answered>>,
           StoreFault \/ UNCHANGED billingVars
    PROVE  DriftInv'
  <1>1. Typed /\ BP!IInv
    BY DEF DriftInv, PlaceInv
  <1>2. /\ BP!IInv' /\ faults' \in Nat /\ faults <= faults' /\ UNCHANGED <<usage, call>>
    <2>1. CASE StoreFault
      BY <1>1, <2>1, FaultOfStore
    <2>2. CASE UNCHANGED billingVars
      <3>1. UNCHANGED <<customers, usage, call, trace>> /\ faults' = faults
        BY <2>2 DEF billingVars
      <3> QED
        BY <1>1, <3>1, GateStays
    <2> QED
      BY <2>1, <2>2
  <1>3. answered \in [Deliveries -> {"none", "pending", "ok", "failed"}]
    BY <1>1 DEF Typed
  <1> QED
    BY <1>2, <1>3, QuietDrift

LEMMA DriftStep ==
    ASSUME DriftAssumptions, DriftInv, [ServerNext]_allVars
    PROVE  DriftInv'
  <1>1. CASE UNCHANGED webhookVars
    <2>1. UNCHANGED <<pc, serves, status, waiting, answered>> /\ UNCHANGED billingVars
      BY <1>1 DEF webhookVars, vars, githubVars
    <2> QED
      BY <2>1, IdleDrift
  <1>2. CASE StartUp
    <2>1. ASSUME ~ UNCHANGED webhookVars
          PROVE  StoreFault /\ UNCHANGED <<pc, serves, status, waiting, githubVars>>
      BY <1>2, <2>1 DEF StartUp, Load, Connect, BuildClient, Bind, Correct
    <2>2. CASE ~ UNCHANGED webhookVars
      <3>1. StoreFault /\ UNCHANGED <<pc, serves, status, waiting, answered>>
        BY <2>1, <2>2 DEF githubVars
      <3> QED
        BY <3>1, IdleDrift
    <2> QED
      BY <1>1, <2>2
  <1>3. ASSUME NEW d \in Deliveries, Refused(d) PROVE DriftInv'
    BY <1>3, RefusedKeeps
  <1>4. ASSUME NEW d \in Deliveries, Redeliver(d) PROVE DriftInv'
    BY <1>4, RedeliverKeeps
  <1>5. UNCHANGED allVars => UNCHANGED webhookVars
    BY DEF allVars
  <1> QED
    BY <1>1, <1>2, <1>3, <1>4, <1>5, CrashKeeps, ServeKeeps DEF ServerNext

LEMMA DriftInitially ==
    ASSUME DriftAssumptions, ServerInit
    PROVE  DriftInv
  <1>1. /\ B!Init
        /\ pc = [h \in Handlers |-> "idle"] /\ serves = [h \in Handlers |-> "none"]
        /\ status = [h \in Handlers |-> 0] /\ waiting = [h \in Handlers |-> FALSE]
        /\ answered = [d \in Deliveries |-> "none"]
    BY DEF ServerInit, Init
  <1>2. BP!Init
    BY <1>1 DEF B!Init, BP!Init, B!NoCall, BP!NoCall, B!NewTrace, BP!NewTrace
  <1>3. BP!IInv
    BY <1>2, BP!StartsWell, BillingAssumption
  <1>4. /\ \A h \in Handlers : call[h] = BP!NoCall
        /\ faults = 0 /\ \A c \in Customers : usage[c][Repos] = 0
    BY <1>2 DEF BP!Init, DriftAssumptions, ReposExist
  <1>5. Typed
    BY <1>1 DEF Typed, Places
  <1>6. PlaceInv
    <2>1. \A h \in Handlers : Placed(h)
      BY <1>1, <1>4 DEF Placed, RepoPlaces
    <2> QED
      BY <1>1, <1>3, <1>5, <2>1 DEF PlaceInv
  <1>7. Account
    <2> DEFINE z == [d \in Deliveries |-> 0]
    <2>1. z \in [Deliveries -> Int] /\ z \in [Deliveries -> Nat]
      OBVIOUS
    <2>2. ASSUME NEW S \in SUBSET Deliveries PROVE SumOf(z, S) = 0
      <3>1. IsFiniteSet(Deliveries)
        BY DEF DriftAssumptions, Finite
      <3>2. IsFiniteSet(S) /\ \A x \in S : z[x] = 0
        BY <3>1, FS_Subset
      <3> HIDE DEF z
      <3> QED
        BY <3>2, SumOfZeros
    <2>3. ASSUME NEW d \in Deliveries PROVE Off(z[d], d) <= z[d]
      <3>1. Strays(d) = {}
        BY <1>1 DEF Strays, Unrecorded
      <3>2. Cardinality(Strays(d)) = 0
        BY <3>1, FS_EmptySet
      <3>3. Target(d) = 0
        BY <1>1 DEF Target, Settled
      <3>4. MostRepos \in Nat
        BY WeightBound
      <3>5. Size(0) = 0 /\ 0 * MostRepos = 0 /\ z[d] = 0
        BY <3>4 DEF Size
      <3> QED
        BY <3>2, <3>3, <3>5 DEF Off
    <2>4. \A c \in Customers : RepoEvents(c) \in SUBSET Deliveries
      BY DEF RepoEvents
    <2>5. 0 * MostRepos = 0
      BY WeightBound
    <2> HIDE DEF z
    <2>6. \A c \in Customers : usage[c][Repos] = SumOf(z, RepoEvents(c))
      BY <1>4, <2>2, <2>4
    <2>7. SumOf(z, Deliveries) <= faults * MostRepos
      BY <1>4, <2>2, <2>5
    <2> QED
      BY <2>1, <2>3, <2>6, <2>7 DEF Account
  <1> QED
    BY <1>6, <1>7 DEF DriftInv

\* When all is delivered, what was recorded for each event is what it is to
\* record, but for the failures.
LEMMA AccountExplains ==
    ASSUME DriftAssumptions, DriftInv
    PROVE  DriftIsExplained
  <1> SUFFICES ASSUME NEW c \in Customers, Delivered(c)
               PROVE  LET drift == usage[c][Repos] - (EverEnabled(c) - EverRemoved(c)) IN
                      drift <= faults * MostRepos /\ - drift <= faults * MostRepos
    BY DEF DriftIsExplained, Repos
  <1> DEFINE R == RepoEvents(c)
             p == [d \in Deliveries |-> EventOf[d].added]
             q == [d \in Deliveries |-> EventOf[d].removed]
  <1>1. PlaceInv /\ Account /\ BP!IInv
    BY DEF DriftInv, PlaceInv
  <1>2. PICK u \in [Deliveries -> Int], b \in [Deliveries -> Nat] :
          /\ usage[c][Repos] = SumOf(u, RepoEvents(c))
          /\ \A e \in Deliveries : Off(u[e], e) <= b[e]
          /\ SumOf(b, Deliveries) <= faults * MostRepos
    BY <1>1 DEF Account
  <1>3. R \in SUBSET Deliveries /\ IsFiniteSet(R) /\ IsFiniteSet(Deliveries)
    BY EventsAreFinite
  <1>4. MostRepos \in Nat /\ \A d \in Deliveries : Weight(d) \in Int
    BY WeightBound
  <1>5. ASSUME NEW d \in R
        PROVE  /\ u[d] \in Int /\ p[d] \in Int /\ q[d] \in Int /\ b[d] \in Int
               /\ u[d] - (p[d] - q[d]) <= b[d] /\ (p[d] - q[d]) - u[d] <= b[d]
    <2>1. d \in Deliveries /\ answered[d] = "ok"
      BY <1>3 DEF Delivered
    <2>2. Accepts(EventOf[d]) /\ EventOf[d].signed
          /\ EventOf[d].kind \in {"installation", "installation_repositories"}
      BY <1>1, <2>1 DEF PlaceInv, RepoEvents
    <2>3. WellFormed(EventOf[d]) /\ EventOf[d].added \in Nat /\ EventOf[d].removed \in Nat
      BY <2>1, EventAssumption DEF DriftAssumptions
    <2>4. Weight(d) = EventOf[d].added - EventOf[d].removed
      BY <2>2, <2>3 DEF Weight, WellFormed, Delta
    <2>5. Target(d) = p[d] - q[d]
      BY <2>1, <2>4 DEF Target, Settled
    <2>6. p[d] \in Int /\ q[d] \in Int
      BY <2>1, <2>3
    <2> HIDE DEF p, q
    <2>7. Cardinality(Strays(d)) \in Nat
      BY <2>1, StraysAreFinite
    <2>8. Cardinality(Strays(d)) * MostRepos \in Nat
      BY <1>4, <2>7
    <2>9. u[d] \in Int /\ b[d] \in Nat /\ Off(u[d], d) <= b[d]
      BY <1>2, <2>1
    <2>10. Size(u[d] - Target(d)) + Cardinality(Strays(d)) * MostRepos <= b[d]
      BY <2>9 DEF Off
    <2>11. Size(u[d] - (p[d] - q[d])) <= b[d]
      BY <2>5, <2>6, <2>8, <2>9, <2>10 DEF Size
    <2> QED
      BY <2>6, <2>9, <2>11 DEF Size
  <1>6. /\ EverEnabled(c) = SumOf(p, R) /\ EverRemoved(c) = SumOf(q, R)
    BY DEF EverEnabled, EverRemoved
  <1>7. \A d \in R : p[d] \in Int /\ q[d] \in Int /\ u[d] \in Int /\ b[d] \in Int
    BY <1>5
  <1> HIDE DEF p, q, R
  <1>8. /\ SumOf(u, R) - (SumOf(p, R) - SumOf(q, R)) <= SumOf(b, R)
        /\ (SumOf(p, R) - SumOf(q, R)) - SumOf(u, R) <= SumOf(b, R)
    BY <1>3, <1>5, SumsClose
  <1>9. SumOf(b, R) <= SumOf(b, Deliveries)
    BY <1>2, <1>3, SumOfPart
  <1>10. /\ SumOf(u, R) \in Int /\ SumOf(p, R) \in Int /\ SumOf(q, R) \in Int /\ SumOf(b, R) \in Int
    BY <1>3, <1>7, SumInt
  <1>11. SumOf(b, Deliveries) \in Int
    BY <1>2, <1>3, SumInt
  <1>12. faults * MostRepos \in Int
    BY <1>1, <1>4, Numbers
  <1>13. usage[c][Repos] = SumOf(u, R)
    BY <1>2 DEF R
  <1> QED
    BY <1>2, <1>6, <1>8, <1>9, <1>10, <1>11, <1>12, <1>13

LEMMA DriftInvariance == DriftAssumptions => (ServerSpec => []DriftInv)
  <1> SUFFICES ASSUME DriftAssumptions PROVE ServerSpec => []DriftInv
    OBVIOUS
  <1>1. ServerInit => DriftInv
    BY DriftInitially
  <1>2. DriftInv /\ [ServerNext]_allVars => DriftInv'
    BY DriftStep
  <1> QED
    BY <1>1, <1>2, PTL DEF ServerSpec

\* In whatever order any number of installation events are served, by however
\* many handlers, whatever fails, times out, is sent again or crashes, and
\* whatever acknowledged delivery is replayed: once all are acknowledged, the
\* reported number of repositories is what the events lead to, but for one event
\* counted too often or too rarely per failure and per replay.
THEOREM DriftFollowsFailures == DriftAssumptions => (ServerSpec => []DriftIsExplained)
  <1> SUFFICES ASSUME DriftAssumptions PROVE ServerSpec => []DriftIsExplained
    OBVIOUS
  <1>1. DriftInv => DriftIsExplained
    BY AccountExplains
  <1> QED
    BY <1>1, DriftInvariance, PTL

\* What the billing client promises a caller holds of the handlers, which may be
\* dropped in the middle of a call, and of a process that ends with them: no
\* repositories are recorded twice by the self-heal of one call, and no call fails
\* but for a failure of one of its own requests.
THEOREM GateHoldsInTheProcess ==
    DriftAssumptions => (ServerSpec => [](B!TrackRecordsOnce /\ B!FailsOpenForReason))
  <1> SUFFICES ASSUME DriftAssumptions
               PROVE  ServerSpec => [](B!TrackRecordsOnce /\ B!FailsOpenForReason)
    OBVIOUS
  <1>1. DriftInv => B!TrackRecordsOnce /\ B!FailsOpenForReason
    <2> SUFFICES ASSUME DriftInv PROVE B!TrackRecordsOnce /\ B!FailsOpenForReason
      OBVIOUS
    <2>1. BP!IInv
      BY DEF DriftInv, PlaceInv
    <2>2. BP!TrackRecordsOnce /\ BP!FailsOpenForReason
      BY <2>1, BP!OnceFollows, BP!ReasonFollows, BillingAssumption
    <2> QED
      BY <2>2 DEF B!TrackRecordsOnce, BP!TrackRecordsOnce, B!FailsOpenForReason,
                  BP!FailsOpenForReason, B!Over, BP!Over
  <1> QED
    BY <1>1, DriftInvariance, PTL

-----------------------------------------------------------------------------
(* Types.                                                                   *)

Codes == {0, 200, 202, 400, 401, 500}

\* What the invariants above do not say of the handlers' and GitHub's variables.
RestInv ==
    /\ status \in [Handlers -> Codes]
    /\ sends \in [Deliveries -> 0 .. MaxSends]
    /\ \A h \in Handlers : pc[h] = "idle" => serves[h] = "none"

\* A handler goes on with its delivery, or is done with it.
LEMMA GoesOn ==
    ASSUME RestInv, Typed, sends' = sends, serves' = serves, NEW h \in Handlers,
           NEW p \in Places \ {"idle"}, NEW code \in Codes,
           pc' = [pc EXCEPT ![h] = p], status' = [status EXCEPT ![h] = code]
    PROVE  RestInv'
  BY DEF RestInv, Typed

LEMMA IsDone ==
    ASSUME RestInv, Typed, sends' = sends, NEW h \in Handlers, Forget(h)
    PROVE  RestInv'
  BY DEF RestInv, Typed, Forget, Goto, Codes

LEMMA StatusStays ==
    ASSUME RestInv, Typed, NEW h \in Handlers
    PROVE  \E code \in Codes : status = [status EXCEPT ![h] = code]
  <1>1. status = [status EXCEPT ![h] = status[h]] /\ status[h] \in Codes
    BY DEF RestInv
  <1> QED
    BY <1>1

LEMMA RestOfServing ==
    ASSUME RestInv, Typed, NEW h \in Handlers,
           (\E d \in Deliveries : Receive(h, d)) \/ Progress(h) \/ GiveUp(h) \/ Drop(h)
    PROVE  RestInv'
  <1>1. ASSUME NEW d \in Deliveries, Receive(h, d) PROVE RestInv'
    <2>1. PICK p \in Places \ {"idle"} : p = Dispatch(EventOf[d])
      BY DEF Dispatch, Places
    <2>2. PICK code \in Codes : code = IF p = "reply" THEN StatusAtOnce(EventOf[d]) ELSE 0
      BY DEF StatusAtOnce, Codes
    <2>3. /\ pc' = [pc EXCEPT ![h] = p] /\ serves' = [serves EXCEPT ![h] = d]
          /\ status' = [status EXCEPT ![h] = code]
      BY <1>1, <2>1, <2>2 DEF Receive, Goto
    <2>4. sends[d] < MaxSends /\ sends' = [sends EXCEPT ![d] = @ + 1]
      BY <1>1 DEF Receive
    <2>5. sends' \in [Deliveries -> 0 .. MaxSends]
      BY <2>4, SendsAssumption DEF RestInv
    <2>6. status' \in [Handlers -> Codes]
      BY <2>3 DEF RestInv
    <2> QED
      BY <2>1, <2>3, <2>5, <2>6 DEF RestInv, Typed
  <1>2. CASE Enqueue(h)
    <2>1. PICK code \in Codes : Answer(h, code)
      BY <1>2 DEF Enqueue, Codes
    <2>2. serves' = serves /\ sends' = sends
      BY <1>2 DEF Enqueue, githubVars
    <2>3. PICK p \in Places \ {"idle"} : p = "reply"
      BY DEF Places
    <2>4. pc' = [pc EXCEPT ![h] = p] /\ status' = [status EXCEPT ![h] = code]
      BY <2>1, <2>3 DEF Answer, Goto
    <2> QED
      BY <2>2, <2>4, GoesOn
  <1>3. CASE EnsureCustomer(h) \/ TrackRepo(h)
    <2>1. PICK p \in Places \ {"idle"} : pc' = [pc EXCEPT ![h] = p]
      BY <1>3 DEF EnsureCustomer, TrackRepo, Goto, Places
    <2>2. serves' = serves /\ sends' = sends /\ status' = status
      BY <1>3 DEF EnsureCustomer, TrackRepo, githubVars
    <2>3. PICK code \in Codes : status = [status EXCEPT ![h] = code]
      BY StatusStays
    <2> QED
      BY <2>1, <2>2, <2>3, GoesOn
  <1>4. CASE Ensured(h) \/ Tracked(h)
    <2>1. serves' = serves /\ sends' = sends
      BY <1>4 DEF Ensured, Tracked, githubVars
    <2>2. \/ Answer(h, 200)
          \/ Goto(h, "track") /\ UNCHANGED status
      BY <1>4 DEF Ensured, Tracked
    <2>3. PICK same \in Codes : status = [status EXCEPT ![h] = same]
      BY StatusStays
    <2>4. PICK p \in Places \ {"idle"} : pc' = [pc EXCEPT ![h] = p]
      BY <2>2 DEF Answer, Goto, Places
    <2>5. PICK code \in Codes : status' = [status EXCEPT ![h] = code]
      BY <2>2, <2>3 DEF Answer, Codes
    <2> QED
      BY <2>1, <2>4, <2>5, GoesOn
  <1>5. CASE Billing(h) \/ GiveUp(h)
    BY <1>5 DEF Billing, GiveUp, githubVars, RestInv
  <1>6. CASE Reply(h) \/ Drop(h)
    <2>1. sends' = sends /\ Forget(h)
      BY <1>6 DEF Reply, Drop, githubVars
    <2> QED
      BY <2>1, IsDone
  <1> QED
    BY <1>1, <1>2, <1>3, <1>4, <1>5, <1>6 DEF Progress

LEMMA RestStep ==
    ASSUME RestInv, Typed, [ServerNext]_allVars
    PROVE  RestInv'
  <1>1. CASE UNCHANGED <<pc, serves, status, sends>>
    BY <1>1 DEF RestInv
  <1>2. ASSUME NEW d \in Deliveries, Refused(d) PROVE RestInv'
    <2>1. /\ sends[d] < MaxSends /\ sends' = [sends EXCEPT ![d] = @ + 1]
          /\ UNCHANGED <<pc, serves, status>>
      BY <1>2 DEF Refused
    <2> QED
      BY <2>1, SendsAssumption DEF RestInv
  <1>3. ASSUME NEW d \in Deliveries, Redeliver(d) PROVE RestInv'
    BY <1>3 DEF Redeliver, RestInv
  <1>4. CASE Serve
    BY <1>4, RestOfServing DEF Serve
  <1>5. CASE StartUp \/ Crash
    BY <1>1, <1>5 DEF StartUp, Load, Connect, BuildClient, Bind, Correct, Crash, webhookVars,
                      vars, githubVars
  <1>6. CASE UNCHANGED allVars
    BY <1>1, <1>6 DEF allVars, webhookVars, vars, githubVars
  <1> QED
    BY <1>2, <1>3, <1>4, <1>5, <1>6 DEF ServerNext

\* Webhook's type invariant, in a process that crashes and starts again.
THEOREM WebhookTypeCorrect == DriftAssumptions => (ServerSpec => []TypeOK)
  <1> SUFFICES ASSUME DriftAssumptions PROVE ServerSpec => []TypeOK
    OBVIOUS
  <1>1. ServerInit => RestInv
    BY SendsAssumption DEF ServerInit, Init, RestInv, Codes
  <1>2. DriftInv /\ RestInv /\ [ServerNext]_allVars => RestInv'
    BY RestStep DEF DriftInv, PlaceInv
  <1>3. WebhookInv /\ DriftInv /\ RestInv => TypeOK
    <2> SUFFICES ASSUME WebhookInv, DriftInv, RestInv PROVE TypeOK
      OBVIOUS
    <2>1. BP!IInv /\ Typed /\ \A h \in Handlers : Placed(h)
      BY DEF DriftInv, PlaceInv
    <2>2. BP!TypeOK
      BY <2>1, BP!TypesFollow, BillingAssumption
    <2>3. B!TypeOK
      BY <2>2 DEF B!TypeOK, BP!TypeOK, B!ResultsOf, BP!ResultsOf, B!NoCall, BP!NoCall,
                  B!Ops, BP!Ops, B!Results, BP!Results
    <2>4. \A h \in Handlers : call[h] # B!NoCall <=> pc[h] \in {"ensuring", "tracking"}
      BY <2>1, SameNames DEF Placed
    <2>5. \A h \in Handlers : At(h, "idle") <=> serves[h] = "none"
      BY <2>1, NameAssumption DEF Placed, RestInv, At
    <2> QED
      BY <2>1, <2>3, <2>4, <2>5 DEF TypeOK, Typed, WebhookInv, RestInv, Codes
  <1>4. ServerSpec => []WebhookInv
    BY ServerInitially, ServerStep, PTL DEF ServerSpec
  <1> QED
    BY <1>1, <1>2, <1>3, <1>4, DriftInvariance, PTL DEF ServerSpec

=============================================================================
