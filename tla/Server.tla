-------------------------------- MODULE Server ------------------------------
(***************************************************************************)
(* The process of scaffold-server: main reads the configuration, connects, *)
(* builds its clients, binds its address and serves the webhook of module  *)
(* Webhook, until it crashes and is started again.                         *)
(*                                                                         *)
(* Outside the process: its environment, which an operator corrects after  *)
(* what a failed start has reported, and the supervisor that starts it.    *)
(* The worker, which is spawned before the address is bound, is module     *)
(* TriageWorker.                                                           *)
(***************************************************************************)
EXTENDS Webhook

CONSTANTS Required   \* the variables that have only to be set

\* Their names are not those of the other problems a start reports.
ASSUME RequiredAssumption ==
    Required \cap { ".env", "GITHUB_APP_ID", "inline key", "no key", "key unreadable", "key file",
                    "database", "RSA key", "GITHUB_BASE_URL", "BIND_ADDR" } = {}

VARIABLES
    env,       \* the environment: an Env
    process,   \* what main does next; "down" and "failed" when it does not run
    reports    \* ghost: what the starts before the first one that served reported

serverVars == <<env, process, reports>>
webhookVars == vars
allVars    == <<webhookVars, serverVars>>

\* What the start looks at.  A key is the text of the variable, or of the file
\* the (tilde-expanded) path leads to: "pem" says PRIVATE KEY and is not an RSA
\* key.  `database` says whether the DATABASE_URL, once it is set, leads to one.
Env == [ dotenv   : {"none", "malformed", "fine"},
         unset    : SUBSET Required,
         appId    : {"none", "text", "number"},
         inline   : {"none", "text", "pem", "rsa"},
         file     : {"none", "unreadable", "text", "pem", "rsa"},
         database : BOOLEAN,
         baseUrl  : BOOLEAN,
         bindAddr : BOOLEAN ]

\* An environment a start gets through with.
Sound == [ dotenv |-> "none", unset |-> {}, appId |-> "number", inline |-> "rsa",
           file |-> "none", database |-> TRUE, baseUrl |-> TRUE, bindAddr |-> TRUE ]

Is(state)   == process = state
Becomes(state) == process' = state

-----------------------------------------------------------------------------
(* What a start reports.                                                   *)

\* load_private_key: the inline key wins, and is not looked beyond.
KeyProblems(e) ==
    CASE e.inline = "text" -> {"inline key"}
      [] e.inline = "none" /\ e.file = "none" -> {"no key"}
      [] e.inline = "none" /\ e.file = "unreadable" -> {"key unreadable"}
      [] e.inline = "none" /\ e.file = "text" -> {"key file"}
      [] OTHER -> {}

Problems(e) ==
    e.unset \cup (IF e.appId = "number" THEN {} ELSE {"GITHUB_APP_ID"}) \cup KeyProblems(e)

\* Mutant: the first problem is returned with `?`.
LoadReportFirst(e) ==
    IF e.dotenv = "malformed" THEN {".env"}
    ELSE IF Problems(e) = {} THEN {} ELSE {CHOOSE p \in Problems(e) : TRUE}

\* ServerConfig::load: every problem at once, but a malformed .env first.
LoadReport(e) == IF e.dotenv = "malformed" THEN {".env"} ELSE Problems(e)

Key(e) == IF e.inline = "none" THEN e.file ELSE e.inline

\* "connecting to Postgres".
DatabaseReport(e) == IF e.database THEN {} ELSE {"database"}

\* GithubHost::new: the key, then the base URL.
ClientReport(e) ==
    CASE Key(e) # "rsa" -> {"RSA key"}
      [] Key(e) = "rsa" /\ ~ e.baseUrl -> {"GITHUB_BASE_URL"}
      [] OTHER -> {}

BindReport(e) == IF e.bindAddr THEN {} ELSE {"BIND_ADDR"}

-----------------------------------------------------------------------------
(* main.                                                                   *)

ServerInit ==
    /\ Init
    /\ env \in Env
    /\ process = "down"
    /\ reports = << >>

\* main returns an error that names problems of the environment, or goes on.
Checked(report, next) ==
    IF report = {}
      THEN Becomes(next) /\ UNCHANGED reports
      ELSE Becomes("failed") /\ reports' = Append(reports, report)

\* A new process starts when nothing of the last one is left.
Load ==
    /\ Is("down")
    /\ \A h \in Handlers : At(h, "idle")
    /\ Checked(LoadReport(env), "connect")
    /\ UNCHANGED <<webhookVars, env>>

\* PgStore::connect, with the migrations: an error ends the process, each time for
\* a DATABASE_URL that is malformed or leads nowhere.
Connect ==
    /\ Is("connect")
    /\ \/ Checked(DatabaseReport(env), "client") /\ UNCHANGED webhookVars
       \/ /\ Becomes("down")
          /\ StoreFault
          /\ UNCHANGED <<jobs, pc, serves, status, waiting, githubVars, reports>>
    /\ UNCHANGED env

BuildClient ==
    /\ Is("client")
    /\ Checked(ClientReport(env), "bind")
    /\ UNCHANGED <<webhookVars, env>>

\* TcpListener::bind, then serve.  The address may be taken.
Bind ==
    /\ Is("bind")
    /\ \/ /\ BindReport(env) = {} /\ Becomes("serving")
          /\ env' = Sound /\ reports' = << >>
          /\ UNCHANGED webhookVars
       \/ /\ BindReport(env) # {} /\ Checked(BindReport(env), "serving")
          /\ UNCHANGED <<webhookVars, env>>
       \/ /\ Becomes("down")
          /\ StoreFault
          /\ UNCHANGED <<jobs, pc, serves, status, waiting, githubVars, env, reports>>

\* The keys that answer a report.  A file that becomes readable, or a path that is
\* followed once there is no inline key, is what it is.
CorrectedKeys(e, report) ==
    LET Own == [inline |-> e.inline, file |-> e.file] IN
    CASE "inline key" \in report -> { [Own EXCEPT !.inline = k] : k \in {"none", "rsa"} }
      [] "key unreadable" \in report -> { [Own EXCEPT !.file = k] : k \in {"text", "pem", "rsa"} }
      [] report \cap {"no key", "key file", "RSA key"} # {} ->
           {[Own EXCEPT !.inline = "rsa"]} \cup
           (IF e.inline = "none" THEN {[Own EXCEPT !.file = "rsa"]} ELSE {})
      [] OTHER -> {Own}

\* The operator does what the last report asks for, and no more.
Corrected(e, report) ==
    { [ dotenv   |-> IF ".env" \in report THEN "fine" ELSE e.dotenv,
        unset    |-> e.unset \ report,
        appId    |-> IF "GITHUB_APP_ID" \in report THEN "number" ELSE e.appId,
        inline   |-> k.inline,
        file     |-> k.file,
        database |-> e.database \/ "database" \in report,
        baseUrl  |-> e.baseUrl \/ "GITHUB_BASE_URL" \in report,
        bindAddr |-> e.bindAddr \/ "BIND_ADDR" \in report ] : k \in CorrectedKeys(e, report) }

Correct ==
    /\ Is("failed")
    /\ env' \in Corrected(env, reports[Len(reports)])
    /\ Becomes("down")
    /\ UNCHANGED <<webhookVars, reports>>

StartUp == Load \/ Connect \/ BuildClient \/ Bind \/ Correct

-----------------------------------------------------------------------------
(* Serving, and not.                                                       *)

\* Somebody waits for what handler h does.
Waiting == { h \in Handlers : waiting[h] }

\* The process ends with all its handlers: what they have under way may still
\* take effect (Drop).  It counts as one failure for each of them.
Crash ==
    /\ Is("serving")
    /\ Becomes("down")
    /\ faults' = faults + Max({1, Cardinality({ h \in Handlers : ~ At(h, "idle") })})
    /\ faults' <= MaxFaults
    /\ waiting' = [h \in Handlers |-> FALSE]
    /\ answered' = [d \in Deliveries |->
                      IF \E h \in Waiting : serves[h] = d THEN "failed" ELSE answered[d]]
    /\ UNCHANGED <<jobs, customers, usage, call, trace, pc, serves, status, sends, env, reports>>

\* A delivery that reaches no process.  (Bound: one of those after the first start
\* that served.)
Refused(d) ==
    /\ ~ Is("serving") /\ env = Sound
    /\ answered[d] \in {"none", "failed"} /\ sends[d] < MaxSends
    /\ StoreFault
    /\ sends' = [sends EXCEPT ![d] = @ + 1]
    /\ answered' = [answered EXCEPT ![d] = "failed"]
    /\ UNCHANGED <<jobs, pc, serves, status, waiting, serverVars>>

Serve ==
    \E h \in Handlers :
        \/ Is("serving") /\ \/ \E d \in Deliveries : Receive(h, d)
                            \/ Progress(h) \/ GiveUp(h)
        \/ Drop(h)

ServerNext ==
    \/ StartUp
    \/ Crash
    \/ \E d \in Deliveries : Refused(d) \/ (Redeliver(d) /\ UNCHANGED serverVars)
    \/ Serve /\ UNCHANGED serverVars

ServerSpec == ServerInit /\ [][ServerNext]_allVars

\* A process that ended is started again, the operator reads what it said, and
\* what a dead process had under way comes to an end; the rest is the fairness of
\* Webhook while the process serves.
ServerFairness ==
    /\ WF_allVars(StartUp)
    /\ \A h \in Handlers :
         /\ WF_allVars(Is("serving") /\ Progress(h) /\ UNCHANGED serverVars)
         /\ WF_allVars(~ Is("serving") /\ Drop(h) /\ UNCHANGED serverVars)
    /\ \A d \in Deliveries :
         WF_allVars(Is("serving") /\ (\E h \in Handlers : Receive(h, d)) /\ UNCHANGED serverVars)

FairServerSpec == ServerSpec /\ ServerFairness

-----------------------------------------------------------------------------

\* What load takes on trust; each costs a start of its own.
Late == {"database", "RSA key", "GITHUB_BASE_URL", "BIND_ADDR"}

\* config.rs on load: "Collects every problem before failing so one run surfaces
\* the complete list".  An operator who corrects what was reported never sees a
\* problem twice, and sees what load finds missing or not a number in one report,
\* the first after a .env that cannot be read; only a key can hide another one
\* from that report.  "Validates everything up front" (config.rs) is not so: the
\* values in Late are first looked at by main, one start after the other, but
\* then load has found everything it ever finds.
OneRoundOfFixes ==
    \A i, j \in 1 .. Len(reports) :
        i < j =>
            /\ reports[i] \cap reports[j] = {}
            /\ reports[j] \cap (Required \cup {"GITHUB_APP_ID"}) # {} => reports[i] = {".env"}
            /\ ".env" \notin reports[j]
            /\ reports[i] \cap Late # {} => reports[j] \subseteq Late

=============================================================================
