------------------------------ MODULE Serving ------------------------------
(***************************************************************************)
(* The HTTP surface in front of the sessions: one browser with several     *)
(* pages logs in, creates, joins and closes sessions; each request goes    *)
(* through several awaits, and the API process is killed or restarted with *)
(* another runtime between any two of them.  A session is the number of    *)
(* its row; its actor is what the surface sees of it (the whole of it is   *)
(* in Actor, imported assets are in Lifecycle).                            *)
(***************************************************************************)
EXTENDS Naturals, Sequences, FiniteSets

CONSTANTS
  Page,         \* tabs of the browser
  Key,          \* idempotency keys
  MaxTenants,   \* bound: principals
  MaxSessions,  \* bound: rows of sessions
  MaxTokens,    \* bound: CSRF tokens
  MaxBuild,     \* bound: runtimes, counted as they replace each other
  MaxStops      \* bound: ends of the API process

ASSUME ServingAssumption ==
  {MaxTenants, MaxSessions, MaxTokens, MaxBuild, MaxStops} \subseteq Nat \ {0}

VARIABLES
  research,   \* media_backend is native_claire_research
  build,      \* resources['asset_revision']
  api,        \* "down", "ready" or "stopping"
  principals, \* of each tenant: expired or not, and the token its hash is of
  reference,  \* of each tenant: revision of the reference asset's row, or 0
  rows,       \* the table of sessions, with the idempotency key of each
  actors,     \* of each row: the actor of this process
  jar,        \* the cookies of the browser
  cleared,    \* history: the CSRF cookie was cleared on its own
  request,    \* of each page: the request under way
  spoiled,    \* history: rows left active by an exception nobody handles
  tokens, stops

servingVars == <<research, build, api, principals, reference, rows, actors, jar, cleared,
                 request, spoiled, tokens, stops>>

NoTenant == 0
Tenant == 1..Len(principals)
Row == 1..Len(rows)
\* READY is ACTIVE too, CLOSED is FAILED too, and only a revocation makes a row
\* DRAINING (Lifecycle).
ActiveStatus == {"PREPARING", "READY"}
Active(s) == rows[s].status \in ActiveStatus
NoActor == "none"
Running == {"preparing", "live"}       \* not closing
Holding == Running \cup {"closing"}    \* what an actor holds is not released yet
NoRequest == [kind |-> "none", step |-> "none", tenant |-> NoTenant, token |-> 0,
              key |-> 0, body |-> "none", row |-> 0]

Goes(p, step) == request' = [request EXCEPT ![p].step = step]
Ends(p) == request' = [request EXCEPT ![p] = NoRequest]

---------------------------------------------------------------------------
\* The browser sends a request with the cookies it has.

Known(t) == t # NoTenant /\ ~principals[t].expired

Sends(p, kind, step, fields) ==
  /\ api = "ready" /\ request[p] = NoRequest
  /\ request' = [request EXCEPT ![p] =
       [NoRequest EXCEPT !.kind = kind, !.step = step, !.tenant = jar.tenant, !.token = fields.token,
                         !.key = fields.key, !.body = fields.body, !.row = fields.row]]
  /\ UNCHANGED <<research, build, api, principals, reference, rows, actors, jar, cleared,
                 spoiled, tokens, stops>>

Fields == [token |-> 0, key |-> 0, body |-> "none", row |-> 0]

SendLogin(p) == Sends(p, "login", "resume", [Fields EXCEPT !.token = jar.token])

\* principal(mutation=True): what is refused changes nothing.
Authenticated == Known(jar.tenant) /\ jar.token = principals[jar.tenant].token

SendCreate(p, key, body) ==
  /\ Authenticated /\ (research => body = "reference")
  /\ Sends(p, "create", "reserve", [Fields EXCEPT !.key = key, !.body = body])

\* owned(): a row of another tenant is not found.
SendJoin(p, s) ==
  /\ Authenticated /\ rows[s].tenant = jar.tenant
  /\ Sends(p, "join", "own", [Fields EXCEPT !.row = s])

SendClose(p, s) ==
  /\ Authenticated /\ rows[s].tenant = jar.tenant
  /\ Sends(p, "close", "close", [Fields EXCEPT !.row = s])

\* The cookie the page's script reads goes, the other one stays.
CsrfCookieCleared ==
  /\ jar.token # 0
  /\ jar' = [jar EXCEPT !.token = 0] /\ cleared' = TRUE
  /\ UNCHANGED <<research, build, api, principals, reference, rows, actors, request,
                 spoiled, tokens, stops>>

PrincipalExpires(t) ==
  /\ ~principals[t].expired
  /\ principals' = [principals EXCEPT ![t] = [expired |-> TRUE, token |-> 0]]
  /\ UNCHANGED <<research, build, api, reference, rows, actors, jar, cleared, request,
                 spoiled, tokens, stops>>

---------------------------------------------------------------------------
\* dev-login

\* MUTANT: every login gives a new token.
Rotates_Always(p) == TRUE

Rotates(p) == request[p].token # principals[request[p].tenant].token

\* resume_login(): a principal goes on, with its token or, if the page does not
\* know it, with a new one; otherwise login() makes a principal.
ResumeLogin(p) ==
  /\ request[p].kind = "login" /\ request[p].step = "resume"
  /\ LET t == request[p].tenant
         next == IF research THEN "reference" ELSE "answer"
         fresh == tokens + 1
     IN  \/ /\ Known(t) /\ ~Rotates(p)
            /\ Goes(p, next)
            /\ UNCHANGED <<principals, reference, tokens>>
         \/ /\ Known(t) /\ Rotates(p) /\ fresh <= MaxTokens
            /\ principals' = [principals EXCEPT ![t].token = fresh]
            /\ tokens' = fresh
            /\ request' = [request EXCEPT ![p].step = next, ![p].token = fresh]
            /\ UNCHANGED reference
         \/ /\ ~Known(t) /\ fresh <= MaxTokens /\ Len(principals) < MaxTenants
            /\ principals' = Append(principals, [expired |-> FALSE, token |-> fresh])
            /\ tokens' = fresh
            /\ reference' = Append(reference, IF research THEN 0 ELSE build)
            /\ request' = [request EXCEPT ![p].step = next, ![p].token = fresh,
                                          ![p].tenant = Len(principals) + 1]
  /\ UNCHANGED <<research, build, api, rows, actors, jar, cleared, spoiled, stops>>

\* MUTANT: a revision is replaced whoever uses it.
ReferenceInUse_Never(t) == FALSE

ReferenceInUse(t) == \E s \in Row : rows[s].tenant = t /\ Active(s)

\* reference_asset() with the revision of this process: a session of the tenant
\* that runs under another one is a conflict.
RecordReference(p) ==
  /\ request[p].kind = "login" /\ request[p].step = "reference"
  /\ LET t == request[p].tenant
     IN  \/ /\ reference[t] \notin {0, build} /\ ReferenceInUse(t)
            /\ Ends(p)
            /\ UNCHANGED reference
         \/ /\ reference[t] \in {0, build} \/ ~ReferenceInUse(t)
            /\ reference' = [reference EXCEPT ![t] = build]
            /\ Goes(p, "answer")
  /\ UNCHANGED <<research, build, api, principals, rows, actors, jar, cleared, spoiled, tokens, stops>>

\* The response sets both cookies.
AnswerLogin(p) ==
  /\ request[p].kind = "login" /\ request[p].step = "answer"
  /\ jar' = [tenant |-> request[p].tenant, token |-> request[p].token]
  /\ Ends(p)
  /\ UNCHANGED <<research, build, api, principals, reference, rows, actors, cleared, spoiled, tokens, stops>>

---------------------------------------------------------------------------
\* Sessions

\* The idempotency record: it outlives the principal it belongs to.
Recorded(t, key) == {s \in Row : rows[s].tenant = t /\ rows[s].key = key}

\* new_session() up to reserve(): a request that was served before gets the row it
\* made; a new one needs the reference asset and a free slot.
Reserve(p) ==
  /\ request[p].step = "reserve"
  /\ LET r == request[p]
         recorded == Recorded(r.tenant, r.key)
         refused == \/ \E s \in recorded : rows[s].body # r.body
                    \/ /\ recorded = {}
                       /\ \/ r.body # "reference" \/ reference[r.tenant] = 0
                          \/ \E s \in Row : Active(s)
     IN  \/ /\ refused \/ recorded # {}
            /\ Ends(p)
            /\ UNCHANGED rows
         \/ /\ ~refused /\ recorded = {} /\ Len(rows) < MaxSessions
            /\ rows' = Append(rows, [tenant |-> r.tenant, key |-> r.key, body |-> r.body,
                                     revision |-> reference[r.tenant], status |-> "PREPARING"])
            /\ request' = [request EXCEPT ![p].step = "start", ![p].row = Len(rows) + 1]
  /\ UNCHANGED <<research, build, api, principals, reference, actors, jar, cleared, spoiled, tokens, stops>>

\* The row is given an actor, which begins to prepare; or its construction raises
\* an exception that is answered with FAILED; or any other exception.
StartActor(p) ==
  /\ request[p].step = "start"
  /\ LET s == request[p].row
     IN  \/ /\ actors' = [actors EXCEPT ![s] = "preparing"]
            /\ Ends(p)
            /\ UNCHANGED <<rows, spoiled>>
         \/ /\ rows' = [rows EXCEPT ![s].status = "CLOSED"]
            /\ Ends(p)
            /\ UNCHANGED <<actors, spoiled>>
         \/ /\ spoiled' = spoiled \cup {s}
            /\ Ends(p)
            /\ UNCHANGED <<rows, actors>>
  /\ UNCHANGED <<research, build, api, principals, reference, jar, cleared, tokens, stops>>

\* join(): the row that was read is ready.
Own(p) ==
  /\ request[p].kind = "join" /\ request[p].step = "own"
  /\ LET ready == rows[request[p].row].status = "READY"
     IN  \/ ready /\ Goes(p, IF research THEN "check" ELSE "grant")
         \/ ~ready /\ Ends(p)
  /\ UNCHANGED <<research, build, api, principals, reference, rows, actors, jar, cleared,
                 spoiled, tokens, stops>>

\* join(): the reference asset is still the one the session was reserved with.
CheckReference(p) ==
  /\ request[p].kind = "join" /\ request[p].step = "check"
  /\ LET same == reference[request[p].tenant] = rows[request[p].row].revision
     IN  \/ same /\ Goes(p, "grant")
         \/ ~same /\ Ends(p)
  /\ UNCHANGED <<research, build, api, principals, reference, rows, actors, jar, cleared,
                 spoiled, tokens, stops>>

\* The actor is looked up, and the grant goes out, without an await between.
Granted(p) ==
  request[p].kind = "join" /\ request[p].step = "grant" /\ actors[request[p].row] \in Running

JoinGrant(p) ==
  /\ request[p].kind = "join" /\ request[p].step = "grant"
  /\ Ends(p)
  /\ UNCHANGED <<research, build, api, principals, reference, rows, actors, jar, cleared,
                 spoiled, tokens, stops>>

\* close(): the actor is closed if there is one, and the answer waits for its end.
CloseSession(p) ==
  /\ request[p].kind = "close" /\ request[p].step = "close"
  /\ LET s == request[p].row
     IN  IF actors[s] \in Holding
         THEN /\ actors' = [actors EXCEPT ![s] = "closing"]
              /\ Goes(p, "wait")
         ELSE /\ Ends(p)
              /\ UNCHANGED actors
  /\ UNCHANGED <<research, build, api, principals, reference, rows, jar, cleared, spoiled, tokens, stops>>

CloseReturns(p) ==
  /\ request[p].kind = "close" /\ request[p].step = "wait"
  /\ actors[request[p].row] \notin Holding
  /\ Ends(p)
  /\ UNCHANGED <<research, build, api, principals, reference, rows, actors, jar, cleared,
                 spoiled, tokens, stops>>

---------------------------------------------------------------------------
\* Actors, as the surface sees them

\* prepare() ends.
ActorRuns(s) ==
  /\ actors[s] = "preparing"
  /\ actors' = [actors EXCEPT ![s] = "live"]
  /\ rows' = [rows EXCEPT ![s].status = "READY"]
  /\ UNCHANGED <<research, build, api, principals, reference, jar, cleared, request, spoiled, tokens, stops>>

\* fail(): no device, no client, no lease, a provider that stopped.
ActorFails(s) ==
  /\ actors[s] \in Running
  /\ actors' = [actors EXCEPT ![s] = "closing"]
  /\ UNCHANGED <<research, build, api, principals, reference, rows, jar, cleared, request,
                 spoiled, tokens, stops>>

\* The end of close(): the row is over, unless the store fails.
ActorCloses(s) ==
  /\ actors[s] = "closing"
  /\ actors' = [actors EXCEPT ![s] = "closed"]
  /\ \/ rows' = [rows EXCEPT ![s].status = "CLOSED"] /\ UNCHANGED spoiled
     \/ spoiled' = spoiled \cup {s} /\ UNCHANGED rows
  /\ UNCHANGED <<research, build, api, principals, reference, jar, cleared, request, tokens, stops>>

Reap(s) ==
  /\ api = "ready" /\ actors[s] = "closed"
  /\ actors' = [actors EXCEPT ![s] = NoActor]
  /\ UNCHANGED <<research, build, api, principals, reference, rows, jar, cleared, request,
                 spoiled, tokens, stops>>

---------------------------------------------------------------------------
\* The process

Gone ==
  /\ api' = "down" /\ stops' = stops + 1
  /\ actors' = [s \in DOMAIN actors |-> NoActor]
  /\ request' = [p \in Page |-> NoRequest]

Kill ==
  /\ api # "down" /\ stops < MaxStops
  /\ Gone
  /\ UNCHANGED <<research, build, principals, reference, rows, jar, cleared, spoiled, tokens>>

\* The server has answered its requests; lifespan() closes the actors it knows.
ShutdownBegins ==
  /\ api = "ready" /\ stops < MaxStops /\ \A p \in Page : request[p] = NoRequest
  /\ api' = "stopping"
  /\ actors' = [s \in DOMAIN actors |-> IF actors[s] \in Running THEN "closing" ELSE actors[s]]
  /\ UNCHANGED <<research, build, principals, reference, rows, jar, cleared, request, spoiled, tokens, stops>>

ShutdownEnds ==
  /\ api = "stopping" /\ \A s \in DOMAIN actors : actors[s] \notin Holding
  /\ Gone
  /\ UNCHANGED <<research, build, principals, reference, rows, jar, cleared, spoiled, tokens>>

\* MUTANT: only a session that was ready is taken for an orphan.
Recovered_Ready(row) ==
  IF row.status = "READY" THEN [row EXCEPT !.status = "CLOSED"] ELSE row

\* recover(): what an earlier process left active has failed.
Recovered(row) ==
  IF row.status \in ActiveStatus THEN [row EXCEPT !.status = "CLOSED"] ELSE row

\* lifespan() up to the first request, with the same runtime or another one.
Start ==
  /\ api = "down"
  /\ api' = "ready"
  /\ build' \in {build} \cup ({build + 1} \cap 1..MaxBuild)
  /\ rows' = [s \in Row |-> Recovered(rows[s])]
  /\ spoiled' = {}
  /\ UNCHANGED <<research, principals, reference, actors, jar, cleared, request, tokens, stops>>

Init ==
  /\ research \in BOOLEAN /\ build = 1 /\ api = "down"
  /\ principals = <<>> /\ reference = <<>> /\ rows = <<>>
  /\ actors = [s \in 1..MaxSessions |-> NoActor]
  /\ jar = [tenant |-> NoTenant, token |-> 0] /\ cleared = FALSE
  /\ request = [p \in Page |-> NoRequest]
  /\ spoiled = {} /\ tokens = 0 /\ stops = 0

Serve(p) ==
  \/ ResumeLogin(p) \/ RecordReference(p) \/ AnswerLogin(p)
  \/ Reserve(p) \/ StartActor(p)
  \/ Own(p) \/ CheckReference(p) \/ JoinGrant(p) \/ CloseSession(p) \/ CloseReturns(p)

Asks(p) ==
  \/ SendLogin(p)
  \/ \E key \in Key, body \in {"reference", "imported"} : SendCreate(p, key, body)
  \/ \E s \in Row : SendJoin(p, s) \/ SendClose(p, s)

Next ==
  \/ \E p \in Page : Asks(p) \/ Serve(p)
  \/ CsrfCookieCleared
  \/ \E t \in Tenant : PrincipalExpires(t)
  \/ \E s \in Row : ActorRuns(s) \/ ActorFails(s) \/ ActorCloses(s) \/ Reap(s)
  \/ Kill \/ ShutdownBegins \/ ShutdownEnds \/ Start

Spec == Init /\ [][Next]_servingVars

---------------------------------------------------------------------------
\* Properties

\* Types; cookies and requests name principals and rows there are, actors have
\* rows, and what an ended process held is gone.
ServingTypeOK ==
  /\ build \in 1..MaxBuild /\ api \in {"down", "ready", "stopping"}
  /\ jar.tenant \in Tenant \cup {NoTenant} /\ jar.token \in 0..tokens
  /\ \A t \in Tenant : principals[t].token \in 0..tokens /\ reference[t] \in 0..build
  /\ \A s \in Row : rows[s].tenant \in Tenant /\ rows[s].revision \in 1..build
  /\ \A p \in Page : request[p].row \in Row \cup {0} /\ request[p].tenant \in Tenant \cup {NoTenant}
  /\ \A s \in DOMAIN actors : actors[s] # NoActor => s \in Row
  /\ api = "down" => /\ \A s \in DOMAIN actors : actors[s] = NoActor
                     /\ \A p \in Page : request[p] = NoRequest

\* The one slot is never lost: while the process serves, an active row belongs to
\* a request that is about to give it an actor or to an actor that still holds
\* something, whatever was killed before.  Two exceptions leave a row active
\* until the next start: one that new_session() does not handle, and a store that
\* fails at the end of close() (app.py:223, actor.py:277).
SlotHasOwner ==
  api # "down" =>
    \A s \in Row \ spoiled :
      Active(s) => \/ \E p \in Page : request[p].step = "start" /\ request[p].row = s
                   \/ actors[s] \in Holding

\* A key names one session of its tenant for good, through restarts and retries
\* by several pages, and a row is only ever worked on by its own tenant.
KeyNamesOneSession ==
  /\ \A s, t \in Row : rows[s].tenant = rows[t].tenant /\ rows[s].key = rows[t].key => s = t
  /\ \A p \in Page : request[p].row # 0 => rows[request[p].row].tenant = request[p].tenant

\* The table of sessions, its keys and the one slot agree with what is going on.
AdmissionIsExact == ServingTypeOK /\ SlotHasOwner /\ KeyNamesOneSession

\* When a grant goes out the session is the asking tenant's, active, and of the
\* revision its reference asset has then, although row, asset and actor are read
\* at three times with awaits between.
GrantIsCurrent ==
  [][\A p \in Page : Granted(p) /\ request'[p] = NoRequest /\ api' = api =>
       LET row == rows[request[p].row]
       IN  /\ row.tenant = request[p].tenant /\ row.status = "READY"
           /\ reference[row.tenant] = row.revision]_servingVars

\* Pages that log in at the same time do not lock each other out: when no login is
\* under way the browser holds the token its principal is checked against.
PagesAgree ==
  (\A p \in Page : request[p].kind # "login") /\ ~cleared /\ Known(jar.tenant)
    => jar.token = principals[jar.tenant].token

\* What docs/p04.md says: "Asset revisions pin the verified TTS runtime descriptor".
\* The session that is served is labelled with the runtime that serves it.
LabelNamesRuntime ==
  \A s \in Row : actors[s] \in Running => rows[s].revision = build
=============================================================================
