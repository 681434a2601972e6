---------------------------- MODULE ServingProofs ----------------------------
(***************************************************************************)
(* The HTTP surface for any number of pages, keys, principals, sessions,   *)
(* runtimes and ends of the process: the slot is never lost, a key names   *)
(* one session, a grant is current and pages do not lock each other out.   *)
(***************************************************************************)
EXTENDS Serving, TLAPS, SequenceTheorems

Statuses == ActiveStatus \cup {"CLOSED"}
Bodies == {"reference", "imported"}
Steps == {"none", "resume", "reference", "answer", "reserve", "start", "own", "check", "grant",
          "close", "wait"}
PrincipalRow == [expired : BOOLEAN, token : Nat]
SessionRow == [tenant : Nat, key : Key, body : Bodies, revision : Nat, status : Statuses]
RequestRow == [kind : {"none", "login", "create", "join", "close"}, step : Steps, tenant : Nat,
               token : Nat, key : Key \cup {0}, body : Bodies \cup {"none"}, row : Nat]

\* Every table has its type.
Shapes ==
  /\ research \in BOOLEAN /\ cleared \in BOOLEAN /\ tokens \in Nat
  /\ build \in 1..MaxBuild /\ api \in {"down", "ready", "stopping"}
  /\ principals \in Seq(PrincipalRow)
  /\ reference \in Seq(Nat) /\ Len(reference) = Len(principals)
  /\ rows \in Seq(SessionRow) /\ Len(rows) <= MaxSessions
  /\ actors \in [1..MaxSessions -> {NoActor, "preparing", "live", "closing", "closed"}]
  /\ jar \in [tenant : Nat, token : Nat]
  /\ request \in [Page -> RequestRow]

\* Whoever carries token k for tenant t has the token of that principal: while the two
\* cookies are left together nobody needs a new one.
CookieHolds(t, k) == ~cleared /\ Known(t) => k = principals[t].token

CookiesMatch ==
  /\ jar.tenant \in Tenant \cup {NoTenant} /\ jar.token <= tokens
  /\ CookieHolds(jar.tenant, jar.token)

PrincipalsAreSound ==
  \A t \in Tenant : principals[t].token <= tokens /\ reference[t] <= build

\* A row names a principal and a revision of its reference asset; an actor that is not
\* closing has an active row.
RowIsSound(s) ==
  /\ rows[s].tenant \in Tenant /\ rows[s].revision \in 1..build
  /\ reference[rows[s].tenant] # 0
  /\ ~research => rows[s].revision = reference[rows[s].tenant]
  /\ actors[s] \in Running => Active(s)
RowsAreSound == \A s \in Row : RowIsSound(s)

\* A request carries what the steps still to come will use.
WellFormed(r) ==
  /\ r.kind = "none" => r.step = "none"
  /\ r.kind = "login" => r.step \in {"resume", "reference", "answer"}
  /\ r.kind = "create" => r.step \in {"reserve", "start"}
  /\ r.kind = "join" => r.step \in {"own", "check", "grant"}
  /\ r.kind = "close" => r.step \in {"close", "wait"}
  /\ r.tenant \in Tenant \cup {NoTenant}
  /\ r.step \notin {"none", "resume"} => r.tenant \in Tenant
  /\ r.token <= tokens
  /\ r.step = "reserve" => r.key \in Key /\ r.body \in Bodies
  /\ r.step = "reference" => research
CarriesItsRow(r) ==
  IF r.kind \in {"join", "close"} \/ r.step = "start"
    THEN r.row \in Row /\ rows[r.row].tenant = r.tenant
    ELSE r.row = 0

\* A join that has seen its row ready and its reference current need not look again while
\* the actor runs: a reference is not replaced under an active row.
JoinHolds(r) ==
  r.kind = "join" =>
    /\ r.step \in {"check", "grant"} => rows[r.row].status # "PREPARING"
    /\ r.step = "grant" /\ actors[r.row] \in Running
         => reference[r.tenant] = rows[r.row].revision

RequestIsSound(r) ==
  /\ WellFormed(r) /\ CarriesItsRow(r) /\ JoinHolds(r)
  /\ r.kind = "login" => CookieHolds(r.tenant, r.token)
RequestsAreSound == \A p \in Page : RequestIsSound(request[p])

\* A row that waits for its actor has none yet, and one request that will start it.
StartsAreTheirOwn ==
  \A p \in Page : request[p].step = "start" =>
    /\ actors[request[p].row] = NoActor /\ rows[request[p].row].status = "PREPARING"
    /\ \A q \in Page : request[q].step = "start" /\ request[q].row = request[p].row => q = p

OneRowPerKey ==
  \A s, t \in Row : rows[s].tenant = rows[t].tenant /\ rows[s].key = rows[t].key => s = t

ActorsHaveRows == \A s \in DOMAIN actors : actors[s] # NoActor => s \in Row

DownIsEmpty ==
  api = "down" => /\ \A s \in DOMAIN actors : actors[s] = NoActor
                  /\ \A p \in Page : request[p] = NoRequest

ServingSound ==
  /\ Shapes /\ CookiesMatch /\ PrincipalsAreSound /\ RowsAreSound /\ RequestsAreSound
  /\ StartsAreTheirOwn /\ SlotHasOwner /\ OneRowPerKey /\ ActorsHaveRows /\ DownIsEmpty

-----------------------------------------------------------------------------
(* What a step must leave alone for the requests it does not serve.        *)

\* Nothing is deleted, a row keeps its tenant and revision and does not become new again.
TablesGrow ==
  /\ \A t \in Tenant : t \in Tenant'
  /\ tokens <= tokens' /\ research' = research
  /\ \A s \in Row :
       /\ s \in Row' /\ rows'[s].tenant = rows[s].tenant /\ rows'[s].revision = rows[s].revision
       /\ rows[s].status # "PREPARING" => rows'[s].status # "PREPARING"

\* No actor comes to life for a row that is not new, and no reference changes under one.
JoinsStay ==
  \A s \in Row : rows[s].status # "PREPARING" /\ actors'[s] \in Running =>
    actors[s] \in Running /\ reference'[rows[s].tenant] = reference[rows[s].tenant]

\* No token changes while the cookies are left together.
CookiesStay ==
  \A t \in Tenant : ~cleared' /\ ~principals'[t].expired =>
    ~cleared /\ ~principals[t].expired /\ principals'[t].token = principals[t].token

OnlyOf(p) ==
  request' \in [Page -> RequestRow] /\ \A q \in Page \ {p} : request'[q] = request[q]

\* The bounds, one by one.
LEMMA BoundsAreNumbers ==
  /\ MaxTenants \in Nat \ {0} /\ MaxSessions \in Nat \ {0} /\ MaxTokens \in Nat \ {0}
  /\ MaxBuild \in Nat \ {0} /\ MaxStops \in Nat \ {0}
BY ServingAssumption

\* A request that no step touches stays sound.
LEMMA RequestStays ==
  ASSUME Shapes, tokens' \in Nat, NEW p \in Page, request'[p] = request[p], RequestIsSound(request[p]),
         TablesGrow, JoinsStay, CookiesStay
  PROVE  RequestIsSound(request[p])'
<1> PICK r \in RequestRow : r = request[p]
  BY DEF Shapes
<1>1. request'[p] = r /\ RequestIsSound(r)
  OBVIOUS
<1>2. WellFormed(r)'
  BY <1>1 DEF RequestIsSound, WellFormed, TablesGrow, NoTenant, Shapes, RequestRow
<1>3. CarriesItsRow(r)'
  BY <1>1 DEF RequestIsSound, CarriesItsRow, TablesGrow
<1>4. JoinHolds(r)'
  <2>1. r.kind = "join" => r.row \in Row /\ rows[r.row].tenant = r.tenant
    BY <1>1 DEF RequestIsSound, CarriesItsRow
  <2> QED
    BY <1>1, <2>1 DEF RequestIsSound, JoinHolds, TablesGrow, JoinsStay
<1>5. r.kind = "login" => CookieHolds(r.tenant, r.token)'
  BY <1>1 DEF RequestIsSound, WellFormed, CookieHolds, CookiesStay, Known, NoTenant
<1> QED  BY <1>1, <1>2, <1>3, <1>4, <1>5 DEF RequestIsSound

\* So all requests are sound after a step that serves one.
LEMMA RequestsStep ==
  ASSUME ServingSound, tokens' \in Nat, NEW p \in Page, OnlyOf(p), RequestIsSound(request[p])',
         TablesGrow, JoinsStay, CookiesStay
  PROVE  RequestsAreSound'
<1> SUFFICES ASSUME NEW q \in Page PROVE RequestIsSound(request[q])'
  BY DEF RequestsAreSound
<1>1. CASE q = p
  BY <1>1
<1>2. CASE q # p
  BY <1>2, RequestStays DEF ServingSound, RequestsAreSound, OnlyOf
<1> QED  BY <1>1, <1>2

\* And after one that serves none.
LEMMA NoRequestStep ==
  ASSUME ServingSound, tokens' \in Nat, request' = request, TablesGrow, JoinsStay, CookiesStay
  PROVE  RequestsAreSound'
BY RequestStays DEF ServingSound, RequestsAreSound

LEMMA JarStays ==
  ASSUME Shapes, CookiesMatch, tokens' \in Nat, jar' = jar, TablesGrow, CookiesStay
  PROVE  CookiesMatch'
BY DEF Shapes, CookiesMatch, CookieHolds, Known, TablesGrow, CookiesStay, NoTenant

\* A request that has ended is sound.
LEMMA EndedIsSound ==
  ASSUME tokens' \in Nat, NEW p \in Page, request'[p] = NoRequest
  PROVE  RequestIsSound(request[p])'
BY DEF RequestIsSound, WellFormed, CarriesItsRow, JoinHolds, NoRequest, NoTenant

LEMMA EndsEffect ==
  ASSUME Shapes, NEW p \in Page, Ends(p)
  PROVE  OnlyOf(p) /\ request'[p] = NoRequest
<1>1. NoRequest \in RequestRow
  BY DEF NoRequest, RequestRow, NoTenant, Steps
<1> QED  BY <1>1 DEF Shapes, Ends, OnlyOf

LEMMA GoesEffect ==
  ASSUME Shapes, NEW p \in Page, NEW step \in Steps, Goes(p, step)
  PROVE  /\ OnlyOf(p)
         /\ request'[p].step = step /\ request'[p].kind = request[p].kind
         /\ request'[p].tenant = request[p].tenant /\ request'[p].token = request[p].token
         /\ request'[p].key = request[p].key /\ request'[p].body = request[p].body
         /\ request'[p].row = request[p].row
<1> PICK r \in RequestRow : r = request[p]
  BY DEF Shapes
<1> DEFINE n == [r EXCEPT !.step = step]
<1>1. /\ n \in RequestRow /\ n.step = step /\ n.kind = r.kind /\ n.tenant = r.tenant
      /\ n.token = r.token /\ n.key = r.key /\ n.body = r.body /\ n.row = r.row
  BY DEF RequestRow
<1>2. request' = [request EXCEPT ![p] = n]
  BY DEF Goes
<1> HIDE DEF n
<1> QED  BY <1>1, <1>2 DEF OnlyOf, Shapes

LEMMA ReplacedEffect ==
  ASSUME Shapes, NEW p \in Page, NEW n \in RequestRow, request' = [request EXCEPT ![p] = n]
  PROVE  OnlyOf(p) /\ request'[p] = n
BY DEF OnlyOf, Shapes

LEMMA Entries ==
  ASSUME Shapes
  PROVE  /\ \A t \in Tenant : principals[t] \in PrincipalRow /\ principals[t].token \in Nat
                              /\ reference[t] \in Nat
         /\ \A s \in Row : rows[s] \in SessionRow /\ s \in 1..MaxSessions
         /\ Len(principals) \in Nat /\ Len(rows) \in Nat /\ MaxSessions \in Nat /\ build \in Nat
<1>0. build \in Nat
  <2>1. build \in 1..MaxBuild
    BY DEF Shapes
  <2> QED  BY <2>1
<1>1. Len(principals) \in Nat /\ Len(rows) \in Nat /\ MaxSessions \in Nat
  BY LenProperties, BoundsAreNumbers DEF Shapes
<1>2. \A t \in Tenant : principals[t] \in PrincipalRow /\ reference[t] \in Nat
  BY ElementOfSeq DEF Shapes, Tenant
<1>3. \A s \in Row : rows[s] \in SessionRow /\ s \in 1..MaxSessions
  BY <1>1, ElementOfSeq DEF Shapes, Row
<1> QED  BY <1>0, <1>1, <1>2, <1>3 DEF PrincipalRow

Tables == <<research, build, api, principals, reference, rows, actors, cleared, spoiled, tokens>>

LEMMA TablesStay ==
  ASSUME Shapes, UNCHANGED Tables
  PROVE  TablesGrow /\ JoinsStay /\ CookiesStay
BY DEF Shapes, Tables, TablesGrow, JoinsStay, CookiesStay, Tenant, Row

\* A step that only serves a request, and may set the cookies.
LEMMA RequestOnly ==
  ASSUME ServingSound, NEW p \in Page, OnlyOf(p), UNCHANGED Tables, RequestIsSound(request[p])',
         request[p].step # "start", request'[p].step # "start", api # "down",
         jar' \in [tenant : Nat, token : Nat], CookiesMatch'
  PROVE  ServingSound'
<1> USE DEF ServingSound, Tables
<1>1. Shapes'
  BY DEF Shapes, OnlyOf
<1>2. RequestsAreSound'
  BY <1>1, TablesStay, RequestsStep DEF Shapes
<1>3. PrincipalsAreSound' /\ RowsAreSound' /\ OneRowPerKey' /\ ActorsHaveRows' /\ DownIsEmpty'
  BY DEF PrincipalsAreSound, RowsAreSound, RowIsSound, Active, OneRowPerKey, ActorsHaveRows,
         DownIsEmpty, Tenant, Row
<1>4. \A q \in Page : (request[q].step = "start" <=> request'[q].step = "start")
                      /\ (request[q].step = "start" => request'[q] = request[q])
  BY DEF OnlyOf
<1>5. StartsAreTheirOwn'
  BY <1>4 DEF StartsAreTheirOwn
<1>6. SlotHasOwner'
  BY <1>4 DEF SlotHasOwner, Active, Row
<1> QED  BY <1>1, <1>2, <1>3, <1>5, <1>6

-----------------------------------------------------------------------------
(* Requests: sending them, and the steps that only read.                   *)

LEMMA SendsEffect ==
  ASSUME Shapes, NEW p \in Page, NEW kind \in {"login", "create", "join", "close"}, NEW step \in Steps,
         NEW fields \in [token : Nat, key : Key \cup {0}, body : Bodies \cup {"none"}, row : Nat],
         Sends(p, kind, step, fields)
  PROVE  /\ OnlyOf(p) /\ request[p].step = "none"
         /\ request'[p].kind = kind /\ request'[p].step = step
         /\ request'[p].tenant = jar.tenant /\ request'[p].token = fields.token
         /\ request'[p].key = fields.key /\ request'[p].body = fields.body
         /\ request'[p].row = fields.row
<1> DEFINE n == [NoRequest EXCEPT !.kind = kind, !.step = step, !.tenant = jar.tenant,
                   !.token = fields.token, !.key = fields.key, !.body = fields.body, !.row = fields.row]
<1>1. /\ n.kind = kind /\ n.step = step /\ n.tenant = jar.tenant /\ n.token = fields.token
      /\ n.key = fields.key /\ n.body = fields.body /\ n.row = fields.row
  BY DEF NoRequest
<1>2. n \in RequestRow
  BY DEF NoRequest, RequestRow, Shapes
<1>3. request' = [request EXCEPT ![p] = n] /\ request[p].step = "none"
  BY DEF Sends, NoRequest
<1> HIDE DEF n
<1> QED  BY <1>1, <1>2, <1>3 DEF OnlyOf, Shapes

LEMMA FieldsTypes ==
  ASSUME Shapes
  PROVE  /\ \A s \in Nat : [Fields EXCEPT !.row = s]
                             \in [token : Nat, key : Key \cup {0}, body : Bodies \cup {"none"}, row : Nat]
         /\ \A s \in Nat : LET f == [Fields EXCEPT !.row = s]
                           IN  f.token = 0 /\ f.row = s
         /\ \A k \in Key, b \in Bodies : [Fields EXCEPT !.key = k, !.body = b]
                             \in [token : Nat, key : Key \cup {0}, body : Bodies \cup {"none"}, row : Nat]
         /\ \A k \in Key, b \in Bodies : LET f == [Fields EXCEPT !.key = k, !.body = b]
                             IN  f.token = 0 /\ f.row = 0 /\ f.key = k /\ f.body = b
         /\ [Fields EXCEPT !.token = jar.token]
              \in [token : Nat, key : Key \cup {0}, body : Bodies \cup {"none"}, row : Nat]
         /\ LET f == [Fields EXCEPT !.token = jar.token] IN f.token = jar.token /\ f.row = 0
BY DEF Fields, Shapes

LEMMA SendLoginStep ==
  ASSUME ServingSound, NEW p \in Page, SendLogin(p)
  PROVE  ServingSound'
<1> DEFINE f == [Fields EXCEPT !.token = jar.token]
<1>1. /\ f \in [token : Nat, key : Key \cup {0}, body : Bodies \cup {"none"}, row : Nat]
      /\ f.token = jar.token /\ f.row = 0
  BY FieldsTypes DEF ServingSound
<1>2. Sends(p, "login", "resume", f)
  BY DEF SendLogin
<1> HIDE DEF f
<1>3. /\ OnlyOf(p) /\ request[p].step = "none"
      /\ request'[p].kind = "login" /\ request'[p].step = "resume"
      /\ request'[p].tenant = jar.tenant /\ request'[p].token = jar.token /\ request'[p].row = 0
  BY <1>1, <1>2, SendsEffect DEF ServingSound, Steps
<1>4. UNCHANGED Tables /\ jar' = jar /\ api # "down"
  BY <1>2 DEF Sends, Tables
<1>5. RequestIsSound(request[p])' /\ CookiesMatch'
  BY <1>3, <1>4 DEF ServingSound, CookiesMatch, RequestIsSound, WellFormed, CarriesItsRow,
                    JoinHolds, CookieHolds, Known, Tables, Tenant
<1> QED  BY <1>3, <1>4, <1>5, RequestOnly DEF ServingSound, Shapes

LEMMA SendCreateStep ==
  ASSUME ServingSound, NEW p \in Page, NEW k \in Key, NEW b \in Bodies, SendCreate(p, k, b)
  PROVE  ServingSound'
<1> DEFINE f == [Fields EXCEPT !.key = k, !.body = b]
<1>1. /\ f \in [token : Nat, key : Key \cup {0}, body : Bodies \cup {"none"}, row : Nat]
      /\ f.token = 0 /\ f.row = 0 /\ f.key = k /\ f.body = b
  BY FieldsTypes DEF ServingSound
<1>2. Sends(p, "create", "reserve", f) /\ jar.tenant # NoTenant
  BY DEF SendCreate, Authenticated, Known
<1> HIDE DEF f
<1>3. /\ OnlyOf(p) /\ request[p].step = "none"
      /\ request'[p].kind = "create" /\ request'[p].step = "reserve"
      /\ request'[p].tenant = jar.tenant /\ request'[p].token = 0
      /\ request'[p].key = k /\ request'[p].body = b /\ request'[p].row = 0
  BY <1>1, <1>2, SendsEffect DEF ServingSound, Steps
<1>4. UNCHANGED Tables /\ jar' = jar /\ api # "down"
  BY <1>2 DEF Sends, Tables
<1>5. RequestIsSound(request[p])' /\ CookiesMatch'
  BY <1>2, <1>3, <1>4 DEF ServingSound, Shapes, CookiesMatch, RequestIsSound, WellFormed, CarriesItsRow,
                    JoinHolds, CookieHolds, Known, Tables, Tenant
<1> QED  BY <1>3, <1>4, <1>5, RequestOnly DEF ServingSound, Shapes

LEMMA SendForRow ==
  ASSUME ServingSound, NEW p \in Page, NEW s \in Row, NEW kind \in {"join", "close"},
         NEW step \in {"own", "close"}, kind = "join" <=> step = "own",
         Authenticated, rows[s].tenant = jar.tenant, Sends(p, kind, step, [Fields EXCEPT !.row = s])
  PROVE  ServingSound'
<1> DEFINE f == [Fields EXCEPT !.row = s]
<1>0. s \in Nat
  BY DEF Row
<1>1. /\ f \in [token : Nat, key : Key \cup {0}, body : Bodies \cup {"none"}, row : Nat]
      /\ f.token = 0 /\ f.row = s
  BY <1>0, FieldsTypes DEF ServingSound
<1>2. Sends(p, kind, step, f) /\ jar.tenant # NoTenant
  BY DEF Authenticated, Known
<1> HIDE DEF f
<1>3. /\ OnlyOf(p) /\ request[p].step = "none"
      /\ request'[p].kind = kind /\ request'[p].step = step
      /\ request'[p].tenant = jar.tenant /\ request'[p].token = 0 /\ request'[p].row = s
  <2>1. Shapes /\ step \in Steps /\ kind \in {"login", "create", "join", "close"}
    BY DEF ServingSound, Steps
  <2>2. request'[p].token = f.token /\ request'[p].row = f.row
    BY SMTT(30), <1>1, <1>2, <2>1, SendsEffect
  <2>3. /\ OnlyOf(p) /\ request[p].step = "none"
        /\ request'[p].kind = kind /\ request'[p].step = step /\ request'[p].tenant = jar.tenant
    BY SMTT(30), <1>1, <1>2, <2>1, SendsEffect
  <2> QED  BY <1>1, <2>2, <2>3
<1>4. UNCHANGED Tables /\ jar' = jar /\ api # "down"
  BY <1>2 DEF Sends, Tables
<1>5. RequestIsSound(request[p])' /\ CookiesMatch'
  BY <1>2, <1>3, <1>4 DEF ServingSound, Shapes, CookiesMatch, RequestIsSound, WellFormed, CarriesItsRow,
                    JoinHolds, CookieHolds, Known, Tables, Tenant, Row
<1> QED  BY <1>3, <1>4, <1>5, RequestOnly DEF ServingSound, Shapes

LEMMA SendJoinStep ==
  ASSUME ServingSound, NEW p \in Page, NEW s \in Row, SendJoin(p, s)
  PROVE  ServingSound'
BY SendForRow DEF SendJoin

LEMMA SendCloseStep ==
  ASSUME ServingSound, NEW p \in Page, NEW s \in Row, SendClose(p, s)
  PROVE  ServingSound'
BY SendForRow DEF SendClose

\* A request under way means that the process is up.
LEMMA UpForRequest ==
  ASSUME ServingSound, NEW p \in Page, request[p].step # "none"
  PROVE  api # "down"
BY DEF ServingSound, DownIsEmpty, NoRequest

\* A request ends, and nothing else happens.
LEMMA OnlyEnds ==
  ASSUME ServingSound, NEW p \in Page, request[p].step \notin {"none", "start"}, Ends(p),
         UNCHANGED <<Tables, jar>>
  PROVE  ServingSound'
<1>1. OnlyOf(p) /\ request'[p] = NoRequest /\ api # "down"
  BY EndsEffect, UpForRequest DEF ServingSound
<1>2. RequestIsSound(request[p])' /\ request'[p].step # "start"
  BY <1>1, EndedIsSound DEF ServingSound, Shapes, Tables, NoRequest
<1>3. CookiesMatch'
  BY JarStays, TablesStay DEF ServingSound, Shapes, Tables
<1> QED  BY <1>1, <1>2, <1>3, RequestOnly DEF ServingSound, Shapes

LEMMA AnswerLoginStep ==
  ASSUME ServingSound, NEW p \in Page, AnswerLogin(p)
  PROVE  ServingSound'
<1>1. OnlyOf(p) /\ request'[p] = NoRequest /\ api # "down"
  BY EndsEffect, UpForRequest DEF ServingSound, AnswerLogin
<1>2. RequestIsSound(request[p])' /\ request'[p].step # "start" /\ UNCHANGED Tables
  BY <1>1, EndedIsSound DEF ServingSound, Shapes, Tables, NoRequest, AnswerLogin
<1>3. RequestIsSound(request[p]) /\ request[p] \in RequestRow
  BY DEF ServingSound, RequestsAreSound, Shapes
<1>4. jar' \in [tenant : Nat, token : Nat]
  BY <1>3 DEF AnswerLogin, RequestRow
<1>5. CookiesMatch'
  BY <1>3, <1>2 DEF AnswerLogin, RequestIsSound, WellFormed, CookiesMatch, CookieHolds, Known, Tables,
              Tenant
<1> QED  BY <1>1, <1>2, <1>4, <1>5, RequestOnly DEF AnswerLogin

LEMMA OwnStep ==
  ASSUME ServingSound, NEW p \in Page, Own(p)
  PROVE  ServingSound'
<1>1. CASE Ends(p)
  BY <1>1, OnlyEnds DEF Own, Tables
<1>2. CASE /\ rows[request[p].row].status = "READY"
           /\ Goes(p, IF research THEN "check" ELSE "grant")
  <2> DEFINE step == IF research THEN "check" ELSE "grant"
  <2>1. step \in Steps /\ Goes(p, step)
    BY <1>2 DEF Steps
  <2>2. /\ OnlyOf(p) /\ request'[p].step = step /\ request'[p].kind = request[p].kind
        /\ request'[p].tenant = request[p].tenant /\ request'[p].token = request[p].token
        /\ request'[p].row = request[p].row
    BY <2>1, GoesEffect DEF ServingSound
  <2>3. UNCHANGED <<Tables, jar>> /\ request[p].step = "own" /\ request[p].kind = "join"
    BY DEF Own, Tables
  <2>4. RequestIsSound(request[p]) /\ api # "down"
    BY <2>3, UpForRequest DEF ServingSound, RequestsAreSound
  <2>5. /\ request[p].row \in Row /\ rows[request[p].row].tenant = request[p].tenant
        /\ RowIsSound(request[p].row)
    BY <2>3, <2>4 DEF RequestIsSound, CarriesItsRow, ServingSound, RowsAreSound
  <2>6. RequestIsSound(request[p])'
    BY <1>2, <2>2, <2>3, <2>4, <2>5
       DEF RequestIsSound, WellFormed, CarriesItsRow, JoinHolds, CookieHolds, RowIsSound, Tables,
           Tenant, Row
  <2>7. CookiesMatch'
    BY <2>3, JarStays, TablesStay DEF ServingSound, Shapes, Tables
  <2> QED  BY <2>2, <2>3, <2>4, <2>6, <2>7, RequestOnly DEF ServingSound, Shapes
<1> QED  BY <1>1, <1>2 DEF Own

LEMMA CheckReferenceStep ==
  ASSUME ServingSound, NEW p \in Page, CheckReference(p)
  PROVE  ServingSound'
<1>1. CASE Ends(p)
  BY <1>1, OnlyEnds DEF CheckReference, Tables
<1>2. CASE /\ reference[request[p].tenant] = rows[request[p].row].revision
           /\ Goes(p, "grant")
  <2>2. /\ OnlyOf(p) /\ request'[p].step = "grant" /\ request'[p].kind = request[p].kind
        /\ request'[p].tenant = request[p].tenant /\ request'[p].token = request[p].token
        /\ request'[p].row = request[p].row
    BY <1>2, GoesEffect DEF ServingSound, Steps
  <2>3. UNCHANGED <<Tables, jar>> /\ request[p].step = "check" /\ request[p].kind = "join"
    BY DEF CheckReference, Tables
  <2>4. RequestIsSound(request[p]) /\ api # "down"
    BY <2>3, UpForRequest DEF ServingSound, RequestsAreSound
  <2>6. RequestIsSound(request[p])'
    BY <1>2, <2>2, <2>3, <2>4
       DEF RequestIsSound, WellFormed, CarriesItsRow, JoinHolds, CookieHolds, Tables, Tenant, Row
  <2>7. CookiesMatch'
    BY <2>3, JarStays, TablesStay DEF ServingSound, Shapes, Tables
  <2> QED  BY <2>2, <2>3, <2>4, <2>6, <2>7, RequestOnly DEF ServingSound, Shapes
<1> QED  BY <1>1, <1>2 DEF CheckReference

LEMMA JoinGrantStep ==
  ASSUME ServingSound, NEW p \in Page, JoinGrant(p)
  PROVE  ServingSound'
BY OnlyEnds DEF JoinGrant, Tables

LEMMA CloseReturnsStep ==
  ASSUME ServingSound, NEW p \in Page, CloseReturns(p)
  PROVE  ServingSound'
BY OnlyEnds DEF CloseReturns, Tables

-----------------------------------------------------------------------------
(* Logins and cookies.                                                     *)

\* Nothing that concerns rows changes.
RowsStay == UNCHANGED <<api, rows, actors, spoiled, research>>

LEMMA RowPartsStay ==
  ASSUME ServingSound, RowsStay, NEW p \in Page, OnlyOf(p), request[p].step # "start",
         request'[p].step # "start", api # "down"
  PROVE  StartsAreTheirOwn' /\ SlotHasOwner' /\ OneRowPerKey' /\ ActorsHaveRows' /\ DownIsEmpty'
<1> USE DEF ServingSound, RowsStay
<1>1. \A q \in Page : (request[q].step = "start" <=> request'[q].step = "start")
                      /\ (request[q].step = "start" => request'[q] = request[q])
  BY DEF OnlyOf
<1>2. OneRowPerKey' /\ ActorsHaveRows' /\ DownIsEmpty'
  BY DEF OneRowPerKey, ActorsHaveRows, DownIsEmpty, Row
<1>3. StartsAreTheirOwn'
  BY <1>1 DEF StartsAreTheirOwn
<1>4. SlotHasOwner'
  BY <1>1 DEF SlotHasOwner, Active, Row
<1> QED  BY <1>2, <1>3, <1>4

LEMMA CsrfCookieClearedStep ==
  ASSUME ServingSound, CsrfCookieCleared
  PROVE  ServingSound'
<1> USE DEF ServingSound, CsrfCookieCleared
<1>0. jar' \in [tenant : Nat, token : Nat] /\ jar'.tenant = jar.tenant /\ jar'.token = 0
  BY DEF Shapes
<1>1. TablesGrow /\ JoinsStay /\ CookiesStay /\ Shapes'
  <2>1. TablesGrow /\ JoinsStay /\ CookiesStay
    BY DEF Shapes, TablesGrow, JoinsStay, CookiesStay, Tenant, Row
  <2> QED  BY <1>0, <2>1 DEF Shapes
<1>2. RequestsAreSound'
  BY <1>1, NoRequestStep DEF Shapes
<1>3. CookiesMatch'
  BY <1>0 DEF Shapes, CookiesMatch, CookieHolds, Tenant
<1>4. PrincipalsAreSound' /\ RowsAreSound' /\ OneRowPerKey' /\ ActorsHaveRows' /\ DownIsEmpty'
  BY DEF PrincipalsAreSound, RowsAreSound, RowIsSound, Active, OneRowPerKey, ActorsHaveRows,
         DownIsEmpty, Tenant, Row
<1>5. StartsAreTheirOwn' /\ SlotHasOwner'
  BY DEF StartsAreTheirOwn, SlotHasOwner, Active, Row
<1> QED  BY <1>1, <1>2, <1>3, <1>4, <1>5

LEMMA PrincipalExpiresStep ==
  ASSUME ServingSound, NEW t \in Tenant, PrincipalExpires(t)
  PROVE  ServingSound'
<1> USE DEF ServingSound, PrincipalExpires
<1> DEFINE e == [expired |-> TRUE, token |-> 0]
<1>1. /\ principals' \in Seq(PrincipalRow) /\ Len(principals') = Len(principals)
      /\ \A u \in Tenant : principals'[u] = IF u = t THEN e ELSE principals[u]
  BY ExceptSeq DEF Shapes, PrincipalRow, Tenant
<1>2. Tenant' = Tenant
  BY <1>1 DEF Tenant
<1>3. TablesGrow /\ JoinsStay /\ CookiesStay /\ Shapes'
  BY <1>1, <1>2 DEF Shapes, TablesGrow, JoinsStay, CookiesStay, Row
<1>4. RequestsAreSound' /\ CookiesMatch'
  BY <1>3, NoRequestStep, JarStays DEF Shapes
<1>5. PrincipalsAreSound'
  BY <1>1, <1>2 DEF PrincipalsAreSound, Shapes
<1>6. RowsAreSound'
  BY <1>2 DEF RowsAreSound, RowIsSound, Active, Row
<1>7. OneRowPerKey' /\ ActorsHaveRows' /\ DownIsEmpty' /\ StartsAreTheirOwn' /\ SlotHasOwner'
  BY DEF OneRowPerKey, ActorsHaveRows, DownIsEmpty, StartsAreTheirOwn, SlotHasOwner, Active, Row
<1> QED  BY <1>3, <1>4, <1>5, <1>6, <1>7

\* The login goes on for a principal it has, with the token it has.
LEMMA LoginGoesOn ==
  ASSUME ServingSound, NEW p \in Page, request[p].kind = "login", request[p].step = "resume",
         NEW next \in {"reference", "answer"}, next = "reference" => research,
         Known(request[p].tenant), Goes(p, next), UNCHANGED <<Tables, jar>>
  PROVE  ServingSound'
<1>1. /\ OnlyOf(p) /\ request'[p].step = next /\ request'[p].kind = "login"
      /\ request'[p].tenant = request[p].tenant /\ request'[p].token = request[p].token
      /\ request'[p].row = request[p].row
  BY GoesEffect DEF ServingSound, Steps
<1>2. RequestIsSound(request[p]) /\ api # "down"
  BY UpForRequest DEF ServingSound, RequestsAreSound
<1>3. RequestIsSound(request[p])'
  BY <1>1, <1>2 DEF RequestIsSound, WellFormed, CarriesItsRow, JoinHolds, CookieHolds, Known, Tables,
              Tenant, Row, NoTenant
<1>4. CookiesMatch'
  BY JarStays, TablesStay DEF ServingSound, Shapes, Tables
<1> QED  BY <1>1, <1>2, <1>3, <1>4, RequestOnly DEF ServingSound, Shapes

\* A new token: only where the cookies were parted.
LEMMA LoginRotates ==
  ASSUME ServingSound, NEW p \in Page, request[p].kind = "login", request[p].step = "resume",
         NEW next \in {"reference", "answer"}, next = "reference" => research,
         Known(request[p].tenant), Rotates(p),
         tokens' = tokens + 1, principals' = [principals EXCEPT ![request[p].tenant].token = tokens + 1],
         request' = [request EXCEPT ![p].step = next, ![p].token = tokens + 1],
         UNCHANGED <<research, build, api, reference, rows, actors, jar, cleared, spoiled, stops>>
  PROVE  ServingSound'
<1> USE DEF ServingSound
<1> PICK r \in RequestRow : r = request[p]
  BY DEF Shapes
<1> PICK k \in Nat : k = tokens + 1 /\ tokens < k
  BY DEF Shapes
<1>1. RequestIsSound(r) /\ r.tenant \in Tenant /\ api # "down"
  BY UpForRequest DEF RequestsAreSound, RequestIsSound, WellFormed, Known
<1>2. cleared
  BY <1>1 DEF RequestIsSound, CookieHolds, Rotates
<1> PICK u \in PrincipalRow : u = principals[r.tenant]
  BY <1>1, ElementOfSeq DEF Shapes, Tenant
<1> DEFINE e == [u EXCEPT !.token = k]
           n == [r EXCEPT !.step = next, !.token = k]
<1>3. e \in PrincipalRow /\ e.token = k /\ principals' = [principals EXCEPT ![r.tenant] = e]
  BY DEF PrincipalRow
<1>4. /\ n \in RequestRow /\ n.step = next /\ n.kind = "login" /\ n.tenant = r.tenant
      /\ n.token = k /\ n.row = r.row /\ request' = [request EXCEPT ![p] = n]
  BY DEF RequestRow, Steps
<1> HIDE DEF e, n
<1> DEFINE P == [principals EXCEPT ![r.tenant] = e]
<1>5. /\ principals' \in Seq(PrincipalRow) /\ Len(principals') = Len(principals)
      /\ \A t \in Tenant : principals'[t] = IF t = r.tenant THEN e ELSE principals[t]
  <2>1. principals \in Seq(PrincipalRow) /\ r.tenant \in 1..Len(principals)
    BY <1>1 DEF Shapes, Tenant
  <2>2. /\ P \in Seq(PrincipalRow) /\ Len(P) = Len(principals)
        /\ \A t \in 1..Len(principals) : P[t] = IF t = r.tenant THEN e ELSE principals[t]
    BY <1>3, <2>1, ExceptSeq
  <2> QED  BY <1>3, <2>2 DEF Tenant
<1>6. Tenant' = Tenant /\ OnlyOf(p) /\ request'[p] = n
  <2>1. request \in [Page -> RequestRow]
    BY DEF Shapes
  <2>2. OnlyOf(p) /\ request'[p] = n
    BY <1>4, <2>1 DEF OnlyOf
  <2> QED  BY <1>5, <2>2 DEF Tenant
<1>7. TablesGrow /\ JoinsStay /\ CookiesStay /\ Shapes'
  BY <1>2, <1>4, <1>5, <1>6 DEF Shapes, TablesGrow, JoinsStay, CookiesStay, Row
<1>8. RequestIsSound(request[p])'
  BY <1>1, <1>2, <1>4, <1>6 DEF RequestIsSound, WellFormed, CarriesItsRow, JoinHolds, CookieHolds, NoTenant, Row
<1>9. RequestsAreSound' /\ CookiesMatch'
  BY <1>6, <1>7, <1>8, RequestsStep, JarStays DEF Shapes
<1>10. PrincipalsAreSound'
  <2> SUFFICES ASSUME NEW t \in Tenant PROVE principals'[t].token <= k /\ reference[t] <= build
    BY <1>6 DEF PrincipalsAreSound
  <2>1. principals[t].token \in Nat /\ principals[t].token <= tokens /\ reference[t] <= build
    BY Entries DEF PrincipalsAreSound
  <2>2. reference[t] \in Nat /\ tokens \in Nat
    BY Entries DEF Shapes
  <2> QED  BY <1>3, <1>5, <2>1, <2>2
<1>11. RowsAreSound'
  BY <1>6 DEF RowsAreSound, RowIsSound, Active, Row
<1> QED
  BY <1>1, <1>4, <1>6, <1>7, <1>9, <1>10, <1>11, RowPartsStay DEF RowsStay

\* A new principal.
LEMMA LoginIsNew ==
  ASSUME ServingSound, NEW p \in Page, request[p].kind = "login", request[p].step = "resume",
         NEW next \in {"reference", "answer"}, next = "reference" => research,
         tokens' = tokens + 1,
         principals' = Append(principals, [expired |-> FALSE, token |-> tokens + 1]),
         reference' = Append(reference, IF research THEN 0 ELSE build),
         request' = [request EXCEPT ![p].step = next, ![p].token = tokens + 1,
                                    ![p].tenant = Len(principals) + 1],
         UNCHANGED <<research, build, api, rows, actors, jar, cleared, spoiled, stops>>
  PROVE  ServingSound'
<1> USE DEF ServingSound
<1> PICK r \in RequestRow : r = request[p]
  BY DEF Shapes
<1> PICK k \in Nat : k = tokens + 1 /\ tokens < k
  BY DEF Shapes
<1> PICK t \in Nat : t = Len(principals) + 1
  BY LenProperties DEF Shapes
<1> PICK b \in Nat : b = (IF research THEN 0 ELSE build) /\ b <= build
  <2>1. build \in Nat
    BY Entries
  <2> QED  BY <2>1
<1>1. RequestIsSound(r) /\ api # "down"
  BY UpForRequest DEF RequestsAreSound
<1> DEFINE e == [expired |-> FALSE, token |-> k]
           n == [r EXCEPT !.step = next, !.token = k, !.tenant = t]
<1>3. e \in PrincipalRow /\ e.token = k /\ ~e.expired /\ principals' = Append(principals, e)
  BY DEF PrincipalRow
<1>4. /\ n \in RequestRow /\ n.step = next /\ n.kind = "login" /\ n.tenant = t
      /\ n.token = k /\ n.row = r.row /\ request' = [request EXCEPT ![p] = n]
  BY DEF RequestRow, Steps
<1> HIDE DEF e, n
<1>5. /\ principals' \in Seq(PrincipalRow) /\ Len(principals') = t
      /\ \A u \in Tenant : principals'[u] = principals[u]
      /\ principals'[t] = e
  BY <1>3, AppendProperties DEF Shapes, Tenant
<1>6. /\ reference' \in Seq(Nat) /\ Len(reference') = t
      /\ \A u \in Tenant : reference'[u] = reference[u]
      /\ reference'[t] = b
  BY AppendProperties DEF Shapes, Tenant
<1>7. /\ Tenant' = Tenant \cup {t} /\ t \notin Tenant /\ OnlyOf(p) /\ request'[p] = n
      /\ Row' = Row
  <2>1. Len(principals) \in Nat
    BY LenProperties DEF Shapes
  <2>2. Tenant' = Tenant \cup {t} /\ t \notin Tenant
    BY <1>5, <2>1 DEF Tenant
  <2>3. OnlyOf(p) /\ request'[p] = n
    BY <1>4, ReplacedEffect
  <2> QED  BY <2>2, <2>3 DEF Row
<1>8. \A s \in Row : rows[s].tenant \in Tenant
  BY DEF RowsAreSound, RowIsSound
<1>9. TablesGrow /\ JoinsStay /\ CookiesStay /\ Shapes'
  <2>1. TablesGrow /\ JoinsStay /\ CookiesStay
    <3>1. TablesGrow
      BY <1>7 DEF Shapes, TablesGrow
    <3>2. JoinsStay
      BY <1>6, <1>8 DEF JoinsStay
    <3>3. CookiesStay
      BY <1>5 DEF CookiesStay
    <3> QED  BY <3>1, <3>2, <3>3
  <2> QED  BY <1>5, <1>6, <1>7, <2>1 DEF Shapes, OnlyOf
<1>10. RequestIsSound(request[p])'
  BY <1>1, <1>3, <1>4, <1>5, <1>7
     DEF RequestIsSound, WellFormed, CarriesItsRow, JoinHolds, CookieHolds, NoTenant
<1>11. RequestsAreSound' /\ CookiesMatch'
  BY <1>7, <1>9, <1>10, RequestsStep, JarStays DEF Shapes
<1>12. PrincipalsAreSound'
  <2> SUFFICES ASSUME NEW u \in Tenant \cup {t} PROVE principals'[u].token <= k /\ reference'[u] <= build
    BY <1>7 DEF PrincipalsAreSound
  <2>1. CASE u = t
    BY <1>3, <1>5, <1>6, <2>1
  <2>2. CASE u # t
    <3>1. u \in Tenant /\ principals[u].token \in Nat
      BY <2>2, Entries
    <3>2. principals'[u] = principals[u] /\ reference'[u] = reference[u]
      BY <1>5, <1>6, <3>1
    <3>3. principals[u].token <= tokens /\ reference[u] <= build
      BY <3>1 DEF PrincipalsAreSound
    <3>4. \A m \in Nat : m <= tokens => m <= k
      BY DEF Shapes
    <3> QED  BY <3>1, <3>2, <3>3, <3>4
  <2> QED  BY <2>1, <2>2
<1>13. RowsAreSound'
  BY <1>6, <1>7, <1>8 DEF RowsAreSound, RowIsSound, Active
<1> QED
  BY <1>1, <1>4, <1>7, <1>9, <1>11, <1>12, <1>13, RowPartsStay DEF RowsStay

LEMMA ResumeLoginStep ==
  ASSUME ServingSound, NEW p \in Page, ResumeLogin(p)
  PROVE  ServingSound'
<1> DEFINE next == IF research THEN "reference" ELSE "answer"
<1>1. next \in {"reference", "answer"} /\ (next = "reference" => research)
  OBVIOUS
<1>2. CASE Known(request[p].tenant) /\ ~Rotates(p)
  BY <1>1, <1>2, LoginGoesOn DEF ResumeLogin, Tables
<1>3. CASE Known(request[p].tenant) /\ Rotates(p)
  BY <1>1, <1>3, LoginRotates DEF ResumeLogin
<1>4. CASE ~Known(request[p].tenant)
  BY <1>1, <1>4, LoginIsNew DEF ResumeLogin
<1> QED  BY <1>2, <1>3, <1>4

LEMMA RecordReferenceStep ==
  ASSUME ServingSound, NEW p \in Page, RecordReference(p)
  PROVE  ServingSound'
<1>1. CASE Ends(p) /\ reference' = reference
  BY <1>1, OnlyEnds DEF RecordReference, Tables
<1>2. CASE /\ reference[request[p].tenant] \in {0, build} \/ ~ReferenceInUse(request[p].tenant)
           /\ reference' = [reference EXCEPT ![request[p].tenant] = build]
           /\ Goes(p, "answer")
  <2> USE DEF ServingSound
  <2> PICK t \in Nat : t = request[p].tenant
    BY DEF Shapes, RequestRow
  <2>1. /\ request[p].step = "reference" /\ request[p].kind = "login" /\ RowsStay
        /\ UNCHANGED <<build, principals, jar, cleared, tokens>>
    BY DEF RecordReference, RowsStay
  <2>2. RequestIsSound(request[p]) /\ api # "down" /\ t \in Tenant /\ research
    BY <2>1, UpForRequest DEF RequestsAreSound, RequestIsSound, WellFormed
  <2>3. /\ OnlyOf(p) /\ request'[p].step = "answer" /\ request'[p].kind = "login"
        /\ request'[p].tenant = t /\ request'[p].token = request[p].token
        /\ request'[p].row = request[p].row
    BY <1>2, <2>1, GoesEffect DEF Steps
  <2>4. build \in Nat /\ build # 0
    BY BoundsAreNumbers DEF Shapes
  <2>5. /\ reference' \in Seq(Nat) /\ Len(reference') = Len(reference)
        /\ \A u \in Tenant : reference'[u] = IF u = t THEN build ELSE reference[u]
    BY <1>2, <2>2, <2>4, ExceptSeq DEF Shapes, Tenant
  <2>6. JoinsStay
    <3> SUFFICES ASSUME NEW s \in Row, actors[s] \in Running
                 PROVE  reference'[rows[s].tenant] = reference[rows[s].tenant]
      BY <2>1 DEF JoinsStay, RowsStay
    <3>1. Active(s) /\ rows[s].tenant \in Tenant /\ reference[rows[s].tenant] # 0
      BY DEF RowsAreSound, RowIsSound
    <3> QED  BY <1>2, <2>5, <3>1 DEF ReferenceInUse
  <2>7. TablesGrow /\ CookiesStay /\ Shapes'
    BY <2>1, <2>3, <2>5 DEF Shapes, RowsStay, TablesGrow, CookiesStay, OnlyOf, Tenant, Row
  <2>8. RequestIsSound(request[p])'
    BY <2>1, <2>2, <2>3 DEF RequestIsSound, WellFormed, CarriesItsRow, JoinHolds, CookieHolds, Known,
                RowsStay, Tenant, Row
  <2>9. RequestsAreSound' /\ CookiesMatch'
    BY <2>1, <2>3, <2>6, <2>7, <2>8, RequestsStep, JarStays DEF Shapes
  <2>10. PrincipalsAreSound'
    BY <2>1, <2>4, <2>5 DEF PrincipalsAreSound, Tenant
  <2>11. RowsAreSound'
    BY <2>1, <2>2, <2>4, <2>5 DEF RowsAreSound, RowIsSound, Active, RowsStay, Tenant, Row
  <2> QED
    BY <2>1, <2>2, <2>3, <2>7, <2>9, <2>10, <2>11, RowPartsStay
<1> QED  BY <1>1, <1>2 DEF RecordReference

-----------------------------------------------------------------------------
(* Sessions and actors.                                                    *)

\* Nothing that concerns logins changes.
LoginsStay == UNCHANGED <<research, build, principals, reference, jar, cleared, tokens>>

LEMMA LoginPartsStay ==
  ASSUME ServingSound, LoginsStay
  PROVE  /\ CookiesMatch' /\ PrincipalsAreSound' /\ CookiesStay /\ Tenant' = Tenant
         /\ tokens' \in Nat /\ tokens <= tokens' /\ research' = research
<1> USE DEF ServingSound
<1>1. UNCHANGED <<research, build, principals, reference, jar, cleared, tokens>>
  BY DEF LoginsStay
<1>2. CookiesMatch' /\ Tenant' = Tenant
  BY <1>1 DEF CookiesMatch, CookieHolds, Known, Tenant
<1>3. PrincipalsAreSound' /\ CookiesStay
  BY <1>1 DEF PrincipalsAreSound, CookiesStay, Tenant
<1>4. tokens \in Nat
  BY DEF Shapes
<1> QED  BY <1>1, <1>2, <1>3, <1>4

LEMMA ReserveStep ==
  ASSUME ServingSound, NEW p \in Page, Reserve(p)
  PROVE  ServingSound'
<1> USE DEF ServingSound
<1>1. CASE Ends(p) /\ rows' = rows
  BY <1>1, OnlyEnds DEF Reserve, Tables
<1>2. CASE ~(Ends(p) /\ rows' = rows)
  <2> PICK r \in RequestRow : r = request[p]
    BY DEF Shapes
  <2> PICK l \in Nat : l = Len(rows) + 1 /\ Len(rows) < l
    BY Entries
  <2> DEFINE e == [tenant |-> r.tenant, key |-> r.key, body |-> r.body,
                   revision |-> reference[r.tenant], status |-> "PREPARING"]
             n == [r EXCEPT !.step = "start", !.row = l]
  <2>1. /\ r.step = "reserve" /\ Recorded(r.tenant, r.key) = {} /\ Len(rows) < MaxSessions
        /\ r.body = "reference" /\ reference[r.tenant] # 0 /\ \A s \in Row : ~Active(s)
        /\ rows' = Append(rows, e) /\ request' = [request EXCEPT ![p] = n]
    BY <1>2 DEF Reserve
  <2>2. LoginsStay /\ UNCHANGED <<api, actors, spoiled>>
    BY DEF Reserve, LoginsStay
  <2>3. RequestIsSound(r) /\ api # "down" /\ r.tenant \in Tenant /\ r.kind = "create" /\ r.key \in Key
    BY <2>1, UpForRequest DEF RequestsAreSound, RequestIsSound, WellFormed, RequestRow, NoTenant
  <2>4. reference[r.tenant] \in Nat /\ reference[r.tenant] <= build
    BY <2>3, Entries DEF PrincipalsAreSound
  <2>5. /\ e \in SessionRow /\ e.tenant = r.tenant /\ e.key = r.key /\ e.status = "PREPARING"
        /\ e.revision = reference[r.tenant]
    BY <2>1, <2>3, <2>4 DEF SessionRow, RequestRow, Statuses, Bodies, ActiveStatus
  <2>6. /\ n \in RequestRow /\ n.step = "start" /\ n.kind = "create" /\ n.tenant = r.tenant
        /\ n.token = r.token /\ n.row = l
    BY <2>3 DEF RequestRow, Steps
  <2> HIDE DEF e, n
  <2>7. /\ rows' \in Seq(SessionRow) /\ Len(rows') = l /\ rows'[l] = e
        /\ \A s \in Row : rows'[s] = rows[s]
    BY <2>1, <2>5, AppendProperties DEF Shapes, Row
  <2>8. Row' = Row \cup {l} /\ l \notin Row /\ l \in 1..MaxSessions
    BY <2>1, <2>7, Entries DEF Row
  <2>9. OnlyOf(p) /\ request'[p] = n
    BY <2>1, <2>6, ReplacedEffect
  <2>10. actors[l] = NoActor
    BY <2>8 DEF ActorsHaveRows, Shapes
  <2>11. Shapes'
    BY <2>2, <2>7, <2>8, <2>9 DEF Shapes, LoginsStay, OnlyOf
  <2>12. TablesGrow /\ JoinsStay /\ CookiesStay /\ tokens' \in Nat
    BY <2>2, <2>7, <2>8, LoginPartsStay DEF TablesGrow, JoinsStay, LoginsStay
  <2>13. RequestIsSound(request[p])'
    <3>1. WellFormed(n)'
      BY <2>2, <2>3, <2>6, LoginPartsStay DEF RequestIsSound, WellFormed, LoginsStay
    <3>2. CarriesItsRow(n)'
      BY <2>5, <2>6, <2>7, <2>8 DEF CarriesItsRow
    <3> QED  BY <2>6, <2>9, <3>1, <3>2 DEF RequestIsSound, JoinHolds
  <2>14. RequestsAreSound'
    BY <2>9, <2>12, <2>13, RequestsStep
  <2>15. RowsAreSound'
    <3> SUFFICES ASSUME NEW s \in Row \cup {l} PROVE RowIsSound(s)'
      BY <2>8 DEF RowsAreSound
    <3>1. CASE s = l
      BY <2>2, <2>3, <2>4, <2>5, <2>1, <2>7, <2>10, <3>1, LoginPartsStay
         DEF RowIsSound, LoginsStay, NoActor, Running, Shapes
    <3>2. CASE s # l
      BY <2>2, <2>7, <3>2, LoginPartsStay DEF RowsAreSound, RowIsSound, LoginsStay, Active
    <3> QED  BY <3>1, <3>2
  <2>16. StartsAreTheirOwn'
    <3> SUFFICES ASSUME NEW q \in Page, request'[q].step = "start"
                 PROVE  /\ actors'[request'[q].row] = NoActor
                        /\ rows'[request'[q].row].status = "PREPARING"
                        /\ \A o \in Page : request'[o].step = "start"
                             /\ request'[o].row = request'[q].row => o = q
      BY DEF StartsAreTheirOwn
    <3>1. \A o \in Page \ {p} : request'[o] = request[o]
            /\ (request[o].step = "start" => request[o].row \in Row)
      BY <2>9 DEF OnlyOf, RequestsAreSound, RequestIsSound, CarriesItsRow
    <3>2. CASE q = p
      BY <2>2, <2>5, <2>6, <2>7, <2>8, <2>9, <2>10, <3>1, <3>2
    <3>3. CASE q # p
      BY <2>2, <2>6, <2>7, <2>8, <2>9, <3>1, <3>3 DEF StartsAreTheirOwn
    <3> QED  BY <3>2, <3>3
  <2>17. SlotHasOwner'
    <3> SUFFICES ASSUME NEW s \in Row', Active(s)' PROVE s = l
      BY <2>6, <2>9 DEF SlotHasOwner
    <3> QED  BY <2>1, <2>7, <2>8 DEF Active
  <2>18. OneRowPerKey'
    <3>1. \A s \in Row : ~(rows'[s].tenant = e.tenant /\ rows'[s].key = e.key)
      <4>1. \A s \in Row : rows'[s] = rows[s]
        BY <2>7
      <4> QED  BY ZenonT(30), <2>1, <2>5, <4>1 DEF Recorded
    <3>2. \A s \in Row' : s \in Row \/ (rows'[s] = e /\ s = l)
      BY <2>7, <2>8
    <3>3. \A s, t \in Row : rows'[s].tenant = rows'[t].tenant /\ rows'[s].key = rows'[t].key => s = t
      BY <2>7 DEF OneRowPerKey
    <3> SUFFICES ASSUME NEW s \in Row', NEW t \in Row', rows'[s].tenant = rows'[t].tenant,
                        rows'[s].key = rows'[t].key
                 PROVE  s = t
      BY DEF OneRowPerKey
    <3> QED  BY <3>1, <3>2, <3>3
  <2>19. ActorsHaveRows' /\ DownIsEmpty'
    BY <2>2, <2>3, <2>8 DEF ActorsHaveRows, DownIsEmpty
  <2> QED
    BY <2>2, <2>11, <2>14, <2>15, <2>16, <2>17, <2>18, <2>19, LoginPartsStay
<1> QED  BY <1>1, <1>2

\* What a step on the row s may do: rows of others, keys and tenants stay.
OnlyRow(s) ==
  /\ rows' \in Seq(SessionRow) /\ Len(rows') = Len(rows)
  /\ actors' \in [1..MaxSessions -> {NoActor, "preparing", "live", "closing", "closed"}]
  /\ \A t \in Row : /\ rows'[t].tenant = rows[t].tenant /\ rows'[t].revision = rows[t].revision
                    /\ rows'[t].key = rows[t].key
                    /\ rows[t].status # "PREPARING" => rows'[t].status # "PREPARING"
  /\ \A t \in Row \ {s} : rows'[t] = rows[t]
  /\ \A t \in 1..MaxSessions : t # s => actors'[t] = actors[t]

LEMMA OneRowFrame ==
  ASSUME ServingSound, NEW s \in Row, OnlyRow(s), LoginsStay,
         actors'[s] \in Running => actors[s] \in Running \/ rows[s].status = "PREPARING"
  PROVE  TablesGrow /\ JoinsStay /\ CookiesStay /\ tokens' \in Nat /\ Row' = Row
<1>1. Row' = Row
  BY DEF OnlyRow, Row
<1>2. TablesGrow /\ CookiesStay /\ tokens' \in Nat
  BY <1>1, LoginPartsStay DEF TablesGrow, OnlyRow
<1>3. JoinsStay
  BY <1>1, Entries DEF JoinsStay, OnlyRow, LoginsStay, ServingSound
<1> QED  BY <1>1, <1>2, <1>3

\* A step on one row, after which no request waits to start its actor.
LEMMA OneRowStep ==
  ASSUME ServingSound, NEW s \in Row, OnlyRow(s), LoginsStay, api' = api, api # "down",
         request' \in [Page -> RequestRow], RequestsAreSound',
         \A q \in Page : request[q].step = "start" /\ request[q].row # s => request'[q] = request[q],
         \A q \in Page : request'[q].step = "start" =>
           request'[q] = request[q] /\ request[q].row # s,
         actors'[s] \in Running => Active(s)',
         Active(s)' => actors'[s] \in Holding \/ s \in spoiled',
         spoiled \subseteq spoiled'
  PROVE  ServingSound'
<1> USE DEF ServingSound
<1>1. Row' = Row /\ s \in 1..MaxSessions
  BY Entries DEF OnlyRow, Row
<1>2. Shapes'
  BY <1>1 DEF Shapes, OnlyRow, LoginsStay
<1>6. RowsAreSound'
  <2> SUFFICES ASSUME NEW t \in Row PROVE RowIsSound(t)'
    BY <1>1 DEF RowsAreSound
  <2>1. RowIsSound(t) /\ t \in 1..MaxSessions
    BY Entries DEF RowsAreSound
  <2>2. actors'[t] \in Running => Active(t)'
    BY <2>1 DEF OnlyRow, RowIsSound, Active
  <2> QED  BY <2>1, <2>2, LoginPartsStay DEF OnlyRow, RowIsSound, LoginsStay
<1>7. \A q \in Page : request'[q].step = "start" =>
        request'[q] = request[q] /\ request[q].row \in Row \ {s} /\ request[q].row \in 1..MaxSessions
  BY Entries DEF RequestsAreSound, RequestIsSound, CarriesItsRow
<1>8. StartsAreTheirOwn'
  BY <1>7 DEF StartsAreTheirOwn, OnlyRow
<1>9. SlotHasOwner'
  <2> SUFFICES ASSUME NEW t \in Row, t \notin spoiled', Active(t)'
               PROVE  \/ \E q \in Page : request'[q].step = "start" /\ request'[q].row = t
                      \/ actors'[t] \in Holding
    BY <1>1 DEF SlotHasOwner
  <2>1. CASE t = s
    BY <2>1
  <2>2. CASE t # s
    <3>1. Active(t) /\ t \notin spoiled /\ actors'[t] = actors[t]
      BY <2>2, Entries DEF OnlyRow, Active
    <3>2. CASE actors[t] \in Holding
      BY <3>1, <3>2
    <3>3. CASE \E q \in Page : request[q].step = "start" /\ request[q].row = t
      <4> PICK q \in Page : request[q].step = "start" /\ request[q].row = t
        BY <3>3
      <4> QED  BY <2>2
    <3> QED  BY <3>1, <3>2, <3>3 DEF SlotHasOwner
  <2> QED  BY <2>1, <2>2
<1>10. OneRowPerKey' /\ DownIsEmpty'
  BY <1>1 DEF OneRowPerKey, DownIsEmpty, OnlyRow
<1>11. ActorsHaveRows'
  BY <1>1 DEF ActorsHaveRows, OnlyRow, Shapes
<1> QED  BY <1>2, <1>6, <1>8, <1>9, <1>10, <1>11, LoginPartsStay

\* The actor of s, and perhaps the status of its row, change; nobody is served.
LEMMA ActorStep ==
  ASSUME ServingSound, NEW s \in Row, OnlyRow(s), LoginsStay, UNCHANGED <<api, request>>,
         actors[s] # NoActor,
         actors'[s] \in Running => actors[s] \in Running /\ Active(s)',
         Active(s)' => actors'[s] \in Holding \/ s \in spoiled',
         spoiled \subseteq spoiled'
  PROVE  ServingSound'
<1> USE DEF ServingSound
<1>1. api # "down"
  BY Entries DEF DownIsEmpty, Shapes
<1>2. RequestsAreSound'
  BY OneRowFrame, NoRequestStep
<1>3. \A q \in Page : request[q].step = "start" => request[q].row # s
  BY DEF StartsAreTheirOwn
<1> QED  BY <1>1, <1>2, <1>3, OneRowStep DEF Shapes

LEMMA ActorEffect ==
  ASSUME ServingSound, NEW s \in Row, NEW new \in {NoActor, "preparing", "live", "closing", "closed"},
         NEW status \in Statuses, rows[s].status = status \/ status # "PREPARING",
         actors' = [actors EXCEPT ![s] = new], rows' = [rows EXCEPT ![s].status = status]
  PROVE  OnlyRow(s) /\ actors'[s] = new /\ rows'[s].status = status
<1> USE DEF ServingSound
<1> PICK r \in SessionRow : r = rows[s]
  BY Entries
<1> DEFINE e == [r EXCEPT !.status = status]
           R == [rows EXCEPT ![s] = e]
<1>1. /\ e \in SessionRow /\ e.tenant = r.tenant /\ e.revision = r.revision /\ e.key = r.key
      /\ e.status = status
  BY DEF SessionRow
<1>2. rows' = R
  OBVIOUS
<1> HIDE DEF e
<1>3. R \in Seq(SessionRow) /\ Len(R) = Len(rows) /\ \A t \in Row : R[t] = IF t = s THEN e ELSE rows[t]
  BY <1>1, ExceptSeq DEF Shapes, Row
<1>4. /\ actors' \in [1..MaxSessions -> {NoActor, "preparing", "live", "closing", "closed"}]
      /\ actors'[s] = new /\ \A t \in 1..MaxSessions : t # s => actors'[t] = actors[t]
  BY Entries DEF Shapes
<1> QED  BY <1>1, <1>2, <1>3, <1>4 DEF OnlyRow

LEMMA RowCloses ==
  ASSUME ServingSound, NEW s \in Row,
         actors' = [actors EXCEPT ![s] = NoActor], rows' = [rows EXCEPT ![s].status = "CLOSED"]
  PROVE  OnlyRow(s) /\ actors'[s] = NoActor /\ rows'[s].status = "CLOSED"
BY ActorEffect DEF Statuses

LEMMA ActorOnlyEffect ==
  ASSUME ServingSound, NEW s \in Row, NEW new \in {NoActor, "preparing", "live", "closing", "closed"},
         actors' = [actors EXCEPT ![s] = new], rows' = rows
  PROVE  OnlyRow(s) /\ actors'[s] = new
BY Entries DEF ServingSound, OnlyRow, Shapes

LEMMA ActorRunsStep ==
  ASSUME ServingSound, NEW s \in Row, ActorRuns(s)
  PROVE  ServingSound'
<1>1. OnlyRow(s) /\ actors'[s] = "live" /\ rows'[s].status = "READY"
  BY ActorEffect DEF ActorRuns, Statuses, ActiveStatus
<1> QED
  BY <1>1, ActorStep DEF ActorRuns, LoginsStay, Active, ActiveStatus, Running, Holding, NoActor

LEMMA ActorFailsStep ==
  ASSUME ServingSound, NEW s \in Row, ActorFails(s)
  PROVE  ServingSound'
<1>1. OnlyRow(s) /\ actors'[s] = "closing"
  BY ActorOnlyEffect DEF ActorFails
<1> QED
  BY <1>1, ActorStep DEF ActorFails, LoginsStay, Running, Holding, NoActor

LEMMA ActorClosesStep ==
  ASSUME ServingSound, NEW s \in Row, ActorCloses(s)
  PROVE  ServingSound'
<1>1. CASE rows' = [rows EXCEPT ![s].status = "CLOSED"] /\ UNCHANGED spoiled
  <2>1. OnlyRow(s) /\ actors'[s] = "closed" /\ rows'[s].status = "CLOSED"
    BY <1>1, ActorEffect DEF ActorCloses, Statuses
  <2> QED
    BY <1>1, <2>1, ActorStep DEF ActorCloses, LoginsStay, Active, ActiveStatus, Running, NoActor
<1>2. CASE spoiled' = spoiled \cup {s} /\ UNCHANGED rows
  <2>1. OnlyRow(s) /\ actors'[s] = "closed"
    BY <1>2, ActorOnlyEffect DEF ActorCloses
  <2> QED
    BY <1>2, <2>1, ActorStep DEF ActorCloses, LoginsStay, Running, NoActor
<1> QED  BY <1>1, <1>2 DEF ActorCloses

\* What is reaped no longer held anything.
LEMMA ReapStep ==
  ASSUME ServingSound, NEW s \in Row, Reap(s)
  PROVE  ServingSound'
<1>1. OnlyRow(s) /\ actors'[s] = NoActor
  BY ActorOnlyEffect DEF Reap
<1>2. Active(s) => s \in spoiled
  BY DEF ServingSound, SlotHasOwner, StartsAreTheirOwn, Reap, Holding, Running, NoActor
<1> QED
  BY <1>1, <1>2, ActorStep DEF Reap, LoginsStay, Active, Running, Holding, NoActor

LEMMA CloseSessionStep ==
  ASSUME ServingSound, NEW p \in Page, CloseSession(p)
  PROVE  ServingSound'
<1>1. CASE Ends(p) /\ actors' = actors
  BY <1>1, OnlyEnds DEF CloseSession, Tables
<1>2. CASE /\ actors[request[p].row] \in Holding
           /\ actors' = [actors EXCEPT ![request[p].row] = "closing"]
           /\ Goes(p, "wait")
  <2> USE DEF ServingSound
  <2> PICK s \in Nat : s = request[p].row
    BY DEF Shapes, RequestRow
  <2>1. /\ request[p].step = "close" /\ request[p].kind = "close" /\ api' = api
        /\ LoginsStay /\ UNCHANGED <<rows, spoiled>>
    BY DEF CloseSession, LoginsStay
  <2>2. /\ RequestIsSound(request[p]) /\ api # "down" /\ s \in Row
        /\ rows[s].tenant = request[p].tenant
    BY <2>1, UpForRequest DEF RequestsAreSound, RequestIsSound, CarriesItsRow
  <2>3. /\ OnlyOf(p) /\ request'[p].step = "wait" /\ request'[p].kind = "close"
        /\ request'[p].tenant = request[p].tenant /\ request'[p].token = request[p].token
        /\ request'[p].row = s
    BY <1>2, <2>1, GoesEffect DEF Steps
  <2>4. OnlyRow(s) /\ actors'[s] = "closing"
    BY <1>2, <2>1, <2>2, ActorOnlyEffect
  <2>5. RequestIsSound(request[p])'
    BY <2>1, <2>2, <2>3 DEF RequestIsSound, WellFormed, CarriesItsRow, JoinHolds, LoginsStay, Tenant, Row
  <2>6. RequestsAreSound'
    BY <2>2, <2>3, <2>4, <2>5, <2>1, OneRowFrame, RequestsStep DEF Running
  <2>7. \A q \in Page : request[q].step = "start" => request[q].row # s
    BY <1>2 DEF StartsAreTheirOwn, Holding, Running, NoActor
  <2> QED
    BY <2>1, <2>2, <2>3, <2>4, <2>6, <2>7, OneRowStep DEF OnlyOf, Running, Holding
<1> QED  BY <1>1, <1>2 DEF CloseSession

LEMMA StartActorStep ==
  ASSUME ServingSound, NEW p \in Page, StartActor(p)
  PROVE  ServingSound'
<1> USE DEF ServingSound
<1> PICK s \in Nat : s = request[p].row
  BY DEF Shapes, RequestRow
<1>1. /\ request[p].step = "start" /\ Ends(p) /\ LoginsStay /\ api' = api
  BY DEF StartActor, LoginsStay
<1>2. /\ RequestIsSound(request[p]) /\ api # "down" /\ s \in Row /\ s \in 1..MaxSessions
      /\ actors[s] = NoActor /\ rows[s].status = "PREPARING"
      /\ \A q \in Page \ {p} : request[q].step = "start" => request[q].row # s
  BY <1>1, UpForRequest, Entries DEF RequestsAreSound, RequestIsSound, CarriesItsRow, StartsAreTheirOwn
<1>3. OnlyOf(p) /\ request'[p] = NoRequest /\ tokens' \in Nat /\ request'[p].step = "none"
  BY <1>1, EndsEffect, LoginPartsStay DEF NoRequest
<1>4. /\ OnlyRow(s)
      /\ actors'[s] \in Running => Active(s)'
      /\ Active(s)' => actors'[s] \in Holding \/ s \in spoiled'
      /\ spoiled \subseteq spoiled'
  <2>1. CASE actors' = [actors EXCEPT ![s] = "preparing"] /\ UNCHANGED <<rows, spoiled>>
    BY <1>2, <2>1, ActorOnlyEffect DEF Active, ActiveStatus, Running, Holding
  <2>2. CASE rows' = [rows EXCEPT ![s].status = "CLOSED"] /\ UNCHANGED <<actors, spoiled>>
    <3>1. actors' = [actors EXCEPT ![s] = NoActor]
      BY <1>2, <2>2 DEF Shapes
    <3>2. OnlyRow(s) /\ actors'[s] = NoActor /\ rows'[s].status = "CLOSED"
      BY <1>2, <2>2, <3>1, RowCloses
    <3> QED  BY <2>2, <3>2 DEF Active, ActiveStatus, Running, NoActor
  <2>3. CASE spoiled' = spoiled \cup {s} /\ UNCHANGED <<rows, actors>>
    <3>1. actors' = [actors EXCEPT ![s] = NoActor]
      BY <1>2, <2>3 DEF Shapes
    <3> QED  BY <1>2, <2>3, <3>1, ActorOnlyEffect DEF Running, NoActor
  <2> QED  BY <2>1, <2>2, <2>3 DEF StartActor
<1>5. RequestsAreSound'
  BY <1>1, <1>2, <1>3, <1>4, EndedIsSound, OneRowFrame, RequestsStep
<1> QED
  BY <1>1, <1>2, <1>3, <1>4, <1>5, OneRowStep DEF OnlyOf

-----------------------------------------------------------------------------
(* The process.                                                            *)

\* What a step that ends all requests, or finds none, leaves sound.
LEMMA NobodyIsServed ==
  ASSUME tokens' \in Nat, \A p \in Page : request'[p] = NoRequest
  PROVE  RequestsAreSound' /\ StartsAreTheirOwn'
<1>1. RequestsAreSound'
  BY EndedIsSound DEF RequestsAreSound
<1>2. StartsAreTheirOwn'
  BY DEF StartsAreTheirOwn, NoRequest
<1> QED  BY <1>1, <1>2

LEMMA GoneStep ==
  ASSUME ServingSound, Gone, LoginsStay, UNCHANGED <<rows, spoiled>>
  PROVE  ServingSound'
<1> USE DEF ServingSound
<1>1. NoRequest \in RequestRow
  BY DEF NoRequest, RequestRow, NoTenant, Steps
<1>2. /\ api' = "down" /\ \A p \in Page : request'[p] = NoRequest
      /\ request' \in [Page -> RequestRow]
      /\ actors' \in [1..MaxSessions -> {NoActor, "preparing", "live", "closing", "closed"}]
      /\ \A s \in 1..MaxSessions : actors'[s] = NoActor
  BY <1>1 DEF Gone, Shapes
<1>3. Shapes'
  BY <1>2 DEF Shapes, LoginsStay
<1>4. RequestsAreSound' /\ StartsAreTheirOwn'
  BY <1>2, LoginPartsStay, NobodyIsServed
<1>5. RowsAreSound'
  BY <1>2, Entries DEF RowsAreSound, RowIsSound, LoginsStay, Running, NoActor, Tenant, Row
<1>6. ActorsHaveRows' /\ DownIsEmpty' /\ SlotHasOwner' /\ OneRowPerKey'
  BY <1>2 DEF ActorsHaveRows, DownIsEmpty, SlotHasOwner, OneRowPerKey, Row, Shapes
<1> QED  BY <1>3, <1>4, <1>5, <1>6, LoginPartsStay

\* Nobody is served while the server stops, so no actor can be started any more.
LEMMA ShutdownBeginsStep ==
  ASSUME ServingSound, ShutdownBegins
  PROVE  ServingSound'
<1> USE DEF ServingSound
<1>1. /\ LoginsStay /\ UNCHANGED <<rows, request, spoiled>> /\ api' = "stopping"
      /\ \A p \in Page : request[p] = NoRequest
  BY DEF ShutdownBegins, LoginsStay
<1>2. /\ actors' \in [1..MaxSessions -> {NoActor, "preparing", "live", "closing", "closed"}]
      /\ \A s \in 1..MaxSessions : actors'[s] = IF actors[s] \in Running THEN "closing" ELSE actors[s]
  BY DEF ShutdownBegins, Shapes
<1>3. \A s \in 1..MaxSessions : /\ actors'[s] \notin Running
                                /\ actors[s] \in Holding => actors'[s] \in Holding
                                /\ actors'[s] # NoActor => actors[s] # NoActor
  BY <1>2 DEF Running, Holding, NoActor
<1>4. Shapes'
  BY <1>1, <1>2 DEF Shapes, LoginsStay
<1>5. RequestsAreSound' /\ StartsAreTheirOwn'
  BY <1>1, LoginPartsStay, NobodyIsServed
<1>6. RowsAreSound'
  BY <1>1, <1>3, Entries DEF RowsAreSound, RowIsSound, LoginsStay, Tenant, Row
<1>7. ActorsHaveRows' /\ DownIsEmpty' /\ OneRowPerKey'
  BY <1>1, <1>2, <1>3 DEF ActorsHaveRows, DownIsEmpty, OneRowPerKey, Row, Shapes
<1>8. SlotHasOwner'
  <2> SUFFICES ASSUME NEW s \in Row \ spoiled, Active(s) PROVE actors'[s] \in Holding
    BY <1>1 DEF SlotHasOwner, Active, Row
  <2>1. api # "down" /\ s \in 1..MaxSessions
    BY Entries DEF ShutdownBegins
  <2>2. actors[s] \in Holding
    BY <1>1, <2>1 DEF SlotHasOwner, NoRequest
  <2> QED  BY <1>3, <2>1, <2>2
<1> QED  BY <1>1, <1>4, <1>5, <1>6, <1>7, <1>8, LoginPartsStay

\* recover() leaves no row active, and of every row all but its status.
LEMMA RecoveredIsOver ==
  ASSUME NEW r \in SessionRow
  PROVE  /\ Recovered(r) \in SessionRow /\ Recovered(r).status = "CLOSED"
         /\ Recovered(r).tenant = r.tenant /\ Recovered(r).key = r.key
         /\ Recovered(r).revision = r.revision
BY DEF Recovered, SessionRow, Statuses, ActiveStatus

LEMMA StartStep ==
  ASSUME ServingSound, Start
  PROVE  ServingSound'
<1> USE DEF ServingSound
<1>1. /\ UNCHANGED <<research, principals, reference, actors, jar, cleared, request, tokens>>
      /\ api = "down" /\ api' = "ready" /\ spoiled' = {}
  BY DEF Start
<1>2. build' \in 1..MaxBuild /\ build <= build'
  BY BoundsAreNumbers DEF Start, Shapes
<1>3. /\ rows' \in Seq(SessionRow) /\ Len(rows') = Len(rows) /\ Row' = Row
      /\ \A s \in Row : /\ rows'[s].status = "CLOSED" /\ rows'[s].tenant = rows[s].tenant
                        /\ rows'[s].key = rows[s].key /\ rows'[s].revision = rows[s].revision
  <2>1. \A s \in Row : rows[s] \in SessionRow
    BY Entries
  <2>2. rows' = [s \in 1..Len(rows) |-> Recovered(rows[s])] /\ Len(rows) \in Nat
    BY Entries DEF Start, Row
  <2>3. \A s \in 1..Len(rows) : Recovered(rows[s]) \in SessionRow
    BY <2>1, RecoveredIsOver DEF Row
  <2>4. rows' \in Seq(SessionRow) /\ Len(rows') = Len(rows)
    BY <2>2, <2>3, IsASeq, LenProperties
  <2>5. \A s \in Row : rows'[s] = Recovered(rows[s])
    BY <2>2 DEF Row
  <2> QED  BY <2>1, <2>4, <2>5, RecoveredIsOver DEF Row
<1>4. /\ \A p \in Page : request'[p] = NoRequest
      /\ \A s \in 1..MaxSessions : actors'[s] = NoActor
  BY <1>1 DEF DownIsEmpty, Shapes
<1>5. Shapes'
  BY <1>1, <1>2, <1>3 DEF Shapes
<1>6. RequestsAreSound' /\ StartsAreTheirOwn'
  BY <1>1, <1>4, NobodyIsServed DEF Shapes
<1>7. CookiesMatch'
  BY <1>1 DEF CookiesMatch, CookieHolds, Known, Tenant
<1>8. PrincipalsAreSound'
  BY <1>1, <1>2, Entries DEF PrincipalsAreSound, Shapes, Tenant
<1>9. RowsAreSound'
  <2> SUFFICES ASSUME NEW s \in Row PROVE RowIsSound(s)'
    BY <1>3 DEF RowsAreSound
  <2>1. RowIsSound(s) /\ s \in 1..MaxSessions
    BY Entries DEF RowsAreSound
  <2>2. rows'[s].revision \in 1..build'
    <3>1. build \in Nat /\ MaxBuild \in Nat
      BY BoundsAreNumbers DEF Shapes
    <3>2. rows[s].revision \in 1..build /\ rows'[s].revision = rows[s].revision
      BY <1>3, <2>1 DEF RowIsSound
    <3> QED  BY <1>2, <3>1, <3>2
  <2> QED  BY <1>1, <1>3, <1>4, <2>1, <2>2 DEF RowIsSound, Tenant, Running, NoActor
<1>10. SlotHasOwner' /\ ActorsHaveRows' /\ DownIsEmpty'
  BY <1>1, <1>3, <1>4 DEF SlotHasOwner, ActorsHaveRows, DownIsEmpty, Active, ActiveStatus, Shapes
<1>11. OneRowPerKey'
  BY <1>3 DEF OneRowPerKey
<1> QED  BY <1>5, <1>6, <1>7, <1>8, <1>9, <1>10, <1>11

-----------------------------------------------------------------------------
(* The invariant and what follows from it.                                 *)

LEMMA InitSound == Init => ServingSound
<1> SUFFICES ASSUME Init PROVE ServingSound
  OBVIOUS
<1>1. /\ Len(principals) = 0 /\ Len(rows) = 0 /\ Len(reference) = 0 /\ Tenant = {} /\ Row = {}
      /\ principals \in Seq(PrincipalRow) /\ reference \in Seq(Nat) /\ rows \in Seq(SessionRow)
  BY EmptySeq DEF Init, Tenant, Row
<1>2. NoRequest \in RequestRow
  BY DEF NoRequest, RequestRow, NoTenant, Steps
<1>3. Shapes
  <2>1. build \in 1..MaxBuild /\ Len(rows) <= MaxSessions
    BY <1>1, BoundsAreNumbers DEF Init
  <2>2. jar \in [tenant : Nat, token : Nat] /\ request \in [Page -> RequestRow]
    BY <1>2 DEF Init, NoTenant
  <2> QED  BY <1>1, <2>1, <2>2 DEF Init, Shapes
<1>4. CookiesMatch /\ PrincipalsAreSound /\ RowsAreSound /\ SlotHasOwner /\ OneRowPerKey
  BY <1>1 DEF Init, CookiesMatch, CookieHolds, Known, PrincipalsAreSound, RowsAreSound, SlotHasOwner,
              OneRowPerKey
<1>5. RequestsAreSound /\ StartsAreTheirOwn
  BY DEF Init, RequestsAreSound, RequestIsSound, WellFormed, CarriesItsRow, JoinHolds, StartsAreTheirOwn,
         NoRequest, NoTenant
<1>6. ActorsHaveRows /\ DownIsEmpty
  BY DEF Init, ActorsHaveRows, DownIsEmpty
<1> QED  BY <1>3, <1>4, <1>5, <1>6 DEF ServingSound

LEMMA StutterSound ==
  ASSUME ServingSound, UNCHANGED servingVars
  PROVE  ServingSound'
BY DEF ServingSound, servingVars, Shapes, CookiesMatch, CookieHolds, Known, PrincipalsAreSound,
       RowsAreSound, RowIsSound, RequestsAreSound, RequestIsSound, WellFormed, CarriesItsRow, JoinHolds,
       StartsAreTheirOwn, SlotHasOwner, OneRowPerKey, ActorsHaveRows, DownIsEmpty, Active, Tenant, Row

LEMMA NextSound ==
  ASSUME ServingSound, [Next]_servingVars
  PROVE  ServingSound'
<1>1. ASSUME NEW p \in Page, Asks(p) PROVE ServingSound'
  BY <1>1, SendLoginStep, SendCreateStep, SendJoinStep, SendCloseStep DEF Asks, Bodies
<1>2. ASSUME NEW p \in Page, Serve(p) PROVE ServingSound'
  BY <1>2, ResumeLoginStep, RecordReferenceStep, AnswerLoginStep, ReserveStep, StartActorStep, OwnStep,
     CheckReferenceStep, JoinGrantStep, CloseSessionStep, CloseReturnsStep DEF Serve
<1>3. CASE CsrfCookieCleared
  BY <1>3, CsrfCookieClearedStep
<1>4. ASSUME NEW t \in Tenant, PrincipalExpires(t) PROVE ServingSound'
  BY <1>4, PrincipalExpiresStep
<1>5. ASSUME NEW s \in Row, ActorRuns(s) \/ ActorFails(s) \/ ActorCloses(s) \/ Reap(s)
      PROVE  ServingSound'
  BY <1>5, ActorRunsStep, ActorFailsStep, ActorClosesStep, ReapStep
<1>6. CASE Kill
  BY <1>6, GoneStep DEF Kill, LoginsStay
<1>7. CASE ShutdownEnds
  BY <1>7, GoneStep DEF ShutdownEnds, LoginsStay
<1>8. CASE ShutdownBegins \/ Start
  BY <1>8, ShutdownBeginsStep, StartStep
<1>9. CASE UNCHANGED servingVars
  BY <1>9, StutterSound
<1> QED  BY <1>1, <1>2, <1>3, <1>4, <1>5, <1>6, <1>7, <1>8, <1>9 DEF Next

\* Every step of every handler, of the actors and of the process keeps the invariant.
THEOREM ServingIsSound == Spec => []ServingSound
<1>1. Init => ServingSound
  BY InitSound
<1>2. ServingSound /\ [Next]_servingVars => ServingSound'
  BY NextSound
<1> QED  BY <1>1, <1>2, PTL DEF Spec

\* The table of sessions, its keys and the one slot agree with what is going on, whoever
\* asks and whenever the process ends or another one takes over.
THEOREM SlotIsExact == Spec => []AdmissionIsExact
<1>1. ServingSound => AdmissionIsExact
  <2> SUFFICES ASSUME ServingSound PROVE AdmissionIsExact
    OBVIOUS
  <2> USE DEF ServingSound
  <2>1. build \in 1..MaxBuild /\ build \in Nat /\ tokens \in Nat /\ api \in {"down", "ready", "stopping"}
    BY BoundsAreNumbers DEF Shapes
  <2>2. jar.tenant \in Tenant \cup {NoTenant} /\ jar.token \in 0..tokens
    BY <2>1 DEF CookiesMatch, Shapes
  <2>3. \A t \in Tenant : principals[t].token \in 0..tokens /\ reference[t] \in 0..build
    BY <2>1, Entries DEF PrincipalsAreSound
  <2>4. \A s \in Row : rows[s].tenant \in Tenant /\ rows[s].revision \in 1..build
    BY DEF RowsAreSound, RowIsSound
  <2>5. \A p \in Page : /\ request[p].row \in Row \cup {0}
                        /\ request[p].tenant \in Tenant \cup {NoTenant}
                        /\ request[p].row # 0 => rows[request[p].row].tenant = request[p].tenant
    BY DEF RequestsAreSound, RequestIsSound, WellFormed, CarriesItsRow
  <2>6. ServingTypeOK
    BY <2>1, <2>2, <2>3, <2>4, <2>5 DEF ServingTypeOK, ActorsHaveRows, DownIsEmpty
  <2>7. KeyNamesOneSession
    BY <2>5 DEF KeyNamesOneSession, OneRowPerKey
  <2> QED  BY <2>6, <2>7 DEF AdmissionIsExact
<1> QED  BY <1>1, ServingIsSound, PTL

\* Pages that log in at the same time do not lock each other out.
THEOREM PagesKeepAgreeing == Spec => []PagesAgree
<1>1. ServingSound => PagesAgree
  BY DEF ServingSound, CookiesMatch, CookieHolds, PagesAgree
<1> QED  BY <1>1, ServingIsSound, PTL

\* A grant goes out for the asking tenant's own ready session, at the revision its
\* reference asset has then.
THEOREM GrantsAreCurrent == Spec => GrantIsCurrent
<1> DEFINE Good == \A p \in Page : Granted(p) /\ request'[p] = NoRequest /\ api' = api =>
                     LET row == rows[request[p].row]
                     IN  /\ row.tenant = request[p].tenant /\ row.status = "READY"
                         /\ reference[row.tenant] = row.revision
<1>1. ASSUME ServingSound PROVE Good
  <2> SUFFICES ASSUME NEW p \in Page, Granted(p)
               PROVE  /\ rows[request[p].row].tenant = request[p].tenant
                      /\ rows[request[p].row].status = "READY"
                      /\ reference[rows[request[p].row].tenant] = rows[request[p].row].revision
    OBVIOUS
  <2> USE <1>1 DEF ServingSound
  <2> PICK s \in Nat : s = request[p].row
    BY DEF Shapes, RequestRow
  <2>1. /\ request[p].kind = "join" /\ request[p].step = "grant" /\ actors[s] \in Running
        /\ RequestIsSound(request[p])
    BY DEF Granted, RequestsAreSound
  <2>2. s \in Row /\ rows[s].tenant = request[p].tenant
    BY <2>1 DEF RequestIsSound, CarriesItsRow
  <2>3. rows[s].status # "PREPARING" /\ reference[request[p].tenant] = rows[s].revision
    BY <2>1 DEF RequestIsSound, JoinHolds
  <2>4. Active(s)
    BY <2>1, <2>2 DEF RowsAreSound, RowIsSound
  <2> QED  BY <2>2, <2>3, <2>4 DEF Active, ActiveStatus
<1>2. ServingSound /\ [Next]_servingVars => [Good]_servingVars
  BY <1>1
<1> QED
  <2>1. [][Good]_servingVars => GrantIsCurrent
    BY DEF GrantIsCurrent
  <2> QED  BY <1>2, <2>1, ServingIsSound, PTL DEF Spec
=============================================================================
