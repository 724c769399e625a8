# A TLA+ verification of Base-2.5

Base-2.5 is a starter stack for a web application: a FastAPI service with
sign-in, sessions and e-mail, a Django site that owns the schema and the admin,
a React front end, PostgreSQL, Redis, Celery, and scripts that deploy it all to a
droplet. This directory models the parts of it whose correctness depends on the
order of things: several uvicorn workers whose statements interleave, tasks that
are lost or run twice, counters that expire, and browser tabs that share a cookie.

Run from this directory:

    tlc -config AuthSessions_sessions.cfg AuthSessions_MC.tla   # one run
    tlapm AuthSessionsProofs.tla                                # proofs

`PROJECT.json` maps every definition to the lines it models, lists the runs, the
properties, a mutant of the code's model that breaks each property, the hazards
the properties are for, and the theorems.

## 1. Inventory

| Part | Source | State it keeps | Operations | Modelled |
|---|---|---|---|---|
| Sessions | `api/auth/{service,repo}.py`, `api/routes/auth.py` | `api_auth_users` (hash, lockout), `api_auth_refresh_tokens`, one-time tokens | login, refresh, logout, revoke others, forgot, reset | AuthSessions |
| Accounts | the same, `api/routes/users.py` | e-mail, verified mark, OAuth links, verification tokens | register, verify, change of address, Google sign-in | AuthAccounts |
| Rate limiter | `api/security/rate_limit.py` | one Redis key per scope, identifier and window | `incr_and_check_identifier_detailed` | RateLimit |
| Tenant limiter | `api/security/tenant_limits.py`, `api/routes/tenant.py` | one Redis key per tenant and scope | `incr_and_check_detailed` | TenantLimit |
| E-mail outbox | `api/services/email_service.py`, `api/tasks.py` | `api_email_outbox`, the Celery queue | `queue_email`, `process_outbox_email` | EmailOutbox |
| Session client | `react-app/src/lib/apiClient.js`, `contexts/AuthContext.js` | refresh cookie, localStorage, `refreshPromise` | call, 401, refresh, sign-in, logout | ApiClient |
| Orchestrator | `digital_ocean/scripts/python/orchestrate_deploy.py` | droplets of the account, records of the zone, what is on a droplet, `DO_userdata.json` | create or find, point the names, set up over SSH | Deploy |
| Teardown | `.../orchestrate_teardown.py` | the same account and zone | delete the droplet, clean the zone | Deploy |
| Session-cookie accounts of Django | `django/users/{api_views,tokens}.py` | `auth_user`, addresses, one-time tokens, OAuth links, sessions | signup, verify, forgot, reset, login, logout, Google sign-in | DjangoAuth |
| Token check of Google, hashing, signing | `api/services/oauth_google.py`, `api/auth/tokens.py` | none | verify, hash, sign | as constants |
| Database pool | `api/db.py` | pool and its connections | take, return, reset | no |
| HTTP surface | `api/main.py`, middleware, small routes | counters in memory | wiring, health, metrics | no |
| Django: admin and schema | `django/` | the schema, the admin's rows | migrations, admin | only as the schema |
| React pages | `react-app/src/pages`, `components` | form state | rendering | no |
| Containers, scripts, tests | compose files, `scripts/`, `e2e/`, `load/` | configuration | | no |

How they interact: the browser calls the API through Traefik with a bearer token
and a refresh cookie. A handler first asks Redis (limits), then runs a few
statements on PostgreSQL, then may publish a Celery task for a mail. The Celery
worker reads the row of the mail and marks it. Django's migrations create the
tables; an operator may change a row in its admin. An operator runs the
orchestrator, which talks to the DigitalOcean API and, over SSH, to the droplet
that all the rest runs on.

Where it is hard:

* **Statements, not transactions.** A handler is a coroutine without an `await`
  after its body is read, so one process runs one handler at a time; but there
  are at least two processes (`api/entrypoint.sh`) and every repository call
  takes a connection, runs one statement and commits. Between "the token is not
  revoked" and "insert its successor" anything may happen.
* **Death in between.** gunicorn kills a worker that is slow (`--timeout 60`),
  psycopg2 raises, answers are lost. No handler repairs what another left.
* **Time.** Redis keys expire between two commands; a limiter's clock is read
  before Redis counts.
* **Early acknowledgement.** Celery acknowledges a task as it starts, and the
  broker keeps nothing across a restart.
* **Shared browser state.** Tabs share the cookie and localStorage but not the
  promise that makes a refresh single-flight.
* **Runs that stop half-way.** The orchestrator makes some twenty calls in a row,
  each of which may fail before or after it took effect, and keeps no record of
  how far it came: the next run starts from the account, the zone and the droplet
  as they are. It repeats a call that timed out although that call is still under
  way.
* **Checks apart from inserts.** Django's views look for an address and insert a
  user in two transactions, with no constraint on the address.

What makes each part correct is listed with its module below. The hazards, each
at its line and with the properties about it, are in `PROJECT.json`.

## 2. Modules

`Mistaken_X` (or `Swapped_X`, `Endless_X`) next to a definition `X` is `X` with a
plausible mistake. No specification uses it: replacing `X` by it must break the
property named in `PROJECT.json`, which shows that the property depends on that
line of the code. `M_MC` holds the values TLC needs for module `M`: sets of
request kinds, symmetries.

**AuthSessions** has one action for every statement of the six handlers:
`RefreshFind`, `RefreshCreate`, `RefreshRevoke` and `Respond` are the four steps of
a refresh. `pc[w]` is the statement worker `w` runs next and `arg[w]` the handler's
local variables, so what was read may be stale. Rows are sets and functions
(`issued`, `revoked`, `expired`, `owner`, `replacedBy`); the operators
`create_refresh_token`, `revoke_refresh_token`, ... are the functions of `repo.py`.
`Drop(w)` is the death of a worker, an exception or a lost answer, at any
statement. Expiries are events that may come at any time. History variables
(`held`, `parent`, `secret`, `ended`, `raced`, `outlived`, `guesses`, `unlocks`, `uses`)
are read by no guard of a handler; `unlocks` only meets its bound `MaxUnlocks`. `held`
is what clients present, and what makes a property about clients: a token is held when
an answer has carried it.

* `RotationLinked`: rotation links what it should. `RotatedBeforeAnswered` (no
  client has the new token while the old one is accepted) is part of the inductive
  invariant and proved; no run lists it, for `KeepsServer` says more.
* `EndedStaysEnded`, `OnlyOwnSessionsRevoked`: an ended session stays ended but for
  exchanges already past their check, and ends only by its own user.
* `PasswordCurrent`, `StaleSessionsEnd`: a reset ends the sessions of the old
  password, with the same exception.
* `GuessesBounded`: how many wrong passwords an account has taken (`guesses`) since
  `failed_login_attempts` was last 0. Only a login restarts the counter; when
  `locked_until` passes it keeps its value, and the next counted failure locks the
  account again. So the bound (`Allowed`) grows with the locks that expired
  (`unlocks`): the limit, one for each worker up to the first lock, and one for each
  worker and expired lock. Without a login the total is unbounded, at that rate.
* `KeepsServer`: what clients see of all these statements implements SessionServer.
* `ResetsBounded`: a reset token sets one password for each worker at most: the
  requests that read it before the first of them consumed it.

**SessionServer** is the abstract promise about refresh tokens: a token is presented
and found good (`Present`), spent for good (`Spend`), and handed out for a sign-in
or in exchange for one token that was good and is spent by then (`SignIn`,
`Grant`). It lets several exchanges of one token that were under way together all
succeed, because the code does. In AuthSessions a token is handed out when an answer
has carried it and in trade while a worker is between `RefreshFind` and its answer;
in ApiClient the API answers in the step that rotates. That both implement one
specification is what makes ApiClient's small API a fair stand-in for the service.

**AuthAccounts** is built the same way for registration, verification, change of
address and Google sign-in. `UNIQUE(email)` and `UNIQUE(provider,
provider_account_id)` are guards of the inserts; a failed suppressed statement is
a disjunct under `Fault`. `VerifiedUnlessStale`: an account is marked verified
only for an address it has shown control of. `SignInEntitled`: every Google
sign-in and link respects the merge rule, whatever changed between its check and
its link.

**RateLimit** and **TenantLimit** model one counter each: the moment a worker
reads its clock or the PTTL, and the transaction, are separate actions. Bounds on
what is let through in a window and in any stretch as long as one
(`WindowBounded`, `SlidingBounded`), `Retry-After` that does not bring an obedient
client back too early (`RetryLandsLater`, `RetryKept`), and no tenant refused for
ever (`RefusedThenServed`). In RateLimit a transaction comes at most `MaxDelay` after
its stamp, within one window; the three-fold bound of `SlidingBounded` rests on it.

**OutboxMail** is the abstract promise: a mail waits from the moment it is
written, and is then delivered or lost for good. **EmailOutbox** is the detail:
insert, publication with its failures and retries, a task taken by a worker, the
two statements of `process_outbox_email`, deaths and a broker restart. It
implements OutboxMail under `Fate`, which derives the fate of a mail from its row
and from who may still see to it. `TaskFindsRow`: no task runs before its row is
there. `MarksBounded`: duplicated tasks mark a row at most once per worker.

**ApiClient** is the browser: tabs, calls, a refresh per tab, sign-ins, logouts, and
the API reduced to what the client can see of it. A cookie is read when a request
is sent and set (`SetCookie`, `DeleteCookie`) when its answer arrives, so answers
may be applied out of order.
`KeepsSignedIn`: concurrent 401s of one tab never present an exchanged token.
`LogoutEnds`: an answered logout with no refresh around it leaves nothing behind.
`CallsSettle`: no call waits for ever.

**Deploy** is the orchestrator and the teardown against the platform. `pc` is the
call the script makes next and `run` its variables; there is one action per call
(`Create`, `ListRecords`, `UpdateRecord`, `CreateRecord`, `Upload`, ...). A retried
call is `ApiCall` (`_do_api_call`) or `Remote` (SSH): a failing attempt may have
taken effect or not, and the last one ends the run. `Abort` kills a run at any
call. The platform assigns addresses and boots droplets in its own time (`Assign`,
`Activate`). Its user data, `digital_ocean_base.sh`, runs once and ends at its first
error: `setup[d]` says how far it came (`CloudClone`, `CloudDocker`, `CloudFinish`) or
that it ended, before Docker was there (`"bare"`) or after (`"unmarked"`), because a
command of its own failed (`CloudFails`) or because a run that found the droplet and did
not wait for the marker got in its way (`Collides`, in `Sync` and `PostReboot`). Its
reboot breaks the connection of such a run. `start.sh` needs Docker compose and the
repository (`Startable`); containers come up again after the reboot (`restart:
unless-stopped`). Between runs the branch and the local `.env` move on (`Change`). Each
kind of run (create, `--update-only`,
`--update-only --create-if-missing`, teardown) may follow any other.

* `NamesPointHere`: past its DNS phase a run has made every name of the deployment
  resolve to its droplet and to no other, whatever earlier runs left in the zone.
* `SecondAskedFor`: only a plain create run makes a second droplet of the name; a
  run that follows one whose answer was lost finds what that one made.
* `NoNeedlessRecords`: a duplicate record is due to a call that failed.
* `ExitMeansServed`: exit 0 means that the services were started with the local
  `.env` on the droplet that `DO_userdata.json` names.
* `DeploysSucceed` (liveness): once calls cease to fail, deploying again succeeds, unless
  the user data of the newest droplet ended before Docker was there: then every later
  deployment fails at `start.sh`, and the property excepts it (section 6).
* `DryRunHarmless`: what `--dry-run` says of itself (section 6).

**DjangoAuth** has one action per statement of the views in `users/api_views.py`,
clients with one session each, and a crash at any statement. `project/urls.py` does
not route these views (`test_no_auth_routes.py` keeps it so): the module is about
the code as it would run if `users/api_urls.py` were included.

* `AccountsBounded`: an address has as many accounts at most as requests were served
  at once. `OneAccountPerIdentity`: whoever came with a Google identity is in the
  one account linked to it. `EndsLinked` (liveness): a sign-in that died between the
  account and the link is repaired by a later one.
* `ResetEndsSessions`: a password set with a token ends every session of the account,
  those included whose sign-in had compared the old password before the reset and
  called `login()` after it: `since` remembers, with each request and session, which
  tokens had been used when its user object was read, and `Live` compares that
  object's password with the row, as `get_user` does. Excepted is an account whose
  reset was overwritten (`Overwritten`, section 6).
* `ResetsBounded`, `VerificationsKept`: how often a token can be used, and when it is
  lost, if requests overlap or die.

How they compose: ApiClient's `RefreshFind`, `RefreshRotate` and `LogoutServe` are
AuthSessions' statements at the client's grain, and both modules implement
SessionServer. AuthSessions and AuthAccounts
share tables but no column that both write, except `is_active`, which either
takes from an operator (`SetActive`). The limiters stand in front of the handlers
and only decide whether one begins; any subset of requests is a behaviour of the
session models already. EmailOutbox begins where `ForgotMint` and `LinkMint` end.
Deploy stands by itself: what it starts is a whole system of the others. DjangoAuth
has tables of its own.

## 3. Runs

| Run | Instance | States | Question |
|---|---|---|---|
| `sessions` | 2 users, 3 tokens, 2 workers, expiry, deactivation, faults | 868 k | rotation, logout, revoke-others, refinement |
| `sessions_reset` | 1 user, 2 passwords, 2 sessions, 1 reset token, limit 2, 1 expired lock, fair | 262 k | resets, lockout, sessions of an old password end |
| `accounts_addresses` | 2 users, 2 addresses, 2 links, 2 workers, faults | 371 k | the verified mark |
| `accounts_google` | 2 users, 2 identities (one vouched for), deactivation, faults | 1.7 M | the merge rule |
| `limit_window` | window 3, limit 1, delay up to 2, horizon 8, 3 requests a window | 1.4 M | limits and Retry-After |
| `tenant` | window 3, limit 2, second 2, 2 workers, fair | 21 k | limits, Retry-After, service resumes |
| `outbox` | 2 mails, 2 workers, 3 publications each, fair | 7 k | delivery and refinement |
| `client` | 2 tabs, 2 calls of one tab, 2 tokens, fair | 433 k | single flight, logout, calls settle, refinement |
| `deploy` | 2 droplets, 9 records, 1 service, 2 attempts, 2 faults, every kind of run, fair | 947 k | names, droplets, records, exit status, success in the end |
| `django` | 2 clients, 1 address (that of a Google identity), 1 token, 3 users, 1 crash, fair | 583 k | accounts, links, sessions, tokens |
| `verified_stale`, `dry_run` | small | | see section 6 |

Why the bounds are enough: each hazard needs two actors, a row, and one successor
or competitor of it. Two workers give every overlap of two handlers, three tokens
a session with two successors or two sessions of which one is rotated. Three
ticks in a window and a delay of two let a transaction land in the window after
its own, and a horizon of eight holds three windows. A limit of two tells the
counter's first, last and first refused value apart. Two users (or addresses, or
identities) are what a statement could confuse. In `deploy` the second droplet is
the replacement, the second attempt the last, and two faults let a run fail after
another left something half done; the first zone holds an A and an AAAA record to
be updated, a wildcard, and a record the script does not know, and the nine places
hold every record it creates and its duplicates. In `django` two clients race at
every pair of statements, the third user is the one that a repair could make, and
one crash leaves each kind of half-done request. Symmetry is used for ids, users,
passwords and workers, in runs of safety properties only; the run of
ApiClient fixes instead which of its tokens is the first (`FirstSpec`). The histories
of what a limiter let through are sets of records, one for each request.

`CHECK_DEADLOCK FALSE` is set everywhere: ids are used up, and a system without
requests rests.

## 4. Fairness

* AuthSessions: weak fairness of `Step(w)`. Handlers never block; a statement has
  a timeout. No request and no expiry is fair. The liveness run has no `fault`
  event, because a worker that dies in a rotation really leaves it unfinished.
* TenantLimit: time passes, and a request that has begun goes on.
* EmailOutbox: a handler goes on, a worker goes on with its task and takes tasks
  while there are any. Deaths are not fair, and bounded by what there is to kill.
* ApiClient: a request is answered or given up (the browser's own timeouts), in the
  tabs that have calls; the user's actions are not fair.
* Deploy: a run goes on, the platform does its part, and somebody deploys again
  with `--update-only --create-if-missing` (strong fairness of that `Start`: between
  two runs other kinds may be started). Faults and kills are bounded, which is what
  "once calls cease to fail" means; set-ups that fail are among them, collisions of a
  run with user data are not bounded and not fair.
* DjangoAuth: a request that has begun goes on, and clients go on signing in with
  Google (strong fairness, because a client may be busy with something else).

## 5. Proofs

Every invariant and every action property of every passing run is a theorem, for
all values of the constants, and so are the refinements of SessionServer and, but
for its fairness, of OutboxMail. `RotatedBeforeAnswered` and the type invariants
of TenantLimit and EmailOutbox, which no run lists, are theorems as well. The
assumptions are those named in the modules: a positive lockout limit, window and
number of tries; a delay of at most a window; finitely many workers (clients, in
DjangoAuth), where a bound counts them; `None` is not an id; a
password set with a token is not one of sign-up or of Google. The liveness properties
are checked by TLC only.

* **AuthSessions** (`AuthSessionsProofs`): `TypeCorrect`, `LinksCorrect`,
  `RotationSafe`, `EndedSessions`, `OwnSessions`, `PasswordsCurrent`,
  `GuessesLimited`, `ResetsLimited`, `ServerKept`. `RotationLinked` is not inductive by itself: the
  linking statement uses local variables that other workers may have made stale.
  The invariant `Inv` adds `RowsOK` (rows name rows; a token and the one it replaced
  have one owner) and `LocalsOK`, what a handler still knows at each statement. The
  argument: rows are never deleted, and owner, parent and `revoked_at` never go back
  (`RowsGrow`), so what a worker knows survives the statements of the others
  (`KnowledgeStable`); hence a step has to be examined for its own worker only
  (`StepLocal`, `StepLinks`). `EndedSessions` adds `Overtaken`: a worker whose token
  has ended is marked as raced. `PasswordsCurrent` follows a session through its
  stages, in the hands of a client, in an exchange, in an answer: at each it was begun
  with the present password, or a reset is still to revoke it, or the request says
  that it was overtaken (`AllSettled`). `GuessesLimited`: as long as an account is
  not locked, each wrong password has been counted, or will be by a worker that has
  passed the lock check, or belongs to a lock that expired, which allowed one for each
  worker (`Guesses`); the one that completes the limit locks it, and what is still
  tried is one for each worker at most. An expiring lock finds the counter at the
  limit, and the bound moves on by the number of workers (`GuessesUnlocked`). `ResetsLimited` counts likewise:
  until a token is consumed, each password it has set was set by a worker that is
  still to consume it (`Resets`). `ServerKept` adds `Unanswered`:
  a token that was created and not answered is in nobody's hands and has one
  worker.
* **AuthAccounts** (`AuthAccountsProofs`): `TypeCorrect`, `VerifiedHolds`,
  `SignInsEntitled`. A step is one statement of the repository (`StepTables`) and one
  move of a worker (`StepLocals`). What a handler has checked (`Entitled`) speaks
  only of facts that are not withdrawn (`StaysEntitled`), so it still holds when
  the handler links or signs in, though the address and the mark may have changed.
* **RateLimit** (`RateLimitProofs`): `TypeCorrect`, `WindowsBounded`, `RetriesLand`,
  `WindowsSlide`. A late transaction may bring a dead key back, so the count of a
  key bounds nothing by itself. `Lives`: a key that dies early enough to be born again
  was used inside its window only, and its second life outlasts every transaction of
  the window. `WindowsSlide` is a count without a sum: within a time as long as a
  window a key does not have the same value twice (`Spaced`), and the transactions of
  that time are of three windows at most, so they inject into three times the limit.
* **TenantLimit** (`TenantLimitProofs`): `TypeCorrect`, `RetriesKept`, `WindowsSlide`.
  `Waits`: while the key has the expiry of its first transaction only, what is left of
  a wait is no less than what is left of the key. `Lives`: what an expired key let
  through is at least as old as the key that followed it is armed for, so no third key
  matters, and each lets a request through once for each value up to the limit.
* **EmailOutbox** (`EmailOutboxProofs`): `TypeCorrect`, `RowsFound`, `MarksLimited`, and
  `PromiseKept`, the safety part of the refinement. The invariant says that the
  broker and the workers know of a mail only once its row exists; with it every
  step turns the fate of at most one mail, as OutboxMail allows, or of none
  (`StepFate`). `MarksLimited` counts the marks made and the workers that may still
  make one, having read the row before the first.
* **ApiClient** (`ApiClientProofs`): `TypeCorrect`, `StaysSignedIn`, `LogoutComplete`,
  `ServerKept`. `Calm`: as long as nothing excuses it, one tab at most is refreshing,
  with the token of the cookie, and the cookie is good when none is. `Left`: after a
  quiet logout a refresh can only have been sent without a cookie. `ServerKept` maps
  each step to one of SessionServer or to none.
* **Deploy** (`DeployProofs`): `TypeCorrect`, `OneUnlessAsked`, `NamesPoint`,
  `ExitServed`, for any zone to begin with, and `RecordsNeeded`. The invariant follows
  the phases of a run: `Pointing` says how far the DNS phase has come (records still
  in the list are due, all others that concern the run are done; every wanted key
  before `run.next` has a record), so a repeated call adds at worst a record of the
  same data. `Births`: droplets are born in order, and a run that makes one unasked
  has seen none. `Served`: what was uploaded and started stays so until the run ends.
  `RecordsNeeded` (`Wasted`: the records of a key are one and the failed calls that
  made more) has two hypotheses, which the check of TLC's instance evaluates too: no
  two services have one label (`LabelsDiffer`: the script creates a record for each),
  and the zone has no duplicates at first (`ZonesTidy`).
* **DjangoAuth** (`DjangoAuthProofs`): `TypeCorrect`, `ResetsLimited`,
  `IdentitiesAlone`, `ResetsEndSessions`, `AccountsLimited`, `VerificationsLost`. A
  request works with objects that it read some statements ago (`Holds`); they stay
  true because rows only grow (`Grown`): users keep their address, tokens their user
  and purpose, links are final. `IdentitiesAlone` says of each session how it was
  opened. `ResetsEndSessions` rests on what every request and session knows of its
  user (`Told`, `Seen`): if the password it saw is still in the row, no token of the
  user has set one since. A reset keeps this because the password it sets is new
  (`Numbered`: nobody holds one with a number that its token has not reached), the save
  of a new Google account because it finds no reset or overwrites it, and a new token
  because it has set nothing (`Past`). The three bounds count, for each address or token, what
  was done and the requests that have passed their check and not done their write
  (`Resets`, and the same for accounts and for verifications).

Only model-checked, because the prover does not reach liveness: `StaleSessionsEnd`,
`RefusedThenServed`, `CallsSettle`, `DeploysSucceed`, `EndsLinked`, and the fairness
half of `KeepsPromise`.

## 6. Where the code and its documents differ

Shown by runs:

* `verified_stale`: a verification link sent to an earlier address marks the
  account's present address as verified.
* `dry_run`: with `--dry-run` ("Print actions without making changes") a droplet is
  created when there is none, and an existing one is synchronised, uploaded to and
  restarted; only the writes of DNS records look at the flag.

Met while modelling, part of the models, and not given a run:

* `reset_password` checks `consumed_at` and consumes the token two statements later
  without looking at the row count: two overlapping requests set a password with one
  token (`api/tests/test_email_verify_and_password_reset.py:171`, "Single-use");
  `ResetsBounded` has the bound that does hold;
* a refresh under way during a logout puts a live cookie back (`tasks.md:828`);
* a reused refresh token is audited and revokes nothing
  (`specs/001-django-fastapi-react/tasks.md:643`, `tasks.md` below, asks for the whole family);
* logout overwrites `replaced_by_token_id` of a token rotated before (`tasks.md:641`);
* a login or refresh past its check outlives a reset (`tasks.md:741`); this is the
  exception `outlived` of the session properties;
* a Google link refused by the database is suppressed and the sign-in goes on
  (`tasks.md:773`);
* registration sends no verification link (`tasks.md:714`);
* a sixth login within a minute is let through across a window boundary
  (`tasks.md:790`); `SlidingBounded` has the bound that does hold;
* the tenant window is not anchored on the first request when two race
  (`tenant_limits.py:49`); `RetryKept` excuses it;
* a mail whose publication fails stays queued (`tasks.md:704`); OutboxMail calls it
  lost;
* `forgot_password` lets a request through uncounted when its second limiter raises
  (`routes/auth.py:334`, as its comment says); the bounds of RateLimit are about what
  the counter lets through;
* a Google sign-in of Django that has just created its account saves the whole row
  (`users/api_views.py:286`): a reset that found the account in between is overwritten
  (`Overwritten`);
* single flight holds per tab only (`tasks.md:827`); `KeepsSignedIn` excuses
  overlapping refreshes of two tabs;
* a run repairs the A record of www but not its AAAA record, which
  `orchestrate_deploy.py:655` ("Update all AAAA records") does not know;
  `NamesPointHere` excepts it;
* `sync_repo` goes on when git fails, so exit 0 does not mean the newest commit;
  `ExitMeansServed` speaks of the commit that is on the droplet;
* a run that finds its droplet (`--update-only`, also after a run that was killed) does
  not wait for user data, may break its package installation or its clone
  (`post_reboot_complete.sh:57`, `digital_ocean_base.sh:51`), and nothing installs Docker
  afterwards; the same holds when a command of user data fails. Deploying again does not
  help then, only a teardown or a new droplet; `DeploysSucceed` excepts it;
* the pattern for cloud-init's last line (`orchestrate_deploy.py:1721`) has two
  backslashes in a raw string and never matches: only the script's own marker counts;
* the teardown prints "Teardown complete." whatever became of the droplet, and
  cleans only `@`, `www` and `traefik`.

## 7. Not modelled, and why

Audit rows, `last_seen_at` and profile columns: written, never read by a decision.
Passwords, hashes and signatures: injective by assumption. Cookies' attributes,
CSRF and origin checks: they decide whether a request is taken at all, and the
models take any subset of requests. Rendering, wiring, logging, metrics,
configuration: no state whose order matters. The migration runner in
`api/migrations`: nothing calls it.

The connection pool (`api/db.py`): a handler never awaits while it holds a
connection, so a process uses one at a time and never meets the limit; and psycopg2
drops a closed connection when it is returned, so the branch that replaces the pool
is not reached.

Of the orchestrator: two operators at once, the other commands of the scripts it runs
over SSH (`start.sh` needs a valid `.env` and images that build, and `Remote` lets it
fail as often as there are faults), `DO_SKIP_DNS`, zones of more than one
page of `list_records`, an SSH command still running while it is repeated, the
artifact directory and the parsing of logs, a local disk that fails. A droplet
without a public IPv4 address is one whose address has not come yet;
`_get_public_ipv4` would take a private one. Of Django's views: profiles, `PATCH me`,
the audit trail, Google's endpoints, and two requests of one session at once.

## 8. Plan

Done, in this order: AuthSessions and its proofs, AuthAccounts, RateLimit,
TenantLimit, OutboxMail and EmailOutbox with proofs, ApiClient; then Deploy with its
proofs, DjangoAuth, sign-ins and a second tab in ApiClient, and the proofs of
ApiClient, RateLimit, TenantLimit and AuthAccounts; then the proofs of every safety
property that was only model-checked, DjangoAuth's among them, and SessionServer with
both its refinements.

Next:

1. Proofs about the operators by themselves: the lemmas that several modules prove for
   their own use, stated once.
2. An abstract account register (an address is shown, claimed, linked) that
   AuthAccounts and DjangoAuth implement.
3. A zone of several pages, once the orchestrator asks for more than one.
