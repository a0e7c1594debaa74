# Verification of the workspace access service

The service keeps workspaces, their users, resources and access policies in
PostgreSQL, and answers over HTTP (FastAPI, async SQLAlchemy) whether a user may
use a resource. This directory holds TLA+ models of it, the TLC configurations
that check them on small instances, and proofs that TLAPS checks for instances
of every size. `PROJECT.json` lists the runs, the source lines of each
definition, the hazards, the findings and the theorems.

## 1. The system

Every HTTP request runs in one asyncio process (or several behind a balancer),
with a database session of its own (`app/infrastructure/database.py`), at
PostgreSQL's default isolation level, READ COMMITTED. A request gives up control
at every `await`, that is at every SQL statement, so **two requests interleave
between any two statements**. Requests share the tables and the pool of
connections: there is no cache, no lock and no `SELECT ... FOR UPDATE`. What the code
read into Python objects stays as it was read (`expire_on_commit=False`).

| Component | State | Operations | Hard because | Correct when |
|---|---|---|---|---|
| tokens and sessions (`app/auth.py`, `api/v1/auth.py`) | `users.token_version`, tokens out in the world | login, refresh, logout, the check of a token | read, compare and increment are separate statements | revoked tokens stay revoked, a refresh token is spent once, versions only grow |
| policy engine (`policy_engine.py`) | none | `policy_eval` | first match over an order with ties | decides as its declarative reading |
| tables | resources, policies, links (`effective_policies`), roles | create, delete, cascade, change of role | composite foreign keys, cascades | links join existing rows of one workspace |
| access check, resource details, resource list | none | 3 reading endpoints | each decides from 4 to 5 SELECTs at different moments | an answer was right at one moment of the call |
| writing of resources and policies | rows | 5 admin endpoints | statements of two transactions interleave, row locks | answers stay true, nothing else is written, everybody is answered |
| users and roles (`api/v1/workspace_users.py`, `user_service.py`) | users | create, list, change role | unique email checked by the database alone, overlapping role changes, an UPDATE the ORM may skip | one user per address, a 409 has a reason, an answered change was in force |
| workspaces (`api/v1/workspaces.py`, `workspace_service.py`) | workspaces | create with admin, details | two inserts, a commit, then reads | all or nothing, one workspace per name |
| sessions and pool (`database.py`) | connections | check-out, commit, check-out again, return | bounded pool, row locks, restarts of the database, connections lost under a COMMIT | nobody starves or deadlocks, answers are true, a 500 has a cause |
| envelope, schemas, logging, settings, health | none | | | |

Interactions: every endpoint except login, refresh and the creation of a
workspace first runs `get_current_user` (a SELECT of the caller's row, compared
with the token), then its authorization, then its service, which calls the
repositories; these issue the SQL. Services meet only in the tables.

The hazards, each at its line, are in `PROJECT.json`; they are what the properties
were chosen for.

## 2. Modules

| Module | What it is |
|---|---|
| `TokenSessions` | component: tokens and sessions |
| `PolicyEngine` | pure operators: the decision, the order of the query, and the declarative meaning |
| `Decisions` | those operators at work on the policies of one resource, as they are linked and unlinked |
| `Store` | abstract specification: the committed tables and the committed effect of each writing endpoint |
| `AccessChecks` | component: the three reading endpoints, among the writes of `Store` |
| `ResourceAdmin` | component: the five writing endpoints, statement by statement; implements `Store` |
| `Registry` | abstract specification: names held by workspaces, members with addresses and roles; founding, enrolling and appointing as single steps |
| `Directory` | component: the endpoints of workspaces and users, statement by statement; implements `Registry`, and the role part of `Store` |
| `Sessions` | component: the database session of every request, the connection pool, the faults of the database |
| `MC*` | constants and symmetry for TLC |
| `*Proofs` | the theorems of each component |

`AccessChecks` composes readers with writers through `Store`, in which a write is
one atomic step. That this loses nothing is what `ResourceAdmin => StoreSpec`
shows (run `resource_admin`, theorem `ImplementsStore`). `Directory => RegistrySpec`
(run `directory`, theorem `ImplementsRegistry`) says the same of workspaces and users, and
theorem `ImplementsRoleChanges` that these endpoints change roles in no other way than
`Store!ChangeRole`. `Sessions` is about
what all endpoints have in common, so it leaves out what they read and write.

### How state and actions correspond to the code

A *call* (`call[c]`) is one HTTP request in a slot `c`; `pc` names the statement
it runs next, the other fields what its Python variables hold. `Open` are the
places inside a request, `Closed` the answers. A slot is used again after an
answer, so a behaviour holds any number of requests, and the number of slots is
how many overlap. `Abandon` is a client that disconnects, a worker or a connection
that dies: the transaction is rolled back, what was committed stays.

One SQL statement is one action, with these exceptions, all of which lose no
behaviour that another request can see: an UPDATE or DELETE and the COMMIT right
after it are one action (the row lock keeps other writers out from one to the
other, and READ COMMITTED shows nothing of it before the COMMIT); the SELECT of
the caller's row in `get_current_user` is merged with the authorization that
follows without an `await`. SELECTs of the workspace row are left out of
`AccessChecks` and `ResourceAdmin`: no endpoint deletes a workspace, so once a user of
it is authenticated they find it. `Directory` keeps them, and its `NeverLost` is that
claim.

* `TokenSessions`: `version` is `users.token_version`, `issued` the signed tokens
  that have not expired. `Accepts` is decoding plus the version test. A refresh is
  `RefreshAccepted` (SELECT and test), `Increment` (`token_version += 1` from the
  row as read, UPDATE, COMMIT), `RefreshReread` (`session.refresh`), `Issue`. A
  logout reads the row twice (`get_current_user`, then its own SELECT, `LogoutRead`),
  tests only the first, then increments. The int4 overflow is `IncrementOverflow`.
* `PolicyEngine`: a policy row has id, effect, target, priority, creation time; a
  text is what it denotes and how it is spelt, since `validate_target_value`
  accepts spellings of a UUID which the comparison in `_policy_matches_user` does
  not. `policy_eval` has three outcomes; "error" is the `AttributeError` on an entry
  whose policy is `None`.
* `Store`: links are pairs `<<resource, policy>>`; `born` and `written` remember ids
  ever used (`gen_random_uuid()` uses none twice). `DeleteResource` is the cascade.
* `AccessChecks`: `ReadUser`, `ReadResource`, `ReadResources` are the SELECTs;
  `ReadLinks` and `LoadAndDecide` are the two SELECTs that `selectinload` makes of
  `list_effective_for_resource`, the second together with the evaluation, which
  does not await. `had`, `lacked`, `missed` and `moved` are history: what the subject was and
  was not entitled to at the moments of the call, whether the resource asked for was at
  one of them not in the subject's workspace (to be there and be denied is `lacked`, not
  `missed`), and whether the role changed.
* `ResourceAdmin`: `HoldsLink` is PostgreSQL's lock on a row that a transaction has
  deleted and not committed. `create_policy` is two INSERTs in one transaction
  (`InsertPolicy`, `InsertLink`); `delete_policy` is `FindPolicy`, `Unlink`,
  `CheckLinks`, `FinishDelete`. A `body` is what matters of a request's fields once the schema
  has let them through: "null" for an explicit null of an update, which `exclude_unset` keeps
  and NOT NULL refuses, "unstorable" for a text with a NUL character, else "valid". `UpdateResource`
  answers 409 to the former while the row is there (`resource_service.py:135-142`) and
  500 when the row is gone (`StaleDataError` is not the `IntegrityError` the service
  catches). What no column takes (`Storable`), be it such a text or a priority, which the
  schema only wants above zero (`Fits`), makes `InsertResource`, `UpdateResource` and
  `InsertPolicy` answer 500.
* `Decisions`: `linked` is what `effective_policies` holds for the resource, `Link` and
  `Unlink` are the committed effects of creating and deleting a policy.
* `Directory`: `workspaces`, `users` and `role` are the committed tables; name, workspace
  and address of a row are functions of its id, as nothing renames or moves one.
  `create_workspace` is `BeginFounding`, `InsertWorkspace`, `InsertUser` (the two INSERTs of
  one flush), `Commit`, `Reread`; `create_workspace_user` the same without the first INSERT.
  `HoldsName` and `HoldsKey` are PostgreSQL's wait: an INSERT of a unique key that another
  transaction has inserted and not committed waits for that transaction, and is refused
  only if it commits. A role change is `FindUser`, `UpdateRole`, `RereadRole`; SQLAlchemy
  sends an UPDATE only if the role differs from the one it has read, which `UpdateRole`
  keeps (`seen`).
* `Sessions`: `pooled` and `stale` are idle connections, good and closed ones; `call[c].conn`
  the one a session holds. `Take` is the check-out, at the first statement of a transaction,
  with `pool_pre_ping`; `GiveBack` the end of the transaction; after the COMMIT of a
  "rewrite" (create, update, refresh of a token) the session queues again for
  `session.refresh`. `Lock` and `Conflict` wait for `row`, a row several requests write.
  The response is sent, and only then `get_db_session` closes the session (`Close`), so a
  request that has been answered may still hold a connection. `Break`, `Crash` and `Restart` are
  the faults; `Breaks` lets a COMMIT that was under way take effect or not.

## 3. Runs

Passing runs:

| Run | Shows | Bounds, and why they are enough |
|---|---|---|
| `token_sessions` | revocation, single use, no version ahead of its row, growth by one, failure at the limit only | one account, 2 calls at a time, versions 0..2. Accounts do not interact; the races need two overlapping calls; 2 increments reach the limit |
| `policy_engine` | the loop decides as the declarative reading; the query has one order; only the winner matters | 5 policies with ties in each sort key, both effects and targets, a UUID spelt otherwise; all 32 sets, 4 user rows |
| `access_checks` | grants, denials and lists were right at a moment of the call; a 404 is for what was not there at one, never a denial; 500 only after an unlink; no decision crosses a workspace; every call is answered | one reader among all writes (readers only read, so they cannot affect one another), 2 resources and a user in one workspace, a user in another who may name all ids, an allow and a deny that outranks it |
| `resource_admin` | 204s stay true, errors have a reason, orphans are explained, foreign keys hold, `Store` is implemented | 2 overlapping calls, 2 resources, 3 policies, one too large for its column, another linked to both from the start (two overlapping deletions of its links keep the policy, which is the second case of `OrphansExplained`); every kind of body |
| `admin_answered` | no writer waits for a row lock for ever; writes and cascades add and remove resources and links in the caller's workspace alone | 2 calls, two users in two workspaces, one resource and one policy: waiting takes two calls on one link |
| `directory` | keys stay unique, 409s have a reason, nothing is lost between commit and re-read, an answered role change was in force, how a workspace loses its last admin, nothing crosses a workspace, `Registry` is implemented | 2 overlapping calls; a workspace and its admin from the start; two more workspaces that want one name, two users that want one address, so every key collides; ids are inserted once |
| `sessions` | the pool is bounded; connections and row locks are never waited for in a circle; answers are true; a 500 has a cause; everybody is answered | 3 requests, 2 connections (1 pooled, 1 overflow): one waits for the pool while one waits for the row the third has locked; one contended row |

Runs that must find a violation, each a disagreement between what a document or a
test says and what the code does (quoted in `PROJECT.json`, "findings"):

| Run | What happens |
|---|---|
| `logout_race` | a logout that read the row before a refresh committed overwrites it with the same value; the pair of that refresh stays valid |
| `refresh_reuse` | one refresh token, two new pairs |
| `server_error` | an access decision answers 500 when a policy is deleted between its two SELECTs |
| `stale_list` | an admin demoted while listing is shown a resource created after the demotion |
| `orphan_policy` | deleting a resource leaves its policies without links |

The passing properties say what holds all the same: `RevokedUnlessRaced`,
`SpentOnceUnlessRaced`, `FailsOnlyAfterUnlink`, `ListComplete`, `OrphansExplained`
bound each of these to the overlap that causes it, and conditional theorems (section 4) say
that without the overlap the violated property holds. `AdminlessExplained` is of that kind as
well: admins may demote themselves and each other, and no endpoint repairs a workspace
without one.

`WritesStayHome` is about resources and links. What an update writes into a resource's columns,
and inserts and deletes of policy rows, are not covered by it.

One answer is not what its status says: an update with an explicit null for name, type or status is
answered 409 though nothing conflicts with it (`schemas/resource.py:24-28`,
`resource_service.py:131-142`); `ErrorsFounded` lists it among the reasons of a 409.

Two more divergences need no run. A refresh increments `token_version` as a logout does
(`api/v1/auth.py:93`), where DESIGN.md:140 says that only a logout does. A policy for a user whose
UUID the client spelt otherwise than the program spells it (capitals, no hyphens) is accepted and
stored as spelt (`schemas/policy.py:39`), and matches nobody, where DESIGN.md:193 has it match when
`target_value` equals the UUID; what follows for decisions is the second half of
`OnlyTheWinnerMatters`, and the theorem `MisspeltDecideNothing`.

Deadlock is checked in every run; none stops, as an answered slot takes a new request.

### Bounds by name

`MaxVersion` (the largest int4, 2 in the runs); `MaxPriority` (the same, of
`policies.priority`, 1 in the runs); `Calls` (slots); `Users`,
`Resources`, `Workspaces`, `Catalogue` (policy rows that may be inserted). `Bodies` is a
fixed set of three. `born` and
`written` only grow, so each id is inserted once. `PoolSize` and `MaxOverflow` (5 and 10 in
the program, 1 and 1 in the run); `SeedWorkspaces` and `SeedUsers` (what `Directory` starts
from), `SeedLinks` (what `ResourceAdmin` starts from).

### Fairness

* `AccessChecks!FairSpec`: weak fairness of each call's next statement. The event
  loop resumes every task whose reply has arrived, and a SELECT waits for no row
  lock. No fairness of writes or arrivals is assumed.
* `ResourceAdmin!FairSpec`: the same, and strong fairness of the two statements that
  may wait for a row lock. PostgreSQL queues who waits for a row, so later arrivals
  do not pass for ever, while the lock may be taken and released infinitely often.
* `Sessions!FairSpec`: weak fairness of each request's next step, the pool's timeout
  included, and strong fairness of the statement that waits for the row. A request in the
  pool's queue needs no fairness of the pool: it gets a connection or its 30 seconds pass.
  Nothing is assumed of faults; the database need not come back.

`Directory` has no run of liveness: its waits are those of `ResourceAdmin` and `Sessions`, an
INSERT that waits for another transaction, and that one waits for nobody (theorem
`NobodyWaitsForAWaiter`).

## 4. Proofs

All theorems hold for every value of the constants that satisfies the named
assumptions (`VersionAssumption`, `TokenAssumption`, `NoPolicyAssumption`,
`CatalogueAssumption`, `WorkspaceAssumption`, `SeedAssumption`,
`NoResourceAssumption`, `PriorityAssumption`, `ColumnAssumption`, `RowAssumption`, `PoolAssumption`: ids of
different tables differ in kind, a policy id belongs to one row, the first links respect
the foreign keys and the columns, the first rows the unique keys, there are finitely many request slots
and at least one connection).

* `TokenSessionsProofs`: the invariant says, of each user without overlapping
  increments, what each open call's `seen` is worth: at most the row's version, and
  equal to it while an increment is pending, or the race is recorded by `raced` at
  the write. Without this bound on `seen`, `version` could jump back and none of the
  six invariants would be inductive. `LockedLogoutRevokes` and `LockedRefreshSpendsOnce`
  take `NoOverlap` as a hypothesis (between a call's SELECT of the version and its UPDATE
  nobody else writes that version, which is what `SELECT ... FOR UPDATE` would establish) and prove
  without exception what the runs `logout_race` and `refresh_reuse` refute: the overlap is the
  whole cause.
* `PolicyEngineProofs`: the order of `order_by` is a strict total order on rows with
  distinct ids; in any listing the first matching entry precedes every other match;
  therefore `policy_eval` grants exactly when `Entitles` (`EvalMeetsDecision`). A finite table
  has one listing (`OneOrder`). No induction is needed: the rank of a policy, one more than
  the number of policies before it, is an injection into `1..n` and so a bijection; its
  inverse is a listing, and in any listing the place of a policy is its rank.
* `StoreProofs`: every write moves the tables in one of few ways (`StoreMoves`): ids
  are not reused, deleted rows stay deleted, a link is new only with its policy; the
  foreign keys follow (`ForeignKeysHold`). The other two components cite it.
* `AccessChecksProofs`: the invariant relates what a call has read to the history: the
  role read was the role at some moment, the links read were the links of that
  resource at one moment (an existential over the past, kept in `had` and `lacked`), a
  SELECT that found no resource was made at a moment that `missed` records,
  and every later SELECT can only find a listed policy as it was or gone. With
  `EvalMeetsDecision`, the decision made from them is the one of that moment.
  `StableRolesListRightly` and `StableLinksNeverFail` assume that no role changes, or no link is
  deleted, by itself or by a cascade (everything else may happen), and prove without
  exception what the runs `stale_list` and `server_error` refute.
* `ResourceAdminProofs`: `IInv` adds what a call knows of the ids in its path, that two
  calls never insert the same row, and what `has_remaining_links` is worth at the
  COMMIT (`KeptKnown`): "no other link" stays true, as links of a policy come only
  with the policy; "another link" may have become false, but then a cascade or an
  overlapping call took it. A call that has failed with what no column takes has left no
  row of its own (`Refused`), and nobody else can insert its id. From it `DeletesStick`, `ErrorsFounded`,
  `OrphansExplained`, `WritesStayHome`, and that each step is a step of `Store` or
  stutters (`ImplementsStore`). `LocksAreExclusive`: a link's lock is taken by `Unlink` alone, as a
  link that is new has a policy that is new and no call can have deleted it yet; so it has one
  holder, and the holder is past its only statement that waits.
* `DecisionsProofs`: `OneListing`, `DecidesAsMeant` and `OnlyTheWinnerMatters` follow from `OneOrder`
  and `EvalMeetsDecision`. `MisspeltDecideNothing`: policies for an id in another
  spelling may as well not be linked, for any user and whatever else is linked.
* `DirectoryProofs`: the invariant says what a call in mid-transaction has secured: the key
  it has inserted is in no committed row and in no other transaction, the ids it will insert
  are nobody else's, what it was authorized for exists. Uniqueness, `NeverLost` and
  `ConflictFounded` follow, and with `met`, which every write of the role brings up to
  date for the calls that run, `RoleUpdateTookEffect`. `ImplementsRegistry` maps every
  `Commit` to `Found` or `Enroll`, every effective `UpdateRole` to `Appoint`; `ImplementsRoleChanges` maps both to `Store!ChangeRole`.
  `NobodyWaitsForAWaiter`: the only call that holds a key and asks for another is a founding one,
  and that other key is within a workspace no other call can insert into.
* `SessionsProofs`: the invariant says who holds a connection (nobody who queues for one), that
  the holder of the row is at its COMMIT with a live connection, and what each place in a
  request says of its COMMIT and of faults seen (`Told`). `SomebodyGoesOn` is then a case
  distinction, `AnswersAreTrue` and `FailuresAreExplained` one case per step.

Model-checked only: `EveryCallAnswered`, `EveryWriteAnswered` and `EveryRequestAnswered`
(liveness under fairness is out of the prover's reach). Every other property of a passing
run is a theorem. What these three rest on besides fairness is proved, for any number of
calls: each step of a call lowers a bound on the steps it has left
(`EveryStepBringsTheAnswerNearer` in `AccessChecksProofs`, `ResourceAdminProofs` and
`DirectoryProofs`, `EveryStepBringsTheEndNearer` in `SessionsProofs`), and a call that cannot go on
waits for one that can (`CallsNeverStick`, `LocksAreExclusive`, `NobodyWaitsForAWaiter`,
`SomebodyGoesOn`). The bound of `AccessChecks`, two statements per resource and three, needs
finitely many resources, which the theorem says. Not proved is the step from there to "every
call is answered", which takes the fairness.

## 5. Left out, and why

* Passwords, signatures, clocks: a login is accepted or refused by choice, a token
  cannot be forged, its expiry is a step that may happen at any time. The `role` claim
  of a token is read by nobody.
* The identity map of a session: it holds objects weakly, and no service keeps an
  object from one SELECT of a row to the next SELECT of the same row.
* `list_resource_policies`: one SELECT after the authorization, decides and changes nothing.
* Validation of bodies (`schemas/`): a body that is refused is answered 400 after the
  authorization and without a write; the text patterns are declarations. What passes them and
  fails in the database is modelled in `ResourceAdmin` (`Bodies`); a NUL character in the name
  of a workspace or user fails in the same way at the INSERT, before anything is committed, and is not
  repeated in `Directory`.
* In `Sessions`: what is read and written, 500s that come of rows other requests delete (they
  are `ErrorsFounded` and `FailsOnlyAfterUnlink`), more than one contended row (`ResourceAdmin`
  and `Directory` have the orders in which rows and keys are locked).
* Names, descriptions, types, statuses, texts of answers, logging, health, settings.
* Running the migrations, scripts and containers.

## 6. Plan

Done, in this order: `PolicyEngine`; `Store` and `AccessChecks`; `TokenSessions`;
`ResourceAdmin`; the proofs of each; `Registry` and `Directory`, `Sessions`, `Decisions`, and
their proofs.

Then the conditional theorems, the progress theorems, the priority column, and the role part of
`Store` as an abstraction of `Directory`.

Left:

1. The password rule (`schemas/validators.py`): the pattern that is documented against the
   validator that decides, over short texts of character classes.
2. Composition of token checks with the endpoints in one module. It would add little:
   `get_current_user` is `TokenSessions!Accepts` at the first SELECT of a call and touches nothing the
   endpoint reads later, so what it says is `RevokedUnlessRaced` at that moment.
