# Verification of the doing_now backend

TLA+ models of the user backend in `src/be`: what a request does to MySQL and
Redis, in which order, and what other requests can do in between. The modules
are checked with TLC on small instances; the theorems are proved with TLAPS for
all values of the constants.

## 1. Inventory

The program is a Hertz HTTP server. Every request runs in a goroutine of its own
through a chain of middleware into a handler; goroutines share nothing but
MySQL, Redis and two package-level generators (of log identifiers and of salts).
So the hard part is what happens *between* two statements or commands of one
request.

| component | state | operations | what makes it correct |
|---|---|---|---|
| user service (`biz/service/user`) and repositories (`biz/dal/repo`) | tables `users`, `user_credentials`; row locks | Register, Login, UpdateInfo, UpdatePassword (transactions), GetByUserID, GetCredentialVersion (reads) | an account has one user; a user has a credential; no lost update; each answer is true of the tables; no deadlock |
| token middleware (`biz/middleware/jwt`) | one Redis key per live access / refresh token | GenerateToken, GenerateRefreshToken, ValidateMW, RemoveToken, RemoveRefreshToken | a token works only with the session it was issued on and only while its key exists; a redeemed token can be redeemed again for a while, then it is dead, and stays dead |
| session store (`biz/middleware/session`) | Redis: session id -> user, account, credential version | load, save, Remove | a session names a user who logged in on it |
| credential check (`biz/middleware/security/credential_check.go`) | none | compares the version in the session with the table | a changed password ends the sessions of that user |
| handlers (`biz/handler/user.go`) | none | the seven endpoints | logout and password change end a session whatever else is under way |
| login protection (`login_protection.go`) | Redis: failure and success counters, two block keys, a level key | checks before, counting after the login handler | limits are exceeded by a bounded amount only; blocks hold and end |
| interceptor (`biz/util/interceptor`) | Redis counters | Allow (Lua script), ReachLimit | a counter always has a time to live |
| register protection | Redis block key | check before, block after registration | one registration per address and duration |
| rate limiter (`biz/middleware/ratelimit`) | Redis counters | Allow per path and client | a bounded number of requests in any window; nobody pays for another session or path; no denial for good |
| ID generator (`biz/util/id_gen`) | channel of ready ids, stop channel | NewID, Stop, producer | every caller gets an id; Stop ends the producer |
| random strings (`biz/util/random`) | one unsynchronised `rand.Source` | RandStr | the letters are those of the source; two calls share a word only after a race |
| router and middleware chain (`router.go`, `biz/middleware/mw.go`, recovery, trace, access log, cors) | the chain of a request: index, calls in progress, answer | Next, Abort, return, panic | one answer; the context arrives; the protections see the answer |
| errors and responses (`biz/model/errs`, `biz/util/resp`) | none | FailResp, AbortWithErr | who answers also aborts |
| configuration, database connections and hooks, logging, client address, hashing, generated code | - | - | no state a property depends on |

Interaction: the router puts the register and login protections in front of two
handlers, and `ValidateMW` then `NewCredentialCheck` in front of the four
protected ones. The handlers call the service and, for Login, RefreshToken and
Logout, the token and session functions. The login protection reads the answer
of the handler to decide what to count.

Hard behaviours: a lookup without a lock before an insert (Register); rows
written whole from a copy (gorm `Save`); a version read in a transaction and
saved into a session later; a session loaded when a request comes and used after
it is gone; block checks before and counting after the handler; two-command
pipelines that are not transactions; every Redis error is ignored or lets the
request through, and the credential check lets it through when MySQL fails.
`PROJECT.json` lists each hazard with its line and the properties that cover it.

## 2. Modules

```
CredentialStore                 LoginSessions                TokenLife
  ^ implemented by  ^ extended by   ^ implemented by           ^ implemented by
UserService        AuthSession -----+                        Tokens
  |                   |                                        |
UserServiceProofs  AuthSessionProofs                           v extends
                                                     Interceptor (keys in Redis)
Chain   IdGenerator   Random                           ^         ^          ^
(each on its own)                        LoginProtection  RegisterProtection  RateLimit
```

The proofs about a component are in `<module>Proofs`, which extends it; every
component but Chain has some (section 4).

The abstract specifications are in the first line. `MC*.tla` hold what TLC needs
beside the values in a `.cfg` (symmetries, rules, a constraint); modules without
one are run as they are.

**CredentialStore** is the abstract specification: Register, Rename and
ChangePassword as indivisible steps. A password and its salted hash are
identified; the version column holds `0..MaxVersion` and the update fails beyond
(`int unsigned` in strict mode).

**UserService** has one action per SQL statement of the four transactions.
`users`/`creds` are the committed tables; `row`/`cred` a transaction's private
copies; `userLock`/`credLock` InnoDB's row locks, taken by `FOR UPDATE` and by an
insert, released at the end. `CommitError` is a commit whose acknowledgement is
lost (with or without effect), `DbError` any failing statement. `answer` is the
error code returned; `PasswordIncorrect` is the same value as `UserNotExist` in
the code, so it is here. The account locks stand for the locks on the row and on
the unique index entry, which the code takes together. Identifiers come from
`uuid.New()` and are taken never to repeat.

**AuthSession** composes handlers, token middleware, session store and credential
check over the atomic store. Each Redis command and each transaction is a step.
A token is what it claims (session and user); a key may expire at any time,
which covers every time to live and every removal that shortens one. The
labels of `pc` follow the chain: `exists` (ValidateMW), `check`
(NewCredentialCheck), `handle`; `handleUnchecked` marks a request let through
when MySQL failed. `shown`, `logins`, `ended` and `saw` are auxiliary: they
record which password opened a session, who logged in on it, what has ended it,
and what a request must not outlive. They influence no other variable.

**LoginSessions** says what the versions are there for, without versions: a
session carries whether it is valid; a change of the password makes all sessions
of the user invalid in one step; no step makes one valid. AuthSession implements
it with a session as valid when its version is the one in the table. What
`shown` records keeps the abstract `Open` honest: a session may be opened
invalid (the login read the password some time ago), but not valid with another
password.

**Tokens** has the times AuthSession leaves out: for every token the time left
of its claim (`jwt`) and of its Redis key (`key`); one action per Redis command
of login, refresh and logout; every command may fail, and any request may be
repeated or come late. Signing a token and its `SET` are one step, because
nobody has the token before. The time left is computed from the claim before
EXPIRE is sent (`left`), as in the code, so time passes between the two. Its
requests come on the session the tokens were issued on, and may be refused at
the places where session or credential are looked at. `first`, `last` and
`failed` are auxiliary. **TokenLife** is the abstract specification: unborn,
live, dead. It justifies the sets of tokens of AuthSession, from which a token
may vanish at any time and to which it never returns.

**RateLimit** has one step per attempt to run the interceptor's script (Redis
runs it without interruption), on counters that may be found without a time to
live: the state the script repairs. `db/redis/redis.go` sets no `MaxRetries`, so
go-redis makes up to three further attempts when one fails. An attempt that has
counted and whose reply is lost is `Resend`; the last attempt of a request is
`Admit`, `Deny` or, when the client gives up, `FailOpen`. To which request a lost
attempt belongs, and that there are at most four, is not kept, so the model
allows more than the client does; an attempt that has not reached Redis leaves
nothing behind and is no step. `old`, `asked` and `noted` are auxiliary: `noted` is
the set of the attempts that have let a request through or were lost, with their
age, their caller and which of these it was. `AttemptsOf` counts them by session
or address as the rule says, and not by `Key`, which is what it checks;
`RecentOf` counts those that let a request through. `MaxCount` and `MaxNoted` end
the counting of what lies beyond every limit.

**IdGenerator** has the producer goroutine (`select`, `send`), the pool as a
number, NewID of the trace middleware, and Stop in its two parts. Waiting
receivers are served in their order, as Go does. A second close panics and ends
the process. Only a test calls Stop, no code of the server does: it is modelled
as the type offers it, and none of the hazards rests on it.

**Random** is RandStr over a source whose state is read (`Load`) and written
(`Store`) in two steps, because nothing locks it; Go calls this a data race, and
the model takes of its outcomes the loss of one of two updates. A word is any
sequence of chunks.

**Chain** follows one request through the handlers of its route: the index of
Hertz, the stack of calls in progress, `Next`, `Abort`, a plain return (cors), a
panic unwound to recovery. What a middleware decides is left to choice: it
passes, refuses or panics. The loop of `Next`, `Abort` and the answer for an
unknown route are Hertz's and marked external.

**Interceptor** has the Lua script and `ReachLimit` as operators on a counter (a
count and a time to live). **LoginProtection** has one action per Redis command of
the middleware; `Tick` ages every key by one unit between any two steps. Each
command may fail (`Fault`), at most `MaxFaults` times in a behaviour; it then has
no effect, or, for the counting scripts, also its effect without the reply.
`Resend` is a script that has counted, lost its reply and is sent again; every
attempt that fails is a fault of its own. A lookup or a `SET` that is sent again
is the last one sent and adds nothing.
`ConfigurationAssumption` states what the example configuration satisfies and no
code checks: a block lasts at least as long as the failures are remembered, and
the level mark at least as long as a block of minutes. `due` is auxiliary.

**RegisterProtection** has the lookup of the block, the handler's answer and the
setting of the block as steps. A registration whose commit goes through and whose
acknowledgement is lost is answered as an error, so it sets no block (a disjunct
of `Fail`); it counts as a fault. `made` (registrations since the last block of the
address ended) and `pause` (time left of the duration a registration starts) are
auxiliary; `made` is not counted beyond `MaxMade`, which lies above what
`RegistrationsBounded` allows.

Beside some definitions stands a faulty variant with the same parameters
(`GrantedToAll` beside `Granted`, `SessionKept` beside `Removed`...). No action
uses one; `PROJECT.json` pairs it with the property that fails when it takes the
place of the definition, so that no property holds by the shape of the model
alone.

## 3. Runs

| run | instance | shows |
|---|---|---|
| `user_service` | 2 workers, 2 users, 2 accounts, 2 passwords, versions 0..2, fairness | the transactions implement `CredentialStore` (`ImplementsStore`); each answer is linearised at the step that gives it; copies are current; accounts unique; no half registration; every call is answered: nobody waits for one who waits, since the lock order is user, credential |
| `auth_session` | 1 user, 1 cookie, 2 workers, 2 passwords, versions 0..2 | a current session proves the password in force; logout and change end the session against any concurrent request; the versions implement `LoginSessions` |
| `auth_two_cookies` | 2 cookies, 2 users, 2 workers, no password change; at most 2 (cookie, user) logins and 2 live access tokens (`FewLogins`) | handlers act only for users who logged in on the request's session |
| `auth_two_users` | 2 users, 1 cookie, 1 worker | **violation**, see section 5 |
| `login_protection` | 3 workers, 1 address, 1 account, limits 2, every block 2 units, 1 fault, fairness | limits, blocks and marks under concurrency and Redis errors; a block is neither passed nor prolonged by a request that came under it; each block ends, the two together need not (section 5) |
| `register_protection` | 3 workers, 2 addresses, 2 faults | an address registers no more users before its block ends than it has requests under way (plus one per Redis error or commit without acknowledgement) |
| `register_protection_comment` | 2 workers, 1 address, no fault | **violation**, see section 5 |
| `tokens` | 1 access and 1 refresh token, 2 workers, lives of 3 and 4 units, 2 units of grace | a client that has not heard the answer of a refresh can refresh again; removed tokens die after the grace; tokens implement `TokenLife`: no command that comes late revives one |
| `rate_limit` | a path limited by session (2 in 2 units) and the default by address, 2 clients on one address, 1 fault, left-over counters, fairness | at most `2 * limit - 1` in any window (plus faults); a denial is for one's own attempts on this path; who keeps asking while denied does not put off the end; denials end |
| `id_generator` | 3 requests, pool of 2, 2 stoppers, fairness | no waiting request is lost, and every one is served until Stop; Stop twice panics only when the calls overlap; when the producer ends |
| `random` | 2 callers, 3 letters in 4 chunk values, words of 2 chunks, strings up to 2, 2 draws | the letters are the usable chunks in order; equal words only after a race |
| `chain` | every route | one answer; context and answer reach those who need them |

Why the bounds are enough. The hazards of the service need two transactions on
one row, and a lost update two versions; what three or more transactions could
add to its safety is excluded by proof (section 4). In `auth_session` a request
racing a change, a logout or a login needs two workers, and a stale version
needs two passwords; more cookies, on which the refinement says more, are in its
proof. In `login_protection` the limits are reached, and the bounds are met
exactly (a bound lower by one is violated); addresses and accounts have separate
keys, so one of each is enough. A third worker is there because two
cannot keep an address blocked by turns, and a window as long as the block is
the shortest block the assumption on the configuration admits. In `tokens` a
token lives long enough to be redeemed, retried, logged out and to run out with
time left of its claim. The login of that run takes the only access token, so a
refresh there redeems its token, once or again, and then fails to get a new pair,
which is the case the grace is for; a second pair is beyond what TLC explores in
minutes, and the theorems of section 4 are for any number of tokens. In `rate_limit` two
windows meet inside one. In `random` and `id_generator` a third party would only
repeat what two do, and a pool of two is full, half full and empty. `chain` has
no bound: a request passes at most nine handlers. The windows are short because
what matters is their order. Identities are symmetric in the runs of
AuthSession, Tokens and RegisterProtection, and in none that checks liveness.

The type invariants of RateLimit, RegisterProtection and IdGenerator are in no
run, since each is a theorem.

`CHECK_DEADLOCK FALSE` stands where the system does stop: a request that has
been answered (`chain`), a process that has panicked or a generator that has run
dry (`id_generator`), the bound on draws (`random`).

Fairness. A goroutine that does not wait for a lock goes on (weak fairness of
its next statement); InnoDB queues waiters, so a transaction that finds its lock
free again and again gets it (strong fairness of the locking statements). No
request is assumed to come, and no failure is assumed to happen or to stop. In
LoginProtection time passes (weak fairness of `Tick`) and each request is served
to its end, in any time; in RateLimit time passes, and no request need ever come. In
IdGenerator Go schedules the producer goroutine while it can go on (weak
fairness of `Produce`).

## 4. Proofs

Each proof is for every value of the constants: any number of goroutines, users,
addresses, tokens and paths, any limits and times. None of the properties is
inductive alone; what each proof adds is the invariant that is. `IInv` of a
module is that invariant; TLC checked it on the instances of section 3 before it
was proved. It is no run of its own, because the proof says more.

| module | theorems (properties) | the argument |
|---|---|---|
| `UserServiceProofs` | `TypeCorrect`, `AccountsStayUnique`, `CredentialsMatchUsers`, `TransactionsIsolated`, `LocksReleased`, `RegistrationsFresh`, `WaitsEnd`, `Implementation`, `AnswersAreLinearised` | locks are held by the transactions whose labels say so |
| `AuthSessionProofs` | `TypeCorrect`, `SessionsProvePasswords`, `HandlersActForLoggedInUsers`, `SessionsImplemented`, `LogoutsEndSessions`, `ChangesEndSessions` | versions only grow, and sessions and tokens come from logins |
| `LoginProtectionProofs` | `TypeCorrect`, `BlocksAreSeen`, `BlocksAreRemembered`, `LoginsBounded`, `FailuresLimited`, `BlockFollows` | over the limit, either those who are about to block are counted, or those who are past the check |
| `RegisterProtectionProofs` | `TypeCorrect`, `RegistrationsLimited` | the same in small |
| `TokensProofs` | `TypeCorrect`, `TokensStayDead`, `GraceIsHonoured`, `RemovedTokensEnd` | a key is shortened to no more than its claim had left when it was looked up |
| `RateLimitProofs` | `TypeCorrect`, `AdmissionsLimited`, `DeniedForOwn`, `WindowsEnd` | the first request of a window has left it when the next window begins |
| `IdGeneratorProofs` | `TypeCorrect`, `StopsAreRepeatable`, `WaitersAreReached` | without an overlap only one call of Stop has looked and not yet closed; the queue is that of the waiting requests |
| `RandomProofs` | `LettersAreOfWords`, `WordsAreFresh` | each letter has the place of its chunk; without a race the states that gave a word are behind the source |

**The user service.** That a commit keeps accounts unique depends on the insert
having found the account free, which stays true because the inserter holds the
entry's lock, which depends on locks being held by the transactions whose labels
say so. The inductive invariant is the conjunction TypeOK, AccountUnique,
CredentialPerUser, LocksHeld, PendingFresh and CopiesFresh, with the shape of a
worker's local state at each label. The refinement and the answers follow from
it: the only steps that write the tables are the two commits, and there
`CopiesFresh` gives the guard and the old value of the abstract operation.
`WaitsEnd`: who waits for a credential row holds the user's row, and by
LocksHeld and CopiesFresh nobody then holds the lock of that credential; so only the
lock of a user and the entry of an account are ever waited for, and their holders
wait for nothing.

**Sessions.** `Vouching`: no session has a version ahead of the table, and one
whose version is current was opened with the password in force; so a change
writes a version that no session has. `Tracing`: a session and a token come from
a login on the same cookie, and a request that came after a logout has loaded no
session. `Ending`: a session on which a password has been changed is behind the
table, in Redis and wherever a later request has loaded it. A change acts on the
user of the token and the check looks at the user of the session, so
`ChangesEndSessions` has a hypothesis: every cookie is used by one user. The run
`auth_two_users` shows that it does not hold without (section 5); `auth_session`
is an instance that meets the hypothesis.

**Login protection.** `FailuresCounted`: the counter of an address over its limit
exceeds it by no more than the requests that have counted and not yet blocked, or
else a block lasts as long as the counter, and then what has been counted beyond
the limit and what is past the check together stay within the number of goroutines. The
change from the first to the second, when the last of those writes its block, is
the heart of the proof; it needs `ConfigurationAssumption` (a block that ended
before the counter would let new requests in). Errors are added on both sides.
`SuccessesCounted` is the same for accounts, where nothing is set and
the check itself reads the counter. `DueInForce`: what a request has to find is in
force as long as it may be looked up, and no request past the checks has any left
to find; so only requests that came before a block prolong it.

**Register protection.** `RegistrationsCounted`: without a block every
registration belongs to a request about to set one; under a block only those past
the check can add one. A commit without acknowledgement adds one registration and
one fault.

**Tokens.** `Grace`: a token nobody has presented has the key its claim gives it,
and one that has been presented keeps what is left of its grace. `Ends`: a token
that was handled has no more than its grace left. Both need that the time
computed from a claim before `EXPIRE` is sent (`left`) is no less than the claim
has when it arrives (`LeftFits`). `TokensStayDead` maps every step to one of
`TokenLife`: a key is written for a token that has not been issued, and
`EXPIRE` finds no key once it is gone.

**Rate limiter.** `Bounded`: while a window of the counter runs, the script has
allowed in it at most what it has counted, up to the limit; one of these, the
request that began the window, is as old as the window, and leaves the last
window of the path when the counter expires. So what a caller has left over is
less than the limit whenever a new window begins, and two windows together never
reach twice the limit. `Spent`: the other way round, what is counted
was let through, or lost and sent again, up to the limit, unless the counter was
left over; that is what a denial rests on. The proof counts attempts with the
library's theorems on cardinality: a unit of time is a function on attempts, so
there are no more after it. `AskedExpires`: a counter that has been asked has a time to live, which is
all that `WindowsEnd` needs: the script renews only where there is none.

**Generators.** `StopsApart` and `DrawnApart` as in the table. `OnceQueued`: the
queue has every waiting request once, so handing to its head forgets nobody.
`Picked` and `Writing`: a strictly increasing sequence of places in the words
drawn so far gives every letter its chunk, and no usable chunk before the one
under consideration lacks a letter; a step extends it by at most one place, which
needs no induction over the words.

Assumptions. `StoreAssumption`, `SessionAssumption`, `RegisterAssumption`,
`TokenAssumption`, `PoolAssumption` and the like say that limits and times are
positive numbers and that `Null` is none of the values. `WorkersAssumption` of the
two protections says that there are finitely many goroutines, since their bounds
count them. `BoundsAssumption` of RateLimit says that the two bounds of the model
are beyond every limit, and `ConfigurationAssumption` of LoginProtection is the
one that the configuration, and no code, must meet.

Only model-checked:

- The liveness properties `EveryCallAnswered`, `BlockEnds`, `DenialsEnd`,
  `RequestsServed` and `ProducerEnds`: liveness under fairness, and ENABLED on which
  it rests, are out of the prover's reach. What is proved is the safety that each
  of the first four rests on: no chain of waits, no block prolonged by a request
  that came under it, no window put off, no waiting request lost.
- Chain (`OneAnswer`, `ContextArrives`, `AnswersAccounted`, TypeOK): the module has no
  constants and its run visits every state there is, so the run is the proof.

## 5. Findings

`auth_two_users`: `NewCredentialCheck` looks at the user of the *session*, the
handlers at the user of the *token*, and nothing compares them. When user B logs
in on the cookie on which A logged in before, the session is replaced but A's
token stays valid on it. A's token can then change A's password, and later
requests with it on that session still pass the check, against what
`main_test.go:760` and `test/normal_progress.http:58` say of a password change.

`register_protection_comment`: the middleware "prevents registration after a
successful one for a certain duration" (`register_protection.go:22`), but the
block is looked up before the handler and set after it, so two requests of one
address that are under way together both register.

A comment is out of date and no run is made of it: "after the validation, delete
the token from redis" (`refresh_token.go:64`); the key is given 30 seconds, as
`refresh_token_test.go:98` expects. `tokens` shows what they are good for.

Observed, and promised otherwise nowhere: an address can stay blocked without a
gap although each block ends. A request that finds no block of hours and is held
up before it looks for one of minutes passes, if by then the hours have come and
the minutes have gone; it may then set the minutes again, and another request
the hours. From three concurrent requests on TLC finds them keeping an address
blocked for good, each of them taking as long as a block. `BlockEnds` therefore
speaks of each block, not of both; an address from which no request is under way
is always free in the end.

## 6. Not modelled

- Configuration is read once at start; its values are constants here.
- Database connections and hooks, logging (`hlog.go`, `logrus.go`), the address lookup:
  pure I/O, no state that a request depends on.
- Password hashing is a pure function; a hash is identified with its password, and
  two salts are never compared.
- `main.go`, `router_gen.go` and the API description are start-up and generated text.
- InnoDB's gap locks and the shared lock of an insert that waits for another one:
  they delay an insert or end it as a deadlock victim, which is a failing statement
  (`DbError`) here. `NoWaitChain` speaks of the locks the service asks for in its
  statements. Soft deletion is never performed.
- With `has_session`, the identifier of the session is empty for every client
  without a cookie, so they all share one counter. RateLimit has this behaviour and
  takes them for one caller; no property forbids it, since nothing says that it
  should not happen, and `deploy.example.yml` never sets `has_session`.
- That two calls of RandStr which race may give the same salt is in Random;
  `WordsFreshUnlessRaced` says only that nothing but the race does it.
- Of what is modelled: cookie attributes, HTTP status and wording of answers, what cors
  allows, how a log identifier is put together.
- That a second request over the limit finds the level mark of the first and blocks
  for hours at once (`login_protection.go:250`) is in the model; nothing says that
  it should not happen, so no property forbids it.

## 7. Plan

Done, in this order: CredentialStore and UserService with their proofs,
AuthSession with its proofs, Interceptor and LoginProtection, RegisterProtection,
LoginSessions and its refinement with proof, TokenLife and Tokens, RateLimit,
IdGenerator, Random, Chain; then the proofs of section 4 for all of them.

What is left:

1. A composition of LoginProtection with AuthSession: how many passwords can be
   tried on an account.
2. That the atomic tokens of AuthSession are those of `TokenLife`, so that the two
   models share one specification of a token.
3. Chain has no proof besides its exhaustive run; it needs one when routes and
   handlers become constants.
