# A verification of micro-blog

TLA+ modules, TLC configurations and TLAPS proofs for the services of this
repository. Each definition is translated from the code; `PROJECT.json` maps it
to the lines it stands for.

## The system

Browsers talk to the gateway, which checks access tokens and forwards to the
services. Every service keeps a database of its own and tells the others what it
did over one JetStream stream, `BLOG_EVENTS`; nobody calls another service
otherwise, apart from the gateway. The frontend is one React application per
browser tab, which caches what it has read and keeps the session.

| Part | State | Operations | Talks to others by |
|---|---|---|---|
| auth-service (`services/auth`) | `credentials`, `refresh_tokens`, used captcha ids, signing keys | register, login, refresh, change password, seed the admin at start | publishes user.created; consumes user.updated, user.deleted |
| user-service (`services/user`) | `users` (profiles) | read, update, change role, delete | publishes user.updated, user.deleted; consumes user.created |
| post-service (`services/post`) | `posts`, `tags`, `post_tags` | create, read, update, delete; archive a deleted user's posts | publishes post.*; consumes user.deleted |
| search (`crates/search`): indexer and query server | Tantivy index on a volume, durable `search-indexer` | index, remove; search | consumes post.* |
| comment-service (`services/comment`) | `comments` (a tree per post) | create, list, delete | publishes comment.*; consumes post.deleted, user.deleted |
| notification-service (`services/notification`) | `notifications` | list, mark as read | consumes comment.created, post.published, user.deleted |
| media-service (`crates/media`) | files, `media` | upload, download, delete, list | publishes media.*; consumes user.deleted |
| captcha-service (`services/captcha`) | challenges in memory | generate, verify, clean up | signs tokens that auth-service and the gateway accept once |
| gateway (`crates/gateway`) | JWKS cache, rate limiter, used captcha ids | authenticate, limit, proxy | fetches the keys of auth-service |
| frontend (`services/frontend`): session | user and token (`AuthContext`, sessionStorage) | sign in, sign out, reload, `auth:expired` | HTTP |
| frontend: queries | react-query's cache, requests in flight | read, poll, prefetch, mutate, invalidate | HTTP |
| frontend: pages | the page shown, forms | navigate, guard (`RequireAuth`, `AdminPage`), offer calls | the two above |
| JetStream (external) | the stream, one durable per consumer and subject | publish, deliver, ack, nak, redeliver | |
| deployment | manifests, Vault, scripts | | |

### What is hard here

* A Node service is one thread, so between two `await`s nothing interleaves, and
  at every `await` everything does. There is no transaction anywhere: each
  statement commits by itself.
* Every change is written twice, to the database and then to the stream. A crash
  or a failed publication between the two leaves other services uninformed, and
  two requests may publish in another order than they committed.
* Deliveries are at least once; a `nak`, a lost ack or a crash brings an event
  back after younger ones. Node consumers are created with `DeliverPolicy.New`:
  what was published before the durable existed is never seen. The two Rust
  consumers read everything.
* Decisions rest on rows read before an `await` (`refresh`, `changePassword`,
  `updatePost`).
* The indexer keeps two pieces of durable state in two places, index files on its
  volume and its position in JetStream, and loses them separately. A medium is a
  file and a row, written and deleted by different statements, any of which may
  fail and none of which is tried again.
* In a tab, requests overlap with each other and with sessions. A mutation is
  answered while the list it changes is being fetched; a 401 arrives in a later
  session than its request was made in; the cache outlives the session whose
  token filled it. The admin's sweep of orphans deletes by what it read, page by
  page, up to five minutes ago.
* Captcha tokens and challenges live in the memory of processes that restart, and
  are forgotten by clocks that do not quite agree with the check of `exp`.

### What makes each part correct

* Accounts: a deleted account cannot be signed into again; a credential's role
  comes from somewhere; profiles and credentials agree once all is quiet; both
  tables give an id one life.
* Sessions: one refresh token, one successor; a spent token is gone; sessions end
  with their account and with a change of password.
* Posts: what is deleted stays deleted; a published post is dated; subscribers
  hear of a post before they hear of its publication; links join rows.
* Search: agrees with the posts when all is quiet, whatever it missed, and skips
  nothing.
* Comments and notifications: they do not outlive posts and users; replies stay on
  their post; every event is told, and told once if nothing fails.
* Registration: a challenge is worth one attempt and a token one use; a newcomer
  who goes on trying gets in.
* Media: files and rows match unless a statement failed; the sweep spares what posts
  show; a deleted author's uploads go.
* The tab: one sees what one has written; what a page offers is granted; a session ends
  only for a reason; what an earlier session left in the cache gives way.

## The modules

| Module | Models |
|---|---|
| `EventStream` | durable consumers as operators on records: `next` (first number never handed out), `again` (due once more), `open` (at the handler) |
| `AccountLifecycle` | abstract: an id is unused, then open, then closed for good |
| `Accounts` | auth-service and user-service with the three user subjects between them |
| `Sessions` | the refresh tokens and passwords of auth-service |
| `Posts` | post-service |
| `Search` | `Posts` composed with the indexer (EXTENDS `Posts`, `EventStream`) |
| `Cascade` | comment-service and notification-service behind five durables (EXTENDS `EventStream`) |
| `Registration` | RegisterPage, captcha-service, and the check of captcha tokens in auth-service and the gateway |
| `Media` | media-service with its user.deleted subscriber, the posts that show media, and AdminMediaTab |
| `Pages` | tables: which queries a page observes, which calls it offers to whom, what a call invalidates, changes, and to whom it is granted |
| `Browser` | one tab: session, pages, react-query (EXTENDS `Pages`) |
| `MCAccounts`, `MCSessions`, `MCPosts`, `MCSearch` | symmetry sets for TLC |
| `MCBrowser` | the keys watched by TLC |
| `EventStreamProofs`, `AccountsProofs`, `SessionsProofs`, `PostsProofs`, `CascadeProofs`, `RegistrationProofs`, `MediaProofs`, `BrowserProofs` | theorems |

**Accounts.** `cred` and `profile` are the two tables, `stream` the three
subjects, `cons` the durables `auth-updated`, `auth-deleted`, `user-created`. A
service's `phase` follows its `index.ts`: auth-service seeds or promotes the admin
(`StartAuth`, `StartAuthSeeding`), announces it (`AnnounceAdmin`), creates its
durables (`ListenAuth`); only then does it answer. A request is what it will do
after its `await`: `Register` (look-up) and `InsertCredential`, `FindForDelete` and
`DeleteProfile`, then `Publish`. `updateUser` and `updateUserRole` leave no trace
of their look-up, so it is one step with the UPDATE. A handler is delivery with
its one statement, then `AckHandled`; `AckLost`, `NakUnhandled`, `PublishFails` and
`Crash` are the faults. username and email are one `name`; a change of bio alone
changes nothing here. A user request needs a `bearer`: somebody must have signed in.

**Sessions.** Each statement of `login`, `refresh` and `changePassword` is an
action. A row carries the key it was hashed with; `FindToken` finds a row only
under the running process's key. `since`, `parent`, `issued` and `acked` are history:
the change of password a session goes back to, what a token was exchanged for,
what was handed out, what `changePassword` has answered. `Exclusive` is the
condition that the requests of one account do not overlap.

**Posts.** `post`, `tagged`, `tags` are the tables, `log` the post events. `req[r].at`
is the statement a request makes next, from `update` and `unlink` through the loop
of `ensureTags` (`tags`, `newtag`), `link`, `read` to the publications. A refused
INSERT (`TagRefused`, `LinkRefused`) and a failed publication end the request with
what it has committed. title, slug and content are one `text`; a slug that is taken
at the last moment is refused before anything has changed. Who may do what is left
out: any author or admin may be behind a request.

**Search.** `mode` follows `main` and `subscribe`: `OpenIndex` (which creates
`meta.json`), `Attach` (delete the stale durable of a fresh index), `Subscribe`,
then delivery by delivery `HandleEvent` and `AckEvent`. `deaf` is a process whose
`subscribe` has returned: it goes on answering `/health`. `LoseVolume` takes index
and files, never the durable.

**Cascade.** `comment` and `notice` are the two tables, rows numbered as they are
inserted and kept, marked, when they are deleted. `up[v]` counts the `subscribe...()`
calls of `index.ts` that the running process has come through: the loops of these
run already, and requests are served when all are through. `FindParent` and
`InsertReply` are the two statements of a reply; `PostDeleted`, `UserDeleted` and
`PostPublished` stand for the other services. `posts`, `users` and `early` are
history: what had been published when the row was inserted. comment.deleted is read
by no durable, so its publication is part of `DeleteComment`.

**Registration.** `store` is captcha-service's map of challenges, `used` the ids that
the process in front of `register` remembers: `keeper` says which, chosen at the start,
because the gateway checks where it stands in front and auth-service where the mesh
routes to it. A run of `handleSubmit` is a record in `sub`: `VerifyChallenge` and
`Register` are its two calls, `Created`, `Refused` and `CallLost` their ends. Nothing
disables the button, so runs overlap. `asked` and `coming` are the two halves of
`loadCaptcha`. One unit of `clock` is the interval of the clean-up. Ids are drawn
again only when nobody holds them any more. `tried`, `uses`, `late` are history.

**Media.** `file` and `row` are the upload directory and the table. Each statement of
`upload`, `delete` and the subscriber is an action, and `Done` is the choice between its
effect and its failure, after which the code goes on as if nothing were wrong; `cut`
remembers which media that happened to. `job` is the subscriber at work, `alive` whether
its loop still runs. `WritePost` and `DeletePost` stand for post-service, as far as media
are concerned. `reading`, `seen`, `listed` and `sweep` are AdminMediaTab: `ReadPage` is
one request of `fetchAllPosts`, and `OnPage` is the row that `listPosts` returns by then,
so that a deletion between two pages makes a post slip through; `whole` and `kept` are
history.

**Pages and Browser.** `Pages` reads off the source what is a table there: hooks, JSX
conditions, route guards, and the checks of the services behind. `Browser` watches one
key of the cache, chosen at the start (keys meet only in the pages and sessions around
them). `Serve` is the service's part of a read and `Deliver` react-query's; `Send`,
`Commit` and `Answer` are a mutation, so that anything may come between its commit and
its answer. `Invalidated` keeps what is easily missed of `invalidateQueries`: a query
nobody observes is only marked, an observed one is fetched anew in place of an older
fetch, but its very first fetch is left alone. A token is named by its owner; `dead`
are the expired ones, `entry.of` is by whose token an answer was fetched,
`lacks` which own write it does not show yet (history). `AfterSaving` puts its user into
whatever session there is, as `setState((prev) => ...)` does.

Not modelled inside these parts: two processes of one service at once (a rolling
update overlaps them for a moment), the flag `credentials.active` (nothing clears
it), queries, log lines, and what the clients read.

## The runs

| Run | Instance | What it shows |
|---|---|---|
| `accounts` | 2 ids, 2 names (one the admin's), 2 roles, 2 requests, 2 events per subject, 1 fault | a deleted credential stays deleted; roles have an origin; a deleted profile returns only by redelivery; credentials implement `AccountLifecycle` |
| `accounts_serial` | 1 request, 3 roles, no fault, fair | roles converge, profiles implement `AccountLifecycle`, deletions reach auth-service |
| `admin_profile` (violated) | 1 event per subject | `auth.ts:191`: the admin gets no profile if auth-service starts first |
| `sessions` | 2 accounts, 3 tokens, 2 keys, 2 requests, 2 changes, 1 restart, `Exclusive` | rotation, revocation, deletion |
| `password_change` (violated) | 1 account, 2 requests that overlap | `auth.ts:150`: a login in flight outlives the change |
| `posts` | 1 post whose author leaves, 2 texts, 1 tag that a list names once at most (`repeated_tag` has the other case), 2 requests, 4 events, 1 fault | dates, order of events, deletion, links |
| `repeated_tag` (violated) | 1 request | `README.md:99`: a post that nobody is told of |
| `search` | 1 post, 1 tag, 1 request, 4 events, 1 fault, 1 lost volume, fair | the index converges, catches up, skips nothing |
| `cascade` | 2 posts of which one exists, 1 user, 1 request, 2 events, 2 comments, 1 fault, fair | nothing outlives its post or user by accident, threads, one notification per event, every event told |
| `registration` | 3 challenges, 2 tokens, 2 submissions, times to live and leeway of 1, clock up to 2, 1 fault or slip, fair | one attempt per challenge, one use per token until `exp`, the newcomer is registered |
| `browser` | 9 keys, 2 people, 1 fault, fair | own writes show, offers are granted, notifications become those of the session, what ends a session |
| `media` | 1 medium, 2 posts on pages of one, 1 fault, fair | files and rows, the sweep spares what is shown, the deletion of an author |

*Bounds.* Every property is about one id, one post, or two tokens of one chain;
two requests are what it takes for one to come between another's statements, and
one fault for each kind of failure alone. `MaxEvents` bounds a subject: two of each
user subject let an update or a re-registration follow a deletion; four post events
are a creation, its publication and two more (an update, a deletion). `search` was
also run with five. In `cascade` two events are one that makes a row and one that
takes it away; its safety properties were also run with three. `Room` counts requests in flight, so the bound cuts off no
request half way. Ids, texts, tokens and slots are only compared, so they are
symmetric where no liveness is checked. In `registration` a third challenge is what two
overlapping submissions leave over to be loaded; slips of the newcomer (misreading,
pressing twice, filling in what is refused) count as faults, or he could go on failing
for ever. In `browser` two people are one who leaves an answer in the cache and one who
finds it; of the twelve keys, the three left out behave like one of the nine, and its
safety properties were also run with all of them. Two posts on pages of one are the
least that lets a post move to a page already read; `media` was also run with two
faults, and with two media and one post. The tab asks for a hundred posts a page, the
model for one; the theorem `SweepSpares` holds for any number of them.

*Where a property stops.* The conditions are needed. Without `Exclusive`,
`OneSuccessor` and `PasswordChangeEndsSessions` fail. With two role changes of one account
at a time (`RolesInTurn`) `RolesConverge` fails, and with two requests for one post
(`InTurn`) `IndexConverges` does, since events are published in another order than the
rows were committed. `IndexConverges` also fails when two requests look one new tag up
and both insert it: the second is answered 500 with its row written and no event
published; and when an author's account goes, because archiving publishes
no event. Without `early`, `NoticesGoWithUser` fails: notification-service handles
comment.created before it subscribes to user.deleted, so on its very first start a
user deleted in between keeps what he was sent. With faults `OneNoticePerEvent`
fails: `createNotification` inserts whatever is delivered. Without `losses = 0`
`FaultsSkipNothing` fails: the files of a fresh index are there before the stale durable
is deleted (`subscriber.rs:40`), and after a crash in between nothing is replayed.
Without `late`, `UsedOnceWhileValid` fails: both keepers prune an id at `exp`, auth-service
takes its token for one more instant and the gateway for the leeway of its decoder.
`OwnWritesShow` leaves out the list of users after `updateUser`, which invalidates only
the user; and a first fetch that was in flight when the mutation was answered, of which
react-query promises nothing. `OfferedIsGranted` leaves out what the cache of another
session and a guessed address show, and the session of two people that `saveProfile`
leaves when another signed in meanwhile. `SweepSparesShown` leaves out readings in which a
request failed, was answered as to a guest, or a post was deleted between two pages: then
the tab sweeps what posts still show. `FilesMatchRows` and `DeletionReachesMedia` leave out
the media of a failed statement, since nothing is tried again.

Of `Sessions` it is worth knowing that tokens are hashed with `DATABASE_URL`
(`auth.ts:21`): after a restart under another one no session is found any more. That
ends sessions and breaks nothing that the run checks.

`CHECK_DEADLOCK` is off everywhere: with the bounds used up and no client
asking for anything, the system rests.

*Fairness.* Weak fairness of the services' start (the platform restarts a dead
process), of every request's next step (the event loop resumes what is answered),
and of delivery and ack. Clients owe nothing, faults are bounded, and nothing
restarts a deaf indexer, hence the `faults > 0` in `IndexCatchesUp`; nor the loop of
media-service, hence `~alive` in `DeletionReachesMedia`. Two properties are about people and need
more. `NewcomerRegisters` assumes a newcomer who persists: types what is shown, submits,
and asks for a picture where there is none. `NoticesBecomeMine` assumes that requests are
answered, that the polling interval comes round, and strong fairness of `Deliver`: a click
replaces a request in flight, and a reader who clicked for ever faster than answers come
would never see one.

## The proofs

All for any sets of ids, names, texts, tags, tokens and requests and any bounds.
The assumptions on constants are the named ASSUMEs of the modules: that bounds are
numbers, that the roles, statuses and names the code itself writes are among those
given, and that NULL (`Absent`) is no row, name or role.

* `EventStreamProofs`: what the operations on a durable keep; that `Applied` survives
  them all, and that none moves a durable backwards.
* `AccountsProofs`: `TypesCorrect`; `DeletionIsFinal`, from the invariant `IInv`: every
  id in sight was issued (so a new credential never takes a deleted id), and
  auth-service's durable of user.deleted exists before anything can be published on
  that subject, which needs `bearer` and the order of `index.ts` (`DeletionsHeard`);
  `CredentialsKeepLifecycle`, the refinement, step by step. `RolesHaveOrigins`: a
  row is kept, inserted, promoted or patched with an event about its id
  (`CredentialStep`), and events stay. `NamesAreUnique` needs that auth-service has no
  request before it listens (`AuthQuiet`) and that a seeded admin has not been
  announced when a restart falls between seeding and announcing (`AdminUntold`). From
  its half about events, and from `ProfilesTold` (a profile that is or was there came
  from an event its durable has passed), follow `RevivalTakesRedelivery` and, with
  `NothingLost` (nothing is delivered twice), the second refinement,
  `ProfilesKeepLifecycle`, under `[]NoFaults`. `RolesAgreeAtRest`, under `[]RolesInTurn`
  and up to the first fault, from `RolesInv`: the role in a profile is in the
  credential, or is the last one that auth-service has yet to read, or is about to be
  published (`RolesDue`). It takes three facts more: an announcement that is unread is
  about an account that nobody has updated (`Newcomers`); auth-service promotes the admin
  once, on an empty table (`StartsOnce`); what it is sent again is a name that the UNIQUE
  constraint refused, which never comes with a role (`RefusedComeBack`).
* `SessionsProofs`: `TypesCorrect`, `SessionsGoWithAccounts` (the foreign key);
  `SpentTokensStayGone` from `Rotation`: between DELETE and INSERT the old row is gone,
  and no row is ever inserted with an old token; `OneTokenOneSuccessor` and
  `PasswordChangeRevokes` under `Exclusive`, from what the one request of an account
  has seen (`Succession`, `Changed`).
* `PostsProofs`: `TypesCorrect` with what each place of a request holds (`Sound`);
  `DeletionIsFinal`; `PublicPostsAreDated` from `DatesKept`: an update that saw a date
  still finds it, because ids are never reused and dates never taken away;
  `PublicationsAreForetold` from `Publishers`: a request about to publish has its
  announcement in the log; `LinksAreSound` from `TagsFound`: the tags a request has gone
  through exist. Of `Search`: `SearchTypes`; `FaultsAreHarmless` from `SkipInv`: while the
  volume is not lost only `HandleEvent` makes a number applied, and what it has indexed
  goes only with a deletion; `SearchConverges`, if `Undisturbed` (no author leaves, no list
  names a tag twice) and under `[]InTurn`, in two halves that meet at rest: the log
  says of a post what the tables do but for the request under way for it (`LogReads`), and
  the index holds what the events read so far say (`IndexReads`), through rebuilds too.
* `CascadeProofs`: `TypesCorrect`; `ThreadsAreSound` from `ParentsFound` (a row keeps its
  post for good); `CommentsGo` and `NoticesGo` from `Heard`: a durable that cleans up exists
  before the first row it would clean, and from then on only its handler makes an
  event applied (`DurablesProgress`, from the lemmas of `EventStreamProofs`);
  `NobodyToldTwice` from `Told`: while nothing has failed, what has made a notification
  is behind its durable and does not come again.
* `RegistrationProofs`: `TypesCorrect`; `OneAttemptEach` from `TriedAreGone`: a challenge
  that was tried has no entry, and its id is not drawn while anybody holds it;
  `TokensAreSpent` from `TokensApart` (no two submissions have one token) and `Remembered`
  (a token accepted before its `exp` is in `used` until then).
* `MediaProofs`: `TypesCorrect`; `FilesAndRowsMatch` from `UploadsOrdered` (a row's file was
  saved first) and what the subscriber and a deletion have yet to do (`JobsSound`,
  `UnlinkedIsGone`, `RowsGone`); `SweepSpares` by what a reading has covered: the posts of
  the pages read so far, newest first, are exactly those above some post, and a post
  that has shown a medium throughout is still visible, so it is among them or on a page
  to come. It rests on facts about ranks in finite sets of numbers (`LeastNumber`,
  `EveryRankIsTaken`).
* `BrowserProofs`: the tables first (`ChangedIsInvalidated`, `OfferedIsGrantedTo`: by cases
  over pages and calls), then `TypesCorrect`; `OffersAreGranted` and
  `SessionsOutliveGuests` from `Sound`: a call was offered by the page it was made from to
  the session it was made in, and a 401 answers a guest, an expired token or a change of
  password; `OwnWritesAreShown` from `WritesAwaited`: what a fresh entry or a request
  lacks is a mutation that has committed and is not answered yet.

Only model-checked: liveness (`DeletionReachesAuth`, `IndexCatchesUp`,
`DeletionReachesComments`, `EventsAreTold`, `NewcomerRegisters`, `NoticesBecomeMine`,
`DeletionReachesMedia`), which rests on fairness and ENABLED and is out of the prover's
reach. Every safety property, action property and refinement that a run checks is also a
theorem. Where a run sets a property's condition by its constants (`accounts_serial`: one
request, no fault; `search`: one request, nobody leaving), the theorem has it as an
assumption, and a weaker one where it can: `RolesInTurn` and `InTurn` let requests
overlap unless they meet at one account's role, one post or one new tag.
*Where a property stops* says what fails without it. Only proved: `SessionsHaveAccounts`, which is the foreign key at work. No module uses
recursion.

## Plan

In order of weight; all are done.

1. `EventStream`, `Accounts`, `AccountLifecycle`.
2. `Sessions`.
3. `Posts`.
4. `Search` behind `Posts`.
5. `Cascade`: comments and notifications behind posts and users.
6. Proofs about 1 to 3 and 5.
7. `Registration`, `Media`, `Pages` and `Browser`, with proofs of their safety.
8. Proofs about `Search`, and of what was left of `Accounts` and `Cascade`: origins and
   agreement of roles, profiles, notifications.

## Not modelled

* Queries, ranking and paging of search, and the lists of the other services: they change
  no state. The paging underflow (`search/src/handlers.rs:40`) is an expression of its own.
* Slugs: a slug is part of a post's text. A slug that is taken meanwhile is refused by the
  first statement of its request; the lengths of suffixes are string arithmetic.
* The gateway's cache of signing keys (one comparison with a clock), its rate limits (a
  library's leaky bucket), forwarding and CORS.
* The shared Rust crate: event types, which are those of the TypeScript library, and the
  decoding of tokens by a library.
* Of the frontend: styles, themes, toasts, markdown, and forms but for what they send. The
  refresh token is not used there. Several tabs share nothing, as sessionStorage is a
  tab's own.
* Manifests, Vault, the mesh and scripts, but for what services notice of them.
