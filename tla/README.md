# A verification development for amelu

amelu is an e-mail hosting service: a Go API over Postgres, a Stalwart mail
cluster it drives over JMAP, Stripe for billing, and Cloudflare workers in front
of and beside the API. This directory holds TLA+ modules that model the parts of
it whose correctness depends on what runs at the same time or fails half way,
TLC configurations that check them on small instances, and proofs (TLAPS) about
them for instances of any size.

Run a model with `tlc -config MCTeam_concurrent.cfg MCTeam.tla`, the proofs with
`tlapm TeamProofs.tla`.

## 1. Inventory

| Part | State it keeps | Operations | Hard behaviour | What makes it correct |
| --- | --- | --- | --- | --- |
| Team (`db/organization_members.go`, `handlers/organization_members.go`, `account.go`) | members and roles, the creator of each domain | change a role, remove, terminate, transfer a domain | READ COMMITTED transactions over counts of rows, cascades, row locks | an owner remains, domains survive their creator, only owners make owners |
| Invitations (`db/organization_invitations.go`, `handlers/organization_invitations.go`, `invitations_public.go`) | invitations and their token | create (superseding), revoke, look up, accept | accepted twice, revoked or superseded meanwhile, two clocks | one account per invitation, nothing from a withdrawn one |
| Accounts (`handlers/auth.go`, `ordnary_auth.go`, `db/store.go`) | organizations, customers, subjects | sign up, log in, link a subject, sync the address | three statements without a transaction, unique addresses | every account is a member of an organization |
| Password reset (`handlers/password_reset.go`, `db/password_reset.go`) | reset tokens | request, complete | mail cluster call between the check and the mark | a token works once |
| Domains (`handlers/domains.go`, `domain_settings.go`, `dns.go`) | domains and their status, the domain in Stalwart | create, delete, suspend, reactivate, verify | two systems written one after the other | the two agree, or an error says otherwise |
| Mailboxes (`handlers/mailboxes.go`, `mailbox_settings.go`) | mailboxes, the account in Stalwart | create, delete, suspend, activate, set a password, repair | the same | the same |
| Expiration (`handlers/expiration_job.go`, `workflows/mailbox-expiration`) | expiry instants | sweep | a sweep with an old list, overlapping sweeps | only expired mailboxes are acted upon |
| Verification queue (`cloudflare/queues/domain-verification`) | messages, attempts, a cache per isolate | consume, retry, dead-letter | at-least-once delivery, a domain deleted meanwhile | acknowledged only when the domain is verified or gone |
| Workflows (`cloudflare/workflows`) | the attempts at the step each instance is at | call the origin, retry, fail | a call that times out while the origin works on | every instance ends; sweeps that overlap do no harm |
| Billing (`handlers/billing.go`, `db/billing.go`) | plan, Stripe ids | checkout, portal, webhook | events reordered, duplicated, lost | the plan is what Stripe last said |
| Sending limits (`handlers/sending_limits.go`) | throttles in the cluster, a fingerprint in memory | kick, sync | partial failure, skipped work | the cluster follows the plans |
| Startup maintenance (`handlers/maintenance.go`, `db/maintenance.go`) | claims of one-off tasks | claim, run, release | crash after a claim, several instances | each task runs once, and is retried |
| Session (`beta/src/app/session.ts`, `frontend/src/context/AuthContext.tsx`, `cloudflare/edge`) | who is signed in, the check's state | check, retry, log in and out | the API sleeps, wakes, times out, cannot look the session up | a valid session is kept through outages |
| Domain list (`beta/src/app/domains.ts`) | the list shown, with stars and an order not yet saved | load, star, reorder | shown before it is stored, taken back when refused | what is shown is what is stored |
| Shared mailbox (`beta/src/app/mailbox/mailbox-context.ts`) | the mailbox the pages of a tab share | fetch, save from a page | a save answered after its page was left, or after another save | what is shared is what is stored |
| Pages (`beta/src/app`, `frontend/src/pages`) | what a page shows of the thing in its URL, its forms, dialogs, flags | load, save, add, delete, confirm | answers out of order, after the URL has moved, never | the page shows its own thing, changes what was meant, stays usable |
| Rules (`handlers/sieve_rules.go`, `spam_settings.go`, `stalwart/sieve.go`) | rules, the catch-all, a compiled script per mailbox | add, drop, set, move the catch-all, rebuild | two stores again, several mailboxes and calls per change | scripts in force are those of the rules |
| Webmail, branding, admin, DNS, ops scripts | little or none of their own | - | mostly request translation | - |

Postgres runs with its default isolation level; the pool has 10 connections
(`db/db.go`). Handlers run concurrently, also across instances of the API.
Stalwart, Stripe, the DNS and Cloudflare's queue are external: what they do is
modelled from how the code calls them.

What is hard to test in each part, line by line, is the list of hazards in
`PROJECT.json`; every property below is there because of one or more of them.
These are the ones that matter most. Smaller ones of the same kinds, of which no
property is: a termination that lists domains before another is added
(`account.go:128`); looking at the DNS page of a deactivated domain, which sets its
status (`dns.go:53`, shown by `MCDomains_suspended`); a request that creates something
on a page that was left, and on success navigates away from the page the person is on
by then (`new-bcc-capture.ts:40`); logging out while the API is down, which leaves the
cookie valid (`session.ts:80`); a failed save of a catch-all form whose content had not
been loaded (`CatchallPage.tsx:15`); two first logins of one subject
(`ordnary_auth.go:139`); two changes of a custom hostname, each of which registers
its own (`webmail_branding.go:425`); and syncs of sending limits in two instances
(`sending_limits.go:119`).

## 2. Modules

What is common to all of them:

- A request in flight is a process with a program counter, `pc`, and what it has
  read so far, `job` (or `req`, `held`). Between two steps anything may happen to
  what it read. A step is a statement or transaction of the database, or a call
  to the cluster or to Stripe; the checks a handler makes before its first write
  are one step with the read they rest on.
- A row is addressed by an id that is never used again; an object of the cluster
  is found by name. Looking it up and changing the object that was found are one
  step: the ids of the cluster are not reused either, so a change between the two
  makes the call fail, and failing calls are modelled.
- Two things may go wrong with a call: it has no effect (`CallFails`), or it has
  its effect and the answer is lost (`AnswerLost`). A statement may fail
  (`RecordFails`, `StepFails`, `MarkFails`), and the server may stop or the
  client go away (`Crash`, `Abort`). An instance says which of them happen with
  its constant `Faults`.
- Variables the comments call history (`asked`, `loose`, `vouched`, `joined`,
  `grantor`, `everOwner`, `uses`, `unmarked`, `bought`, `given`, `blurred`,
  `known`, `seen` of Billing, `fate`, `raced`, `failed`, `crowded`, `stale`, `dormant`,
  `crossed` of Rules and of MailboxContext, `cut`, `reason`) are not in the program, and no
  guard reads them but a bound:
  they remember what a property is about.
- A definition marked `(bound)` has a bound in its guard that the code does not have.
- A definition marked `(fault)` is what a bug in the definition next to it would
  look like. The specification does not use it; the property named with it in
  `PROJECT.json` is violated when it is put in place.

### Team.tla

`Begin...` is a handler up to its first write (`requireOrgActor` and the checks
of `authz`); the actions after it are the statements of `db.UpdateMemberRole` and
`db.RemoveMember`, or the single statement of the others. Rows are `role`,
`domainOwner` and `invite`; what a transaction has written and not committed
stays in its request (`heir`, `moved`) and is published by the last statement
together with COMMIT. Isolation is READ COMMITTED: a statement sees what was
committed when it started. Row locks follow from the program counters:
`HoldsMember` is the `FOR UPDATE`, `moved[p]` the updated `domains` rows,
`HoldsKeyShare` the lock a foreign key takes on the customer the moved domains
will refer to. `Abort` is a cancelled context or a crash, `DeadlockVictim` what
Postgres does about a cycle of waiters. Mailboxes and billing are left out; five
roles exist and an instance picks those its requests name.

### Invitations.tla and OneTimeToken.tla

`FindOpen`, `Supersede`, `InsertInvitation` are the statements of
`db.CreateInvitation`, `MarkAccepted` and `CreateAccount` those of
`db.AcceptInvitationForNewCustomer`; `RevokeInvitation` is a single statement.
The unique index on open invitations makes an insert wait for whoever has updated
one. There are two clocks, the API's and the database's (`lapsed`), because the
code compares `expires_at` with either. Around them an inviter's account may go
(its invitations go by cascade), people sign up by themselves or leave.

`OneTimeToken` is what the e-mail promises: a token is issued, then used once or
withdrawn, and never comes back. `Invitations` implements it (`IsOneTimeToken`,
with `Status` as the refinement mapping and `joined`, the accounts made from an
invitation, as its uses).

### Mailboxes.tla

One job is the whole of a handler: `Call` to the cluster, then `Record` in the
database, in that order in every handler; a password and a repair end with the
call. `BeginCreate` counts mailboxes against the plan, `BeginChange` loads the
mailbox. `BeginSweep` is the SELECT of `RunExpirationSweep`: it takes the
list of expired mailboxes, and the request works through one job after
another with what that list said. An account is `none`, `open` or `blocked`: a
suspension is an expiry date on the account's password credential. `loose` are
the names for which an operation stopped between the two systems, or two
operations went on together.

### PasswordReset.tla

Extends `Mailboxes`, whose variables it shares (`ResetSpec` has both): a step is one
of Mailboxes together with the foreign key's cascade on its tokens (`MailboxStep`,
`Cascade`), or one of a reset: `BeginReset` (the token is valid),
`LoadMailbox`, `SetPassword` (by the mailbox's name), `MarkUsed`. `known` are the
mailboxes there were when the reset loaded its own.

### Domains.tla

A request goes through `insert`, `list`, the calls (`call`, `account`, `keys`,
`domain`, `box`), `record`, `undo` and `mark`. `Allowed` is what the cluster
accepts, `After` what it does, `Forward` where the handler goes then and `GiveUp`
where it goes on an error: a creation takes its row back and, if that fails too,
marks it `failed`. A deletion reads the list of mailboxes once, deletes their
accounts, then the domain's keys, then the domain, then the row. `GetDomainDNS`
acts on the status it read. Of mailboxes there is what bears on the domain: their
creation and their repair. Verification, by an operator or by the queue, is
one statement by id.

### Billing.tla

`row` is the billing part of a customer's row; `payer`, `sub`, `session` and
`events` are Stripe, modelled from what the code asks of it and from the events
the webhook takes. Each request's statements and calls are steps; what the
webhook does with an event is one UPDATE: by the customer the session was marked
with for `checkout.session.completed`, by Stripe customer for the others.
`StripeWebhook` answers 200 whatever its statement did, so that a failed one is
not sent again. A customer whose row was written by requests and events out of
turn is in `blurred`, each cause set by the step that causes it.

### Rules.tla

All rules are one set, `rules`: columns of the domain's row (`Lists`), rows of
`bcc_captures` and `pattern_rewrites`, and for each mailbox its forward, which is taken
back when it cannot be deployed. Internal access and delegation, which stay on record
when their deploy fails (`mailbox_settings.go:180-187`, `:226-233`), are not in the model.
A `script` is whether it exists, whether it is active, and the rules it was compiled
from. A request writes (`WriteRule`, or `WriteCatchAll` in the cluster), decides which
mailboxes it is for (`Aim`, with `Aimed` for the order), and for each one compiles
(`Compile`) and deploys: `After` and `Then` are the calls of `DeploySieveScript`
(update, or create and then activate) and `RemoveSieveScript` (deactivate, then
destroy). What it compiles from was read at different times, and the model keeps that:
the domain's row when the handler began, the catch-all before or after the write,
the other rules at each mailbox. `GiveUp` is the error path: an added rule is taken
back (`Undo`), everything else stays half done. A change that ends well and alone must have brought
back in line every mailbox that was in line before it (`owes`, `Settled`). The one-off task of
`maintenance.go`
is a request that begins with a claim and releases it when it fails, unless it was cut
off or never learned that the claim was made (`cut`); its domain has scripts from an
earlier release (`old`).

### PageProtocol.tla, BetaPages.tla, FrontendPages.tla, Dashboard.tla

`Dashboard` is one tab: the page it is on and the thing in its URL, what is `shown`,
whether a form was `edited`, the flags that disable buttons (`locks`), the
confirmation that is open (`dialog`), and the requests in flight (`call`), which the
server handles (`Process`) and which are answered, in any order. Going to another
thing on the same page (`Move`) keeps the component, as the routers do; going to
another page (`Open`) makes a new one, and what the old one had in flight is
unsubscribed, or answers to nobody (`DeadAnswer`), or navigates (`LeaveAnswer`).

A page is a value: `PageProtocol` lists the ways in which a page loads, reloads,
locks, asks and aims, and `BetaPages` (Angular) and `FrontendPages` (React) say for
each page of the two applications which it uses, operation by operation. A page's
definition is read off its component: `switchMap` or an effect, `disabled` on which
flag, what the confirmation holds on to, what `next` and `error` do. The content of a
page is whose it is, its version and, for a list, its rows. What the properties rely on
in a page is `CoherentPage`: a form is saved without a question and only when it shows
something, a name is typed for the thing in the URL, and an answer that changes nothing
on the screen is to an operation that leaves what is shown as it is. The assumption that
all pages are such (`PagesAssumption`) is evaluated on the pages of both applications.

### Outages.tla with Session, DomainList, MailboxContext, VerificationQueue, OriginWorkflow

Five clients of the origin, each a module with its own variables, and `Outages`,
which composes them. They share nothing but the origin, so a behaviour follows one of
them (`part`): the others would only multiply its states.

- `Session` is the check of both dashboards (`app` says which): `Asks`, `Answer`,
  `SignedIn`, `SignedOut`, `TryLater` and `Wake` with the delays of
  `RETRY_DELAYS_MS`, the button of the overlay, logging in and out. The origin goes
  down, wakes and comes up by itself, and while it is up something else may be wrong
  (`trouble`): the database, the signature between edge and origin, the bindings of the
  edge. `OriginStatuses` is what the origin then answers: 401 to a session it does not
  know, to any error of looking it up, and to a signature it does not accept, 500 when
  the profile cannot be loaded. `EdgeStatuses` adds 502 while the container is down or
  wakes and 500 when a binding is missing.
- `DomainList` is `domains.ts`: `fetched`, and `local` on top of it; a star or an
  order is shown at once, sent (`ServeEdit`), and taken back when refused
  (`EditFailed`).
- `MailboxContext` is the class of that name in beta: provided by the layout around the
  pages of a mailbox, it fetches the mailbox when the id in the URL changes, and not
  when another page is opened (`OpenPage`). The overview saves the name and the status,
  the listing settings the name; the origin reads the row (`ReadRow`), writes one field
  (`WriteRow`) and answers with what it has read and that field, which `Updated` puts
  into the context whether or not the page is still there (`SaveAnswer`). Another
  mailbox on the same page keeps layout and page (`Visit`); otherwise the layout is new
  (`Enter`), and a save of the old one may be stored without anybody hearing of it.
- `VerificationQueue` is `consumer.ts`, which is built and tested, and not adopted:
  nothing sends it a message yet (`docs/cloudflare/QUEUES.md:9-16`). A delivery looks up
  the record or finds the outcome in the isolate's memory (`seen`), tells the origin
  (`Persist`), acknowledges or retries. The origin answers 200 whether or not it has a
  row of the domain (`MarkDomainVerified` does not look at the rows it changed), so a
  message about a domain that is gone is acknowledged. The queue delivers a message
  again while an earlier delivery is still being handled, isolates are recycled,
  deliveries crash. That a message without retries left goes to the dead-letter queue
  is the queue's doing.
- `OriginWorkflow` is the instances of both workflows and the attempts at the step each
  is at. The expiration workflow has one step, a call for a sweep; an attempt that
  times out leaves the origin sweeping (`sweeping`) while the next one calls again. What
  overlapping sweeps do to mailboxes is in `Mailboxes`. The provisioning workflow is a
  design: the origin has none of the four endpoints it calls
  (`docs/cloudflare/WORKFLOWS.md:93-101`), so its first call is answered 404, which ends
  it (`ProvisioningRefused`), and its other steps are not in the model.

## 3. Runs

Each row is a question, and ends within five minutes with two workers.

| Run | Instance | What it shows |
| --- | --- | --- |
| `team_concurrent` | 3 members of 1 organization, 1 domain, 2 requests of all six kinds; members and requests are symmetric | whatever the interleaving: domains belong to accounts that exist, a removal loses only domains that came after its reassignment, only owners make owners, and the last owner goes only with a termination or on a count that had become stale; also the inductive invariant |
| `team_live` | 3 owners of 2 organizations, 2 domains, 2 requests that remove, terminate, transfer | every request ends, though removals wait for each other's rows; and none touches another organization but a transfer authorized before |
| `team_last_owner` | 3 members, 2 role changes | violated: both owners are demoted |
| `invitations_concurrent` | 2 invitations, 1 address, 2 organizations, 2 requests | an invitation is a one-time token; who joins was invited by somebody still there; a live one is not superseded; every request ends |
| `mailboxes_live` | 1 name taken twice, 2 requests, every operation and fault | an account is lost only to a deletion of that name; the systems agree on names nothing stopped half way for; sweeps deal with all that expires; also the inductive invariant |
| `reset_race` | 1 link, 2 resets that fail anywhere, 2 creations or deletions of 3 names against a plan of 1 | a link works at most as often as requests overlap, on its own mailbox, or on one that took the name while the call was on its way; creations that count together exceed the plan by less than their number |
| `domains_concurrent` | 2 ids of 1 name, 1 mailbox, 2 requests, every operation and fault | what records lack in the cluster is a deletion's doing; what the cluster has without a record is accounted for |
| `billing_concurrent` | 2 customers, 2 plans, 2 Stripe customers, 2 subscriptions, 2 requests, 2 events, 1 open session | rows refer to their own Stripe customer, plans are bought or given, and what keeps a row from following Stripe is one of the named causes |
| `rules_concurrent` | 2 mailboxes, a rule of each kind, 3 requests of which 2 overlap, every operation and fault | a change that ends well and undisturbed leaves no script behind, and makes up for whatever went wrong before with those it rebuilds, a script stopped between its two calls excepted; rewrites have a catch-all unless it was cleared beside; the one-off task is run by one instance, and released unless its run was cut off or its claim went unanswered |
| `dashboard` | every page of both dashboards, 2 things, 2 requests in flight, 2 operations | what a page shows, saves, deletes and leaves locked, for each way of loading and aiming, with the exceptions below |
| `outages` | 3 delays, 2 edits of 2 domains, 2 messages, 2 isolates, 1 retry, 2 workflow instances with 2 retries, 2 mailboxes with 2 names and a save | a person is sent to sign in only when the session is gone, or the origin refused it for a reason of its own; the list on the screen is the stored one; so is the mailbox the pages share once nothing is under way, also when pages or mailboxes were left before an answer, unless saves overlapped, met a fetch or a move, or an answer was lost; an acknowledged message is of a domain that is verified or gone; checks, messages and workflows end |
| `outages_signed_out` | the session check of `outages` | violated: with a valid session to the sign-in page, by a 401 of an origin that could not look it up |

What the properties of `dashboard` leave out is what the pages do get wrong, and each
exception is named by the step that causes it (`fate`):

- `late`: most pages of beta drop a load when the URL moves on, but not the answer to
  a save, so a save that is answered after the move puts the other thing's content on
  the page (`LateAnswersOnly`), and may be saved from there (`OwnFormSaved`).
- `moved`: the pages of the React dashboard start another load and keep the first, so
  the answer that comes last stays; `Converges` says nothing of them once the URL has
  moved. `overlapped`: lists that are read again after two changes show the read that
  is answered last.
- What is deleted by its position in a list is not the row that was meant once the list
  has changed, and a plain confirmation acts on the thing in the URL when it is
  confirmed; `RightTarget` is about rows that are named and names that are typed.

### Why these bounds

The hazards are races of two: one request reads, another writes, the first goes
on. Two requests reach every pair, and a third party is there where it matters
without being a request (the webhook, the sweep's clock, single statements such as
`Join`, `RevokeInvitation` or `Verify`, which may happen at any time). Two ids
over one name are the reuse of a name. Three members are an owner, another owner
and somebody to inherit or to be handed the role. In `reset_race` three names
against a plan of one let two creations pass the count and exceed it, and one
overshoot more would show; a link is judged by its own row, so one is enough for two
resets to race on. Three requests on the rules are one that goes
wrong, one beside it, and one that runs undisturbed after; a page needs two operations
and two requests in flight for answers to change places, and a second thing to move to.
Three delays and two isolates are the code's own or the least that differ; of the
mailbox the pages share, `outages` follows one save at a time (two that overlap are an
exception of `ContextIsStored`, and are in `MCOutages_context`); five retries of the
queue and of a step are cut to one and two, since no attempt but the last is special. Two
events are what it takes to be out of
order, and one open session at a time lets a customer have a second subscription
all the same. The theorems hold for any number of each, so the bounds matter for
the liveness properties, which are only model-checked.

`BeginCreate` in `Mailboxes` and `Domains` requires an id to be left for every
creation in flight, `Send` a number below `MaxEvents`, `OpenSession` one below
`MaxSessions`, `BeginReset` one below `MaxUses`, which is more than `RacedUses` allows, `Begin` of Rules
one below `MaxBegins`, `BeginAdd` an id that was not given out, operations of the
`Dashboard` a number below `MaxOps`, and `Deliver` fewer than `MaxDeliveries` deliveries at
work: these are the only bounds in guards.

The configurations say `CHECK_DEADLOCK FALSE` because the systems may stop: ids,
tokens and events are finite in an instance, and nothing obliges a client to ask
for anything. Symmetry permutes identifiers of one kind; it is used where only
safety is checked, with action properties of which no constant breaks the symmetry,
and never with liveness.

### Fairness

- `Team`, `Invitations`: a handler that has started runs on, and lock queues are
  first come, first served, so a step that is possible again and again is taken
  (strong fairness of `Step(p)`). A deadlock is detected after `deadlock_timeout`
  (weak fairness of `DeadlockVictim(p)`). Requests need not arrive and clients need
  not leave (`Abort` is not fair).
- `Mailboxes`: a request's calls and statements go on (weak fairness). A sweep
  starts again and again: the ticker of `main.go` fires every 15 minutes. A call or
  a statement that sweeps try over and over for the same mailbox succeeds at some
  time (strong fairness per mailbox); failures may otherwise happen at any time and
  any number of times.
- `Outages`: a request ends, by its answer or its timeout (`AbortSignal.timeout`), and
  a pause runs out, both being timers of the browser (weak fairness of `CheckStep`);
  that the origin is up and well at last is the premise of `ChecksEnd`. The queue delivers
  what it holds and the awaits of a delivery end (`QueueFairness`); crashes and
  recycling may happen at any time, and are not fair. The platform goes on with an
  instance of a workflow and its attempts time out (`WorkflowFairness`).

### Disagreements with the source's own words

- `team_last_owner`: `UpdateMemberRole` locks its target and counts owners without
  a lock, although the comment says that two concurrent demotions cannot both
  succeed. They can: each counts the other's target.
- `outages_signed_out`: `session.ts:44-46` takes only a 4xx for signed out, so that an
  API in trouble does not send people with a valid session to the sign-in page. The
  origin answers 401 also when it cannot look the session up (`middleware.go:54-57`,
  `store.go:337-339`), and when it does not accept the edge's signature
  (`edge_auth.go:40-42`).

### Further configurations

They check one property each, or few; what TLC finds is how the code was understood.

| Configuration | Property | |
| --- | --- | --- |
| `MCTeam_lost_domain` | `RemovalKeepsDomains` | false, although the comment at `organization_members.go:148` promises it: `RemoveMember` reassigns the domains it sees and then deletes the customer; one that becomes the member's in between is deleted by the cascade |
| `MCMailboxes_concurrent` | `PlanOvershoot`, `LostOnlyByDeletion`, `IndInv` | hold for four names, one of them a standard address that does not count, and requests that fail anywhere |
| `MCMailboxes_sweep_twice` | `SweepSparesOthers` | false, although `internal_jobs.go:37-39` calls a second sweep for the same tick safe, each action being a no-op once applied: of two that overlap, the second deletes by name, and the name may have been taken again |
| `MCMailboxes_suspended` | `SuspendedIsBlocked` | false, although the comment says that `SuspendMailbox` blocks the mailbox from authenticating: setting a password replaces the credential without the date |
| `MCOutages_context` | `ContextIsStored` | holds with two saves under way, of which one overlaps the other or is left behind by it |
| `MCOutages_verification_cached` | `DeadMeansUnverified` | false, although `docs/cloudflare/QUEUES.md` says that a dead message means that DNS did not verify: an isolate remembers that the record was missing, and a message that was sent after it was published can spend its retries there |
| `MCRules_dormant` | `RebuiltInForce` | false, although `mailboxes.go:209` says that the next rule change makes up for a failed one: a script is made by one call and activated by the next, and deactivated by one and destroyed by the next; stopped in between it stays inactive, and later changes update it ("updating an existing script's blobId in place keeps it active", which it is not) without ever activating it |
| `MCPasswordReset_twice` | `UsedOnce` | false: two requests with one link both set a password |
| `MCDomains_suspended` | `SuspendedUntilReactivated` | false: looking at the DNS page of a deactivated domain sets its status |
| `MCBilling_left` | `NotLeftPointing` | false: an operator's change is written back after its subscription's end was recorded |
| `MCBilling_duplicates` | those of `billing_concurrent` but `IndInv` | hold for one customer whose events also come twice, or whose plan is not found |

## 4. Proofs

All proofs are of safety, for any values of the constants that satisfy the named
assumptions of each module: finite sets of customers, requests and ids where
something is counted, null values that are not elements of the sets they are null
for, bounds that are natural numbers, operations and faults that are among those
modelled, and pages that are coherent (`PagesAssumption`). An organization is a function of a
customer (`OrgOfAssumption`), the order
of a list of domains a sequence of all of them (`ListAssumption`). Each part of a
module of proofs has three facts, `Init => Inv`, `Inv /\ [Next]_vars => Inv'` with a
lemma per action (or per group of actions that write the same things), and what the
invariant implies. The invariants are conjunctions of named parts and stand at the end
of the module they are about. TLC checks `IndInv` of Team, Mailboxes and Billing and
`ResetInv` of PasswordReset in the runs; the others (`IndInv` of Domains, Invitations
and Dashboard, `SerialInv`, `ConvergeInv`, `StepInv`, `DriftInv`, `RebuildInv`,
`OwnInv`, `SessionInv`, `ListInv`, `QueueInv`, `ContextInv`) were checked on such
instances before they were proved, and are stated by theorems only.

**TeamProofs.** The properties are not inductive by themselves: that only owners
make owners needs what requests and invitations carry (`Granted`), that domains
have owners needs the new owner to stay while domains are moved to it (`Moving`,
the foreign key's lock), and both need row locks to be exclusive (`Locking`). That
the last owner goes only on a stale count (`OwnerLossExplained`) needs `Counted`:
whoever takes an owner away counted two or more. The theorem compares that count
with the owners there are when the step is taken. What a step may not do
(`RemovalLosesOnlyNewcomers`, `OthersLeftAlone`) needs `Scoped`: a change of role or a
removal, and the new owner of what it moves, stay in the organization of the actor.
`FairSpecRefines` says that fairness adds no behaviour, so all of it holds where
liveness is checked. What overlapping requests break holds of those that do not overlap
(`Serial`: one request at a time, none of them a termination): organizations keep an
owner, removals keep the team's domains, and nobody touches another organization, all
from `SerialInv`, by which a count, the new owner and the rows that were moved are still
right when the request writes, since only people who join come in between. So the
overlap is the only cause of what `team_last_owner` shows.

**InvitationsProofs.** `IndInv` says that a request's copy of an invitation is the
row's, that a row marked by an acceptance in progress stays open to all others
(row locks), and that `accepted_at` and the account are committed together. From
it, `StepRefines`: every step is a step of `OneTimeToken` or changes neither
`Status` nor `joined`; hence `InvitationsAreOneTimeTokens`. That a live invitation is
not superseded (`LiveNotSuperseded`) rests on the order of a creation's statements: it
supersedes only what had lapsed when it looked (`OldHasLapsed`), and a clock does not go
back. That who joins was invited by somebody still there (`JoinNeedsInviter`) rests on
the cascade: an open invitation has its inviter (`InvitersExist`), and one that is being
accepted stays open (`MarkedStaysOpen`).

**MailboxesProofs**, of `Mailboxes`. For the plan: mailboxes that count, together with
creations in flight, stay below the limit plus the number of requests (`WithinReach`);
a request that begins a creation is idle before, so those in flight can only be the
others. For losses: every job is about a row that was there by the name it always had
(`JobsSound`), and an account that is about to be recorded, or is on record, is
there unless a deletion of the name was asked for (`LossesExplained`). That the
records and the cluster agree on names nothing stopped half way for (`InStep`) is
`StepInv`: of such a name one request has one thing to do (`OneAtWork`), on a row that
is there until then (`WorkedOnLive`), and the two systems differ only between its call
and its statement, by what it has done (`BetweenTheTwo`, `HalfDone`).

And of `PasswordReset`, in the same module because it works on the same variables.
`UsesCounted`: while a link is open, its uses are the requests about to mark it, and
those that may still use it are others; once it is not open nobody begins. So uses
never exceed the number of requests in flight. Whose password it sets
(`OwnPasswordOrNewer`) is `OwnInv`: resets leave all of `Mailboxes`' invariant true,
which is also the theorem `MailboxesWithResets`, and what was live when a reset loaded
its mailbox has names of its own for good (`KnownApart`), so the name it calls with is
that of its mailbox or of one that came after.

**DomainsProofs.** `IndInv` is about what requests know and what the cluster holds for
them. A domain loses something only to a call of a deletion that was asked for
(`AskedThere`), and what is about to be recorded is there unless one took it
(`RecordsTrue`), which gives `DamageOnlyByDeletion`. For `OrphansExplained`: every
creation has a row of its own (`CreationsApart`), finds the cluster empty and is let
alone until it is done (`CreationsAlone`); a row does not go while a creation or a
repair is about it (`RepairsLive`); a row marked failed is of a name where something
stopped half way (`FailedLoose`); a deletion drops its row when nothing of the name is
left (`DeletionsClean`). The proof goes by where a request is, failing calls, lost
answers and crashes alike.

**BillingProofs.** Everything that may be written into a row belongs to the
customer it will be written for: sessions (`SessionsSound`), subscriptions
(`SubsSound`), events on their way (`EventsSound`) and what requests hold
(`JobsSound`). One lemma, `Kept`, says that a step which only adds sound things
keeps the invariant; each action then shows that what it adds is sound. Stripe
customers get an owner once and keep it (`payer` only grows), which is why ids
that are written back late still belong to their customer. `DriftExplained`, that a
customer who is not `blurred` follows Stripe, is `DriftInv`: it follows the events of
such a customer from the moment they are sent until they are delivered. While they come
in order (`InOrder`) there is one subscription at a time (`OnCourse`), each event will
find the row by its Stripe customer (`Led`), and the last of those still ahead says what
Stripe holds (`WillFollow`), so that with none ahead the row follows it.

**RulesProofs.** The writes to come carry what was checked for them
(`CatchallGuarded`): while a rewrite is about to be written there is a catch-all,
while the catch-all is about to be cleared there are no rewrites, and if both are
about to happen the two requests overlapped when the second began, which is what
`crossed` remembers. No other step adds a rewrite or touches the catch-all
(`Onward`), so failures and crashes do not matter. That the one-off task runs alone
(`TaskRunsAlone`, the first half of `TaskRunsOrIsReleased`) is `OneRunner`: a run has
the claim, and the claim goes only with the run. That scripts follow the rules is
`RebuildInv`, relative to these: a request that is alone has read what is there
(`ReadsTrue`), what it compiles from is that (`DraftSound`, `DraftFollows`), and every
mailbox it owes is one it has still to reach (`OwedReached`); a run of the task has
left no script of the earlier release on a mailbox it has passed (`RunGoesOn`), so a
claim that stands with nobody running leaves none at all (`NoOldLeft`).

**OutagesProofs.** One invariant per part. `SessionInv`: of the statuses the edge
answers with only 401 is a refusal, and it comes of a session that is gone or of an
origin that refuses (`reason`); nothing else leads to the sign-in page. That the second
kind of refusal happens to a valid session is `outages_signed_out`. `QueueInv`: what a
delivery, an isolate or the origin holds as found was published, and an acknowledged
message is of a domain that is verified or gone. `ListInv`: unless something raced, a
fetch under way met no change and the changes on their way are of different things, so
what is shown is the stored list with just these changes on top. `ContextInv`: unless
something crossed, a save is alone, is about the mailbox in the URL and found the stored
one in the context, so that its answer makes the context the stored one again
(`InStep`), whatever pages are opened meanwhile. A step of another part leaves a part's
variables alone. There is no theorem about the workflows: that they end is liveness.

**DashboardProofs.** `IndInv` is about one component: nothing is left of a page that was
closed (`ClosedIsClean`), every flag has its request, and there is no flag for "none"
(`LocksHeld`), an open confirmation is about an operation of the page that asks for one
(`DialogSound`), and what is under way (`Sound`) is a load of the thing in the URL where
loads are dropped, or an operation that names its row with its thing, was typed for the
thing it is about, or saves a form to the thing it was filled from. It gives the four
properties that say what may go wrong only so. `Converges` has two reasons, hence two
parts of `ConvergeInv`. A request that is alone finds the screen as the server has it,
or ahead of it by what it asks for, and leaves it so (`TakesTurns`, `InTurn`). Where
reads replace each other there is one at most (`OneRead`), and while nothing but reads is
under way it is of the time after the last answered change (`LastReadCounts`), however
many requests overlapped before. `NoHeirs` keeps changes of an earlier component out.

Only model-checked: liveness (`RequestsEnd`, `ExpiredDealtWith`, `ChecksEnd`,
`MessagesEnd`, `WorkflowEnds`), which this prover does not reach.

## 5. Not modelled

- Pure translation: webmail, DNS look-ups, Domain Connect, scripts, the mail cluster
  client's encoding. They hold no state that two actors change, and their formats are
  better tested.
- Accounts (signing up, linking a subject) and Branding (custom hostnames, logos) are
  short sequences of single statements; sending limits write numbers nothing else here
  reads. Their hazards are listed without a property.
- Of the front ends: the webmail's pages, the search palette, layouts and the typings
  of the API clients, which are text without behaviour of their own.
- Of the rules: the text of a script and the order of its parts. The generator is a
  concatenation of string templates, one per rule, whose meaning is Sieve's.
- What the provisioning workflow would do once the origin had its endpoints, and who
  would send messages to the verification queue: neither is in the code.
- Of `MailboxContext`, changes of the mailbox that this tab does not make; they are shown
  when it is fetched again. `Dashboard` has the overview as opened with its layout, and
  what its pages share only through `MailboxContext`.
- Of the rules, the two settings of a mailbox that are rules too, internal access and
  delegation; and the repair of a domain, which makes it anew without its catch-all
  (`mailbox_repair.go:31-38`) and so leaves rewrites without one. `RewritesHaveCatchall`
  is about changes of rules.
- Within the modelled parts: the audit log, e-mails, notes and preferences, quotas
  and identities of mailboxes, invoices, promotions, and a plan's two intervals. No
  property is about them.
- Terminating an account is modelled with the team; what it does to the mail
  cluster, domain by domain, is not joined with `Domains`. Nor is the Stripe
  subscription a terminated account leaves behind. A mailbox that is created or
  deleted while rules are rebuilt appears in `Rules` as a read that fails.

## 6. Plan

Every safety property that holds in a run is a theorem. What would come next:

1. Joining the termination of an account (`Team`) with `Domains`: what of a terminated
   account stays on the mail cluster when the calls, domain by domain, fail half way.
2. In `Mailboxes`, suspension with its changes of password, which by the code reopens a
   suspended mailbox.
3. Accounts, as the order of the three statements of signing up.
