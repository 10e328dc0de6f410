# A TLA+ model of the Check Point SASE Terraform provider

This directory holds a formal model of `checkpointsase/`, the Terraform provider
for Check Point SASE: TLA+ modules translated from the Go source, TLC
configurations that check them on small instances, and TLAPS proofs of the
properties that matter most. `PROJECT.json` lists the runs, the theorems, the
hazards of the code with the properties that watch them, and, under `map`, the
source lines every definition stands for.

## 1. The system

The provider is one process. Terraform core calls a handler of a resource
(create, read, update, delete, import), possibly several at a time for
independent resources; the handler makes HTTP calls to the SASE backend and
records what it learns in the resource's state. The backend is asynchronous and
eventually consistent: it accepts a change, carries it out later, and others (the
console, other workspaces) change the same tenant in the meantime. Nothing is
shared between handlers but the API client and one package variable.

What happens at the seams is fixed by the plugin SDK and Terraform core, and is
modelled from how the handlers use it:

* a create that returns an error and an id leaves a *tainted* record, which the
  next apply deletes and creates again;
* an update or delete that returns an error after `d.Partial(true)` leaves the
  record as it was;
* a read that clears the id makes the next plan propose a create; a create or an
  update that ends without an id is an error;
* a refresh precedes a plan, unless `-refresh=false` or a saved plan skips it;
* Ctrl-C cancels the handler's context, a resource timeout ends it with a
  deadline;
* a planned list block keeps its computed attributes by position, and an attribute
  that is Optional and Computed keeps the record's value when it is left out;
* what is not known at plan time is not checked before the apply.

### Components

| Component | Source | State it keeps | Operations | Makes it correct |
|---|---|---|---|---|
| Error classes, polls | `errors.go`, `async.go` | budget, backoff, captured URL | `pollAsync`, `pollUntilConverged` | verdict is the backend's; budget per operation; context bounds it |
| Standard network | `resource_network.go` | id, tainted, network block, region list | create, read, update, delete, import | no orphan, no silent takeover, forgets only what is gone |
| Regions | `resource_region.go`, `utils.go` | region list | add, remove, reconcile | list is the tenant's; replacements first; converges |
| Gateways | `resource_gateway.go` | id, region, network | create, read, delete, import | as the network; a create that times out keeps no id |
| Enhanced network and region | `resource_enhanced_network.go`, `resource_enhanced_region.go` | id, region list, scale units | create, read, update, delete, import | adoption by name; the recorded scale units are those in force (a lost reply can have a difference applied twice) |
| Standard tunnels | `resource_wireguard.go`, `resource_openvpn.go`, `resource_ipsec_*.go` | id by name, one-shot secret, tunnel slots | create, read, update, delete, import | an HA member is never deleted as a single tunnel; slots keep their tunnel |
| Enhanced tunnels | `resource_enhanced_*_tunnel.go` | id, name, endpoints | create, read, update, delete, import | an update adds the endpoints that are missing, and only those |
| Policies | `policy_list.go`, `resource_access_policy.go`, `resource_https_inspection_policy.go`, `resource_internet_access_status.go` | the whole document | write with re-read, read, delete, import | a write that succeeds is in force; nothing is dropped without a warning; one apply settles |
| Firewall and objects | `resource_firewall_policy.go`, `resource_object_*.go` | rules with ids, object values | create, read, update, delete | as the policies; objects as the directory |
| Directory | `resource_group.go`, `resource_user.go`, `resource_group_membership.go` | id, attributes no read tells | create, read, delete, import | found by a walk over pages; forgotten only when gone; replaced only when different |
| Applications | `resource_application.go` | id | create, read, delete | id by poll or by name |
| Private DNS, split tunneling | `private_dns.go`, `resource_enhanced_*_private_dns.go`, `resource_split_tunneling.go` | the whole setting | put and wait, read, delete | omitted attributes survive; exceptions only grow |
| Support options | `resource_support_options.go` | the whole setting | write, read, delete, import | companions fit their type |
| Data sources | `data_source_*.go` | none | read | the catalogue that is walked is whole or comes with a warning |
| Provider | `provider.go` | client, `configuredBaseUrl` | configure | unlocked package variable |

### What is hard in this code

Every write is a sequence of calls that can stop after any of them; a lost reply
hides whether the write happened; the answer to "is it done" arrives later, may
be a completion that failed, or may lose against the timeout; objects without a
known id are looked up by name among objects of others, or by walking a list that
moves; lists of the state are matched with lists of the tenant after both have
moved; and a document is rewritten whole from what a plan could see of it. The
list with lines is in `PROJECT.json` under `hazards`.

## 2. Modules

| Module | Models | Uses |
|---|---|---|
| `ApiErrors` | `classifyAPIError`, `isSuccessStatus`, `isAsyncConflict`, the errors a poll returns, and `Justified`: what a poll may end with | |
| `RetryLoop` | the loop that `pollAsync` and `pollUntilConverged` share: retry within the budget, wait, stop when the context ends | `ApiErrors` |
| `AsyncContract` | abstract: what a handler may rely on when it waits for an operation | `ApiErrors` |
| `AsyncPoll` | `pollAsync` over `pollStandardNetworkStatusForResource`, with the backend's operation | `RetryLoop`, refines `AsyncContract` |
| `ManagedObject` | abstract: what Terraform promises about one resource address | |
| `NetworkLifecycle` | create, read, import, delete of `checkpointsase_network`, with core, backend and console | `ApiErrors`, refines `ManagedObject` |
| `NetworkRegions` | the region list: reconcile on read, add and remove on update | |
| `AsyncResource` | create, read, update, delete and import of gateways, the standard and enhanced tunnels, applications, enhanced networks and enhanced regions | `ApiErrors` |
| `TenantSettings` | create, read, update, delete and import of the eight kinds that manage a document instead of an object | `ApiErrors` |
| `PolicyDocuments` | expansion, flattening, plan checks and warnings of the access, HTTPS inspection and firewall policies | |
| `SettingDocuments` | the same for private DNS, split tunneling, support options, internet access status, address and service objects | `PolicyDocuments` |
| `TunnelGroups` | the slots of a redundant IPsec pair, the endpoints and the name of an enhanced dynamic tunnel | |
| `DocumentCycle` | those documents from the configuration through plan, write and read back to the next plan | `SettingDocuments`, `TunnelGroups` |
| `CollectionWalks` | lists that are served in pages while they change; the data source of updatable objects | |
| `DirectoryObjects` | groups, users, memberships, address and service objects: every handler, core and console | `CollectionWalks` |
| `*_proofs` | theorems and their TLAPS proofs | the module they are named after |
| `Counting` | lemmas about natural numbers: least elements, induction over a set, the n-th of a set | |
| `MC*` | constants for TLC | the module they are named after |

Three modules split one subject. `TenantSettings` takes a document for a number and
follows the calls that write it; `DocumentCycle` takes every call for done or
refused and looks inside the document; `AsyncResource` follows the calls of tunnels
whose groups `TunnelGroups` looks into. What a failure can do to a document is its
old value or its new one, which `TenantSettings` has in full and `DocumentCycle` only
where the answer depends on the content (`WriteNotAwaited`).

### How they correspond to the code

**AsyncPoll.** `pc` is where the loop is: a request in flight (`call`), in the
backoff of a retry, in the interval between two statuses, or returned. `remaining`
is the budget, `resource` the URL captured by the closure, `verdict` the error as
a caller can tell it apart (`errors.Is`, `errors.As`). Durations are left out: a
wait ends when its timer fires or its context ends, whichever the run chooses.
`Failures` holds one error for each class and for the two ways a text can decide.
A failure carries the context error that `errors.Is` finds in it (`wraps`): the
timeout of a dialler or of the HTTP client is `context.DeadlineExceeded` while the
operation's own context is alive, so the verdict "deadline" says nothing about the
context. Only "cancelled" does. `shown` is history: whether the last status that
arrived named the new object, which is what the captured URL must agree with.

**NetworkLifecycle.** A step is one call of a handler with what the handler does
with the answer; between two calls every other actor may move. `op.pc` names the
call the handler makes next, `op.id` is `d.Id()`, `op.target` the network that the
POST started. The polls of the handlers are replaced by `Justified`, which `AsyncPoll`
is proved to respect; the convergence wait of the delete sees the
network gone or gives up. All networks of the model have the configured name,
which is the only name a create can collide with or a lookup can find. `op.ended` is
whether the poll left a context behind that has ended, in which no lookup succeeds.
`told`, `refused` (networks whose poll reported a conflict) and `timedOut` are
history.

**NetworkRegions.** A tenant's region has an id, a cloud region and a name that
links the two (the display name, the plain name, or one the catalogue lacks).
`Claims` is the assignment that `reconcileNetworkRegions` makes block by block,
stated as the one assignment in which each block takes what `matchAPIRegion` gives
it after the blocks before it. `Planned` is core's list with computed ids kept by
position. `quiet` is history: nobody interfered since the last refresh.

**AsyncResource.** The ten kinds of resources are put together from the same few
calls. Each step (a POST whose reply arrives or is lost, a poll that ends, a lookup, a
read, a PUT, a DELETE, a wait) is written once; each Go handler is an operator of its
own name, the disjunction of the steps its code has. They differ in

| | Id after a create | 404 on read | 404 on delete | Update | Delete |
|---|---|---|---|---|---|
| gateway | of the operation, else an error | clears the id | clears the id | replaced | waits by reading |
| wireguard, openvpn | looked up by name | clears | error | waited for | waited for |
| ipsec_single | looked up by name | clears; refuses HA | error | waited for | HA check, waited for |
| ipsec_redundant | of the operation, else an error | error | error | waited for | waited for |
| application | of the operation, else by name | error | no call | replaced | warns |
| enhanced tunnels | of the operation, else by name | clears | error | waited for if it has a status | waited for |
| enhanced network | of the operation; by name after a failure | clears | error | not waited for | waited for |
| enhanced region | of the operation | clears | error | difference of units | waited for |

`val` stands for an attribute an update changes, or a replacement. `unread` says which
sort it is: one that a read returns, or one that the record keeps as it was planned
(passphrases, the description of a static tunnel, the endpoints of a dynamic one, the
idle flag of a gateway, the version of an OpenVPN tunnel, which comes with a credential);
`Keeping` are the kinds that have such. All objects carry the configured name, which
belongs to one object, except among applications: a replacement leaves two behind. A
completion need not name the object it has made (`Unnamed`), and then the lookup by name
takes the first it meets (`Mistakable`). `Planned` is what Terraform core plans from a
record, `told` and `reported` are history.

**TenantSettings.** A document is a number, 0 the one of a policy that is deleted or of
a setting that is off. `tenant.job` is the change the backend works on and `tenant.next`
what it puts in force; the backend works on one change at a time and refuses a PUT while
it is busy, which the code relies on and the source does not show. A completion without
a result (code 0) counts as success, also when it is that of a failure; a failed one may
have taken effect. `op.left` counts the re-reads after a policy write that may still
fail (`policyReReadTransientBudget`). A refused call stands also for the checks the
handlers make before they send. An empty path segment reaches another route of the API
and never gives a 404. `landed`, `outcome` and `lost` are history: what the last
accepted write put in force, how the last operation returned, and why the record has
lost the setting.

| | Create records its id | Write | 404 on read | Delete |
|---|---|---|---|---|
| access, HTTPS inspection policy | after the write and its re-read | one call, re-read within a budget | error | writes the empty list |
| internet access status | after the write | one call, re-read within a budget | error | no call, warns |
| support options | before the write | one call | error | no call, silent |
| firewall policy | before the write | looks up the policy, PUT, waited for if it has a status | error | empties the rules if there are any, waited for if it has a status |
| split tunneling | after the write | PUT and wait | clears | no call, warns |
| private DNS of a network or region | before the write | PUT and wait | clears | switches off, waited for |

**DocumentCycle.** `config` is what is written in the configuration, `server` what is in
force, `record` Terraform's state, `op.plan` the document the provider is given. A
nested block is a set of at most one value, so that an omitted block, an empty block
and a block whose attributes are empty stay different; a bucket of an answer is its
type and whether it has values, and one of a type that this version does not know
is `Newer`. `late` says that what a plan would refuse is not known before the apply;
`unseen`, `told` and `settled` are history. Functions keep the names of the Go
functions: what is sent (`expand...`, `build...`), what is read (`flatten...`,
`decode...`), what a plan refuses (`...CustomizeDiff`, `validate...`). Three sets of
documents are told apart: `Recordable` are those the schema can hold, `Configurable`
those a configuration can write (no ids where they are Computed only, a passphrase in
every slot, at least one endpoint, since `tunnel` is Required), `Storable` those the
server can have (ids given and distinct, the passphrase of every member, buckets of
types this version does not know). `DocumentsAssumption` asks for no more than that of
the chosen documents, and for ids enough to number the rules of two of them.
`Refuses` is what every tenant refuses; `MayRefuse` what a tenant may refuse besides,
for reasons no plan can see: an HTTPS inspection rule that needs a feature, a DNS server
inside the network's subnet.

**TunnelGroups.** The answer for a pair comes in either order, with or without the ids
of its members and their passphrases; `matchRedundantTunnelsToSlots` swaps it when
the remote ids say so. The update of a dynamic tunnel sends the blocks that the
planned list has more often than the prior one; the name is a stem and the number of
suffixes the server has added.

**DirectoryObjects.** `list` is the collection in the order the server lists it, `walk`
the walk under way; `walk.moved` is history, what became of the list since it began. A
delete of a user is soft (`over`); a membership is its group's record of the user
(`tied`); for an object `tied` means that a firewall rule names it. `note` is an
attribute that no read tells; the kind `user_extras` is a user whose configuration may
set those that no `DiffSuppressFunc` covers. `excused` is history: the objects the
operator was told of, or that a walk could not see. `dialect` is how the server answers
the data source: whether it heeds the page and the limit and reports totals.

## 3. Runs

| Run | Shows | Bounds |
|---|---|---|
| `async_poll` | verdicts are the backend's, the budget is per operation, no wait outlives its context, no completion is polled past, the URL a status shows is handed over, `AsyncContract` is implemented | budget 2 (the code's), a failure of every class, a code on each side of every boundary |
| `network_lifecycle` | no silent takeover, none at all after a conflict, no orphan after a timed-out create, nothing forgotten that exists (part of `ManagedObject`, which is implemented), a network taken out of the configuration leaves the state | 3 networks (own, replacement, somebody else's), 2 faults, 2 edits |
| `network_adoption` | finding: an adopted network is destroyed by the next apply | 2 networks, 1 fault, 1 edit |
| `network_regions` | a read reports the footprint exactly; replacements come before removals | 4 regions, 1 fault, 2 edits by the operator or others |
| `regions_converge` | repeated applies bring the network to the declared cloud regions, also when they were changed in place; no declared cloud region is removed; an undisturbed update adds no second region | 7 regions (enough that the bound never stops an add), 2 faults, 2 edits |
| `regions_twins`, `regions_renamed` | findings: two comments about the region list that the code does not keep | 4 and 5 regions |
| `async_resource` | no silent orphan, nothing forgotten that exists, no silent takeover, no HA member deleted, no value recorded that is not in force, whether a read returns it or not, for ten kinds of resources; what is taken out of the configuration leaves the state, with the exceptions the code has | 2 objects, 2 values, 2 faults, 2 edits |
| `settings` | a successful apply is in force, a setting is forgotten only once it is off and never lost without a word, repeated applies converge, for eight kinds | 2 documents beside the empty one, re-read budget 1 (the code has 3), 2 faults, 2 edits |
| `settings_reapply` | finding: re-applying a private DNS whose wait failed first switches it off | as `settings` |
| `documents` | one apply settles; an empty plan means in force; what the plan lets through no tenant need refuse; nothing is dropped unwarned; what the configuration does not mention survives | eleven kinds, each with every spelling of its blocks, ids that are given and not, lists in two orders and with repetitions; 3 edits |
| `directory` | nothing forgotten that exists, nothing lost without a word, an import replaces nothing but a user with attributes no suppression covers, repeated applies converge; the catalogue is whole or comes with a warning | pages of 2 (the code has 500), 3 pages, 2 values, 9 ids, 1 fault, 2 edits |

The bounds are those at which every disjunct of every next-state relation fires.
An interference needs one network, region or object beside the managed one, a second
round of the same interference reaches no state shape the first did not; the
faults allow one failure in the operation and one in its repair. A list of two pages
of two, which others can lengthen or shorten twice, is enough for an object to move
to the page that was read or from the one that was not; the third page is the
limit of the data source. The documents are few but chosen: every branch of a
conversion and of a check has one.

What each property excepts is in its definition. The exceptions that are the code's:

* `ReplacementsComeFirst` is checked without removals by others: nothing in the
  code looks again at a region that was seen once, so somebody else may remove it
  between the wait and the delete.
* `DestroyCompletes` of `AsyncResource` excepts the two kinds whose read takes a 404 for
  an error, and members of HA pairs, which the code refuses to delete.
* `NoSilentOrphan`, `OnlyToldObjectsAreTakenOver` of `AsyncResource`: a create whose
  completion does not name its object records nothing (enhanced network and region) or
  the first object of the name, which can be another (an application that a replacement
  has left behind); a tunnel that is removed under its create can be mistaken for
  another of its name.
* `RecordsOnlyWhatIsInForce`: of what no read returns, the version of an imported
  OpenVPN tunnel is assumed, the value of an object found in place of the create's own
  is the planned one, and so is that of an enhanced tunnel whose update was answered
  without a status.
* `SuccessIsInForce`, `ForgetsOnlyWhatIsOff`: a failure whose completion has no result
  passes for success, as the comments of the code warn; a firewall policy accepted
  without a status to ask for passes for written, or for cleared.
* `ReplacesOnlyWhatDiffers`: an imported user whose configuration sets `email_verified`,
  access groups or a profile is replaced.
* `ApplyConverges` of `TenantSettings`: a record that an error left without the id of its
  network cannot be refreshed (firewall policy, split tunneling), nor can anything
  whose network is gone.
* `SettlesInOneApply`: an empty `sources {}` of a firewall rule and an empty
  `dns_policy {}` are planned for ever; the slots of a pair that have the same remote id,
  or none, may be swapped together with their passphrases.
* `EmptyPlanMeansInForce`: conditions of an access rule other than `datetime` are dropped
  without a warning.
* `OnlyAcceptedBodies` leaves out plans in which a firewall rule has inherited the id
  that is configured for another, which no check compares, address objects, whose check
  is the only rule of the server that is known, and what only some tenants refuse.
* `ForgetsOnlyTheGone`, `NoSilentOrphan` of `DirectoryObjects`: a page without a body counts as the
  last one, and a list that becomes shorter during the walk may hide the object.
* `ApplyConverges` of `DirectoryObjects`: an object that a firewall rule names cannot be deleted,
  a membership needs its group and its user, the address of a user that exists is
  taken for good.
* `WholeOrWarned`: a server that reports no total and serves shorter pages than it was
  asked for.

### Fairness

`AsyncPoll`: requests are answered or given up (`WF Poll`) and timers fire
(`WF Sleep`); the backend and the context owe nothing. Everywhere else each call of a
handler returns (`WF Handler`), which its context and the HTTP client guarantee; in
`NetworkLifecycle`, `AsyncResource` and `TenantSettings` the backend finishes what it
accepted (`WF Backend`), without which no wait can succeed; and an operator who has
something to apply keeps applying it (`SF Apply`, in `NetworkRegions`
`SF Refresh("apply")`), strong because refreshes and other operations come in
between. `DocumentCycle` has safety properties only. Faults and edits have no
fairness, and their number is bounded, which stands for "calls stop failing".

## 4. Proofs

| Theorem | States |
|---|---|
| `AsyncPoll_proofs!TypeCorrect`, `VerdictCorrect`, `BudgetCorrect` | the invariants of `AsyncPoll`, for every budget, failure set and code set |
| `AsyncPoll_proofs!ContractImplemented` | `Spec => Contract!Spec` |
| `NetworkLifecycle_proofs!TypeCorrect`, `TakeoverCorrect`, `TimedOutCreateCorrect` | the invariants of `NetworkLifecycle`, for any set of ids and all bounds |
| `NetworkLifecycle_proofs!ForgetsCorrect`, `PromiseKept` | an action property and the refinement of `ManagedObject` |
| `NetworkRegions_proofs!TypeCorrect`, `FootprintCorrect` | the types and the footprint of a read, for any catalogue, any lists and anything that happens out of band |
| `NetworkRegions_proofs!ReplacementsCorrect` | replacements before removals, when nobody else removes regions |
| `NetworkRegions_proofs!ReadIsFunction` | a read has one result and no other |
| `NetworkRegions_proofs!UnwantedCorrect` | no declared cloud region loses a region to the update, when the catalogue knows every name |
| `AsyncResource_proofs!TypeCorrect`, `OrphansCorrect`, `TakeoverCorrect`, `HACorrect` | the invariants of `AsyncResource`, for the ten kinds, both sorts of attributes, and any number of objects, values, faults and edits |
| `AsyncResource_proofs!ForgetsCorrect`, `InForceCorrect` | its action properties |
| `TenantSettings_proofs!TypeCorrect`, `LossCorrect` | the invariants of `TenantSettings`, for the eight kinds, any number of documents, any budget of re-reads and any number of faults and edits |
| `TenantSettings_proofs!SuccessCorrect`, `ForgetsCorrect` | its action properties |
| `DirectoryObjects_proofs!TypeCorrect`, `OrphansCorrect` | the invariants of `DirectoryObjects`, for the seven kinds, any page size and page limit, and any number of ids, values, faults and edits |
| `DirectoryObjects_proofs!ForgetsCorrect`, `ReplacesCorrect`, `WholeCorrect` | its action properties |
| `DocumentCycle_proofs!TypeCorrect`, `SettlesCorrect`, `InForceCorrect`, `AcceptedCorrect` | the invariants of `DocumentCycle`, for the eleven kinds, any documents, texts, exceptions and ids, and any number of edits |
| `DocumentCycle_proofs!DroppedCorrect`, `OthersCorrect` | its action properties |

They assume what the modules `ASSUME` (the budget is a natural number, codes are
statuses, nobody but its own context cancels a call, the empty id is no id, a configured
document is one that can be written in a configuration) and nothing else.

*AsyncPoll*: the invariant adds to the stated ones that an unreturned loop has no
verdict, without which a second return could not be excluded.

*NetworkLifecycle*: the properties are not inductive. `Calls` says which calls belong
to which kind of operation; `Record` that the id in hand is the recorded one where
a handler works on a record; `Born` that ids in hand or recorded belong to
networks that came into being; `Own` that the network a create polls for is
Terraform's and that its URL, when known, names it. A network ages (unborn to
gone) and never changes hands, which `NextAges` states for all steps at once; each
handler step is then one of five shapes (`HandlerSteps`), and the invariant is
proved shape by shape. `LosersAreGone` and `Refused`
follow a conflict from the poll that reports it: the network it was about is gone, and
is in no record and no hand.

*NetworkRegions*: `ReadBack` is the heart: whatever list a read starts from, the
list it ends with is a bijection onto the visible regions, because no two blocks
claim one region (`ClaimsAreDistinct`) and what no block claims is listed once. That
there is such an assignment and only one, whatever the lists, is an induction over the
blocks (`AllCanClaim`, `OneClaim`): `Counting` proves induction for a *set* of
numbers from their well-foundedness, which needs no operator as a parameter. So
`reconcileNetworkRegions`, stated as a set of results, is the function the code computes.
`Sound` (types, the block an operation points at, and `Faithful`: the state names
regions of the tenant and knows the cloud region of each that the catalogue
knows) is inductive without conditions. Under the condition that nobody else
removes regions, `RemovalsAreTracked` and `Replaced` are inductive with it: a
region on its way out is in the state, so the region whose appearance ends a wait
cannot be one that is leaving, and no removal of the same update can hit it
(`AppearedStands`). The two conditions are needed: `regions_renamed` is the
counterexample to the second, and removals by others between the wait and the
delete to the first.

*AsyncResource*: the handlers of the ten kinds make some forty steps, but only fourteen
shapes of them (`HandlerShape`), which is all the proof looks at after
`CreateShapes` ... `DeleteShapes`. `Calls`, `Record` and `Born` are as in
`NetworkLifecycle`; `NextAges` says once for all steps how an object may change. No
property is inductive by itself. `Accounted` strengthens `NoSilentOrphan`: it does
without the id in hand, because a create may be reading another object than it
started, which `Follows` limits to the cases where the started one is gone, was
reported, or was overlooked (`Overlooked`: its completion did not name it, and the
kind reads on with an empty id, or another application has or had the name). `Own` says that a started object that is up has its
name for itself where names belong to one object, and that a lookup which is made only
when the completion names nothing is made then; so the lookup finds the object or, if it
is gone or an application, possibly another's (`FoundIsOwn`), which is the one way to
take over an object unannounced. `Waits` says
that the job of a teardown under way has not succeeded, so a wait that ends well
ends after the object is gone. `InForce` follows a value that no read returns from
the PUT to the read that cannot see it.

*TenantSettings*: the handlers of the eight kinds come down to nine shapes (`Refused`,
`LostWrite`, `LostPut`, `Proceeds`, `Wrote`, `Put`, `PutUnasked`, `ReadBack`,
`Cleared`). The property of a successful apply is about its last step alone, so the
invariant has to carry the document from the write to the read: `Awaited` says that a
wait is for the change the backend works on, or has put in force, and `Written` that
a read which ends an apply comes after its own document has landed. `Quiet` keeps the
backend still where no kind of setting starts an operation. `Explained`
strengthens `NoSilentLoss` to states in which an operation runs: a setting of ours
outside the record is the running create's work until a cause is recorded, and a
create of a kind that records its id first always has it by then.

*DirectoryObjects*: lists come first: what a list and the pages cut from it are after an
object goes in, goes out or changes (`InsertKeeps`, `RemoveKeeps`, `EditKeeps`), what
of the list a page shows (`PageShows`), that what no page so far had is on a later one
(`PageFinds`) and that nothing follows the last (`LastPageIsLast`). `Seen` carries a
walk from page to page: until the list becomes shorter, an object that it looks for
is not behind it, because others' objects can only push it on. So a walk that ends
without the object ends without anything (`NothingFound`). `Notes` says that an
attribute no read tells is recorded only as it was written to this very object, which
is why a refresh cannot invent a difference. `Orphans` is the stated invariant with the
id in hand, and `Gathered` says that the rows of an undisturbed catalogue are its
first pages: a page that is not the last is full (`PageIsFull`), and a server that
ignores the page is found out on the second (`ProgressPages`). The handlers come down
to seven shapes (`HandlerShapes`), everybody else's steps to one (`OthersKeep`).

*DocumentCycle*: the run checks a few chosen documents of each kind; the theorems hold for
every document the schema and the server can have, lists of any length included. The
first part of the proof has no steps in it. For the nine kinds that are not
tunnels it proves seven facts (`Sound`) about the functions that were translated from
the code, each kind on its own:

| Fact | Says |
|---|---|
| `Plans` | the plan for a configured document is one the schema can hold |
| `Writes` | what an accepted write leaves is a document the server can have, and nothing in it needs a warning |
| `Reads` | a read has one result, whatever was recorded, and the schema can hold it |
| `Settles` | the plan for what a write has left, once it is read, is what was read, or is refused |
| `Keeps` | if the plan is what was read and nothing was warned of, writing it changes nothing |
| `Accepts` | what every tenant refuses, a check of the provider refuses too, unless firewall rules have come to share an id (`PlansApart` says when they do not) |
| `Clears` | what a delete leaves is a document the server can have, and needs no warning |

The rules of a policy are handled once for the three of them: a conversion of a list is
one of its elements (`OneByOne`), and the server's numbering hands out distinct ids that
nobody has (`Numbered`). For that ids must not run out, so that the number of rules
has to be followed (`Room`). Of a pair, what is known is up to the order of its members: a
record `Is` the pair in an order, and it `Tells` the order when its remote ids
differ, which is all that `matchRedundantTunnelsToSlots` has to go by. Of a dynamic
tunnel, the configured and the stored endpoints are the `Same` if they have each as
often; that the endpoints the plan adds are those that were missing is an argument about
the order of a subsequence, for which `Counting` finds the n-th of a set of numbers.

The second part needs an invariant because no property looks at one step only.
`OpInv` says that the plan in hand is still the one that would be made (the
configuration and the record cannot change under an apply, the server can), so that
what was checked of it holds when it is written. `SeenInv` is the one that carries
the argument: while nobody has changed the server since a read showed all of it, the
record *is* what a read of the server gives, or, between a write and its read, the
server is what the write has left; then `Settles` and `Keeps` apply. `PairInv` and
`GroupInv` say the same of tunnels, up to order and without what no read tells.
`PresenceInv` ties the record of a tunnel to a tunnel that exists, without which a
plan could be a create where the write is an update. `SettledInv` keeps what one
apply has settled through later refreshes.

Only model-checked: the liveness properties (`ContextBoundsTheWait`,
`CompletionIsNoticed`, `DestroyCompletes`, `FootprintConverges`, `ApplyConverges`),
which the prover cannot treat, and the four runs that expect a violation. Every
invariant and every action property of the passing runs is a theorem.

## 5. Findings

1. *Adoption taints* (`network_adoption`): `resource_network.go:226` records the
   poll error as an Error before the network found by name is adopted, so the
   adopted network is tainted and the next apply deletes it. The enhanced network
   does not have the Error.
2. *Twins* (`regions_twins`): of two blocks in one cloud region, a region removed
   out of band is not put back.
3. *Renamed* (`regions_renamed`): an unclaimed region with a name the catalogue
   lacks is read back without a cloud region and destroyed by the next apply.
4. *Re-applying switches off* (`settings_reapply`): the guidance that follows a private
   DNS write whose wait failed calls re-applying safe, "because the write is a full
   replacement"; but the failed create has left a tainted record, so that the next
   apply begins with the delete, which switches private DNS off.
5. *Changed regions move* (`regions_converge`, which passes): the schema and the
   documentation call `region[*].cpregion_id` effectively immutable, "changing them after
   creation is not propagated to the server". The update compares sets of cloud regions,
   so a block that is changed in place adds a region in the new one and destroys the one
   in the old; repeated applies converge for every such change.
6. *Imported users are replaced* (`directory`, which passes with this exception): the
   documentation says that a `DiffSuppressFunc` keeps `email_verified` from replacing an
   imported user; only `invite_message` and `idp_type` have one.

One more behaviour came out of the proofs and is an exception of the properties, not a
run. After the create of a redundant pair whose slots have no distinct remote ids, the
read may put the members in the other order; where passphrases are not told, each slot
keeps the passphrase of its old place, so the record shows them swapped and nothing
tells. `Reread` leaves `unseen` set then, and `SettlesInOneApply` and
`EmptyPlanMeansInForce` say nothing of passphrases of such pairs.

## 6. Plan

Done: `ApiErrors`, `RetryLoop`, `AsyncContract`, `AsyncPoll`; `ManagedObject`,
`NetworkLifecycle`; `NetworkRegions`; `AsyncResource`; `TenantSettings`;
`CollectionWalks` and `DirectoryObjects`; `PolicyDocuments`, `SettingDocuments`,
`TunnelGroups` and `DocumentCycle`, each with its proofs.

What could follow: the region list inside an enhanced network.

The number of runs is kept small on purpose: a component joins a run of a neighbour
where the two share their environment.

## 7. Not modelled

* The provider's configuration: it reads its arguments and builds the client once.
* The inline region list of an enhanced network, which no update changes, and the
  second and third read of the imports of enhanced networks and regions.
* The route tables and the data sources that make one call and convert its answer,
  validation of single attributes (formats of names, addresses and domains), the
  documentation: no state between two calls.
* Whether a tenant has the inspection feature, and which addresses a subnet has: a write
  that depends on them may be refused or not. Answers that name one type in two
  buckets; `objectServicesProtocolEntriesFromDiff`'s
  second way to a configuration; a DNS server is known by its address alone.
* Split tunneling's addresses and updatable ids, which are handled alike, are one list.
* The endpoints of a dynamic tunnel are not told by any read, so a console change of
  them is never noticed (`unseen` stays set), and neither is one of passphrases that are
  not told. That the first endpoint's name is the group's is the source's assumption
  about the order of an answer. Repeating an update whose wait failed adds its
  endpoints again, which the documentation of the code says; a warning about the
  autonomous system is left out, an imported group cannot be changed.
* Wall-clock durations. Two workspaces running this provider at once are covered as the
  console's edits of the tenant.
