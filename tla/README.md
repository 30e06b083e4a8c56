# NewsDay in TLA+

NewsDay is an iOS news reader with a watchOS companion. The phone downloads
sources, headlines and articles from newsapi.org; the watch has no network code
of its own and asks the phone over WatchConnectivity. The program's own code is
about 2450 lines of Swift in `NewsDay/NewsDay` and `NewsDay/NewsDay WatchKit
Extension`; everything under `NewsDay/Pods` is vendored. There are no tests and
no documents on the design, so the code and its comments are the reference.
Paths below are relative to `NewsDay/` in the repository.

What makes the program hard to test is not its size but its timing: nearly
everything is a callback. Downloads answer on a one-shot future (`AsyncRequest`)
that producers resolve from other threads and several consumers share; Firebase
answers a screen that has moved on; images arrive for cells that have been given
another row; the phone may be killed between a message and its reply.

## Inventory

| component | state | operations | what must be right |
|---|---|---|---|
| `Network/AsyncRequest.swift`, the future | `result`, `error`, `pending` | `setResult`, `withResult`, and the blocks they dispatch | no callback lost, doubled or overtaken; late ones get the present result |
| `Network/NewsApi.swift`, downloads and cache | `sourcesResult`, `articlesResult` (a dictionary for headlines *and* articles), data tasks | `getSources`, `getHeadlines`, `getArticles`, `downloadHeadlines`, `downloadArticles`, completion handlers | one download per question, answers match questions, every request resolved |
| `Network/WatchServer.swift`, phone end of the watch link | the session | launch, `didReceiveMessage` with five cases, deactivation, image resizing | at most one reply per message, the right one, and one whenever there is something to say |
| list views of the phone, `Controllers/*` | articles or sources on show | `viewDidLoad`, table taps, segues | survive a failed download |
| `Network/WatchClient.swift`, `ImageFromPhone.swift` | `asyncSession`, requests in flight | `getSources`, `getArticles`, `getHeadlines`, `getImage`, activation, replies, errors | messages in order, every request resolved |
| watch controllers, `NewsDay WatchKit Extension/*` | lists, headline pages | `awake`, `contextsForSegue`, taps | pages agree, no trap on a bad answer |
| `Utilities/AuthUtils.swift`, `Controllers/Sign*` | form, requests to Firebase, dialogs, the user | sign in, sign up, skip, sign out, password recovery | answers seen, sign-outs that hold |
| tab bar and stacks, `Main.storyboard`, `Article*ViewController` | the stack of each tab, `tabBar.isHidden` | segues, unwind segues, back swipes, tab taps | casts hold, tab bar right, the chosen list on show |
| `Cells/ArticleTableViewCell.swift` | row, image, load of a cell | `setupArticleCell`, reuse, ends of loads | no cell shows another article's image |
| `Models/CategorizedSources.swift` | `categories`, `details` | `populate`, `flatten`, archive | a stable grouping, nothing lost on the way to the watch |
| `Models/Source.swift`, `Article.swift` | records | JSON, archives, dates | fields survive |
| other cells, delegates, `BaseController` | labels | layout, start-up | - |

How they interact. A view or `WatchServer` calls a getter of `NewsApi` and hands
a callback to the `AsyncRequest` it returns, both in one turn of the main thread.
The data task ends on a thread of the URL session and calls `setResult`, which
dispatches a block onto the main queue; that block calls the callbacks, and these
fill a table or call the `replyHandler` of the watch's message. Messages arrive
on a thread of WatchConnectivity and are moved onto the main queue first. On the
watch the same future is used twice in a chain: `WatchClient.asyncSession` is
resolved when the session is activated and the phone is reachable, its callbacks
send the messages, and the replies resolve the futures the controllers wait on.
The entry screen presents the main UI as a sheet when Firebase says so or the
user skips; the main UI is made anew each time, asks for its lists, and is left
by the unwind segue of "Sign Out" or by a swipe.

Hard behaviours: threads racing to the main queue; callbacks before and after
the result; results that are shared and cached for ever, failures included;
replies that fail, come late, do not come, or cannot be used; a phone that is
killed, launched again, or deaf after a deactivation; answers to screens and
cells that have moved on; one flag that all controllers write; forced casts.
`PROJECT.json` lists them one by one, at their lines.

## Modules

| module | models | built on |
|---|---|---|
| `AsyncFuture` | the promise of a future, without queues or lists | - |
| `AsyncRequest` | the class and the main queue it runs on | - |
| `AsyncRequest_proofs` | its invariants, and that it implements `AsyncFuture` | `AsyncRequest` |
| `MCAsyncRequest` | instances for TLC | `AsyncRequest` |
| `NewsApi` | downloads, cache, answers of the network | instance of `AsyncRequest` |
| `NewsApi_proofs` | its invariants | `NewsApi`, instance of `AsyncRequest_proofs` |
| `PhoneApp` | list views and `WatchServer` | instance of `NewsApi` |
| `PhoneApp_proofs` | its invariant, and that it implements `WatchService` | `PhoneApp`, instance of `NewsApi_proofs` |
| `WatchService` | the promise of the phone to the watch | - |
| `WatchApp` | `WatchClient` and the watch controllers | instance of `AsyncRequest` |
| `WatchApp_proofs` | what each step of the watch keeps, and its invariants | `WatchApp`, instance of `AsyncRequest_proofs` |
| `WatchLink` | watch, link and phone together | instances of `WatchApp` and `WatchService` |
| `WatchLink_proofs` | its invariants | `WatchLink`, instance of `WatchApp_proofs` |
| `Auth` | the entry screen and Firebase | - |
| `Navigation` | the main UI: tabs, stacks, the tab bar | - |
| `Screens` | both, one presenting the other | `Auth`, `Navigation` |
| `Screens_proofs` | what the steps of each part keep, and the invariants of the whole | the three above |
| `ImageCell`, `ImageCell_proofs` | cells, their reuse and their image loads | - |
| `CategorizedSources` | grouping, flattening, archive | - |
| `ResizeImage` | the size of an image for the watch | - |
| `WatchData_proofs` | the invariants of the two above | `CategorizedSources`, `ResizeImage` |

Names with an underscore inside a module (`RunSetResult_ResetFirst`, ...) are
mutants: what a plausible slip in the code would make of the definition that
follows them. Each property of a passing run is violated by one of them, which
shows that it depends on the code.

### AsyncRequest

Both methods only dispatch a block (`AsyncRequest.swift:27`, `:63`), and only
blocks touch the object, so one block is one action and the main queue is a
sequence. `SetResult(r, v)` and `WithResult(r)` append; `RunSetResult`,
`RunWithResult` and `RunCall` are what `setResultMain`, the outer and the inner
block of `withResult` do. The loop over `pending` is inside one action: nothing
else reads the object meanwhile, and callbacks dispatch and do not nest. `pending`
is an array or `Nil`, as in the code, where nil means "has been set"; the fields
`result` and `error` are one value, `outcome`. `RunOther` and `DispatchOther` stand for the
other blocks of the process, which stand between those of the future.
`registered` and `called` are histories: who asked for what, and who was told what.

The abstract specification `AsyncFuture` has only values, the fact of having
been published, and the two histories. A step registers, publishes, or delivers,
and whenever it serves consumers it serves the oldest waiting ones with the
value of that moment. The mapping is `value <- outcome`, `published[r] <- pending[r] = Nil`.

### NewsApi

A getter and its `withResult` are one action, because every caller makes both
calls in one turn of the main thread. Requests are numbered as they are made;
`made` remembers what for, so "of" in an answer can be compared with the
question. `FinishDownload(r, a)` is the completion handler: `SourcesOutcome` and
`ArticlesOutcome` follow the guards of the two handlers for every end of a
data task (error, no response or data, status, body), including the nil error
that `downloadSources` passes on for JSON that is no dictionary (`:114-116`). The
source with an empty id is downloaded by nobody and its request stays open
(`:130-133`). Headlines and articles are kept in one dictionary, under a country or the id of a
source (`GetHeadlines`, `GetArticles`); ids come from the network, and the module does not assume
that none of them is a country. Building the URLs succeeds for every string of the program and is left out.

### PhoneApp and WatchService

In `PhoneApp` the main thread takes smaller steps: a block of the queue, the message that
it brought, and the bodies of the callbacks it called; `MainIsFree` keeps
anything else of the main thread from coming between, while downloads end and
messages arrive. `HandleMessage` has one disjunct per case of the switch in
`WatchServer.swift:47-120` and one for the guards that return without a reply.
`FillArticles` and `FillSources` are the callbacks of the views; `FillArticles`
has the forced cast of `ArticleViewBase.swift:32`, after which nothing happens
(`crashed`). The image library answers or fails (`ImageRetrieved`); an image that has no
JPEG form is replied to with a nil in the place of the bytes (`ImageReply`), as `jpegData` is optional and
`WatchServer.swift:109-115` does not look.

`WatchService` is what all this amounts to for the watch: a message gets at most
one reply, to its own question, and while the process lives equal questions have
equal answers. `ImplementsService` maps the messages received to their
questions and a trap to the end of the process; queues, cache and views are gone.

### WatchApp

Request 1 is `asyncSession`; the n-th getter makes request n + 1, registers on
request 1 a callback that will send the message (`Get`), and the caller waits on
request n + 1 (`RunDue`, or `AwakePage` for headline pages, which the system
makes later). A message is answered by a reply, a reply of no use or an error,
once each (`Comes`). A reply without the field asked for, and for headlines one
that cannot be decoded, is dropped by the handler and the request stays open
(`dropped`). Traps end the process: an image that is nil, a headline page
beyond the end of the list, and an archive of something else, which the forced casts of the
decoding initializers or the forced unwrap after them meet (`ArchiveTraps`). In this module the phone is any peer.

### WatchLink

The watch is `WatchApp`, step by step, without its answers (`Asks` settles the
question of a call, `Follows` puts a message that is sent onto the wire). The phone
is `WatchService`, which is sound because `PhoneApp` implements it. Between them
the link delivers in any order (`Deliver`), carries replies back (`ReplyComes`), may
give up on any message at any time (`GivesUp`) though the message may still be
delivered, and ignores a reply that comes after that (`IgnoreReply`), since
WatchConnectivity calls one handler of a message only. It carries no nil: an image without a JPEG form
(`NilImages`) never reaches the watch, and its message is left to fail. The phone is launched
(`AppDelegate.swift:27` makes the `WatchServer`), killed with everything it
had cached, and deactivated; `sessionDidDeactivate` only prints, so it is deaf until
the next launch. The names of the fields in a reply are in the model as the two
programs write them (`ReplyField`, `WantedField`), because only convention joins them.

### Auth, Navigation, Screens

`Auth`: the two forms sit in one tab bar controller, which presents one thing at a
time (`presented`); a further attempt is ignored by UIKit. The buttons are covered
while something is presented, but not while Firebase works: the code
disables nothing. Firebase sets its user, then dispatches the callback
(`FirebaseEnds`, `RunBlock`); the one of `resetPassword` dispatches once more. `alone`,
`swallowed`, `startAt` and `late` are histories: whether anything was pressed while a request
was under way, which answers nobody saw, and where the last sign-out was.

`Navigation`: a stack per tab, whose entries are the view controllers with what
they were made for and the list they got. `AfterAppears` and `AfterPushed` are what
`viewDidLoad` and `viewWillAppear` of each controller do to `tabBar.isHidden`; UIKit
calls the latter for the view below when a swipe back begins and for the one on
top again when it is given up (`CancelBack`). `BackToArticles` finds the nearest
controller that has the unwind action and then does what that action does: cast the
controller at a fixed place of the stack (`trapped` if it is another one).
`ListArrives` fills the view that asked, on show or not.

`Screens`: `MainFollows` says that a step of the entry screen enters the main UI
(`Enter`, all controllers new), leaves it (`Leave`), or neither.

### ImageCell

`SetupArticleCell` has the two branches of `ArticleTableViewCell.swift:25-32`: a URL is given to Kingfisher's
`setImage`, which clears the view and takes a new task identifier; without a URL
only the default image is set, and the earlier load goes on. `LoadEnds` is Kingfisher's
completion, which sets the image only under the view's present identifier. A row in sight
has one cell (`CellForRow`, `OutOfSight`). `failed` is a history: the cells whose latest load
brought no image, for which alone a blank cell is excused.

### CategorizedSources

One turn of the loop in `populate` is one action; `Flatten`, `Encode` and
`Decode` are what `flatten`, `encode(with:)` and `init(coder:)` compute from the
state.

### ResizeImage

The statements of `resizeImage` (`WatchServer.swift:124-154`) that find the size,
one action each, on exact fractions; the rounding of CGFloats and the drawing are left out.

## Runs

| run | question | bounds |
|---|---|---|
| `AsyncRequest` | callbacks and results in any order; refinement; the inductive invariant; is everyone called once there is a result | 2 requests, 2 outcomes and the initial (nil, nil), 3 callbacks, queue up to 2 before late callbacks |
| `NewsApi` | cache, answers, is everyone answered | 1 country, a source with an id, one without and one whose id is the name of the country, 2 requests, 3 callbacks, queue up to 3 with room kept for the ends of downloads |
| `PhoneApp_safety` | does the phone implement `WatchService` | 2 messages, 1 view, images with and without a JPEG form |
| `PhoneApp_liveness` | does the watch get its reply | 1 message, 2 views (the sources and the articles of one) |
| `PhoneApp_cast` | the forced cast of the article views: **violated** | 1 message, 1 view |
| `WatchApp` | order of messages, requests left open, pages that agree, is a controller answered | 2 pages, 3 getter calls, 6 callbacks, 1 presentation of the pages |
| `WatchApp_image` | the forced cast of the image extension: **violated** | 2 pages, 2 getter calls |
| `WatchLink` | loss, delay, kill, deafness: can every reply be used, is each controller given the answer to its own call, does one life tell one answer, does anyone wait for ever | 1 page, 2 getter calls, 2 presentations, 1 source, 2 lives of the phone |
| `Screens` | sign-outs, answers that are swallowed, tab bar, casts, lists that come late | 2 requests to Firebase, 2 sources, 3 list views |
| `ImageCell` | images of other rows, does a row in sight get its own, spinners | 2 cells, 3 rows of which one is without an image, 4 loads |
| `CategorizedSources` | grouping, flattening, archive | all lists of up to 5 sources, 3 categories, 2 ids |
| `ResizeImage` | is the size the best fit | images up to 40 by 40, screen 12 by 10 |

Why the bounds are enough.

* The future: three callbacks are the fewest in
  which one can be early and called, one early and waiting, one late; two requests
  show that they do not disturb each other; two outcomes give a result and an
  update.
* `NewsApi`: two requests with three callers give a shared one, a private one
  beside it, the one of the empty id that stays open, and headlines and articles that share an entry of the dictionary.
* `PhoneApp`: two messages are needed for a shared reply, and a view beside them
  mixes views and watch on one request.
* `WatchApp`: two pages are enough for one to come before the answer and one after; a list of
  headlines may have 0, 1 or 2 entries; three calls are the way from sources to
  articles to an image. With two presentations (`WatchLink`) the same question is
  asked twice, of one life of the phone or of two.
* `Screens`: two requests are what a hasty user needs to have one answer swallowed by the
  other; three list views are headlines, sources and the articles of one, or a main UI
  that is left and entered anew while its list is under way.
* `ImageCell`: four loads give a cell a load for its row, one for an earlier row,
  and the same beside it.

In `PhoneApp` and `WatchApp` the queue's bound is never reached, so no step is lost to it.
Deadlock is checked where a step is always possible: in
`AsyncRequest` there is always a block to run or room for another, in `Screens` the user
can always press something, in `ImageCell` scroll a row out of or into sight. The
other runs stop when the bounds are used up (`CHECK_DEADLOCK FALSE`).

Fairness. The run loop of a live process serves its main queue (`WF_vars(RunMain)`,
`WF_vars(MainThread)`, in `Screens` that of `RunBlock`); a data task always calls its completion
handler, with a time-out error if nothing else; Firebase and Kingfisher end what they began
in the same way; WatchConnectivity ends an activation and calls one of
the two handlers of each message. The user, the watch of `PhoneApp`, the phone of
`WatchLink`, the lists of `Screens` and producers in general are never assumed to do anything.

What the two violated properties show. `ArticleViewBase.swift:32` casts what a
download answered with `as!`, and every failure answers nil: a list that is opened
without a network ends the app. `ImageFromPhone.swift:14` does the same to an
image whose message failed. Both are reached in a few steps.

Worth knowing from the properties that hold, because they say it in their
exceptions:

* a source without an id leaves its callers waiting for ever (`AskedIsAnswered`);
* who asks for the articles of a source that is named like a country is given that country's headlines if
  those were asked for first, and the other way round (`AnswersItsQuery` excepts just this);
* what failed once stays failed while the process lives (`OneDownloadPerQuery`, `ImplementsService`);
* the watch gets no reply for a failed download and no word about it (`MessageIsAnswered`);
* if the phone is not reachable at the moment the session is activated, no getter of
  the watch is ever answered (`WaitIsAnswered`);
* a sign-in under way at a sign-out signs the user in again (`SignOutHolds`);
* a user who presses a button while Firebase works may never see the answer (`OnlyHasteIsSwallowed`);
* a cell that is reused for an article without an image may end up with the image of its
  earlier row (`OwnImage`);
* after a back swipe that was given up the tab bar stays visible over a source's
  articles (`BarFollowsTop` excludes only the detail and web views).

## Proofs

Every theorem is for all values of the constants, under the named assumptions of the
modules, as far as they hold for what the constants stand for: `Nil` is no number and no sequence of callback numbers, (nil, nil) is an outcome
(`NilAssumption`, `NoOutcomeAssumption`); the empty id is one of the source ids and no country
(`NoIdAssumption`); the country
of the phone's headlines is one of the countries (`HomeCountryAssumption`); `Nobody` is no
request (`NobodyAssumption`); the images and rows of `ImageCell` are distinct, and those without a
URL are rows (`ImagesAssumption`, `PlainRowsAssumption`); the watch's screen has a size
(`MaxSizeAssumption`); bounds are natural numbers
(`BoundsAssumption`, `RequestsAssumption`, `ViewsAssumption`, `LoadsAssumption`, `MaxSourcesAssumption`, `MaxSideAssumption`) and there is a headline page (`PagesAssumption`).
One assumption no line of the code enforces: in `PhoneApp`, and so for `ImplementsService`, no country is a source id
(`KeysAssumption`). It rests on the ids newsapi.org hands out; without it the phone may answer one question with
the answer to another. `NewsApi` and its theorems do without.

| module | theorems (each `Spec => ...`) |
|---|---|
| `AsyncRequest_proofs` | `TypeCorrect`, `Invariance`, `NothingLost`, `OrderKept`; `Refinement`: `ImplementsFuture` |
| `NewsApi_proofs` | `Invariance`, `TypeCorrect`, `NoneIsForgotten`, `DownloadedOnce`, `AnswersFit`, `SharedAlike` |
| `PhoneApp_proofs` | `Invariance`, `TypeCorrect`; `Implements`: `ImplementsService` |
| `Screens_proofs` | `Invariance`, `TypeCorrect`, `SignOutKept`, `PatienceIsAnswered`, `BarIsRight`, `CastsHold`, `ChoicesShown` |
| `WatchApp_proofs` | `Invariance`, `TypeCorrect`, `SentOnceInOrder`, `NoneIsForgotten`, `PagesAlike` |
| `WatchLink_proofs` | `Invariance`, `TypeCorrect`, `EveryReplyIsUsed`, `ControllersTold`, `AlikeWhileAlive` |
| `ImageCell_proofs` | `TypeCorrect`, `ImagesAreOwn`, `NoneForgotten`, `ImagesStay` |
| `WatchData_proofs` | `GroupsAll`, `FlattensAll`, `ArchivesAll`, `BestFitFound` |

**The future.** Neither `NoCallbackLost` nor `CalledInOrder` is inductive: a second block could call
a callback that had run, or overtake one that waits. `IInv` adds where callbacks are
on their way: every name is a registered callback of that request (`NamesOK`);
in the main queue, first blocks are in registration order, second blocks too,
and second blocks are older than first ones (`QueueInOrder`); the pending list is
in order, older than the queue, and while it exists no callback of the request has
a second block or has run (`PendingInOrder`); whoever ran is older than whoever
is queued (`CalledBeforeQueued`). The proof goes action by action: lemmas on
`Append` and `Tail` of the queue (`Dequeue`, `EnqueueForeign`, ...) say what a step that
concerns another request leaves alone, and the three actions of the future are
done conjunct by conjunct. The refinement uses the invariant in every serving
step: the order tells that those served are the oldest that wait, and
`PendingInOrder` that none was served before.

**The cache.** `NewsApi_proofs` instantiates the proofs of the future: a step of
`NewsApi` is a step of `AsyncRequest` on its variables, so `Async!IInv` is kept for free. What
is added says who is who: callers wait on a request of their query (`AskedMatches`), the
caches hold requests of their query that were made for a cache (`CacheMatches`) and every request made for a cache is still in
it (`CachedIsKept`, from which `OneDownloadPerQuery` follows: two of a query would sit at one place); a result on its way
is the only one of its request, is not also being downloaded, and fits the query (`ResultsOnTheirWay`); two queries
that meet in the dictionary are kept under one key (`KeptUnder`), which only a country and a source of its
name are (`ShareAnEntry`); and
whoever was told was told what the request holds to this day (`ToldTheOutcome`), which
is why all who share a request were told the same.

**The watch.** `WatchApp_proofs` instantiates the proofs of the future too. `IInv` has two halves. `Flow` is about the
queue: a callback that sends waits for the session, the others for their call's request, and those that
send were registered in the order of the calls (`ConsumersMatch`); the end of the activation is in
one block, or due, or handled (`ActivatedOnce`); a request that may still get its first result, because
the activation has not been handled or its message is in flight or was not sent, has none and none queued,
and a queued result is the only one of its request (`ResultsOnTheirWay`); whoever was told was told what
the request holds to this day (`ToldTheOutcome`, from which `PagesAgree` follows). `Bodies` is about the callbacks' bodies:
every message was sent by a body that has run (`SentHaveRun`) and what is in flight was sent (`FlightIsSent`). As the
bodies run in the order of the calls of their callbacks, and the future calls those of one request in the order
of registration (`CalledInOrder`), the next body that sends is of a later call than all before: `SentInOrder`, and
no request gets two answers. One lemma serves each kind of step (`AskStep`, `ResultStep`, `QuietStep`,
`RunBlockStep`, `SendMessageStep`), one more each action.

**The phone.** `PhoneApp_proofs` instantiates the proofs of the cache, and adds what ties a message to its
answer, which takes up to three turns of the main thread. A message has one block in the main queue, and nothing is done
for it before that block (`HandledOnce`); it has one callback at most, which asks the message's own query of a request of the cache
(`CallbacksFit`); and a reply is what that callback was told, or fixed (`RepliesFit`: the words "unknown message" and the image).
`Implements` rests on these: that a message is replied to once follows because the future calls a callback
once (`CalledInOrder`) and the message has no other; that the reply answers the question, because the
caller was told the answer to the query it asked (`AnswersItsQuery`); that equal questions get equal
replies, because all of them waited on the one request the cache has for the query (`CachedIsKept`)
and it still holds what each of them was told (`ToldTheOutcome`). A trap of the forced cast maps to the end of
the process; everything else is a stutter.

**Watch and phone.** `WatchLink_proofs` instantiates the proofs of the watch, from which it takes that no message is sent
twice (`SentInOrder`, with `OwnStep`, what a step of the watch alone leaves as it is) and what each kind of
step does to the results on their way (`OwnResults`).
`LinkInv` adds: a message that is on the wire, at the phone or coming back was sent, and whoever was told waits no more
(`OnlySent`); the phone's questions are those the watch asked, and what it has replied it has replied alike
(`PhoneKnows`); a reply fits its question and is not from a later life of the phone (`RepliesFit`); replies from the present
life are remembered by the phone (`ThisLife`), which is what makes a second reply to the same question equal to the first
even when that is still on its way (`AlikeInLife`); and a message is in one place at a time
(`OnePlaceAtATime`). With `NothingDropped` these are inductive: a launch forgets everything but takes a new life's
number, and a deaf phone changes nothing. `TruthOnTheWay` is the part behind `ControllersAreTold`: every result of a call, in the
main queue or already in its request, is what the watch was told in answer to that call, or the nil of a
message that was given up. It stays so because a message that is not in flight any more is told nothing,
and because the future calls whoever waits with what the request holds.

**The screens.** `AuthInv` adds to the properties that requests still under way are covered
by `SignOutHolds` too (`AskingHolds`), and that without haste there is one request at most,
in one place, with nothing presented (`OneAtATime`). `NavInv` says that there are only the
stacks headlines-detail-web, sources-articles-detail-web and settings, that a list on its way to a view is the
one it was made for, and that each view shows what was chosen below it. `Screens_proofs` joins
them by `presented = "main" => Standing`: whenever the main UI is presented its stacks exist.

**The cells.** `IInv` says that a load the view still waits for is that of its present row or the
row has no URL (`WaitsForItsRow`), and that the spinner turns for that load. `NoneLeftBlank` needs that a view waits only for
a load that is under way, so that it ends under the identifier it began with.

**Data for the watch.** `WatchData_proofs` is about two loops and needs facts about all sequences. The library's induction
theorems are stated for operators, which the provers cannot instantiate; `SetInduction` says the same of the members of a set, and follows
from the well-foundedness of the numbers. With it `RecursionExists` gives a function defined step by step, and from this
what `Selected` and `FlattenSeq` compute: `SelectedAppend` and `SelectedConcat`, `FlattenAppend` and `FlattenGrows` say what one more element or one more
section makes of them, `FlattenedInOrder` that sections stay together. `SourcesInv` is `Grouped`, which is inductive, with the counts of
`FlatIsComplete`. `ResizeInv` says that after each statement the size has the proportions of the
image and is no larger (`Fits`), and that once narrowed it is never too wide again; `ScaledFits` is the lemma for one scaling,
by a number that is no more than 1.

TLC checks `AsyncRequest`'s `IInv`, of which `TypeOK` is a part, in the run of that name; the other inductive invariants were checked on
the instances of their runs before they were proved.

Only model-checked: the liveness properties (fairness and ENABLED are beyond the prover), that is `ResolvedIsAnswered`,
`AskedIsAnswered`, `MessageIsAnswered`, `WaitIsAnswered` (of `WatchApp` and of `WatchLink`), `WaitingIsAnswered`, `RowIsServed` and `SpinnerStops`. Every other property that a run
checks and that holds is a theorem. The run of `WatchLink` leaves out its `TypeOK`, which is a theorem too.

## Not modelled

* `Source`, `Article`: records, a date format, and archives field by field. `simpleHeadline` has no caller.
* The branch of the watch's private getters for a session that is nil:
  `asyncSession` is only ever set to a session (`WatchClient.swift:28`), so it is not reached.
* The limit of headlines as part of a question: all callers pass the same one, 3.
* `promptResetPassword`, which has no caller, and the actions named `back`, which the storyboard connects to nothing.
* `BaseController` and its extension, used by nothing; `HeadlineTableViewCell`, the same code as the article cell and
  used by no table; the other cells and row controllers, which set labels.
* Which texts a form takes for valid, wording, layout, what the web view loads.
* The delegates but for the launch that makes the `WatchServer`: templates of the system.
* `Pods`: third-party code. What the program uses of the URL session, the main queue, WatchConnectivity, UIKit, Firebase
  and Kingfisher is modelled from its use and marked external.

Hazards that no property covers. In each case the code does the doubtful thing, and no line of the
repository says that it should not; the model has the behaviour, and the properties except it openly:

* the source without an id, whose callers wait for ever (`NewsApi.swift:130`);
* the dictionary that headlines and articles share (`NewsApi.swift:47`);
* the headline page beyond the end of the list (`HeadlineBaseController.swift:41`), a trap;
* the phone that is not reachable when the session is activated (`WatchClient.swift:27`);
* the sign-in that ends after a sign-out (`SignInViewController.swift:82`);
* the row without an image in a cell that was used before (`ArticleTableViewCell.swift:31`).

## Plan

Done: the future, the cache, the phone and the service it implements, the watch, watch and phone together, the entry screen,
navigation and cells, the grouping of sources and the size of images, each with its runs and the proofs of its safety
properties.

Left: liveness stays with TLC. The hazards without a property, above, are the first candidates for more.
