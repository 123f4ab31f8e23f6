# GoldenDict-ng: a TLA+ verification project

GoldenDict-ng is a desktop dictionary program: a Qt GUI over a hundred or so
kinds of dictionary, local and remote. Its logic is an event loop that talks to
worker threads. Everything a dictionary is asked becomes a `Dictionary::Request`
that some thread answers, and the GUI collects the answers with queued signals.
The modules here model that traffic: the word search, the assembly and delivery
of an article page, the background full-text indexing with its crash recovery,
the full-text search dialog, the searches in the headword index that most
dictionaries share and its deferred opening, and the requests that are answered
over the network.

Paths below are relative to `src/src/` of the repository.

## 1. Inventory of the system

| component | state it keeps | operations | talks to |
|---|---|---|---|
| Requests (`dict/dictionary.cc`) | `isFinishedFlag`, error text, matches or bytes under a mutex | `update`, `finish`, `cancel`, readers | emits `updated`/`finished`, delivered as queued events |
| Word search (`wordfinder.cc`) | queued and finished requests, `resultsArray`/`resultsIndex`, `searchQueued`, `searchInProgress`, the update timer | `prefixMatch`, `stemmedMatch`, `expressionMatch`, `cancel`, `clear`; slots `requestFinished`, `updateResults` | asks dictionaries; reports to main window, popup, article request |
| Article page (`article_maker.cc`) | the alternate-writing and body requests, the page so far, the words of a compound search | constructor, `altSearchFinished`, `bodyFinished`, `stemmedSearchFinished`, `compoundSearchNextStep`, `individualWordFinished`, `cancel` | asks dictionaries, owns a `WordFinder`, is itself a `DataRequest` |
| Page delivery (`article_netmgr.cc`) | `alreadyRead`, `finishSignalSent` | constructor, `reqUpdated`, `reqFinished`, `readyReadSlot`, `finishedSlot`, `readData`, `bytesAvailable`, `atEnd` | reads a `DataRequest`, is read by the web engine |
| Full-text index (`ftshelpers.cc`, `makeFTSIndex` of each format) | a Xapian database per dictionary, `FTS_index_completed` | build, resume, skip, mark, commit | the indexing thread, files that outlive the process |
| Indexing thread (`fulltextsearch.cc`) | `started`, `isCancelled`, the exit semaphore, the list of dictionaries, the name shown | `doIndexing`, `stopIndexing`, `setDictionaries`, `Indexing::run`, `timeout` | main window, thread pool, a timer thread |
| Headword index (`btreeidx.cc`) | a B-tree in a chunked file, the cached root | `buildIndex`, `findChainOffsetExactOrPrefix`, `findMatches`, `readChain`, enumerations | used by nearly every local format, from worker threads |
| Deferred init (`dict/dsl.cc`, `dict/mdx.cc`) | `deferredInitDone`, a mutex, a queued runnable | `deferredInit`, `ensureInitDone`, destructor | thread pool, request workers |
| DICT client (`dict/dictserver.cc`) | a socket, `isCancelled` | worker `run`, `cancel` | a remote server |
| Network dictionaries (`dict/mediawiki.cc`, `dict/forvo.cc`, `dict/lingualibre.cc`), downloads (`webmultimediadownload.cc`) | a queue of replies, a redirect count | `requestFinished`, `cancel` | Qt's network manager |
| FTS dialog (`fulltextsearch.cc`), `FTSResultsRequest` (`ftshelpers.cc`) | the running requests, the results | `accept`, `stopSearch`, `searchReqFinished` | the FTS indexes |
| Audio (`audiooutput.cc`, `ffmpegaudio.cc`) | a buffer, a condition, the device mutex | play, stop, decode | a decoder thread |
| History (`history.cc`), favorites, headword list (`headwordsmodel.cc`), configuration | lists, a dirty flag, files | add, remove, load, save, fetch more | widgets |
| Loading (`dict/loaddictionaries.cc`), groups (`instances.cc`) | the vector of dictionaries | load, rescan | a loader thread, all of the above |
| Storage (`chunkedstorage.cc`, `dictzip.c`, `indexedzip.cc`, `splitfile.cc`) | chunk tables, a block cache | write, read | the format readers |
| Format readers, text folding, transliteration, widgets, hotkeys, speech, Anki | mostly data | conversions, adapters | |

`PROJECT.json` lists every component with what is or is not modelled, and every
hazard with its line and the properties that watch it.

What is hard in this code, and what would make each part correct:

* *Queued signals outlive their cause.* `Request::finished` is always connected
  with `Qt::QueuedConnection`, so an event of a dropped or cancelled request can
  reach a slot during the next search. The word search is correct if a search
  collects only its own requests, loses none of their answers, reports its end
  exactly once and only while somebody wants it, and never sleeps with work left.
* *Workers hold references to what the GUI drops.* A request's destructor waits
  for its worker, so a list may be cleared only when that wait is over. The
  request has a bare reference to its dictionary: a dictionary may go only after
  the requests it was asked for.
* *Order of answers.* Dictionaries answer in any order. The word list must not
  depend on it; the page must show articles in the order of the group.
* *A page is read while it is written.* The end may be announced only when the
  last byte was read, and a request that finished early must not be missed.
* *A process that dies while indexing.* An index that looks complete at the
  next start must be complete, and a resumed build must not repeat or omit.
* *Two-sided shutdown.* `stopIndexing()` blocks the GUI on a semaphore released
  by the thread's destructor: it must return, and no thread may be left behind.
* *Double-checked opening.* A dictionary is opened by whichever thread comes
  first; nobody may see it half open, also when opening it fails half way.
* *`finish()` is not atomic.* It tests the flag and sets it in two steps, and in
  the DICT client a worker and `cancel()` may both be inside.
* *A line protocol whose answers end on the wire.* The last line of an answer
  precedes the reply to the next command; one line too many puts all out of step.
* *A signal for every reply of a manager.* A network request is told of the
  replies of others, in any order, and after it was cancelled.
* *Waiting in a nested event loop.* A stop of a full-text search runs every other
  handler inside itself, further stops and the end of the dialog included.
* *Boundaries of a search tree.* A word may fall before, between or behind the
  leaves; the answer must still be the first headword not below it.

## 2. Modules

| module | models | depends on |
|---|---|---|
| `SearchResults` | the merge of matches in `WordFinder::updateResults` as operators | |
| `SearchService` | abstract: what `wordfinder.hh` promises its callers | `SearchResults` |
| `WordFinder` | `wordfinder.cc` with the requests and workers it starts | `SearchResults`, refines `SearchService` |
| `ArticleRequest` | `ArticleRequest` of `article_maker.cc` | uses the word search through its promise |
| `ArticleReply` | `ArticleResourceReply` and the `DataRequest` it reads | |
| `FtsIndex` | `makeFTSIndex` and the completed flag, over restarts | |
| `FtsIndexing` | `FtsIndexing`, `Indexing`, the timer thread | makes indexes, seen as one step to begin and one to end |
| `FtsDialog` | `FullTextSearchDialog` and its `FTSResultsRequest`s | |
| `BtreeLookup` | the tree of `buildBtreeNode` and the descent in it | |
| `BtreeSearch` | `findMatches` and `findArticles` | composed with `BtreeLookup`, whose variables and actions it uses |
| `DeferredInit` | `deferredInit`, `ensureInitDone`, the destructor of a dictionary | |
| `DictServer` | both requests of `dict/dictserver.cc` and the server | |
| `NetReplies` | the article requests of MediaWiki, Forvo, LinguaLibre and `WebMultimediaDownload` | |
| `*Proofs` | theorems about the module of that name | that module, TLAPS |
| `FtsIndexesProofs` | theorems about `FtsIndex` and `FtsIndexing` | both, TLAPS |
| `FlagProofs` | theorems about `DeferredInit` and `ArticleReply` | both, TLAPS |
| `MC*` | constants of the instances TLC checks | |

### SearchResults
`Match` is a `WordMatch`, `Entry` a `OneResult`, and a results table the pair
`resultsArray`/`resultsIndex`: a function from folded words to entries.
`Fold`, `Rank` and `Limit` stand for the case folding, the weights and the
truncation of the list; the code relies only on `Fold` being a function and on
the ranks being comparable. `Kept` and `Weighed` are the two filters in front
of the insertion, `InsertMatch` the insertion (the spelling kept and the
suggestion mark), `Shown` the sorted and truncated list as a set, with every
choice among equals allowed because the sort is not stable. The code merges one
match at a time; `Merged` is the closed form for a set of them and `Joined` for
one more batch, and `WordFinderProofs` shows that the loop computes it.

### WordFinder
One action is one event handled on the GUI thread with every call it makes, one
step of a worker, or the expiry of the timer. `Ask` covers the three search
calls (`AskNow` when no request is left, `AskLater` when cancelled ones have to
end first); `Cancel` and `Clear` the calls of that name; `RequestFinished` the
slot, split in its three outcomes `Collect`, `Discard` and `StartQueued`;
`TimerExpires` and `TimerUpdate` the one-shot timer and its queued slot.
`WorkerFlag` and `WorkerEmit` are the two halves of `Request::finish()`,
between which the request is finished for those who look and yet not announced.
A request answered at once (a dictionary that returns an instant request) is in
`Instant`, one answered on the GUI thread by the network may be finished by
`cancel()` itself (`CancelledAtOnce`). `posted` holds the pending events. `wanted`
is a history variable: no `cancel` or `clear` since the last call.

### ArticleRequest
The page is a sequence of pieces: header, sections (the dictionary named in the
heading and the dictionary the body comes from), the not-found notice, the
lists of words, the end. `bodyRequests` is the list that `bodyFinished` consumes
from the front. `HeadOf` is the expression that names the dictionary of the
front request from the lengths of two lists. `lexicon` is what an expression
search would find for each sequence of words, chosen when the first is looked up. `NextStart` is
`compoundSearchNextStep`, with its recursive call unrolled into what it does to
the page and the window of words. `MayThrow` are dictionaries whose `getArticle` may
throw. `Cancel` is followed by the destruction of the object, as in its only
caller, the destructor of the reply.

### ArticleReply
The worker appends bytes (`appendDataSlice`), announces them (`update`) and
finishes in two steps. The reply connects after that may have begun (`Connect`),
looks at the flag, at the size and at the flag again (`LookFinished`, `LookSize`,
`PostMissed`), its four queued slots are `ReadyRead` and `Finished` by event, and the
web engine reads in the three steps of `readData`: the flag, the size, the
slice; and asks `atEnd` in two.

### FtsIndex
`Order` is the sequence of article addresses after `sortArticlesOffsetsForFTS`.
`disk` is the committed database, `db` the open session. The phases follow
`makeFTSIndex`: open, resume (`FindLastAddress`), the loop (`SkipArticle`,
`IndexArticle`, `CancelledInLoop`), the finish mark (`AddMark`), `Commit`.
`UserAbort` is a cancel before the loop, which throws; `XapianError` the catch
that returns normally; `ArticleError` any other exception, thrown while articles are listed or
read, which leaves the flag alone and may remove the index. `Cancel` is `stopIndexing()` as the build sees it. `Flush` is Xapian's own flush, possible between any two
documents. `Crash` loses the session and keeps the disk. `Load` is the start of
the program, where `needToRebuildIndex` and `ftsIndexIsOldOrBad` set the flag.
`Atoi` is the conversion of a document's data, 0 for the finish mark.

### FtsIndexing
The GUI's calls are `StopIndexing` (with why it was called), `Stopped` (the
semaphore is there) and `SetAndDoIndexing`; `HandleEvent` delivers a queued
name, or a timeout, in order. The pool thread goes through `Begin`, and for each
of the two passes `PassOver`, `Make`, `Made` and `EndPass`, then `Exit`, the destructor
that releases the semaphore. `Postponed` is the limit of the first pass, checked inside
`makeFTSIndex` of the dictionary.

### BtreeLookup
A node is its first key and its number of keys, as `buildBtreeNode` computes
them: `Cut` is the start of a child, `Separator` the key in the node. The search in a
node works on byte offsets in the code; here a probe may hit any separator
of the window, which contains the code's choice whatever the lengths of the
words (the leaf's probe is in the middle, as in the code's array of chains). An empty target
takes the separate path `LeftmostChild`/`LeftmostChain`.

### BtreeSearch
A word is its rank among all folded words, `Folded` has its letters, so that
"begins with" is about letters and the order about ranks. `Start` and `Lookup`
enter the descent of `BtreeLookup`; `Walk` reads a chain and goes to the next one,
over the links of the leaves; `Chop` takes a letter off the stem and looks it up
again. `AddChain` is what the chain adds to the matches: the length of the word,
the middle matches, a pattern given as the set of words it matches, the limit.
`FindArticles` is the other user of the lookup: the entries of exactly that chain,
through `antialias` (`Articles`). `Cancel` may come at any step, and so may `Fail`, the catch of
both searches: `findMatches` keeps what it has, with the entries of the last chain up to one
that cannot be decoded (`AddEntries`), `findArticles` gives nothing.

### DeferredInit
`pc` has the place of every thread in `ensureInitDone`: the test without the lock
(`Test`), the lock, the second test (`Recheck`), `OpenPart` or `OpenFails` for each
part in the order of `doDeferredInit`, `Publish`, `Unlock`, `Return` (which throws if there is
an error), `Use`. The GUI thread also queues the runnable (`CallDeferredInit`), asks for
the headwords and destroys the dictionary (`Destroy`, `LockDestroy`, `Close`) whoever is
inside: word searches and requests for resources hold a bare reference, the runnable
a bare pointer. The destructor waits for the mutex only, so that a thread may be
before its first look, wait for the mutex or work with the dictionary when it is closed. What
it does from there on is undefined, and no step of it is modelled. (The requests of
a page are kept: `ArticleRequest::activeDicts` shares the dictionaries.)

### DictServer
`wire` is what the server has sent and nobody has read: lines with the query
they answer, which the code cannot see and the properties can. Each state of the
worker is one place that reads or writes the socket, in the two nested loops over
strategies and databases. `failing` says that the error string of the function is not
empty: the next successful read clears it, `failed` (history) stays. `ServerCloses` may come at any
moment, and any read may time out. `FinishTest`/`FinishEmit` and
`CancelTest`/`CancelEmit` are the two halves of `finish()` on two threads; `Destroy`
waits for the worker in `Destroyed`.

### FtsDialog
`reqs` is the list of requests, `worker` the place of each one's thread, `events`
what is posted to the dialog in order. `frames` is the stack of the `stopSearch()`
calls under way, each in its event loop; `StopReturns` is the return of the top
one, with what its caller does next (`reject`, `close`). `SearchReqFinished` takes every
request whose flag is up out of the list (`Members`), sorts each answer (`Sorted`, entries of equal
rank in the order they came), joins them (`Together`) and merges them into the list.
`AddSortedHeadwords` is `addSortedHeadwords()` turn by turn: `MergeTurn` is one turn of its loop, which
makes one entry of two that meet and differ in case only. A user who clicks
does so when the events posted to the dialog before were delivered (`settled`).
A close that is nested in another stop deletes the dialog under the outer one:
`Dangling`, from where nothing is modelled.

### NetReplies
`outcome` is what each reply of each request brings; `events` the signals that the
managers have queued, to every request connected to that manager. `QueueSlot` is
the slot of MediaWiki and Forvo (mark the reply, take from the front while the
front has finished), `LinguaSlot` that of LinguaLibre, which looks at its own reply only,
`DownloadSlot` the one with redirections. `Cancel` and `Destroy` come at any time;
a reply owned by its request is destroyed with it. `Numbers` are the words asked, or
the redirections. `Drained` is the loop over the queue, as a function of the number of its turns.

## 3. What the runs check

Every passing run has at least one mutant per property: an operator, defined
beside the one it replaces, that changes it the way a plausible mistake in that
code would, and with which TLC finds the property violated. Some invariants are
checked together under one name; their parts are in brackets, and each part has
a mutant of its own where it says more than the types.

| run | checks | bounds, and why they are enough |
|---|---|---|
| `WordFinderSafety` | `RequestsAccountedFor` (`TypeOK`, `OnlyOwnRequests`, `NothingDropped`, `FinishedOnce`, `NoOrphanWorker`, `NoLostWakeup`), `FinalResultsComplete`; `ImplementsService`: the refinement of `SearchService` | two searches of two requests each: the second overlaps the first in every way; answers with a match, with a collision and an uncertainty, with an error |
| `WordFinderLive` | `QueuedSearchStarts`, `PartialResultsShown`, with workers that may hang; `SearchFinishes` when they answer | as above with two kinds of answers |
| `ArticleRequest` | `DocumentSound` (`TypeOK`, `OneDocument`), `ArticlesInOrder`, `HeadedByItsDictionary`, `CompoundsListed`, `PageFinishes` | three dictionaries: first, middle and last, the middle one may throw; four words with every lexicon over their six sequences, so that a compound may be extended, abandoned or skipped |
| `ArticleReply` | `EndTold` (`DeliveryTypeOK`, `EndMeansAll`, `FinishedOnce`), `AllDelivered` | four bytes, reads of at most two: a partial read, an exact one, an empty one |
| `FtsIndex` | `ResumableAlways` (`IndexTypeOK`, `ResumesInOrder`), `MarkMeansWhole`, `EventuallyComplete` | three articles in ascending order, one at address 0; three crashes, two cancels, one error of the database or of an article, one replacement of the files; any size is proved |
| `FtsIndexing` | `OneThread`, `PassesInOrder` (`TypeOK`, `NameCleared`, `SmallFirst`), `NoneLeftOut`, `ListStable`, `IndexingEnds` (with `StopReturns`) | two dictionaries, a big one before a small one, so that the first pass postpones and the second returns; two starts, so that one is a restart |
| `BtreeSearch` | `LookupCorrect`, `AnswerExact` (`TypeOK`, `SearchComplete`, `ArticlesExact`), `NearestFirst`, `SearchEnds` | every selection of six words of up to three letters, and indexes of 6, 8 and 14 words, in nodes of 2: trees of one, two and three levels, full and ragged; words in the index, between, before and behind; limits hit and not hit; stems chopped by up to two letters |
| `DictServer` | `LinesInStep` (`TypeOK`, `AnswersWhole`), `NoneFromBroken`, `FinishNotLost`, `DestructorReturns` | two strategies and two databases: four queries, so that a line too many or too few shows in the next; nothing, two words with one in both databases, one more than the limit |
| `DeferredInit` | `UsersSeeWhole`, `SettledWhenDone`, `EnsureReturns` | two requests beside the GUI thread and the pool: two threads wait while one opens; the five parts of `dsl.cc`; destroyed at any moment of theirs |
| `FtsDialog` | `DialogSound` (`TypeOK`, `OkMeansIdle`, `NoOrphanSearch`), `ResultsOfSearch`, `CountOfSearch`, `StopEnds` | two dictionaries sharing a headword up to case; four rounds of opening and OK, so that events of a stopped search may meet the next one; two nested stops; any number of each is proved |
| `NetReplies` | `AsAsked`, `NotFoundMeansAbsent`, `FinalWhenFinished`, `EachEnds` | two requests at a time, of the same manager, one with two replies that may come in either order; two pages, which may be the same one; one redirection allowed |
| `NetRepliesLingua` | `LinguaNotFoundMeansAbsent`, found violated | as above |

Deadlock checking is off where the modelled object really comes to rest (a page
that is finished and destroyed, a lookup that returned, bounds used up).

## 4. Divergences

What the code does, met while modelling, that a comment, a declaration or the
obvious intention says otherwise. The first is a run; the others are properties
left in the modules with a note that the code does not keep them, or facts the
model shows on the way.

* `dict/lingualibre.cc:409`: the slot is told of every reply of the manager the
  dictionaries share and does not ask whether it is its own that finished: the request
  ends without data although its reply is still under way
  (run `NetRepliesLingua`).
* `ui/mainwindow.cc:3425`: a rescan drops the groups, the dictionaries and, at 3431, the map that hold
  them. `WordFinder::clear()`, after which "no dictionaries are used anymore"
  (`wordfinder.hh:125`), is called when the dictionaries are edited (`ui/mainwindow.cc:2056`) and not
  here, and nothing waits for the requests for resources; `dict/zim.cc:723` says of the reference such a
  request holds "the dict will outlive this object". A worker may be anywhere in
  `ensureInitDone` or beyond when its dictionary goes, and one that waits for the mutex is never told
  (`DictOutlivesRequests` of `DeferredInit`: TLC violates it in five states, a call, the drop of the
  dictionary, the mutex, the end).
* `ftshelpers.cc:317`, `dict/dsl.cc:1238`: a build cancelled inside the article loop, or
  stopped by a Xapian error, returns normally, and the caller sets `FTS_index_completed`
  on an index without a finish mark (`FlagMeansComplete` of `FtsIndex`).
* `dict/zim.cc:502`, `dict/slob.cc:1090`: articles are indexed in the order of their clusters,
  while the resume logic skips by address: a resumed build leaves articles out
  and writes the mark. `FtsIndex` with `Order <- ByCluster` violates `MarkMeansWhole`;
  the theorems suppose ascending order for that reason.
* `ftshelpers.cc:291`: when the files of a dictionary are replaced the old
  documents stay, because the database is opened as it is and resumed
  (`UpToDateMeansFresh`).
* `article_maker.cc:533`, `article_maker.cc:631`: when `getArticle` of one dictionary throws there is
  one request less than dictionaries, and the articles of those before it are shown under the
  wrong name. `HeadedByItsDictionary` is therefore stated for pages where none threw.
* `dict/dsl.cc:321`: a dictionary may be destroyed with its runnable still queued
  (`RunnableOverWhenDestroyed` of `DeferredInit`).
* `btreeidx.cc:1316`: headwords may be listed from an index that nobody has opened
  (`IndexOpenWhenListed`).
* `dict/dictserver.cc:830`: after a failed read of an article only the inner loop is left; the request
  goes on with the next database, out of step. Its own error string is
  never given to `setErrorString` (`dict/dictionary.hh:54`). A failed read of a
  MIME header is forgotten by the next read.
* `dict/dictserver.cc:531`: `cancel()` and the worker may both emit `finished()`, and matches may be
  added after it (`FinalWhenFinished` of `DictServer`, against `dict/dictionary.hh:51`). The
  consumers look at `isFinished()` and drop what they cancelled, so neither is seen.
* `ui/mainwindow.cc`: a close of the full-text dialog delivered inside another stop's event
  loop deletes the dialog while the outer stop still loops (`Dangling` of `FtsDialog`). Which spelling
  headwords that differ in case are shown in depends on which dictionary finished first.
* `dict/mediawiki.cc`: replies of a cancelled or destroyed request are never deleted
  before the manager is.

## 5. Fairness

* `WordFinder.GuiSpec`: Qt delivers posted events and expires timers; the second
  half of `finish()` follows the first; a *cancelled* worker ends, because every
  worker polls `isCancelled`. `SearchFinishes` alone also supposes `WorkersAnswer`,
  that every worker ends. Nothing is assumed of the user.
* `ArticleRequest.FairSpec`: dictionaries answer and events are delivered.
* `ArticleReply.FairDelivery`: the request finishes, its events are delivered, and the
  web engine, told of data, reads; reading is strongly fair because the engine
  may ask `atEnd` in between, which disables a read for a moment.
* `FtsIndex.FairIndexSpec`: the indexing thread runs, interrupted indexing is resumed,
  the program is started again. `EventuallyComplete` supposes that nobody stops
  the indexing and nothing fails: after a stop or a database error the flag of a partial
  index is set (section 4) and it is completed at a later start only.
* `FtsIndexing.FairSpec`: the pool runs its thread and the GUI handles its
  events. Nobody has to start or stop the indexing; the timer never has to tick.
* `BtreeSearch.SearchSpec`: the worker of the request goes on; it need not fail.
* `DictServer.FairSpec`: the worker goes on, since every wait for the socket has a timeout;
  a `cancel()` or a destructor that has begun is continued. The server owes nothing, and nobody
  has to cancel.
* `DeferredInit.Fairness`: every thread inside `ensureInitDone` goes on while the dictionary is
  there, and whoever waits for the mutex gets it some time, which the mutex of the platform is
  trusted with. `EnsureReturns` promises a call its return only if the dictionary is not destroyed around it.
* `FtsDialog.FairSpec`: the event loop, nested or not, delivers events; workers run. Nobody has to click.
* `NetReplies.FairSpec`: the event loop runs; every reply that is not destroyed finishes. MediaWiki
  and LinguaLibre set a transfer timeout of three seconds; Forvo and the downloads set none, and
  of them this is an assumption about the network.

## 6. What is proved

All theorems hold for every value of the constants that satisfies the named
assumptions of the module.

`BtreeSearchProofs`: `LookupHolds`, `AnswerExactHolds`, `NearestFirstHolds` and `TwoLevels`.
The keys are distinct and increasing and none is the empty word
(`IndexesAssumption`, what `buildIndex` is given), `MaxElements` is positive.
`LookupCorrect` speaks only of a search that has returned, so it is not
inductive. The invariant adds `Shape` (the node and the window lie inside
the index and are not empty) and `Ruled` (every key left of the node or of the
window is below the target, every key right of it above). The arithmetic of `Cut` is
isolated in `Division`, `CutBounds`, `CutEnds` and `CutIncreasing`: the children of a
node partition its keys, none is empty. `DescendRules`, `NarrowRules` and
`ReturnRules` then say what each of the three endings of a step preserves, and
each action's lemma picks the one that applies. `TwoLevels` is about the node size
`buildIndex` chooses: `findNodes` (`btreeidx.cc:1338`) takes every tree for a leaf or a
root over leaves, which it is up to 8192 * 8193 words.

The search adds three assumptions. Ranks follow the order of the letters, and what
is left of a word without its last letter has a rank too (`FoldedAssumption`; the
words one may ask for are all words). A word that is no middle match stands in one chain only
(`ChainsAssumption`): it does so with a prefix that folds to nothing, so the key of its
chain is the folding of the whole word. And only a search that allows middle matches looks for
wildcards (`SearchesAssumption`, `btreeidx.cc:149-153`). Words that begin with the one looked up stand
together (`BeginningFirst`, `BeginningTogether`), from the chain that the lookup returned on (`FromLowerBound`);
`AddChainGrows` says what reading one chain adds to the matches, by induction over its
entries. `SearchInv` then has the stem at hand for the number of letters
chopped so far (`Stage`), and what has been read (`Reads`): in a walk, every chain from its
beginning to here; after it, `Complete`, everything that begins with the stem unless
there are enough. That is not enough for `NearestFirst`: a search with `maxResults`
reads one more chain for every stem, even when it has enough, and could find there a word nearer than those
before it. It does not, because of `FirstRead`: the first chain that begins with a stem has been read
in any case, and if the next shorter one begins at the same chain it finds nothing new
there (`NewHere`). So a word found with n letters chopped shares exactly the other letters (`SharedIs`), which is
what `Ordered` keeps.

`FtsIndexesProofs`, first the index of a dictionary: `ResumableAlwaysHolds` and `MarkMeansWholeHolds`, for every order of articles
that is ascending (`InAscendingOrder`) and any number of stops, crashes, errors and
replaced files. The resumed build knows one address only. The invariant says that
the documents of the present files are a prefix of those of an uninterrupted
build, on disk and in the session (`Begun`), that no document is of files still to
come (`Past`), and where the loop is against the session (`LoopInv`): while it skips, the
address is that of the last document and the loop has not passed it; afterwards it
is at the next article. Without `Past` a replacement of the files could turn old
documents into fresh ones; without `LoopInv` an append could repeat or omit.

`WordFinderProofs`: first the merge, `InsertIsMerged` and `JoinedIsMerged`, for all words and any folding: one
turn of the loop of `updateResults`, and one more batch, make of the table of
the matches before the table of all of them. So neither the order of the
dictionaries nor the moment of an update shows, and `WordFinder` may use the closed form.
Then the finder itself, for any number of dictionaries and searches: `Accounted` (`RequestsAccountedFor`),
`Complete` (`FinalResultsComplete`) and `Implements`, the refinement of `SearchService`. Complete results do not follow
from themselves: the invariant also has the account of a search half way (the
table is the merge of what has been collected, and what has not is still listed), that requests of a
search not yet asked are untouched and those of earlier searches only await their
end, that a list is cleared only when nobody works on it, and that the last event of
a search cannot be spent before the search ends. `JoinedIsMerged` carries the table over each
batch. The refinement then needs no history: `searchInProgress`, `searchQueued` and the emitted signals are
mapped to the phase of the service, and each action, given the invariant, is one step of it or none.

`ArticleRequestProofs`: `PageSound`, `ArticlesOrdered`, `ArticlesNamed` and `CompoundsComplete`, for any number of
dictionaries and words, whichever `getArticle` throw and whatever the lexicon is.
The page and the queue are two halves of one list: `QueueInv` says that the queue ascends, that all
on the page come before all in it, and that every dictionary with something
to show is in one of the two; `PhaseInv` has what the page consists of in each phase of the request and which requests
may still be alive; `WordInv` is the account of the compound search, the
compounds listed for all words before the current one and the longest found so
far from the current one, which is its `Known` with the end of the window as the bound. That a
name found by counting from the end of the queue is the right one (`Headed`) needs that a queue of all
dictionaries in ascending order is the identity, which is an induction over the queue
(`SetInduction`, induction over a set of numbers, which the provers can use where they
cannot use the library's form with an operator).

`FtsIndexesProofs`, then the indexing thread: `OneThreadHolds`, `PassesInOrderHolds`, `NoneLeftOutHolds`, `ListStableHolds`, for every list
of dictionaries and any choice of big ones (`ListAssumption`). The inductive
invariant joins `OneThread` (the semaphore counts the threads that
ended and were not waited for), `ListKept` (while a thread lives the list is the
one it was given) and one statement for each pass, `FirstIteration` and
`SecondIteration`: the dictionaries before the current position have been dealt
with as far as this pass deals with them. That no name stays on show has an invariant of its own, about
the queue: when there is no thread, the last event in it is the one that clears the name.

`DictServerProofs`: `FinishNotLostHolds`, for any setup and any server. `cancel()` always leaves the
flag up, and a worker ends without `finish()` only if it saw the cancellation, which `cancel()`
announces before it tests the flag; the invariant is about these four variables alone.
`NoneFromBrokenHolds`: what a broken connection cut short is not shown as the answer.
`LinesInStepHolds`: for any number of strategies and databases, any limit, and whatever the
server finds (`AnswersAssumption`: the answer to a query is a sequence), the lines a query
reads are the lines of its own answer. As long as nothing failed and nobody cancelled (`Good`),
the worker stands at a known line of the last answer: what is left of the socket is that answer
without its first r lines (`Rest`, `AtEnd`), and what has been shown is what these r lines say
(`Reads`, `Right`, `ShownSoFar`). A server that goes away leaves a beginning of it (`CutShort`),
and the read that finds the end leaves `Good`. This needs the shape of an answer at each place
(`MatchShape`, `DefineShape`, and `JoinedFives` for the replies joined to one stream), what
removal of duplicates does with one more word (`DistinctAppend`, `DistinctTwice`), and that the
query sent in a round is the one numbered by the quotient and remainder of what has been sent
(`QueriesCounted`, `Division`). The facts on joined and distinct sequences are
inductions by `SetInduction`.

`NetRepliesProofs`: `AsAskedHolds`, `NotFoundHolds` and `FinalHolds`, for any number of requests made
together, of words and of pages. A request is told of replies in any order, and of those of
others, so none of this follows from the answer alone. The invariant says of MediaWiki and Forvo
(`TakenOf`) that the w words asked for are split at some t: the replies up to t are taken and are what
the answer is made of (`Told`: data in order and each page once, the last error), those after t wait
in the queue in order, and the front one has not finished (`Stopped`); the request is finished exactly when
t = w or it was cancelled. A reply is marked only after it has finished (`SignalInv`: whoever is told of its own
reply finds it finished, and is told once), and a download that has ended waits for
nothing that is still to come (`Over`); without these a late signal could be taken for news.
That the loop of a slot takes exactly the finished front of the queue (`LoopEnds`), and that the
signals left are the earlier ones in order (`PendingKeeps`), are inductions by `SetInduction` over the values of
the loop's function.

`FtsDialogProofs`: `DialogSoundHolds`, `ResultsOfSearchHolds` and `CountOfSearchHolds`, for any number of
dictionaries, of matches, of searches and of nested stops, for every order and folding of the headwords
(`DictsAssumption`: an answer is a sequence of headwords), and whichever workers fail or are
cancelled at any step. None of the three is inductive. `ReqsInv` says that every request alive
is of the last round and that a worker not through with its request has it in the list; so an
empty list means that nobody works. `IdleInv` is the other half of a quiet dialog: with no request left and the events
delivered, nothing is posted any more. That is what a new search starts from, and why no
event of an earlier one reaches it. `PostedInv` has each worker post its matches once, and only after its query;
`CountInv` then bounds the count by the matches of the dictionaries whose event
is no longer posted, each delivery moving one dictionary from one side to the other (`PendTail`, `SumAdds`). `ListInv`
says that an entry that reads f stands in the list under the name of d just when the
answer of d was taken and reads f: `TurnKeeps` shows it of one turn of the merge, `MergedList`
of the whole merge, `SortedList` and `TogetherList` of what is merged. The merge need not
keep the list sorted for this, and the proof does not use that it is.
The module's loops are recursive functions over the turns. That such a
function exists and has the type of its values is proved once (`RunExists`, `RunTyped`), by `SetInduction`, and used
for each (`MembersIs`, `SortedIs`, `MergeIs`, `TogetherIs`, `SumIs`).

`FlagProofs`, the two components where a flag is read without a lock.
`OneInitialiserHolds`, `UsersSeeWholeHolds`, `SettledWhenDoneHolds` of `DeferredInit`, for any set of requests
and any number of parts: the invariant ties the places between lock and unlock
to the holder of the mutex, the flag to the places before and after `Publish`, and the
parts to the flag. They are about the opening: `opened` counts the parts that were opened, the destructor
leaves it as it is, and what becomes of a thread in a destroyed dictionary is not their concern. `EndToldHolds` of `ArticleReply`, for every number of bytes and every size of a
read: whoever has seen the flag up, be it by a slot or by the first look of `readData`, knows
that the data no longer grows, so that a size read afterwards is the whole size.

Every safety invariant and action property of the passing runs is a theorem. Only model-checked:
all liveness properties (the proof system does not handle fairness and `ENABLED`).
`MarkMeansWhole` and `ResumableAlways` are proved for ascending addresses; for other orders the first is
violated (section 4). Out of the provers' reach is also what the recursive operators of the community
modules compute, of which they see no equation; where a theorem needs a loop it is a
function of the project.

## 7. Not modelled

HTML and CSS text, weights of the ranking, file formats, window-system events,
configuration. Xapian, Qt's event loop, thread pool and network are external
and modelled by what the code relies on: a queued event is delivered later or
dropped with its receiver, a semaphore counts, a database keeps what was
committed and may keep what was flushed. Memory is sequentially consistent.
Request sources other than those modelled are covered by
nondeterministic answers. In the modelled files: malformed `151` lines, `getServerDatabases` and
an error of `ensureInitDone` in a headword search; a reply of Forvo with both items and errors, the word search of
MediaWiki, and the reuse of the address of a deleted reply by a new one; the enumeration of
headwords (`findNodes` and its callers) beyond its assumption about the height; an exception leaving
`Indexing::run`, a database that has documents and cannot give its last one
(`ftshelpers.cc:299`; the build begins again behind those that are there), and article addresses beyond 31 bits (see the hazards).

## 8. Plan

Done: the modules of section 2. Next modules: `ChunkedStorage` (with 16- and 32-bit arithmetic) and the cache of
`DictZip`, `History` (the dirty flag and the file), `HeadwordsModel`, `AudioOutput`,
`LoadDictionaries`.

Next proofs: those of the next modules. What is left of the modules of section 2 is liveness.

## 9. Running

    tlasany WordFinder.tla
    tlc -workers 2 -config WordFinderSafety.cfg MCWordFinder
    tlapm BtreeSearchProofs.tla

`PROJECT.json` names the module and configuration of every run.
