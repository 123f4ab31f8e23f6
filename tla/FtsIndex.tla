------------------------------ MODULE FtsIndex ------------------------------
(***************************************************************************)
(* The full-text index of one dictionary: makeFTSIndex() of the            *)
(* dictionary and of FtsHelpers (src/src/ftshelpers.cc), which resumes an  *)
(* index that an earlier run left unfinished, and the flag that says the   *)
(* index may be searched.                                                  *)
(*                                                                         *)
(* The database is Xapian's (external): documents are appended to an open  *)
(* session, a session reaches the disk when Xapian flushes or when it is   *)
(* closed, also by the destructor on a return, and is lost when the        *)
(* program dies.  A document stands for one article, known by the address  *)
(* that is its data, or for the end of the index.  The dictionary files    *)
(* may be replaced while the program does not run.                         *)
(***************************************************************************)
EXTENDS Integers, Sequences, FiniteSets

CONSTANTS
    Order,          \* addresses in the order sortArticlesOffsetsForFTS() leaves
    MaxCancels,     \* bound: how often indexing is stopped
    MaxCrashes,     \* bound: how often the program ends or dies
    MaxErrors,      \* bound: how often Xapian or a reading of the dictionary throws
    MaxChanges      \* bound: how often the dictionary files are replaced

ASSUME OrderAssumption ==
    /\ Order \in Seq(Nat)
    /\ \A i, j \in DOMAIN Order : i # j => Order[i] # Order[j]

ASSUME BoundsAssumption ==
    MaxCancels \in Nat /\ MaxCrashes \in Nat /\ MaxErrors \in Nat /\ MaxChanges \in Nat

VARIABLES
    version,        \* of the dictionary files
    disk,           \* documents of the index on disk
    stamp,          \* version of the files when the index was last written, or none
    db,             \* documents seen by the open session
    phase,          \* where the indexing thread is
    pos,            \* position in offsets
    skip,
    lastAddress,
    completed,      \* FTS_index_completed
    cancelled,      \* isCancelled, that makeFTSIndex() is given
    running,        \* the program runs, with its dictionaries loaded
    cancels, crashes, errors

boundVars == <<cancels, crashes, errors>>
fileVars == <<version, disk, stamp>>
sessionVars == <<db, phase, pos, skip, lastAddress>>
indexVars == <<fileVars, sessionVars, completed, cancelled, running, boundVars>>

Versions == 0 .. MaxChanges
Absent == -1                    \* stamp: there is no index file
Phases == {"idle", "open", "articles", "mark"}

\* Document data: an article's address, or the finish mark.  `of` is not in the
\* database: it is the version of the files the text was taken from.
FinishMark == -1
Article(a) == [data |-> a, of |-> version]
Mark == [data |-> FinishMark, of |-> version]

Addresses == {Order[i] : i \in DOMAIN Order}
Document == [data : Addresses \cup {FinishMark}, of : Versions]

IndexTypeOK ==
    /\ version \in Versions
    /\ disk \in Seq(Document)
    /\ stamp \in Versions \cup {Absent}
    /\ db \in Seq(Document)
    /\ phase \in Phases
    /\ pos \in 1 .. Len(Order) + 1
    /\ skip \in BOOLEAN
    /\ lastAddress \in Nat
    /\ completed \in BOOLEAN
    /\ cancelled \in BOOLEAN
    /\ running \in BOOLEAN
    /\ cancels \in 0 .. MaxCancels
    /\ crashes \in 0 .. MaxCrashes
    /\ errors \in 0 .. MaxErrors

IndexInit ==
    /\ version = 0
    /\ disk = <<>>
    /\ stamp = Absent
    /\ db = <<>>
    /\ phase = "idle"
    /\ pos = 1
    /\ skip = FALSE
    /\ lastAddress = 0
    /\ completed = FALSE
    /\ cancelled = FALSE
    /\ running = FALSE
    /\ cancels = 0
    /\ crashes = 0
    /\ errors = 0

-----------------------------------------------------------------------------
HasMark(docs) == docs # <<>> /\ docs[Len(docs)].data = FinishMark

\* needToRebuildIndex(): the index file is missing or older than the files.
needToRebuildIndex == stamp = Absent \/ stamp < version

\* ftsIndexIsOldOrBad(): the last document is not the finish mark.
ftsIndexIsOldOrBad == stamp = Absent \/ ~HasMark(disk)

UpToDate == ~needToRebuildIndex /\ ~ftsIndexIsOldOrBad

\* atoi() of a document's data; the finish mark is not a number.
Atoi(data) == IF data = FinishMark THEN 0 ELSE data

\* What is written, if anything is, reaches the index file and dates it.
Written(docs) ==
    /\ disk' = docs
    /\ stamp' = IF docs = disk THEN stamp ELSE version
    /\ UNCHANGED version

-----------------------------------------------------------------------------
(***************************************************************************)
(* The program starts and makes its dictionaries: the constructor sets the *)
(* flag if the index is up to date.                                        *)
(***************************************************************************)
Load ==
    /\ ~running
    /\ running' = TRUE
    /\ completed' = UpToDate
    /\ cancelled' = FALSE
    /\ UNCHANGED <<fileVars, sessionVars, boundVars>>

(***************************************************************************)
(* The indexing thread comes to the dictionary.  makeFTSIndex() checks the *)
(* index again; FtsHelpers::makeFTSIndex() opens the database, creating it *)
(* if need be, unless it is cancelled already.                             *)
(***************************************************************************)
MakeFTSIndex ==
    /\ running
    /\ phase = "idle"
    /\ ~cancelled
    /\ ~completed
    /\ IF UpToDate
       THEN /\ completed' = TRUE
            /\ UNCHANGED <<fileVars, sessionVars>>
       ELSE /\ phase' = "open"
            /\ db' = disk
            /\ stamp' = IF stamp = Absent THEN version ELSE stamp
            /\ UNCHANGED <<version, disk, pos, skip, lastAddress, completed>>
    /\ UNCHANGED <<cancelled, running, boundVars>>

(***************************************************************************)
(* Cancelled before the articles are indexed: exUserAbort, after which     *)
(* makeFTSIndex() tries to remove the index (a directory, which            *)
(* QFile::remove() leaves alone on some platforms).                        *)
(***************************************************************************)
UserAbort ==
    /\ phase = "open"
    /\ cancelled
    /\ phase' = "idle"
    /\ db' = <<>>
    /\ \/ UNCHANGED <<disk, stamp>>
       \/ disk' = <<>> /\ stamp' = Absent
    /\ UNCHANGED <<version, pos, skip, lastAddress, completed, cancelled, running, boundVars>>

(***************************************************************************)
(* "incremental build the index": the address of the last document is      *)
(* where the earlier run stopped.  Without one (0 here) it is not used.    *)
(***************************************************************************)
\* Mutant: the first document is taken.
FindFirstAddress ==
    /\ phase = "open"
    /\ ~cancelled
    /\ phase' = "articles"
    /\ pos' = 1
    /\ skip' = (db # <<>>)
    /\ lastAddress' = IF db = <<>> THEN 0 ELSE Atoi(db[1].data)
    /\ UNCHANGED <<fileVars, db, completed, cancelled, running, boundVars>>

\* Mutant: the position of the last document is where to go on.
FindLastPosition ==
    /\ phase = "open"
    /\ ~cancelled
    /\ phase' = "articles"
    /\ pos' = Len(db) + 2
    /\ skip' = (db # <<>>)
    /\ lastAddress' = 0
    /\ UNCHANGED <<fileVars, db, completed, cancelled, running, boundVars>>

FindLastAddress ==
    /\ phase = "open"
    /\ ~cancelled
    /\ phase' = "articles"
    /\ pos' = 1
    /\ skip' = (db # <<>>)
    /\ lastAddress' = IF db = <<>> THEN 0 ELSE Atoi(db[Len(db)].data)
    /\ UNCHANGED <<fileVars, db, completed, cancelled, running, boundVars>>

\* Mutant: the last indexed article is indexed again.
SkippedBefore(i) == skip /\ Order[i] < lastAddress

Skipped(i) == skip /\ ~(Order[i] > lastAddress)

SkipArticle ==
    /\ phase = "articles" /\ pos <= Len(Order)
    /\ Skipped(pos)
    /\ pos' = pos + 1
    /\ UNCHANGED <<fileVars, db, phase, skip, lastAddress, completed, cancelled,
                   running, boundVars>>

IndexArticle ==
    /\ phase = "articles" /\ pos <= Len(Order)
    /\ ~Skipped(pos)
    /\ ~cancelled
    /\ skip' = FALSE
    /\ db' = Append(db, Article(Order[pos]))
    /\ pos' = pos + 1
    /\ UNCHANGED <<fileVars, phase, lastAddress, completed, cancelled, running, boundVars>>

(***************************************************************************)
(* The document loop finds itself cancelled and returns: the destructor    *)
(* commits the session, and the caller, which saw no exception, sets       *)
(* FTS_index_completed.                                                    *)
(***************************************************************************)
CancelledInLoop ==
    /\ phase = "articles" /\ pos <= Len(Order)
    /\ ~Skipped(pos)
    /\ cancelled
    /\ Written(db)
    /\ db' = <<>>
    /\ phase' = "idle"
    /\ completed' = TRUE
    /\ UNCHANGED <<pos, skip, lastAddress, cancelled, running, boundVars>>

\* Mutant: the mark is forgotten.
AddNoMark ==
    /\ phase = "articles" /\ pos > Len(Order)
    /\ phase' = "mark"
    /\ UNCHANGED <<fileVars, db, pos, skip, lastAddress, completed, cancelled,
                   running, boundVars>>

\* The loop is over: the finish mark is added.
AddMark ==
    /\ phase = "articles" /\ pos > Len(Order)
    /\ phase' = "mark"
    /\ db' = Append(db, Mark)
    /\ UNCHANGED <<fileVars, pos, skip, lastAddress, completed, cancelled, running, boundVars>>

\* commit() and return; the caller sets the flag.
Commit ==
    /\ phase = "mark"
    /\ Written(db)
    /\ db' = <<>>
    /\ phase' = "idle"
    /\ completed' = TRUE
    /\ UNCHANGED <<pos, skip, lastAddress, cancelled, running, boundVars>>

(***************************************************************************)
(* Xapian throws while the database is open.  The exception is logged and  *)
(* the function returns: the caller sets the flag.  The destructor may     *)
(* still manage to write the session.                                      *)
(***************************************************************************)
XapianError ==
    /\ phase # "idle"
    /\ errors < MaxErrors
    /\ errors' = errors + 1
    /\ Written(db) \/ UNCHANGED fileVars
    /\ db' = <<>>
    /\ phase' = "idle"
    /\ completed' = TRUE
    /\ UNCHANGED <<pos, skip, lastAddress, cancelled, running, cancels, crashes>>

(***************************************************************************)
(* Listing the articles, or reading the text of one, throws: the exception *)
(* passes FtsHelpers::makeFTSIndex(), whose destructor may still write the *)
(* session, and the dictionary's makeFTSIndex() tries to remove the index  *)
(* and leaves the flag alone.                                              *)
(***************************************************************************)
ArticleError ==
    /\ \/ phase = "open"
       \/ phase = "articles" /\ pos <= Len(Order) /\ ~Skipped(pos) /\ ~cancelled
    /\ errors < MaxErrors
    /\ errors' = errors + 1
    /\ \/ Written(db)
       \/ UNCHANGED fileVars
       \/ disk' = <<>> /\ stamp' = Absent /\ UNCHANGED version
    /\ db' = <<>>
    /\ phase' = "idle"
    /\ UNCHANGED <<pos, skip, lastAddress, completed, cancelled, running, cancels, crashes>>

\* Xapian writes a session to disk when it has grown enough.
Flush ==
    /\ phase \in {"articles", "mark"}
    /\ db # disk
    /\ Written(db)
    /\ UNCHANGED <<sessionVars, completed, cancelled, running, boundVars>>

-----------------------------------------------------------------------------
\* stopIndexing(): the thread is told; it is idle before the caller goes on.
Cancel ==
    /\ running
    /\ ~cancelled
    /\ cancels < MaxCancels
    /\ cancelled' = TRUE
    /\ cancels' = cancels + 1
    /\ UNCHANGED <<fileVars, sessionVars, completed, running, crashes, errors>>

\* doIndexing() with the same dictionaries, as editPreferences() does.
DoIndexing ==
    /\ running
    /\ cancelled
    /\ phase = "idle"
    /\ cancelled' = FALSE
    /\ UNCHANGED <<fileVars, sessionVars, completed, running, boundVars>>

\* The program dies: the session and the dictionary objects are gone.
Crash ==
    /\ running
    /\ crashes < MaxCrashes
    /\ crashes' = crashes + 1
    /\ running' = FALSE
    /\ db' = <<>>
    /\ phase' = "idle"
    /\ completed' = FALSE
    /\ cancelled' = FALSE
    /\ UNCHANGED <<fileVars, pos, skip, lastAddress, cancels, errors>>

\* The user replaces the dictionary files by newer ones.
ReplaceFiles ==
    /\ ~running
    /\ version < MaxChanges
    /\ version' = version + 1
    /\ UNCHANGED <<disk, stamp, sessionVars, completed, cancelled, running, boundVars>>

-----------------------------------------------------------------------------
Indexer ==
    \/ MakeFTSIndex \/ UserAbort \/ FindLastAddress
    \/ SkipArticle \/ IndexArticle \/ CancelledInLoop
    \/ AddMark \/ Commit

Failure == XapianError \/ ArticleError

IndexNext ==
    \/ Load \/ Indexer \/ Failure \/ Flush
    \/ Cancel \/ DoIndexing
    \/ Crash \/ ReplaceFiles

IndexSpec == IndexInit /\ [][IndexNext]_indexVars

(***************************************************************************)
(* The indexing thread runs, a stopped indexing is taken up again when the *)
(* dialog closes, and the user starts the program again.                   *)
(***************************************************************************)
FairIndexSpec ==
    /\ IndexSpec
    /\ WF_indexVars(Indexer)
    /\ WF_indexVars(Load)
    /\ WF_indexVars(DoIndexing)

-----------------------------------------------------------------------------
\* Every article of the files as they are, once, and the mark at the end.
Whole(docs) ==
    /\ Len(docs) = Len(Order) + 1
    /\ HasMark(docs)
    /\ \A a \in Addresses : \E i \in DOMAIN docs : docs[i] = Article(a)

\* No document is left of files that were replaced.
Fresh(docs) == \A i \in DOMAIN docs : docs[i].of = version

(***************************************************************************)
(* An index that would be taken for up to date when the program starts has *)
(* every article of the dictionary exactly once, however often the runs    *)
(* that built it were stopped, killed or failed; unless documents of older *)
(* files are in it, which is the next property's concern.                  *)
(***************************************************************************)
MarkMeansWhole == UpToDate /\ Fresh(disk) => Whole(disk)

(***************************************************************************)
(* NOT kept by the code (README, Divergences), and not among the runs.     *)
(* An index that would be taken for up to date is that of the dictionary   *)
(* files as they are: files newer than the index have it regenerated       *)
(* (dictionary.hh: "If some files are newer than the index file, ...       *)
(* returns true").                                                         *)
(***************************************************************************)
UpToDateMeansFresh == UpToDate => Fresh(disk)

(***************************************************************************)
(* Before that too, and on every way there: no article is added twice, and *)
(* the indexed articles are a prefix of the order they are indexed in.     *)
(***************************************************************************)
ResumesInOrder ==
    Fresh(disk) => \A i \in DOMAIN disk :
        disk[i].data = IF i <= Len(Order) THEN Order[i] ELSE FinishMark

(***************************************************************************)
(* The state of an interrupted build is one a later build can start from.  *)
(***************************************************************************)
ResumableAlways == IndexTypeOK /\ ResumesInOrder

(***************************************************************************)
(* NOT kept by the code (README, Divergences), and not among the runs.     *)
(* A dictionary says it has a full-text index only if the index is         *)
(* complete (dictionary.hh: "Dictionary have index for full-text search";  *)
(* ftshelpers.cc marks the end of the index with a special document).      *)
(***************************************************************************)
FlagMeansComplete == completed => HasMark(disk)

(***************************************************************************)
(* If nothing fails and indexing is not stopped, the index is              *)
(* complete in the end, however often the program was killed on the way.   *)
(***************************************************************************)
EventuallyComplete ==
    [](errors = 0 /\ cancels = 0) => <>[](running => completed /\ UpToDate)
=============================================================================
