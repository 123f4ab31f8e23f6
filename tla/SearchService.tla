--------------------------- MODULE SearchService ---------------------------
(***************************************************************************)
(* What WordFinder promises its users (src/src/wordfinder.hh): one search  *)
(* at a time, a new one replacing the one under way; results that may      *)
(* change until finished() and are then final and made of everything the   *)
(* dictionaries found for that search; nothing more after cancel().        *)
(***************************************************************************)
EXTENDS SearchResults

CONSTANT MaxSearches

VARIABLES
    search,     \* the search asked for last
    phase,      \* of that search
    found,      \* the usable matches its dictionaries have answered with
    results     \* the result table the user can see growing

svars == <<search, phase, found, results>>

Phases == {"idle", "searching", "finished"}

Idle ==
    /\ search = 0
    /\ phase = "idle"
    /\ found = {}
    /\ results = NoResults

\* A table made from some of the matches, all of them once the search is over.
Reports(table, ms, ph) ==
    \/ table = Merged(ms)
    \/ ph # "finished" /\ \E some \in SUBSET ms : table = Merged(some)

AskFor(s) ==
    /\ search' = s
    /\ phase' \in {"searching", "finished"}
    /\ found' \subseteq Match
    /\ Reports(results', found', phase')

\* Something is found, shown or both; or the search comes to its end.
Go ==
    /\ phase = "searching"
    /\ phase' \in {"searching", "finished"}
    /\ UNCHANGED search
    /\ found \subseteq found' /\ found' \subseteq Match
    /\ Reports(results', found', phase')

Stop ==
    /\ phase = "searching"
    /\ phase' = "idle"
    /\ UNCHANGED <<search, found, results>>

\* A stopped search may still find something, and nobody hears of it.
Straggle ==
    /\ phase = "idle"
    /\ found \subseteq found' /\ found' \subseteq Match
    /\ UNCHANGED <<search, phase, results>>

SNext == (\E s \in 1 .. MaxSearches : s = search + 1 /\ AskFor(s)) \/ Go \/ Stop \/ Straggle

Service == Idle /\ [][SNext]_svars
=============================================================================
