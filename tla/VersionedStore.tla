-------------------------- MODULE VersionedStore --------------------------
(***************************************************************************)
(* What the knowledge base promises its readers, without sessions, row     *)
(* locks or statements: for every code an append-only history of contents, *)
(* and one content shown as the current one, always the last published.    *)
(* A publication may cover several codes (the seed script) and is atomic.  *)
(***************************************************************************)
EXTENDS Naturals

CONSTANTS
    Codes,        \* codes of normative documents
    Contents,     \* possible contents of a version
    MaxVersion,   \* bound on the number of versions of one code
    InitialCount, \* bound on the versions every code starts with
    SeedContent,  \* their content
    None          \* the absent value

VARIABLES
    history,      \* history[c][v]: content of version v of code c, or None
    shown         \* shown[c]: content a reader gets for code c, or None

Versions == 1 .. MaxVersion

StoreInit ==
    \E k \in 0 .. InitialCount :
        /\ history = [c \in Codes |-> [v \in Versions |->
                         IF v <= k THEN SeedContent ELSE None]]
        /\ shown = [c \in Codes |-> IF k = 0 THEN None ELSE SeedContent]

\* n is the first free version of code c: everything below is taken.
FirstFree(c, n) ==
    /\ history[c][n] = None
    /\ \A v \in Versions : v < n => history[c][v] # None

\* One new version of each code of S, number n[c] and content f[c].
Publish(S, n, f) ==
    /\ \A c \in S : FirstFree(c, n[c])
    /\ history' = [c \in Codes |->
           IF c \in S THEN [history[c] EXCEPT ![n[c]] = f[c]] ELSE history[c]]
    /\ shown' = [c \in Codes |-> IF c \in S THEN f[c] ELSE shown[c]]

StoreNext ==
    \E S \in (SUBSET Codes) \ {{}} :
        \E n \in [S -> Versions], f \in [S -> Contents] : Publish(S, n, f)

StoreSpec == StoreInit /\ [][StoreNext]_<<history, shown>>
=============================================================================
