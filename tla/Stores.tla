------------------------------- MODULE Stores -------------------------------
(***************************************************************************)
(* What gaia keeps for its clients, each store by itself: the cache, the   *)
(* key database and its table, directories that two processes use,         *)
(* archives, and a directory of numbered files.                            *)
(***************************************************************************)
EXTENDS LruCache

CONSTANTS Threads, Half, Start, Size,                    \* KeyDB
          Texts, Data, KeyIds, IdSpace, DbPrefix, MaxLoop, Limits, \* KeyTable
          Processes, Calls, Hidden, LinkTarget, Trees,   \* Directories
          Names, Contents,                               \* ZipManager
          Width, Filenames, IVals, FileExt               \* DirMan

VARIABLES db, stored, key_id_set_, at, keyId, owned, undeleted,
          entries, stack, returned, alone, before,
          archive_, zip, job, result, saved, skipped,
          present, files, values, asked, found,
          table, said

\* The range asked of getNewKeyIdSequential, and where random ids begin.
ASSUME RangeAssumption == Half \in Nat \ {0} /\ Start \in Nat /\ Size \in Nat

\* A text is its characters, an id has 32 bits, and a limit of 0 is MaxLoop.
ASSUME TableAssumption ==
  /\ Texts \subseteq Seq(Nat) /\ DbPrefix \in Seq(Nat)
  /\ IdSpace \in Nat \ {0} /\ KeyIds \subseteq 0..IdSpace - 1
  /\ MaxLoop \in Nat /\ Limits \subseteq Nat

\* A name in an archive has a part at least.
ASSUME NamesAssumption == Names \subseteq Seq(STRING) \ {<<>>}

K == INSTANCE KeyDB
F == INSTANCE Directories
Z == INSTANCE ZipManager
N == INSTANCE DirMan WITH answer <- found
B == INSTANCE KeyTable

\* No path is empty: links lead to a place below the root, calls name one, and
\* the root is no entry of itself.  There are finitely many entries.
Paths == Seq(STRING) \ {<<>>}
ASSUME TreesAssumption ==
  /\ LinkTarget \in Paths /\ Calls \subseteq [op : STRING, path : Paths]
  /\ \A tree \in Trees : DOMAIN tree \subseteq Paths /\ IsFiniteSet(DOMAIN tree) /\ F!WellFormed(tree)

\* A number has Width digits; a file name is a text.
ASSUME FilesAssumption ==
  Width \in Nat /\ IVals \subseteq 0..N!Numbers - 1 /\ \A name \in Filenames : name.stem \in Seq(STRING)
-----------------------------------------------------------------------------
\* KeyDB, one thread: across crashes and resets an id that is given is new, the
\* range is given up only when it is full, and deleted ids return to it.
GivesNewIds == K!ReturnsNewId /\ K!ExhaustedMeansFull /\ []K!DeletedIsFree

\* Directories: what removeDir, makeDir, makePath and makeDirRecursive say of
\* themselves when they return is so.
DirCallsKeepTheirWord == F!RemoveDirIsThorough /\ F!PathsAreMade

\* Directories: removeDir removes nothing beside its directory.
RemoveDirStaysInside == F!RemoveDirStaysInside

\* ZipManager: of an archive nothing comes back but what was saved, and all of it
\* that is not passed over.  KeyDB: so do the keys and the ids that are in its table.
LoadsWhatWasSaved == Z!LoadsWhatWasSaved /\ B!RowsAreAll /\ B!OpenFindsEveryId /\ B!AnswersAreTrue

\* DirMan: numbers and the names made of them are the same files.
NumbersMatchNames == N!NumbersMatchNames
=============================================================================
