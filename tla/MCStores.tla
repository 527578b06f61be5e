------------------------------ MODULE MCStores ------------------------------
(***************************************************************************)
(* The stores one at a time, on small sets of keys, names and contents.    *)
(***************************************************************************)
EXTENDS Stores, TLC

VARIABLE part   \* the store that is used

dbVars == <<db, stored, key_id_set_, at, keyId, owned, undeleted>>
dirVars == <<entries, stack, returned, alone, before>>
zipVars == <<archive_, zip, job, result, saved, skipped>>
manVars == <<present, files, values, asked, found>>
tableVars == <<table, said>>

StoresInit ==
  /\ part \in {"cache", "keys", "directories", "zip", "numbered", "table"}
  /\ Init /\ K!Init /\ F!Init /\ Z!Init /\ N!Init /\ B!Init
  /\ part # "directories" => entries = <<>>
  /\ part # "numbered" => present = {}

StoresNext ==
  /\ UNCHANGED part
  /\ \/ part = "cache" /\ Next /\ UNCHANGED <<dbVars, dirVars, zipVars, manVars, tableVars>>
     \/ part = "keys" /\ K!Next /\ UNCHANGED <<vars, dirVars, zipVars, manVars, tableVars>>
     \/ part = "directories" /\ F!Next /\ UNCHANGED <<vars, dbVars, zipVars, manVars, tableVars>>
     \/ part = "zip" /\ Z!Next /\ UNCHANGED <<vars, dbVars, dirVars, manVars, tableVars>>
     \/ part = "numbered" /\ N!Next /\ UNCHANGED <<vars, dbVars, dirVars, zipVars, tableVars>>
     \/ part = "table" /\ B!Next /\ UNCHANGED <<vars, dbVars, dirVars, zipVars, manVars>>

StoresSpec == StoresInit /\ [][StoresNext]_<<part, vars, dbVars, dirVars, zipVars, manVars, tableVars>>
-----------------------------------------------------------------------------
Symmetry == Permutations(Keys) \cup Permutations(Values)

\* A directory a with a file, an entry with a dot and a subdirectory, file or
\* link b in it, beside a directory c that links lead to.
A == <<"a">>
AB == <<"a", "b">>
C == <<"c">>
DotName == {".h"}

Holding(paths) == [p \in paths |-> "file"]
Outside == {<<>>, (C :> "dir") @@ Holding({<<"c", "f">>, <<"f">>}),
             (C :> "dir") @@ (<<"c", "d">> :> "dir")}
InA == {<<>>, AB :> "file", AB :> "link", AB :> "dir", (AB :> "dir") @@ Holding({<<"a", "b", "f">>})}
WithA == {(A :> "dir") @@ b @@ Holding(fs) : b \in InA, fs \in SUBSET {<<"a", ".h">>, <<"a", "f">>}}
SmallTrees == {a @@ c : a \in WithA \cup {<<>>, A :> "file"}, c \in Outside}

SmallCalls == {[op |-> op, path |-> AB] : op \in {"makeDir", "makePath", "removeDir", "loadFile", "saveFile"}} \cup
              {[op |-> op, path |-> <<"a", "b", "d">>] : op \in {"makePath", "makeDirRecursive", "removeDir"}} \cup
              {[op |-> "makeDir", path |-> C],
               [op |-> "removeDir", path |-> A], [op |-> "removeFile", path |-> <<"a", "f">>]}

\* Names in an archive, one of them in a directory.
SmallNames == {<<"f">>, <<"d", "f">>}

\* Keys of clients: one of an id, one that is read as an id, one with the prefix that
\* is not, and one behind all of these.
Cf == <<12>>
SmallTexts == {<<12, 2>>, <<12, 1, 8, 11>>, <<12, 13>>, <<13>>}

\* Names of files with and without capitals, with other extensions, not of digits.
Zip == [ext |-> "zip", capitals |-> FALSE]
SmallFilenames == {[stem |-> <<"0", "A">>, ext |-> Zip], [stem |-> <<"0", "a">>, ext |-> [Zip EXCEPT !.capitals = TRUE]],
                   [stem |-> <<"0", "g">>, ext |-> Zip], [stem |-> <<"F", "F">>, ext |-> Zip],
                   [stem |-> <<"0", "A">>, ext |-> [Zip EXCEPT !.ext = "zap"]]}
=============================================================================
