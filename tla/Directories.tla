---------------------------- MODULE Directories ----------------------------
(***************************************************************************)
(* Directories and files (gaia_dir.cpp).  Every system call is one step,   *)
(* so that what another process does between two of them, or a call that   *)
(* fails half-way, shows; the names of a directory are read in one step    *)
(* and looked at in the next.  A call that is not over is a stack of       *)
(* frames, the innermost last; an exception throws the whole stack away.   *)
(***************************************************************************)
EXTENDS Naturals, SequencesExt

CONSTANTS Processes,
          Calls,        \* [op, path] that may be called
          Hidden,       \* the names that begin with a dot
          LinkTarget,   \* where every symbolic link leads to
          Trees         \* file systems to begin with: path -> "dir", "link", or what a file holds

VARIABLES entries,      \* the file system
          stack,        \* process -> the frames of its call
          returned,     \* process -> how its latest call ended
          alone,        \* process -> no other has changed the file system since its call
          before        \* process -> the file system when it was called

vars == <<entries, stack, returned, alone, before>>

Nothing == [op |-> "none", path |-> <<>>, outcome |-> "none"]

Init ==
  /\ entries \in Trees
  /\ stack = [p \in Processes |-> <<>>] /\ returned = [p \in Processes |-> Nothing]
  /\ alone = [p \in Processes |-> TRUE] /\ before = [p \in Processes |-> entries]
-----------------------------------------------------------------------------
\* The kernel.  A path is followed through links; the root is always there.
FollowedIn(tree, path) ==
  LET IsLink(e) == e \in DOMAIN tree /\ tree[e] = "link"
      real[n \in 0..Len(path)] ==
        IF n = 0 THEN <<>>
        ELSE LET there == Append(real[n - 1], path[n]) IN IF IsLink(there) THEN LinkTarget ELSE there
  IN  real[Len(path)]
IsDirIn(tree, path) ==
  path = <<>> \/ (FollowedIn(tree, path) \in DOMAIN tree /\ tree[FollowedIn(tree, path)] = "dir")

\* The entry a path names, its last name not followed.
NamedIn(tree, path) == Append(FollowedIn(tree, Front(path)), Last(path))

\* Every entry is in a directory, and nothing on the way to where links lead is a link.
WellFormed(tree) ==
  \A e \in DOMAIN tree : /\ IsPrefix(e, LinkTarget) => tree[e] # "link"
                         /\ Front(e) = <<>> \/ (Front(e) \in DOMAIN tree /\ tree[Front(e)] = "dir")

Followed(path) == FollowedIn(entries, path)
Named(path) == NamedIn(entries, path)
Exists(path) == path = <<>> \/ Followed(path) \in DOMAIN entries
IsDir(path) == IsDirIn(entries, path)
IsRegular(path) == Exists(path) /\ ~IsDir(path)   \* a link is followed

NamesIn(path) == {e[Len(e)] : e \in {d \in DOMAIN entries : Front(d) = Followed(path)}}

MkdirResult(path) ==
  IF ~Exists(Front(path)) THEN "ENOENT"
  ELSE IF ~IsDir(Front(path)) THEN "ENOTDIR"
  ELSE IF Named(path) \in DOMAIN entries THEN "EEXIST"
  ELSE "ok"

With(path, kind) == [e \in DOMAIN entries \cup {path} |-> IF e = path THEN kind ELSE entries[e]]
Without(path) == [e \in DOMAIN entries \ {path} |-> entries[e]]

\* mkdir leaves the file system as it is unless it succeeds.
AfterMkdir(path) == IF MkdirResult(path) = "ok" THEN With(Named(path), "dir") ELSE entries
-----------------------------------------------------------------------------
Top(p) == Last(stack[p])
At(p, op, pc) == stack[p] # <<>> /\ Top(p).op = op /\ Top(p).pc = pc

\* The file system becomes tree by a step of p: the others are not alone any more.
Becomes(p, tree) ==
  /\ entries' = tree
  /\ alone' = [q \in Processes |-> alone[q] /\ (q = p \/ tree = entries)]

SetTop(p, frame) == stack' = [stack EXCEPT ![p] = Append(Front(@), frame)]
Goto(p, pc) == SetTop(p, [Top(p) EXCEPT !.pc = pc])
Push(p, pc, frame) == stack' = [stack EXCEPT ![p] = Append(Front(@), [Top(p) EXCEPT !.pc = pc]) \o <<frame>>]

Ends(p, outcome) ==
  /\ stack' = [stack EXCEPT ![p] = <<>>]
  /\ returned' = [returned EXCEPT ![p] = [op |-> stack[p][1].op, path |-> stack[p][1].path, outcome |-> outcome]]

\* The innermost frame is done: the frame around it goes on.
Returns(p) ==
  IF Len(stack[p]) = 1 THEN Ends(p, "ok")
  ELSE stack' = [stack EXCEPT ![p] = Front(@)] /\ UNCHANGED returned

Throws(p) == Ends(p, "throws")

Frame(op, path) == [op |-> op, path |-> path, pc |-> "start", dirs |-> <<>>, files |-> <<>>, names |-> {}, n |-> 1]

Call(p, op, path) ==
  /\ stack[p] = <<>> /\ returned[p] = Nothing
  /\ stack' = [stack EXCEPT ![p] = <<Frame(op, path)>>]
  /\ alone' = [alone EXCEPT ![p] = TRUE]
  /\ before' = [before EXCEPT ![p] = entries]
  /\ UNCHANGED <<entries, returned>>
-----------------------------------------------------------------------------
\* makeDir: isDirExist, then mkdir, which may find that another was faster.
MakeDirStat(p) ==
  /\ At(p, "makeDir", "start")
  /\ IF IsDir(Top(p).path) THEN Returns(p) ELSE Goto(p, "mkdir") /\ UNCHANGED returned
  /\ UNCHANGED <<entries, alone, before>>

MakeDirMkdir(p) ==
  /\ At(p, "makeDir", "mkdir")
  /\ Becomes(p, AfterMkdir(Top(p).path))
  /\ IF MkdirResult(Top(p).path) = "ok" THEN Returns(p) ELSE Throws(p)
  /\ UNCHANGED before

\* makeDirRecursive: mkdir for every beginning of the path, whatever it returns.
MakeDirRecursive(p) ==
  /\ At(p, "makeDirRecursive", "start")
  /\ LET path == Top(p).path  n == Top(p).n
     IN  /\ Becomes(p, AfterMkdir(SubSeq(path, 1, n)))
         /\ IF n = Len(path) THEN Returns(p)
            ELSE SetTop(p, [Top(p) EXCEPT !.n = n + 1]) /\ UNCHANGED returned
  /\ UNCHANGED before

\* makePath: mkdir; when the parent is missing, the same for the parent first.
MakePathMkdir(p) ==
  /\ At(p, "makePath", "start")
  /\ LET path == Top(p).path
     IN  /\ Becomes(p, AfterMkdir(path))
         /\ CASE MkdirResult(path) \in {"ok", "EEXIST"} -> Returns(p)
              [] MkdirResult(path) = "ENOENT" ->
                   Push(p, "again", Frame("makePath", Front(path))) /\ UNCHANGED returned
              [] MkdirResult(path) = "ENOTDIR" -> Ends(p, "false")
  /\ UNCHANGED before

\* Mutant of MakePathAgain: the parent is taken for the directory itself.
MakePathWithParent(p) ==
  /\ At(p, "makePath", "again")
  /\ Returns(p)
  /\ UNCHANGED <<entries, alone, before>>

\* The parent was made: mkdir again, which must make the directory itself this time.
MakePathAgain(p) ==
  /\ At(p, "makePath", "again")
  /\ Becomes(p, AfterMkdir(Top(p).path))
  /\ IF MkdirResult(Top(p).path) = "ok" THEN Returns(p) ELSE Ends(p, "false")
  /\ UNCHANGED before
-----------------------------------------------------------------------------

\* removeDir of what is no directory does nothing.
RemoveDirExists(p) ==
  /\ At(p, "removeDir", "start")
  /\ IF IsDir(Top(p).path) THEN Goto(p, "read dirs") /\ UNCHANGED returned ELSE Returns(p)
  /\ UNCHANGED <<entries, alone, before>>

\* _readDir is called for the directories first, and then for the files.
ReadPc == [dirs |-> "read dirs", files |-> "read files"]
StatPc == [dirs |-> "stat dirs", files |-> "stat files"]

\* What it goes through with excludeDot.
Visible(path) == NamesIn(path) \ Hidden

\* _readDir, the names: opendir fails when the directory has gone.
ReadNames(p) ==
  \E what \in {"dirs", "files"} :
     /\ At(p, "removeDir", ReadPc[what])
     /\ IF IsDir(Top(p).path)
          THEN SetTop(p, [Top(p) EXCEPT !.names = Visible(Top(p).path), !.pc = StatPc[what]]) /\ UNCHANGED returned
          ELSE Throws(p)
     /\ UNCHANGED <<entries, alone, before>>

\* _readDir, stat of every name: one that has gone, or a link that leads nowhere,
\* ends it.
StatNames(p) ==
  \E what \in {"dirs", "files"} :
     /\ At(p, "removeDir", StatPc[what])
     /\ LET names == Top(p).names
            Path(name) == Append(Top(p).path, name)
            chosen == SetToSeq({name \in names : IsDir(Path(name)) = (what = "dirs")})
        IN  IF \E name \in names : ~Exists(Path(name)) THEN Throws(p)
            ELSE /\ IF what = "dirs" THEN SetTop(p, [Top(p) EXCEPT !.dirs = chosen, !.pc = "read files"])
                    ELSE SetTop(p, [Top(p) EXCEPT !.files = chosen, !.pc = "remove"])
                 /\ UNCHANGED returned
     /\ UNCHANGED <<entries, alone, before>>

RemoveSubdirectory(p) ==
  /\ At(p, "removeDir", "remove") /\ Top(p).dirs # <<>>
  /\ stack' = [stack EXCEPT ![p] = Front(@) \o
                 <<[Top(p) EXCEPT !.dirs = Tail(@)], Frame("removeDir", Append(Top(p).path, Head(Top(p).dirs)))>>]
  /\ UNCHANGED <<entries, returned, alone, before>>

\* remove(): a link itself, a file, or a directory that is empty.
CanRemove(path) ==
  /\ IsDir(Front(path)) /\ Named(path) \in DOMAIN entries
  /\ entries[Named(path)] = "dir" => \A e \in DOMAIN entries : Front(e) # Named(path)

\* Mutant of RemoveFileIn: the name is not joined to the directory.
RemoveFileNamed(p) ==
  /\ At(p, "removeDir", "remove") /\ Top(p).dirs = <<>> /\ Top(p).files # <<>>
  /\ LET path == <<Head(Top(p).files)>>
     IN  IF CanRemove(path)
           THEN /\ Becomes(p, Without(Named(path))) /\ UNCHANGED returned
                /\ SetTop(p, [Top(p) EXCEPT !.files = Tail(@)])
           ELSE Throws(p) /\ UNCHANGED <<entries, alone>>
  /\ UNCHANGED before

RemoveFileIn(p) ==
  /\ At(p, "removeDir", "remove") /\ Top(p).dirs = <<>> /\ Top(p).files # <<>>
  /\ LET path == Append(Top(p).path, Head(Top(p).files))
     IN  IF CanRemove(path)
           THEN /\ Becomes(p, Without(Named(path))) /\ UNCHANGED returned
                /\ SetTop(p, [Top(p) EXCEPT !.files = Tail(@)])
           ELSE Throws(p) /\ UNCHANGED <<entries, alone>>
  /\ UNCHANGED before

\* rmdir of what is a directory itself, and empty.
Rmdir(p) ==
  /\ At(p, "removeDir", "remove") /\ Top(p).dirs = <<>> /\ Top(p).files = <<>>
  /\ LET path == Top(p).path
     IN  IF CanRemove(path) /\ entries[Named(path)] = "dir"
           THEN Becomes(p, Without(Named(path))) /\ Returns(p)
           ELSE Throws(p) /\ UNCHANGED <<entries, alone>>
  /\ UNCHANGED before

RemoveFile(p) ==
  /\ At(p, "removeFile", "start")
  /\ LET path == Top(p).path
     IN  IF CanRemove(path) THEN Becomes(p, Without(Named(path))) /\ Returns(p)
         ELSE Throws(p) /\ UNCHANGED <<entries, alone>>
  /\ UNCHANGED before
-----------------------------------------------------------------------------
\* saveFile opens the file, which empties it or makes a new one...
SaveFileOpen(p) ==
  /\ At(p, "saveFile", "start")
  /\ LET path == Top(p).path
     IN  IF IsDir(path) \/ ~IsDir(Front(Followed(path))) THEN Throws(p) /\ UNCHANGED <<entries, alone>>
         ELSE Becomes(p, With(Followed(path), "empty")) /\ Goto(p, "write") /\ UNCHANGED returned
  /\ UNCHANGED before

\* ...and writes; a file that was removed in the meantime is written in vain.
SaveFileWrite(p) ==
  /\ At(p, "saveFile", "write")
  /\ Becomes(p, IF IsRegular(Top(p).path) THEN With(Followed(Top(p).path), "saved") ELSE entries)
  /\ Returns(p)
  /\ UNCHANGED before

LoadFile(p) ==
  /\ At(p, "loadFile", "start")
  /\ IF IsRegular(Top(p).path) THEN Ends(p, entries[Followed(Top(p).path)]) ELSE Throws(p)
  /\ UNCHANGED <<entries, alone, before>>

Step(p) ==
  \/ MakeDirStat(p) \/ MakeDirMkdir(p) \/ MakeDirRecursive(p)
  \/ MakePathMkdir(p) \/ MakePathAgain(p)
  \/ RemoveDirExists(p) \/ ReadNames(p) \/ StatNames(p) \/ RemoveSubdirectory(p) \/ RemoveFileIn(p) \/ Rmdir(p)
  \/ RemoveFile(p) \/ SaveFileOpen(p) \/ SaveFileWrite(p) \/ LoadFile(p)

Next == \E p \in Processes : Step(p) \/ \E call \in Calls : Call(p, call.op, call.path)

Spec == Init /\ [][Next]_vars
-----------------------------------------------------------------------------
Below(path, tree) == {e \in DOMAIN tree : IsPrefix(path, e)}

\* removeDir, when nobody interferes, removes the directory with all that is below
\* it and nothing else, wherever the links on the way to it lead.  It throws only for
\* an entry with a dot, which it does not see, or a link, which it follows; what it
\* has met before is then gone already.
RemoveDirIsThorough ==
  \A p \in Processes :
    alone[p] /\ returned[p].op = "removeDir" =>
      LET place == NamedIn(before[p], returned[p].path)
          below == Below(place, before[p])
          awkward == {e \in below : Last(e) \in Hidden \/ before[p][e] = "link"}
      IN  IF returned[p].outcome = "throws" THEN awkward # {}
          ELSE IF place \in below /\ before[p][place] = "dir"
            THEN entries = [e \in DOMAIN before[p] \ below |-> before[p][e]]
          ELSE entries = before[p]

\* Whoever interferes, removeDir never removes what is not below its directory,
\* save what lies behind a link that was on the way to it or below it.
RemoveDirStaysInside ==
  [][\A p \in Processes :
       stack'[p] # stack[p] /\ stack[p] # <<>> /\ stack[p][1].op = "removeDir" =>
         LET path == stack[p][1].path
             Met(f) == IsPrefix(f, path) \/ IsPrefix(path, f)
         IN  \A e \in DOMAIN entries \ DOMAIN entries' :
                IsPrefix(path, e)
                  \/ (IsPrefix(LinkTarget, e) /\ \E f \in DOMAIN before[p] : Met(f) /\ before[p][f] = "link")]_vars

Making == {"makeDir", "makePath", "makeDirRecursive"}
OnlyMaking(p) ==
  \A q \in Processes \ {p} : (stack[q] # <<>> => stack[q][1].op \in Making)
                             /\ returned[q].op \in Making \cup {"none"}

\* Something that is no directory is in the way.
Blocked(tree, path) ==
  \E n \in 1..Len(path) : LET start == SubSeq(path, 1, n)
                           IN  NamedIn(tree, start) \in DOMAIN tree /\ ~IsDirIn(tree, start)

\* A directory that was to be made, and had nothing in the way, is there, though others
\* make it at the same time: then one of them may be told that it failed.  Nobody is
\* told so who is alone.  A makePath of three names or more may give up before it is
\* done, when another makes a directory on its way at the same time.
PathsAreMade ==
  \A p \in Processes :
    LET op == returned[p].op
        path == returned[p].path
    IN  /\ op \in Making /\ (alone[p] \/ OnlyMaking(p)) /\ ~Blocked(before[p], path)
        /\ op = "makeDir" => IsDirIn(before[p], Front(path))
        =>
          /\ alone[p] => returned[p].outcome = "ok"
          /\ IsDir(path) \/ (op = "makePath" /\ Len(path) > 2 /\ returned[p].outcome = "false")
=============================================================================
