----------------------------- MODULE ZipManager -----------------------------
(***************************************************************************)
(* An archive in memory that is saved to and loaded from zip files         *)
(* (gaia_zip_manager.cpp).  miniz writes and reads one entry at a time and *)
(* may fail at each.  A name is the sequence of its parts, "" behind a     *)
(* slash at the end; "" as data is an empty file.  No two names differ in  *)
(* capitals only, which miniz does not tell apart when it looks one up.    *)
(***************************************************************************)
EXTENDS Naturals, SequencesExt

CONSTANTS Names, Contents

Media == {"file", "memory"}

VARIABLES archive_,     \* name -> data
          zip,          \* medium -> the zip there: its entries, whether finalized
          job,          \* [op, medium, rest]: the saving or loading that is going on
          result,       \* [op, medium, rc] of the latest that ended
          saved,        \* medium -> what the archive held when the zip was begun
          skipped       \* the names that the latest load has passed over

vars == <<archive_, zip, job, result, saved, skipped>>

None == [op |-> "none", medium |-> "file", rest |-> <<>>]
NoZip == [entries |-> <<>>, final |-> FALSE]

Init ==
  /\ archive_ = <<>> /\ zip = [m \in Media |-> NoZip] /\ job = None
  /\ result = [op |-> "none", medium |-> "file", rc |-> FALSE]
  /\ saved = [m \in Media |-> <<>>] /\ skipped = {}

Ended(op, medium, rc) == job' = None /\ result' = [op |-> op, medium |-> medium, rc |-> rc]
Edited == job = None /\ Ended("edit", "file", TRUE)
-----------------------------------------------------------------------------
\* std::map::insert: a file that is there already keeps its data.
AddFile(name, data) ==
  /\ Edited
  /\ archive_' = IF name \in DOMAIN archive_ THEN archive_
                 ELSE [n \in DOMAIN archive_ \cup {name} |-> IF n = name THEN data ELSE archive_[n]]
  /\ UNCHANGED <<zip, saved, skipped>>

RemoveFile(name) ==
  /\ Edited
  /\ archive_' = [n \in DOMAIN archive_ \ {name} |-> archive_[n]]
  /\ UNCHANGED <<zip, saved, skipped>>

Clear == Edited /\ archive_' = <<>> /\ UNCHANGED <<zip, saved, skipped>>
-----------------------------------------------------------------------------
Begins(medium) ==
  /\ job = None
  /\ job' = [op |-> "save", medium |-> medium, rest |-> SetToSeq(DOMAIN archive_)]   \* in the order of the map
  /\ zip' = [zip EXCEPT ![medium] = NoZip] /\ saved' = [saved EXCEPT ![medium] = archive_]
  /\ UNCHANGED <<archive_, result, skipped>>

\* saveToFile empties the file before anything is written, unless it cannot be
\* opened.
SaveToFile ==
  \/ Begins("file")
  \/ job = None /\ Ended("save", "file", FALSE) /\ UNCHANGED <<archive_, zip, saved, skipped>>

\* saveToMem: a caller that keeps what it returns keeps nothing when it fails.
SaveToMem == Begins("memory")

HasDirectory(name) == Len(name) > 1
DirectoryOf(name) == Append(Front(name), "")
IsDirectory(name) == Last(name) = ""   \* what miniz takes for one

Entry(name, data) == [name |-> name, data |-> data]

\* The entry of the directory that the name begins with, once for every file in it.
DirectoryEntry(name) == IF HasDirectory(name) THEN <<Entry(DirectoryOf(name), "")>> ELSE <<>>

\* One round of writeAllFiles: an empty file is left out.
WriteFile ==
  /\ job.op = "save" /\ job.rest # <<>>
  /\ LET name == Head(job.rest)
         data == archive_[name]
     IN  zip' = [zip EXCEPT ![job.medium].entries = @ \o DirectoryEntry(name)
                                          \o IF data = "" THEN <<>> ELSE <<Entry(name, data)>>]
  /\ job' = [job EXCEPT !.rest = Tail(@)]
  /\ UNCHANGED <<archive_, result, saved, skipped>>

\* An entry or the directory of the archive cannot be written.
WriteFails ==
  /\ job.op = "save" /\ Ended("save", job.medium, FALSE)
  /\ UNCHANGED <<archive_, zip, saved, skipped>>

Finalize ==
  /\ job.op = "save" /\ job.rest = <<>>
  /\ zip' = [zip EXCEPT ![job.medium].final = TRUE]
  /\ Ended("save", job.medium, TRUE)
  /\ UNCHANGED <<archive_, saved, skipped>>
-----------------------------------------------------------------------------
\* Mutant of Load: the files of before stay.
LoadOnTop(medium) ==
  /\ job = None
  /\ IF zip[medium].final
       THEN job' = [op |-> "load", medium |-> medium, rest |-> zip[medium].entries] /\ UNCHANGED <<archive_, result>>
     ELSE Ended("load", medium, FALSE) /\ UNCHANGED archive_
  /\ skipped' = {} /\ UNCHANGED <<zip, saved>>

\* What has no directory of an archive is refused, and the archive is as before;
\* otherwise readAllFiles clears it.
Load(medium) ==
  /\ job = None
  /\ IF zip[medium].final
       THEN /\ job' = [op |-> "load", medium |-> medium, rest |-> zip[medium].entries]
            /\ archive_' = <<>> /\ UNCHANGED result
     ELSE Ended("load", medium, FALSE) /\ UNCHANGED archive_
  /\ skipped' = {} /\ UNCHANGED <<zip, saved>>

LoadFromFile == Load("file")
LoadFromMem == Load("memory")

ReadsOn == job.op = "load" /\ job.rest # <<>> /\ job' = [job EXCEPT !.rest = Tail(@)]

\* The entries that miniz may find under a name.
Located(name) == {entry \in ToSet(zip[job.medium].entries) : entry.name = name}

\* One round of readAllFiles: the data are looked up again, by the name.  Of a
\* name that is there already the later data are dropped.
ReadFile ==
  /\ ReadsOn
  /\ \/ /\ IsDirectory(Head(job.rest).name) \/ Head(job.rest).name \in DOMAIN archive_
        /\ UNCHANGED archive_
     \/ \E entry \in Located(Head(job.rest).name) :
          /\ ~IsDirectory(entry.name) /\ entry.name \notin DOMAIN archive_
          /\ archive_' = [n \in DOMAIN archive_ \cup {entry.name} |->
                            IF n = entry.name THEN entry.data ELSE archive_[n]]
  /\ UNCHANGED <<zip, result, saved, skipped>>

\* An entry of which miniz cannot tell anything is passed over, without a word.
SkipEntry ==
  /\ ReadsOn
  /\ skipped' = skipped \cup {Head(job.rest).name}
  /\ UNCHANGED <<archive_, zip, result, saved>>

\* The data of an entry are damaged: what was read before it stays.
ReadFails ==
  /\ job.op = "load" /\ job.rest # <<>> /\ ~IsDirectory(Head(job.rest).name)
  /\ Ended("load", job.medium, FALSE)
  /\ UNCHANGED <<archive_, zip, saved, skipped>>

\* At the end, and at once for a zip without entries.
ReadAll ==
  /\ job.op = "load" /\ job.rest = <<>>
  /\ Ended("load", job.medium, TRUE)
  /\ UNCHANGED <<archive_, zip, saved, skipped>>

Next ==
  \/ \E name \in Names : RemoveFile(name) \/ \E data \in Contents : AddFile(name, data)
  \/ Clear
  \/ SaveToFile \/ SaveToMem \/ WriteFile \/ WriteFails \/ Finalize
  \/ LoadFromFile \/ LoadFromMem \/ ReadFile \/ SkipEntry \/ ReadFails \/ ReadAll

Spec == Init /\ [][Next]_vars
-----------------------------------------------------------------------------
\* What a zip can bring back of an archive: not the empty files, nor a name that
\* miniz takes for a directory.
Kept(archive) == {name \in DOMAIN archive : archive[name] # "" /\ ~IsDirectory(name)}

\* A load gives back of the archive that was saved there nothing but what it was,
\* never a mixture with what the archive held before, which another save may have
\* put elsewhere; and all of it, but for empty files, when it succeeds and has
\* passed over no entry: readAllFiles returns true of what it could read.
LoadsWhatWasSaved ==
  result.op = "load" /\ job = None /\ zip[result.medium].final =>
    LET was == saved[result.medium]
    IN  /\ \A name \in DOMAIN archive_ : name \in Kept(was) /\ archive_[name] = was[name]
        /\ result.rc => \A name \in Kept(was) \ skipped : name \in DOMAIN archive_
=============================================================================
