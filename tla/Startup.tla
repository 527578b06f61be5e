------------------------------ MODULE Startup ------------------------------
(***************************************************************************)
(* main.cpp: the arguments are parsed, the logger is made (gaia_log.cpp),  *)
(* the configuration is loaded and the assembly is started, which is a     *)
(* stub.  Other programs set the logger up again and take it down, which   *)
(* they do here once main has ended.  A level is its number in spdlog,     *)
(* Off being above all of them.                                            *)
(***************************************************************************)
EXTENDS Naturals, SequencesExt

CONSTANTS ArgLists,     \* the arguments behind the program's name
          Configs,      \* the lists of LogConfig that are given to logInit: [type, level]
          Options,      \* the words that begin with a dash
          DefaultPath,
          Loadable      \* the paths of files that hold a configuration

VARIABLES at,           \* "args", "log", "config", "assembly" or "end"
          args, config_path, exit,
          assembly_config,      \* where it is from, or "defaults" for AssemblyConfig{}
          spdlog_level,         \* what LOG_... compares with before it calls the logger
          logger,               \* _global::logger: "default", "gaialog" or "dropped"
          registered,           \* the sinks' levels of the logger called gaialog
          job                   \* a logInit that is going on: configs that are left, levels
                                \* of the sinks made, and whether the logger is made

log == <<spdlog_level, logger, registered, job>>
vars == <<at, args, config_path, exit, assembly_config, log>>

Info == 2
Warning == 3
Off == 6
LevelNames == <<"trace", "debug", "info", "warning", "error", "critical">>
IsLevel(word) == word \in Range(LevelNames)
LevelOf(word) == (CHOOSE i \in DOMAIN LevelNames : LevelNames[i] = word) - 1

NoLogger == {}
NoJob == [rest |-> <<>>, sinks |-> NoLogger, going |-> FALSE, made |-> FALSE]
NoExit == 2

Init ==
  /\ at = "args" /\ args \in ArgLists /\ config_path = "" /\ exit = NoExit /\ assembly_config = "defaults"
  /\ spdlog_level = Info /\ logger = "default" /\ registered = NoLogger /\ job = NoJob
-----------------------------------------------------------------------------
(* parseArgs: what comes of the arguments, [exit, path, skip].             *)

Stopped(code) == [exit |-> code, path |-> "", skip |-> FALSE]
IsHelp(word) == word \in {"-h", "--help"}
IsConfig(word) == word \in {"-c", "--config"}
IsOption(word) == word \in Options

\* A round of its loop, for the argument at i.  An argument that the option before
\* it has taken as its value is skipped.
Round(was, list, i) ==
  CASE was.exit # NoExit -> was
    [] was.exit = NoExit /\ was.skip -> [was EXCEPT !.skip = FALSE]
    [] OTHER ->
         CASE IsHelp(list[i]) -> Stopped(0)
           [] IsConfig(list[i]) -> IF i = Len(list) \/ IsOption(list[i + 1]) THEN Stopped(1)
                                   ELSE [was EXCEPT !.path = list[i + 1], !.skip = TRUE]
           [] IsLevel(list[i]) \/ list[i] = "off" -> was
           [] OTHER -> Stopped(1)

ParseArgs(list) ==
  LET parse[i \in 0..Len(list)] ==
        IF i = 0 THEN [exit |-> NoExit, path |-> "", skip |-> FALSE]
        ELSE Round(parse[i - 1], list, i)
  IN  IF list = <<>> THEN Stopped(1) ELSE parse[Len(list)]

Parse ==
  /\ at = "args"
  /\ LET parsed == ParseArgs(args)
     IN  /\ at' = IF parsed.exit = NoExit THEN "log" ELSE "end"
         /\ exit' = parsed.exit /\ config_path' = parsed.path
  /\ UNCHANGED <<args, assembly_config, log>>
-----------------------------------------------------------------------------
(* gaia_log.cpp                                                            *)

\* logInit begins.
LogInit(cnfs) ==
  /\ ~job.going
  /\ job' = [rest |-> cnfs, sinks |-> NoLogger, going |-> TRUE, made |-> FALSE]
  /\ UNCHANGED <<spdlog_level, logger, registered>>

\* Mutant of AddSink: the level of the latest sink counts.
AddSinkLatest ==
  /\ job.going /\ job.rest # <<>>
  /\ Head(job.rest).type # "unknown" /\ IsLevel(Head(job.rest).level)
  /\ LET level == LevelOf(Head(job.rest).level)
     IN  /\ job' = [job EXCEPT !.rest = Tail(@), !.sinks = @ \cup {level}]
         /\ spdlog_level' = level
  /\ UNCHANGED <<logger, registered>>

\* A round of its loop: a sink is made, and the level that LOG_... compares with
\* comes down to the sink's, before there is a logger for it.
AddSink ==
  /\ job.going /\ job.rest # <<>>
  /\ Head(job.rest).type # "unknown" /\ IsLevel(Head(job.rest).level)
  /\ LET level == LevelOf(Head(job.rest).level)
     IN  /\ job' = [job EXCEPT !.rest = Tail(@), !.sinks = @ \cup {level}]
         /\ spdlog_level' = IF spdlog_level > level THEN level ELSE spdlog_level
  /\ UNCHANGED <<logger, registered>>

\* The type or the level is unknown ("off" is), or the file cannot be opened.
AddSinkThrows ==
  /\ job.going /\ job.rest # <<>>
  /\ \/ Head(job.rest).type \in {"unknown", "file"}
     \/ ~IsLevel(Head(job.rest).level)
  /\ job' = NoJob
  /\ UNCHANGED <<spdlog_level, logger, registered>>

\* The logger of before is dropped while _global::logger still points to it ...
DropOld ==
  /\ job.going /\ job.rest = <<>> /\ ~job.made
  /\ registered' = job.sinks /\ job' = [job EXCEPT !.made = TRUE]
  /\ logger' = IF logger = "gaialog" THEN "dropped" ELSE logger
  /\ UNCHANGED spdlog_level

\* ... until the new one, which is registered by now, takes its place.
TakeNew ==
  /\ job.going /\ job.made
  /\ logger' = "gaialog" /\ job' = NoJob
  /\ UNCHANGED <<spdlog_level, registered>>

LogDeinit ==
  /\ ~job.going
  /\ logger' = "default" /\ spdlog_level' = Off /\ registered' = NoLogger
  /\ UNCHANGED job

\* logInitFromMain: one sink, of the level named last among ALL arguments, the
\* path behind -c among them; "off" is not one of the levels it knows.
LevelAsked(list) ==
  LET named == {i \in DOMAIN list : IsLevel(list[i])}
  IN  IF named = {} THEN LevelNames[Warning + 1] ELSE list[Max(named)]

LogInitFromMain ==
  /\ at = "log" /\ LogInit(<<[type |-> "stdout", level |-> LevelAsked(args)]>>)
  /\ at' = "config"
  /\ UNCHANGED <<args, config_path, exit, assembly_config>>
-----------------------------------------------------------------------------
\* jsonFileToStruct gives the defaults when there is no file or it does not
\* parse; is_loaded_ and the result of loadConfig are true all the same.
LoadConfig ==
  /\ at = "config" /\ ~job.going
  /\ LET path == IF config_path = "" THEN DefaultPath ELSE config_path
     IN  assembly_config' = IF path \in Loadable THEN path ELSE "defaults"
  /\ at' = "assembly"
  /\ UNCHANGED <<args, config_path, exit, log>>

\* Assembly::startService does nothing: main ends.
StartService ==
  /\ at = "assembly" /\ at' = "end" /\ exit' = 0
  /\ UNCHANGED <<args, config_path, assembly_config, log>>

Logging ==
  /\ \/ at = "end" /\ (LogDeinit \/ \E cnfs \in Configs : LogInit(cnfs))
     \/ AddSink \/ AddSinkThrows \/ DropOld \/ TakeNew
  /\ UNCHANGED <<at, args, config_path, exit, assembly_config>>

Next == Parse \/ LogInitFromMain \/ LoadConfig \/ StartService \/ Logging

Spec == Init /\ [][Next]_vars
-----------------------------------------------------------------------------
\* Between the calls of logInit and logDeinit, one that failed half-way included,
\* LOG_... has a logger, and nothing that one of its sinks is to print is kept
\* from it by the level that is compared first.
LogsWhatIsWanted ==
  ~job.going => /\ logger # "dropped"
                /\ logger = "gaialog" => \A level \in registered : spdlog_level <= level

\* The usage of main.cpp (line 29) brackets every argument: options with their values
\* and levels in any order, or nothing.  A value is what follows -c that is no value
\* itself.
Values(list) ==
  LET values[i \in 0..Len(list)] ==
        IF i < 2 THEN {}
        ELSE values[i - 1] \cup (IF IsConfig(list[i - 1]) /\ i - 1 \notin values[i - 1] THEN {i} ELSE {})
  IN  values[Len(list)]
Wellformed(list) ==
  \A i \in DOMAIN list \ Values(list) :
     \/ IsLevel(list[i]) \/ list[i] = "off"
     \/ IsConfig(list[i]) /\ i + 1 \in Values(list) /\ ~IsOption(list[i + 1])

\* Called with arguments, the program starts just when they are the ones its usage
\* documents, and then with the configuration named last: the file's, or the
\* defaults.  Called without any, as the usage allows, it is refused (main.cpp:50):
\* there usage and program disagree.
StartsAsTold ==
  args # <<>> =>
    /\ at \in {"config", "assembly"} => Wellformed(args)
    /\ at = "end" /\ exit = 1 => ~Wellformed(args)
    /\ at \in {"assembly", "end"} /\ Wellformed(args) =>
         LET path == IF Values(args) = {} \/ args[Max(Values(args))] = "" THEN DefaultPath ELSE args[Max(Values(args))]
         IN  assembly_config = IF path \in Loadable THEN path ELSE "defaults"
=============================================================================
