---------------------------- MODULE ServiceStart ----------------------------
(***************************************************************************)
(* The daemon process from its command line to its exit: the options, the  *)
(* identity it takes, the parts Cynara::init sets up and Cynara::finalize  *)
(* takes down, and the plugins in between, which live in libraries that    *)
(* PluginManager opens and closes.  What the requests do is the subject of *)
(* CheckSystem and PolicyStorage; here only their use of plugins matters.  *)
(*                                                                         *)
(* A plugin object is named by the position of its library in the plugin   *)
(* directory.                                                              *)
(***************************************************************************)
EXTENDS Integers, Sequences, FiniteSets

CONSTANTS StartLines,    \* command lines: sequences of options with arguments
          Accounts,      \* user or group name -> number, for those that exist
          Starters,      \* the [uid, gid] pairs the process may be started with
          Directories,   \* plugin directories: sequences of library files
          ServiceTypes,  \* policy types other than the predefined ones
          MaxEvents      \* bound: requests and policy changes

VARIABLES process, \* how far main is, the command line, the exit code
          ident,   \* uid, gid, umask, and whether the process daemonized
          options, \* the parsed command line
          directory,   \* the plugin directory: what each library file is like
          libs,    \* libraries that are open
          plugins, \* PluginManager::m_plugins: type -> object, 0 for null
          held,    \* objects that the contexts of waiting checks hold
          stored,  \* types of the policies in the database
          events   \* requests and policy changes so far

startVars == <<process, ident, options, directory, libs, plugins, held, stored, events>>

Unset == -1
NullPlugin == 0
NoArgument == <<"missing">>

(***************************************************************************)
(* handleCmdlineOptions.  The options are read one after the other up to   *)
(* one that ends the program; the last of a repeated option counts.        *)
(***************************************************************************)
NoOptions == [daemon |-> FALSE, mask |-> Unset, uid |-> Unset, gid |-> Unset, end |-> "none"]

\* getMask: any number std::stoi reads.
GetMask(arg) == IF arg[1] = "number" THEN arg[2] ELSE Unset
\* getUid and getGid: a number, or the number of the account of that name.
GetId(arg) == CASE arg[1] = "number" -> arg[2]
                [] arg[1] = "name" /\ arg[2] \in DOMAIN Accounts -> Accounts[arg[2]]
                [] OTHER -> Unset

ReadOption(opts, o) ==
    LET Wrong == [opts EXCEPT !.end = "error"]
    IN  CASE opts.end # "none" -> opts
          [] o.opt \in {"help", "version"} -> [opts EXCEPT !.end = "exit"]
          [] o.opt = "daemon" -> [opts EXCEPT !.daemon = TRUE]
          [] o.opt = "mask" /\ GetMask(o.arg) # Unset -> [opts EXCEPT !.mask = GetMask(o.arg)]
          [] o.opt = "user" /\ GetId(o.arg) # Unset -> [opts EXCEPT !.uid = GetId(o.arg)]
          [] o.opt = "group" /\ GetId(o.arg) # Unset -> [opts EXCEPT !.gid = GetId(o.arg)]
          [] OTHER -> Wrong

HandleCmdlineOptions(line) ==
    LET read[n \in 0 .. Len(line)] ==
            IF n = 0 THEN NoOptions ELSE ReadOption(read[n - 1], line[n])
    IN  read[Len(line)]

(***************************************************************************)
(* main.                                                                   *)
(***************************************************************************)
Proceed(at) == process' = [process EXCEPT !.at = at]
Exit(code) == process' = [process EXCEPT !.at = "exited", !.exit = code]

ParseOptions ==
    LET opts == HandleCmdlineOptions(process.line)
    IN  /\ process.at = "parse"
        /\ options' = opts
        /\ CASE opts.end = "error" -> Exit("FAILURE")
             [] opts.end = "exit" -> Exit("SUCCESS")
             [] OTHER -> Proceed("daemonize")
        /\ UNCHANGED <<ident, directory, libs, plugins, held, stored, events>>

\* The process goes on in the grandchild; any step of it may fail.
Daemonize(works) ==
    /\ process.at = "daemonize"
    /\ IF options.daemon /\ ~works THEN Exit("FAILURE") /\ UNCHANGED ident
       ELSE Proceed("umask") /\ ident' = [ident EXCEPT !.detached = options.daemon]
    /\ UNCHANGED <<options, directory, libs, plugins, held, stored, events>>

Umask ==
    /\ process.at = "umask"
    /\ ident' = IF options.mask = Unset THEN ident ELSE [ident EXCEPT !.mask = options.mask]
    /\ Proceed("setuid")
    /\ UNCHANGED <<options, directory, libs, plugins, held, stored, events>>

\* setuid(2) and setgid(2): root may become anyone, others only who they are.
MaySet(own, id) == ident.uid = 0 \/ own = id

SetUid ==
    /\ process.at = "setuid"
    /\ CASE options.uid = Unset -> Proceed("setgid") /\ UNCHANGED ident
         [] MaySet(ident.uid, options.uid) ->
                Proceed("setgid") /\ ident' = [ident EXCEPT !.uid = options.uid]
         [] OTHER -> Exit("FAILURE") /\ UNCHANGED ident
    /\ UNCHANGED <<options, directory, libs, plugins, held, stored, events>>

SetGid ==
    /\ process.at = "setgid"
    /\ CASE options.gid = Unset -> Proceed("init") /\ UNCHANGED ident
         [] MaySet(ident.gid, options.gid) ->
                Proceed("init") /\ ident' = [ident EXCEPT !.gid = options.gid]
         [] OTHER -> Exit("FAILURE") /\ UNCHANGED ident
    /\ UNCHANGED <<options, directory, libs, plugins, held, stored, events>>

(***************************************************************************)
(* Cynara::init.  The lock and the database are the subject of             *)
(* AdminLibrary; an exception they throw ends the process, after the       *)
(* destructor of Cynara has taken down what there is.                      *)
(***************************************************************************)
InitService(works) ==
    /\ process.at = "init"
    /\ IF works THEN process' = [process EXCEPT !.at = "plugins", !.next = 1]
       ELSE process' = [process EXCEPT !.at = "unbind", !.exit = "FAILURE"]
    /\ UNCHANGED <<ident, options, directory, libs, plugins, held, stored, events>>

\* Mutant: a type that is there is overwritten.
InsertPluginsMutant(map, types, lib) ==
    [t \in DOMAIN map \union types |-> IF t \in types THEN lib ELSE map[t]]

\* std::map::insert leaves a type that is there alone.
InsertPlugins(map, types, lib) ==
    [t \in DOMAIN map \union types |-> IF t \in DOMAIN map THEN map[t] ELSE lib]

\* openPlugin, for the next file of loadPlugins.  The library of a plugin that
\* is not used is closed again, after its object is destroyed.
OpenPlugin ==
    LET n == process.next  file == directory[n]
        used == file.opens /\ file.symbols /\ file.creates /\ file.types # {}
    IN  /\ process.at = "plugins" /\ n <= Len(directory)
        /\ process' = [process EXCEPT !.next = n + 1]
        /\ IF used THEN plugins' = InsertPlugins(plugins, file.types, n) /\ libs' = libs \union {n}
           ELSE UNCHANGED <<plugins, libs>>
        /\ UNCHANGED <<ident, options, directory, held, stored, events>>

\* loadPlugins has gone through the directory, or could not scan it.
PluginsLoaded ==
    /\ process.at = "plugins"
    /\ process.next = 1 \/ process.next > Len(directory)
    /\ Proceed("run")
    /\ UNCHANGED <<ident, options, directory, libs, plugins, held, stored, events>>

(***************************************************************************)
(* Cynara::run, as far as plugins go.                                      *)
(***************************************************************************)
Event == process.at = "run" /\ events < MaxEvents /\ events' = events + 1

\* getPlugin: operator[] of std::map adds a null pointer for an unknown type.
GetPlugin(type) == InsertPlugins(plugins, {type}, NullPlugin)

\* A check whose policy has this type: the plugin answers at once, or its
\* object is kept in the context of a check that waits for an agent.
PluginCheck(type, waits) ==
    LET found == GetPlugin(type)
    IN  /\ Event /\ type \in stored
        /\ plugins' = found
        /\ held' = IF waits /\ found[type] # NullPlugin THEN held \union {found[type]} ELSE held
        /\ UNCHANGED <<process, ident, options, directory, libs, stored>>

\* The contexts that hold an object are done.
CheckDone(object) ==
    /\ process.at = "run" /\ object \in held
    /\ held' = held \ {object}
    /\ UNCHANGED <<process, ident, options, directory, libs, plugins, stored, events>>

\* Mutant: the type is looked up with operator[].
CheckPolicyTypeMutant(type) ==
    /\ plugins' = GetPlugin(type)
    /\ IF plugins'[type] # NullPlugin THEN stored' = stored \union {type} ELSE UNCHANGED stored
\* checkPolicyType, before a policy of this type is stored.
CheckPolicyType(type) ==
    /\ IF type \in DOMAIN plugins /\ plugins[type] # NullPlugin
       THEN stored' = stored \union {type} ELSE UNCHANGED stored
    /\ UNCHANGED plugins

SetPolicyOfType(type) ==
    /\ Event
    /\ CheckPolicyType(type)
    /\ UNCHANGED <<process, ident, options, directory, libs, held>>

\* onPoliciesChanged: invalidateAll calls every plugin in the map.
InvalidateAll ==
    /\ Event
    /\ IF \E t \in DOMAIN plugins : plugins[t] = NullPlugin THEN Proceed("crashed")
       ELSE UNCHANGED process
    /\ UNCHANGED <<ident, options, directory, libs, plugins, held, stored>>

\* run returns when a signal stops the loop.
Stop ==
    /\ process.at = "run"
    /\ process' = [process EXCEPT !.at = "unbind", !.exit = "SUCCESS"]
    /\ UNCHANGED <<ident, options, directory, libs, plugins, held, stored, events>>

(***************************************************************************)
(* Cynara::finalize, one part after the other.                             *)
(***************************************************************************)
UnbindAll ==
    /\ process.at = "unbind"
    /\ Proceed("reset logic")
    /\ UNCHANGED <<ident, options, directory, libs, plugins, held, stored, events>>

\* Mutant: the contexts outlive the logic.
ResetLogicMutant ==
    /\ process.at = "reset logic"
    /\ Proceed("destroy plugins")
    /\ UNCHANGED <<ident, options, directory, libs, plugins, held, stored, events>>
\* The logic goes with the contexts of the checks that still wait.
ResetLogic ==
    /\ process.at = "reset logic"
    /\ held' = {}
    /\ Proceed("destroy plugins")
    /\ UNCHANGED <<ident, options, directory, libs, plugins, stored, events>>

\* The destructor of PluginManager, then that of its list of libraries.
DestroyPlugins ==
    /\ process.at = "destroy plugins"
    /\ plugins' = [t \in DOMAIN plugins |-> NullPlugin]
    /\ Proceed("close libraries")
    /\ UNCHANGED <<ident, options, directory, libs, held, stored, events>>

CloseLibraries ==
    /\ process.at = "close libraries"
    /\ libs' = {}
    /\ process' = [process EXCEPT !.at = "exited"]
    /\ UNCHANGED <<ident, options, directory, plugins, held, stored, events>>

StartInit ==
    /\ process \in [at : {"parse"}, line : StartLines, exit : {"none"}, next : {1}]
    /\ ident \in {[uid |-> s.uid, gid |-> s.gid, mask |-> Unset, detached |-> FALSE] : s \in Starters}
    /\ options = NoOptions
    /\ directory \in Directories
    /\ libs = {} /\ plugins = [t \in {} |-> NullPlugin] /\ held = {}
    /\ stored \in SUBSET ServiceTypes
    /\ events = 0

StartNext ==
    \/ ParseOptions \/ Umask \/ SetUid \/ SetGid
    \/ \E works \in BOOLEAN : Daemonize(works) \/ InitService(works)
    \/ OpenPlugin \/ PluginsLoaded
    \/ \E type \in ServiceTypes : SetPolicyOfType(type) \/ \E w \in BOOLEAN : PluginCheck(type, w)
    \/ \E object \in held : CheckDone(object)
    \/ InvalidateAll \/ Stop
    \/ UnbindAll \/ ResetLogic \/ DestroyPlugins \/ CloseLibraries

StartSpec == StartInit /\ [][StartNext]_startVars

(***************************************************************************)
(* Properties.                                                             *)
(***************************************************************************)
\* A daemon that serves has the identity it was asked to have: no failed step
\* of main is passed over, whoever started it.
RunsAsAsked ==
    process.at = "run" =>
        /\ options.uid \in {Unset, ident.uid}
        /\ options.gid \in {Unset, ident.gid}
        /\ options.mask \in {Unset, ident.mask}
        /\ ident.detached = options.daemon

\* No plugin object outlives its library, whoever holds the object: the map,
\* or the context of a check that waits while the daemon is stopped.
LibraryOutlivesPlugin ==
    held \union {plugins[t] : t \in DOMAIN plugins} \subseteq libs \union {NullPlugin}

\* While the daemon runs, every type some loaded library offers is served by the
\* first of them, in the order of their names, whatever was looked up meanwhile:
\* the plugin in the map is of a library that is loaded, offers the type itself
\* and comes after no other that does.
FirstClaimWins ==
    process.at = "run" => \A n \in libs : \A t \in directory[n].types :
        /\ t \in DOMAIN plugins
        /\ plugins[t] \in libs \cap (1 .. n)
        /\ t \in directory[plugins[t]].types

\* The daemon is not brought down by a change of policies unless a policy
\* whose type no plugin offers was in the database it loaded: administrators
\* cannot add one, and asking about a type leaves no trace.
CrashNeedsOrphanType ==
    process.at = "crashed" => \E t \in stored : \A n \in libs : t \notin directory[n].types
=============================================================================
