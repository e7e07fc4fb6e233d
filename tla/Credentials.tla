---------------------------- MODULE Credentials -----------------------------
(***************************************************************************)
(* The helper libraries with which a service learns who its peer is:       *)
(* creds-commons (the default methods in creds.conf), creds-socket,        *)
(* creds-dbus, creds-gdbus and creds-self, all used by one service         *)
(* process.  Meanwhile the administrator edits creds.conf, processes start *)
(* and end, and their pids are used again.                                 *)
(*                                                                         *)
(* The text of creds.conf is a sequence of lines; a line is a sequence of  *)
(* words and of the symbols " ", "=" and "#".                              *)
(***************************************************************************)
EXTENDS Integers, Sequences, SequencesExt, FiniteSets, TLC

CONSTANTS
  ConfTexts,   \* texts of creds.conf, NoFile among them
  Lower(_),    \* a word in lower case
  Programs,    \* [label, uid, gid] of the processes that may start
  Self,        \* [label, uid, gid, pid] of the service
  Pids,        \* the pids of other processes; pids, uids and gids are the decimal
               \* text (std::to_string) in which the helpers return them
  BusFields,   \* the sets of credentials the bus may report
  MaxEdits,    \* bound: edits of creds.conf
  MaxProcs     \* bound: processes started

VARIABLES
  conf,          \* creds.conf
  edits,         \* edits so far
  cachedClient,  \* cachedMethodCode of cynara_creds_get_default_client_method
  cachedUser,    \* cachedMethodCode of cynara_creds_get_default_user_method
  procs,         \* the living processes by pid
  births,        \* processes started so far
  peer,          \* the process at the other end as kernel and bus recorded it
  valid,         \* auxiliary: the defaults of every creds.conf so far
  watched,       \* auxiliary: the question whose answers are recorded
  answers        \* auxiliary: the ids reported so far in answer to it

credsVars == <<conf, edits, cachedClient, cachedUser, procs, births, peer, valid, watched, answers>>

NoFile   == <<<<"no file">>>>
NoMethod == "none"
NoProcess == [who |-> 0]

(***************************************************************************)
(* creds-commons.                                                          *)
(***************************************************************************)
Before(symbol, line) ==
    LET at == {i \in DOMAIN line : line[i] = symbol}
    IN  IF at = {} THEN line ELSE SubSeq(line, 1, (CHOOSE i \in at : \A j \in at : i <= j) - 1)

\* normalizeString: rtrim, ltrim and toLower.
NormalizeString(s) ==
    LET words == {i \in DOMAIN s : s[i] # " "}
        first == CHOOSE i \in words : \A j \in words : i <= j
        last  == CHOOSE i \in words : \A j \in words : j <= i
    IN  IF words = {} THEN <<>>
        ELSE [i \in 1 .. last - first + 1 |-> Lower(s[i + first - 1])]

\* getKeyAndValue, until there are no more lines: what stands before a comment
\* and has a key, even an empty one of spaces.
KeysAndValues(text) ==
    LET Uncommented(line) == Before("#", line)
        Entry(line) == LET key == Before("=", line)
                       IN  <<NormalizeString(key),
                             NormalizeString(SubSeq(line, Len(key) + 2, Len(line)))>>
        lines == [i \in DOMAIN text |-> Uncommented(text[i])]
        pairs == SelectSeq(lines, LAMBDA l : Before("=", l) \notin {l, <<>>})
    IN  [i \in DOMAIN pairs |-> Entry(pairs[i])]

\* credsConfigurationFile and getMethodFromConfigurationFile with interpretValue:
\* two entries are as wrong as none, and then the method is left as it was.
GetMethodFromConfigurationFile(text, methods, name, old) ==
    LET found == SelectSeq(KeysAndValues(text), LAMBDA e : e[1] = <<name>>)
    IN  IF text # NoFile /\ Len(found) = 1 /\ found[1][2] \in methods
        THEN [ret |-> "SUCCESS", method |-> found[1][2][1]]
        ELSE [ret |-> "CONFIGURATION_ERROR", method |-> old]

ReadClientMethod(text, old) ==
    GetMethodFromConfigurationFile(text, {<<"smack">>, <<"pid">>}, "client_default", old)
ReadUserMethod(text, old) ==
    GetMethodFromConfigurationFile(text, {<<"uid">>, <<"gid">>}, "user_default", old)

\* Mutant: the file is read every time.
GetDefaultClientMethodMutant == ReadClientMethod(conf, cachedClient)
\* cynara_creds_get_default_client_method and the one for users: the file is
\* read until a method was found in it.
GetDefaultClientMethod ==
    IF cachedClient # NoMethod THEN [ret |-> "SUCCESS", method |-> cachedClient]
    ELSE ReadClientMethod(conf, cachedClient)
GetDefaultUserMethod ==
    IF cachedUser # NoMethod THEN [ret |-> "SUCCESS", method |-> cachedUser]
    ELSE ReadUserMethod(conf, cachedUser)

(***************************************************************************)
(* The sources of credentials.  A result is a return code and a value.     *)
(***************************************************************************)
Failed(ret) == [ret |-> ret, value |-> "unset"]
Got(value)  == [ret |-> "SUCCESS", value |-> value]

\* SO_PEERSEC and SO_PEERCRED of a socket whose peer is gone still answer; of a
\* descriptor that is no socket they fail.
GetClientSmackLabel == IF peer = NoProcess THEN Failed("INVALID_PARAM") ELSE Got(peer.label)
GetCredentials(field) == IF peer = NoProcess THEN Failed("INVALID_PARAM") ELSE Got(peer[field])

SocketGetClient(method) ==
    CASE method = "smack" -> GetClientSmackLabel
      [] method = "pid" -> GetCredentials("pid")
      [] OTHER -> Failed("METHOD_NOT_SUPPORTED")
SocketGetUser(method) ==
    CASE method = "uid" -> GetCredentials("uid")
      [] method = "gid" -> GetCredentials("gid")
      [] OTHER -> Failed("METHOD_NOT_SUPPORTED")
SocketGetPid == GetCredentials("pid")

\* The bus knows a name as long as its process lives.
Named == peer # NoProcess /\ procs[peer.pid].who = peer.who

\* Credentials::init of the two bus helpers: the bus refuses a name it does not
\* know and may report fewer credentials than are asked for.
DbusCredentials(field) ==
    IF Named /\ field \in peer.reported THEN Got(peer[field]) ELSE Failed("UNKNOWN_ERROR")
GdbusCredentials(field) ==
    IF Named /\ field \in peer.reported THEN Got(peer[field]) ELSE Failed("UNKNOWN_ERROR")

DbusGetClient(method) ==
    CASE method = "smack" -> DbusCredentials("label")
      [] method = "pid" -> DbusCredentials("pid")
      [] ~Named -> Failed("UNKNOWN_ERROR")
      [] OTHER -> Failed("METHOD_NOT_SUPPORTED")
DbusGetUser(method) ==
    CASE method = "uid" -> DbusCredentials("uid")
      [] ~Named -> Failed("UNKNOWN_ERROR")
      [] OTHER -> Failed("METHOD_NOT_SUPPORTED")
DbusGetPid == DbusCredentials("pid")

GdbusGetClient(method) ==
    CASE method = "smack" -> GdbusCredentials("label")
      [] method = "pid" -> GdbusCredentials("pid")
      [] ~Named -> Failed("UNKNOWN_ERROR")
      [] OTHER -> Failed("METHOD_NOT_SUPPORTED")
GdbusGetUser(method) ==
    IF method = "uid" THEN GdbusCredentials("uid") ELSE Failed("METHOD_NOT_SUPPORTED")
GdbusGetPid == GdbusCredentials("pid")

\* creds-self: of the service process itself.
SelfGetClient(method) ==
    CASE method = "smack" -> Got(Self.label)
      [] method = "pid" -> Got(Self.pid)
      [] OTHER -> Failed("METHOD_NOT_SUPPORTED")
SelfGetUser(method) ==
    CASE method = "uid" -> Got(Self.uid)
      [] method = "gid" -> Got(Self.gid)
      [] OTHER -> Failed("METHOD_NOT_SUPPORTED")

ClientId(helper, method) ==
    CASE helper = "socket" -> SocketGetClient(method)
      [] helper = "dbus" -> DbusGetClient(method)
      [] helper = "gdbus" -> GdbusGetClient(method)
      [] helper = "self" -> SelfGetClient(method)
UserId(helper, method) ==
    CASE helper = "socket" -> SocketGetUser(method)
      [] helper = "dbus" -> DbusGetUser(method)
      [] helper = "gdbus" -> GdbusGetUser(method)
      [] helper = "self" -> SelfGetUser(method)
PeerPid(helper) ==
    CASE helper = "socket" -> SocketGetPid
      [] helper = "dbus" -> DbusGetPid
      [] helper = "gdbus" -> GdbusGetPid

(***************************************************************************)
(* The calls of the service.                                               *)
(***************************************************************************)
Helpers == {"socket", "dbus", "gdbus", "self"}
Subject(helper) == IF helper = "self" THEN "self" ELSE "peer"
Watchable == {<<"peer", "client", "default">>, <<"peer", "user", "default">>,
              <<"self", "client", "default">>, <<"peer", "client", "smack">>,
              <<"peer", "user", "uid">>, <<"peer", "pid", "pid">>}
Noted(helper, kind, asked, got) ==
    answers' = IF got.ret = "SUCCESS" /\ watched = <<Subject(helper), kind, asked>>
               THEN answers \union {got.value} ELSE answers

\* cynara_creds_<helper>_get_client.
GetClient(helper, asked) ==
    LET default == GetDefaultClientMethod
        got == CASE asked # "default" -> ClientId(helper, asked)
                 [] default.ret # "SUCCESS" -> Failed(default.ret)
                 [] OTHER -> ClientId(helper, default.method)
    IN  /\ cachedClient' = IF asked = "default" THEN default.method ELSE cachedClient
        /\ Noted(helper, "client", asked, got)
        /\ UNCHANGED <<conf, edits, cachedUser, procs, births, peer, valid, watched>>

\* cynara_creds_<helper>_get_user.
GetUser(helper, asked) ==
    LET default == GetDefaultUserMethod
        got == CASE asked # "default" -> UserId(helper, asked)
                 [] default.ret # "SUCCESS" -> Failed(default.ret)
                 [] OTHER -> UserId(helper, default.method)
    IN  /\ cachedUser' = IF asked = "default" THEN default.method ELSE cachedUser
        /\ Noted(helper, "user", asked, got)
        /\ UNCHANGED <<conf, edits, cachedClient, procs, births, peer, valid, watched>>

\* cynara_creds_<helper>_get_pid.
GetPid(helper) ==
    /\ Noted(helper, "pid", "pid", PeerPid(helper))
    /\ UNCHANGED <<conf, edits, cachedClient, cachedUser, procs, births, peer, valid, watched>>

(***************************************************************************)
(* The world around the service.                                           *)
(***************************************************************************)
ValidIn(text) == {r.method : r \in {s \in {ReadClientMethod(text, NoMethod),
                                           ReadUserMethod(text, NoMethod)} : s.ret = "SUCCESS"}}

CredsInit ==
    /\ conf \in ConfTexts /\ edits = 0 /\ valid = ValidIn(conf)
    /\ cachedClient = NoMethod /\ cachedUser = NoMethod
    /\ procs = [p \in Pids |-> NoProcess] /\ births = 0
    /\ peer = NoProcess
    /\ watched \in Watchable /\ answers = {}

EditConf(text) ==
    /\ edits < MaxEdits /\ text # conf
    /\ conf' = text /\ edits' = edits + 1 /\ valid' = valid \union ValidIn(text)
    /\ UNCHANGED <<cachedClient, cachedUser, procs, births, peer, watched, answers>>

StartProcess(pid, program) ==
    /\ births < MaxProcs /\ procs[pid] = NoProcess
    /\ births' = births + 1
    /\ procs' = [procs EXCEPT ![pid] = [who |-> births', label |-> program.label,
                                        uid |-> program.uid, gid |-> program.gid]]
    /\ UNCHANGED <<conf, edits, cachedClient, cachedUser, peer, valid, watched,
                   answers>>

EndProcess(pid) ==
    /\ procs[pid] # NoProcess
    /\ procs' = [procs EXCEPT ![pid] = NoProcess]
    /\ UNCHANGED <<conf, edits, cachedClient, cachedUser, births, peer, valid,
                   watched, answers>>

\* A process connects; kernel and bus record its credentials once and for all.
ConnectPeer(pid, reported) ==
    /\ procs[pid] # NoProcess /\ (peer # NoProcess => peer.who # procs[pid].who)
    /\ peer' = [pid |-> pid, reported |-> reported] @@ procs[pid]
    /\ answers' = IF watched[1] = "peer" THEN {} ELSE answers
    /\ UNCHANGED <<conf, edits, cachedClient, cachedUser, procs, births, valid, watched>>

CredsNext ==
    \/ \E h \in Helpers : \/ \E m \in {"default", "smack", "pid"} : GetClient(h, m)
                          \/ \E m \in {"default", "uid", "gid"} : GetUser(h, m)
    \/ \E h \in Helpers \ {"self"} : GetPid(h)
    \/ \E text \in ConfTexts : EditConf(text)
    \/ \E pid \in Pids : \/ \E program \in Programs : StartProcess(pid, program)
                         \/ EndProcess(pid)
                         \/ \E reported \in BusFields : ConnectPeer(pid, reported)

(***************************************************************************)
(* Properties.                                                             *)
(***************************************************************************)
\* Whatever helper the service asks, by default or by name, and however
\* creds.conf is edited in between, it gets one id of one peer: the default
\* method that was found first stays for the life of the process.  It comes from
\* a creds.conf with exactly one valid entry for it: a file that was refused once
\* is not obeyed by a later call.
HelpersAgree ==
    /\ Cardinality(answers) <= 1
    /\ {cachedClient, cachedUser} \subseteq valid \union {NoMethod}
=============================================================================
