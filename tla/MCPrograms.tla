----------------------------- MODULE MCPrograms -----------------------------
(***************************************************************************)
(* A program for TLC that uses the helper libraries to find out who its    *)
(* peer is, or the asynchronous client to ask the daemon; mode says which. *)
(***************************************************************************)
EXTENDS Credentials, AsyncLibrary

\* Only some words of creds.conf differ from their lower case form.
MCLower(w) == CASE w = "PID" -> "pid" [] w = "Client_Default" -> "client_default" [] OTHER -> w

\* No creds.conf, and ones with comments, blanks, repeated keys, unknown values
\* and lines without key or value.
MCConfTexts ==
    {NoFile,
     <<<<"#", "client_default", "=", "pid">>, <<" ", "Client_Default", " ", "=", " ", "PID", "#", "=">>,
       <<"user_default", "=", "uid">>>>,
     <<<<"client_default", "=", "smack">>, <<"user_default", "=", "gid", " ">>, <<"=", "uid">>,
       <<" ", "=">>>>,
     <<<<"client_default", "=", "smack">>, <<"client_default", "=", "pid">>, <<"user_default", "=">>>>}
MCPeers == {[label |-> "App", uid |-> "5", gid |-> "6"]}
MCSelf == [label |-> "System", uid |-> "0", gid |-> "0", pid |-> "1"]
MCBusFields == {{"pid", "uid"}, {"pid", "uid", "label"}}

\* The daemon's answers are of a type the client library has a plugin for.
MCPluginOf(t) == "naive"

VARIABLE mode
vars == <<mode, credsVars, asyncVars>>

Init ==
    /\ mode \in {"creds", "async"}
    /\ CredsInit /\ AsyncInit
    /\ mode = "creds" => listening /\ ~corrupted
    /\ mode = "async" => conf = NoFile /\ watched = <<"peer", "user", "uid">>

InCreds(A) == mode = "creds" /\ A /\ UNCHANGED <<mode, asyncVars>>
InAsync(A) == mode = "async" /\ A /\ UNCHANGED <<mode, credsVars>>

Next == InCreds(CredsNext) \/ InAsync(AsyncNext)

\* In the mode async these are the fairness conditions of AsyncSpec.
Spec == /\ Init /\ [][Next]_vars
        /\ WF_vars(InAsync(AsyncStep)) /\ WF_vars(InAsync(ProcessReady))
        /\ WF_vars(InAsync(Environment))
=============================================================================
