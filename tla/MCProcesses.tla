---------------------------- MODULE MCProcesses -----------------------------
(***************************************************************************)
(* The four libraries and the daemon's process for TLC.  A behaviour is    *)
(* about one library and the daemon it talks to, or about the daemon from  *)
(* its start to its exit; mode says which.                                 *)
(***************************************************************************)
EXTENDS ClientLibrary, AgentLibrary, AdminLibrary, MonitorLibrary, ServiceStart

\* The policies of two versions: a decision, a result that holds for a session,
\* one that is not kept, and one whose plugin is missing.
MCTypeOf(k, v) == CASE k = "k1" -> IF v = 0 THEN "ALLOW" ELSE "UNKNOWN"
                    [] OTHER -> IF v = 0 THEN "SESSION" ELSE "ONCE"
MCQuestions == {[key |-> "k1", session |-> "s1"], [key |-> "k2", session |-> "s1"],
                [key |-> "k2", session |-> "s2"]}
MCPluginOf(t) == CASE t \in {"ALLOW", "DENY"} -> "naive"
                   [] t = "SESSION" -> "session"
                   [] t = "ONCE" -> "once"
                   [] OTHER -> "none"

Op(n, b, t, g, k) == [name |-> n, bucket |-> b, target |-> t, gone |-> g, known |-> k]
MCOperations ==
    {Op("set", "", "a", {}, TRUE), Op("set", "a", "allow", {""}, TRUE),
     Op("set", "", "allow", {"a"}, TRUE), Op("set", "a", "odd", {}, FALSE),
     Op("bucket", "a", "deny", {}, TRUE), Op("bucket", "", "none", {}, TRUE),
     Op("bucket", "x!", "deny", {}, TRUE), Op("remove", "a", "none", {}, TRUE),
     Op("remove", "", "none", {}, TRUE), Op("erase", "a", "none", {}, TRUE),
     Op("check", "a", "none", {}, TRUE), Op("descriptions", "", "none", {}, TRUE)}

\* Options that are read, refused, repeated and cut short by another.
Flag(o)   == [opt |-> o, arg |-> <<"none">>]
Opt(o, a) == [opt |-> o, arg |-> a]
Account   == <<"name", "cynara">>
MCStartLines ==
    {<<>>, <<Flag("daemon"), Opt("mask", <<"number", 7>>)>>,
     <<Opt("user", Account), Opt("group", Account)>>,
     <<Opt("user", Account), Opt("user", <<"number", 0>>), Opt("group", <<"number", 5>>)>>,
     <<Opt("group", Account)>>, <<Opt("user", <<"number", 5>>)>>,
     <<Opt("user", <<"name", "nobody">>)>>, <<Opt("mask", <<"name", "x">>), Flag("help")>>,
     <<Opt("group", <<"number", -1>>)>>, <<Flag("help"), Opt("user", NoArgument)>>,
     <<Opt("mask", NoArgument)>>, <<Flag("version")>>, <<Flag("bogus")>>}
MCAccounts == [n \in {"cynara"} |-> 5]
MCStarters == {[uid |-> 0, gid |-> 0], [uid |-> 5, gid |-> 5], [uid |-> 5, gid |-> 0]}

\* Libraries that load, and ones that fail at each step.
Lib(o, s, c, t) == [opens |-> o, symbols |-> s, creates |-> c, types |-> t]
Good(t) == Lib(TRUE, TRUE, TRUE, t)
MCDirectories ==
    {<<>>, <<Good({10}), Good({10, 11})>>,
     <<Lib(FALSE, TRUE, TRUE, {10}), Good({11, 10}), Good({10})>>,
     <<Lib(TRUE, FALSE, TRUE, {10}), Lib(TRUE, TRUE, FALSE, {11}), Good({}), Good({11})>>}

VARIABLE mode
vars == <<mode, socketVars, clientOwn, agentOwn, adminOwn, monitorOwn, startVars>>

\* What a mode does not use has one initial value.
Init ==
    /\ mode \in {"client", "agent", "admin", "monitor", "start"}
    /\ ClientInit /\ AgentInit /\ AdminInit /\ MonitorInit /\ StartInit
    /\ mode # "client" \/ corrupted => ~monitoring
    /\ mode # "client" => ~corrupted
    /\ mode # "admin" => disk.readable
    /\ mode = "start" => listening
    /\ mode # "start" => /\ process.line = <<>> /\ directory = <<>> /\ stored = {}
                         /\ ident.uid = 0

InClient(A)  == mode = "client" /\ A /\ UNCHANGED <<mode, agentOwn, adminOwn, monitorOwn, startVars>>
InAgent(A)   == mode = "agent" /\ A /\ UNCHANGED <<mode, clientOwn, adminOwn, monitorOwn, startVars>>
InAdmin(A)   == mode = "admin" /\ A /\ UNCHANGED <<mode, clientOwn, agentOwn, monitorOwn, startVars>>
InMonitor(A) == mode = "monitor" /\ A /\ UNCHANGED <<mode, clientOwn, agentOwn, adminOwn, startVars>>
InStart(A)   == /\ mode = "start" /\ A
                /\ UNCHANGED <<mode, socketVars, clientOwn, agentOwn, adminOwn, monitorOwn>>

Next == InClient(ClientNext) \/ InAgent(AgentNext) \/ InAdmin(AdminNext)
          \/ InMonitor(MonitorNext) \/ InStart(StartNext)

\* In each mode these are the fairness conditions of ClientSpec, AgentSpec,
\* AdminSpec and MonitorSpec.
Fairness ==
    /\ WF_vars(InClient(Library) \/ InAgent(AgentStep) \/ InAdmin(AdminStep) \/ InMonitor(Flushing))
    /\ WF_vars(InClient(Serve) \/ InAgent(ServeAgent) \/ InAdmin(ServeAdmin) \/ InMonitor(ServeMonitor))
    /\ WF_vars(InAgent(GetRequest) \/ InAdmin(OtherSaves) \/ InMonitor(Finishing))
    /\ WF_vars(InAgent(ListenAgain) \/ InAdmin(LoadDb))
    /\ WF_vars(InAdmin(listening /\ StartService))
    /\ \A g \in Getters : WF_vars(InMonitor(Getting(g)))

Spec == Init /\ [][Next]_vars /\ Fairness

-----------------------------------------------------------------------------
\* Nobody waits for ever, whatever connections are lost and whenever the daemon
\* stops: a check returns, cancelWaiting ends a waiting getRequest, a call of the
\* admin library returns and a starting daemon gets the lock, a flush is not
\* stuck and ends the get it was sent for, and finish returns.  A call that the
\* daemon answers by hanging up again and again is excepted: the library sends it
\* again for ever (a simple check of a corrupted database, an administrator's
\* change whose save throws each time).
CallsReturn ==
    /\ CallReturns
    /\ CancelReturns
    /\ AdminCallReturns /\ DaemonGetsLock
    /\ FlushResolves /\ FlushEndsGet /\ FinishReturns
=============================================================================
