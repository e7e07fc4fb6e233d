-------------------------------- MODULE Cyad --------------------------------
(***************************************************************************)
(* cyad, the command-line administration tool: its options, the commands   *)
(* they select, the calls each command makes to libcynara-admin, the text  *)
(* it prints and the text it reads back with --set-policy --bulk.          *)
(*                                                                         *)
(* A command line is a sequence of options with their arguments; an option *)
(* that needs an argument and is the last may miss it.  A policy type in a *)
(* text is a number, or a name in lower or in mixed case.                  *)
(***************************************************************************)
EXTENDS AdminApi

CONSTANTS CommandLines, \* the command lines tried
          Descriptions, \* <<type, name>> pairs the admin library lists
          BulkFiles,    \* texts that administrators wrote, or Unreadable
          FirstBases,   \* the policy databases the first command may meet
          MaxRuns       \* bound: runs of cyad

VARIABLES base,    \* the policy database
          argv,    \* the command line of the present run
          stage,   \* "idle", "parse", "run"
          command, \* the parsed command
          exit,    \* the exit code of the last run, "none" while one runs
          output,  \* what the last run printed, and the policies it lists
          saved,   \* the bulk file, and the policies whose listing it is
          runs     \* runs so far

cyadVars == <<base, argv, stage, command, exit, output, saved, runs>>

Missing    == <<<<"missing">>>>
Unreadable == <<<<"unreadable">>>>
Numeral(n)  == <<<<"number", n>>>>
Name(n)    == <<<<"name", n>>>>
MixedCase(n) == <<<<"Name", n>>>>
Lower(text) == [i \in DOMAIN text |->
                    IF text[i][1] = "Name" THEN <<"name", text[i][2]>> ELSE text[i]]

(***************************************************************************)
(* The options.                                                            *)
(***************************************************************************)
MainOptions == {"help", "set-bucket", "delete-bucket", "set-policy", "erase", "check",
                "list-policies", "list-policies-descriptions"}

\* The options getopt_long stops at, given those that a command allows.
Bad(opts, allowed) == {i \in DOMAIN opts : opts[i].opt \notin allowed \/ opts[i].arg = Missing}

Given(opts, name) == {i \in DOMAIN opts : opts[i].opt = name}

\* The last argument of a repeated option counts.
Value(opts, name) ==
    IF Given(opts, name) = {} THEN <<>>
    ELSE opts[CHOOSE i \in Given(opts, name) : \A j \in Given(opts, name) : j <= i].arg

KeyArguments(opts) == <<Value(opts, "client"), Value(opts, "user"), Value(opts, "privilege")>>
KeyGiven(opts) == \A i \in 1 .. 3 : KeyArguments(opts)[i] # <<>>

\* isYes: the value is looked up as it was written.
IsYes(value) == value \in {Name("yes"), Name("on")}

\* The commands, one per subclass of CyadCommand.
ErrorCommand == [kind |-> "error"]
HelpCommand  == [kind |-> "help"]
SetBucketCommand(bucket, result) == [kind |-> "set-bucket", bucket |-> bucket, result |-> result]
DeleteBucketCommand(bucket) == [kind |-> "delete-bucket", bucket |-> bucket]
SetPolicyCommand(bucket, result, key) ==
    [kind |-> "set-policy", bucket |-> bucket, result |-> result, key |-> key]
SetPolicyBulkCommand(filename) == [kind |-> "bulk", filename |-> filename]
EraseCommand(bucket, recursive, filter) ==
    [kind |-> "erase", bucket |-> bucket, recursive |-> recursive, key |-> filter]
CheckCommand(bucket, recursive, key, humanize) ==
    [kind |-> "check", bucket |-> bucket, recursive |-> recursive, key |-> key,
     humanize |-> humanize]
ListPoliciesCommand(bucket, key, humanize) ==
    [kind |-> "list-policies", bucket |-> bucket, key |-> key, humanize |-> humanize]
ListPoliciesDescCommand == [kind |-> "list-policies-descriptions"]
RawPolicyResult(opts) == [type |-> Value(opts, "type"), metadata |-> Value(opts, "metadata")]

ParseSetBucket(bucket, opts) ==
    IF Bad(opts, {"type", "metadata"}) # {} \/ Value(opts, "type") = <<>> THEN ErrorCommand
    ELSE SetBucketCommand(bucket, RawPolicyResult(opts))

\* No further option is expected.
ParseDeleteBucket(bucket, opts) ==
    IF opts # <<>> THEN ErrorCommand ELSE DeleteBucketCommand(bucket)

\* --bulk ends the parsing as soon as it is met.
ParseSetPolicy(opts) ==
    LET allowed == {"client", "user", "privilege", "bucket", "type", "metadata", "bulk"}
        bulk == {i \in Given(opts, "bulk") : \A j \in Bad(opts, allowed) : i < j}
        first == CHOOSE i \in bulk : \A j \in bulk : i <= j
    IN  CASE bulk # {} -> SetPolicyBulkCommand(opts[first].arg)
          [] Bad(opts, allowed) # {} -> ErrorCommand
          [] ~KeyGiven(opts) \/ Value(opts, "type") = <<>> -> ErrorCommand
          [] OTHER -> SetPolicyCommand(Value(opts, "bucket"), RawPolicyResult(opts),
                                       KeyArguments(opts))

ParseErase(bucket, opts) ==
    IF \/ Bad(opts, {"recursive", "client", "user", "privilege"}) # {}
       \/ ~KeyGiven(opts) \/ Value(opts, "recursive") = <<>>
    THEN ErrorCommand
    ELSE EraseCommand(bucket, IsYes(Value(opts, "recursive")), KeyArguments(opts))

ParseCheck(opts) ==
    IF \/ Bad(opts, {"bucket", "recursive", "client", "user", "privilege", "human-readable"}) # {}
       \/ ~KeyGiven(opts) \/ Value(opts, "recursive") = <<>>
    THEN ErrorCommand
    ELSE CheckCommand(Value(opts, "bucket"), IsYes(Value(opts, "recursive")),
                      KeyArguments(opts), Given(opts, "human-readable") # {})

\* --all stands for every part of the filter that is not given.
ParseListPolicies(bucket, opts) ==
    LET all == Given(opts, "all") # {}
        Part(p) == IF p = <<>> THEN AnyFeature ELSE p
    IN  IF \/ Bad(opts, {"client", "user", "privilege", "all", "human-readable"}) # {}
           \/ ~all /\ ~KeyGiven(opts)
        THEN ErrorCommand
        ELSE ListPoliciesCommand(bucket, [i \in 1 .. 3 |-> Part(KeyArguments(opts)[i])],
                                 Given(opts, "human-readable") # {})

Parse(opts) ==
    LET opt == opts[1].opt  arg == opts[1].arg  rest == Tail(opts)
    IN  CASE opts = <<>> \/ Bad(SubSeq(opts, 1, 1), MainOptions) # {} -> ErrorCommand
          [] opt = "help" -> HelpCommand
          [] opt = "set-bucket" -> ParseSetBucket(arg, rest)
          [] opt = "delete-bucket" -> ParseDeleteBucket(arg, rest)
          [] opt = "set-policy" -> ParseSetPolicy(rest)
          [] opt = "erase" -> ParseErase(arg, rest)
          [] opt = "check" -> ParseCheck(rest)
          [] opt = "list-policies" -> ParseListPolicies(arg, rest)
          [] opt = "list-policies-descriptions" -> ListPoliciesDescCommand

(***************************************************************************)
(* Policy types as text.  The names of the descriptions are kept in lower  *)
(* case; the first that fits is taken.                                     *)
(***************************************************************************)
Descs == [i \in DOMAIN Descriptions |-> <<Descriptions[i][1], Lower(Descriptions[i][2])>>]
NoType == -2

\* translate.  std::stoi reads the number a text begins with; the result is a
\* PolicyType, 16 bits wide.
Translate(text) ==
    LET named == SelectSeq(Descs, LAMBDA d : d[2] = Lower(text))
    IN  CASE named # <<>> -> named[1][1]
          [] Lower(text) = Name("none") -> NONE
          [] Lower(text) = Name("bucket") -> BUCKET
          [] text # <<>> /\ text[1][1] = "number" -> text[1][2] % 65536
          [] OTHER -> NoType

Humanize(type) ==
    LET described == SelectSeq(Descs, LAMBDA d : d[1] = type)
    IN  CASE described # <<>> -> described[1][2]
          [] type = NONE -> Name("none")
          [] type = BUCKET -> Name("bucket")
          [] OTHER -> Numeral(type)

TypeText(type, humanize) == IF humanize THEN Humanize(type) ELSE Numeral(type)

PrintPolicy(p, humanize) ==
    DumpFields(<<p.bucket, p.key[1], p.key[2], p.key[3],
                 TypeText(p.result, humanize), FromPointer(p.extra)>>)

(***************************************************************************)
(* Bulk files.                                                             *)
(***************************************************************************)
\* DispatcherIO::openFile and the stream it gives: nothing is read from a file
\* that cannot be opened.
OpenFile(text) == IF text = Unreadable THEN <<>> ELSE text

\* CynaraAdminPolicies::add, for one line.
\* Mutant: the metadata is the next token.
AddMutant(line) ==
    [bucket |-> FirstField(line, 1),
     key    |-> <<FirstField(line, 2), FirstField(line, 3), FirstField(line, 4)>>,
     result |-> Translate(FirstField(line, 5)),
     extra  |-> ToPointer(IF HasFields(line, 6) THEN FirstField(line, 6)
                          ELSE SubSeq(line, Separators(line)[5] + 1, Len(line)))]
Add(line) ==
    [bucket |-> FirstField(line, 1),
     key    |-> <<FirstField(line, 2), FirstField(line, 3), FirstField(line, 4)>>,
     result |-> Translate(FirstField(line, 5)),
     extra  |-> ToPointer(SubSeq(line, Separators(line)[5] + 1, Len(line)))]

\* parse throws at a line without five fields, or at a type that is none.
ParsesAsBulk(text) ==
    \A i \in DOMAIN Records(text) :
        LET line == Records(text)[i]
        IN  HasFields(line, 5) /\ Translate(FirstField(line, 5)) # NoType
ParseBulk(text) == [i \in DOMAIN Records(text) |-> Add(Records(text)[i])]

(***************************************************************************)
(* CommandsDispatcher::execute, for each command: the code it returns, the *)
(* database after it, what it prints and the policies that stand there.    *)
(***************************************************************************)
Done(reply, text, policies) ==
    [code |-> reply.code, base |-> reply.base, output |-> [text |-> text, of |-> policies]]
Quiet(reply) == Done(reply, <<>>, {})
InvalidCommandline == Quiet(Refused("INVALID_COMMANDLINE_PARAM", base))

ExecuteSetBucket(c) ==
    IF Translate(c.result.type) = NoType THEN InvalidCommandline
    ELSE Quiet(AdminSetBucket(base, c.bucket, Translate(c.result.type),
                              ToPointer(c.result.metadata)))

ExecuteDeleteBucket(c) == Quiet(AdminSetBucket(base, c.bucket, DELETE, Null))

ExecuteSetPolicy(c) ==
    IF Translate(c.result.type) = NoType THEN InvalidCommandline
    ELSE Quiet(AdminSetPolicies(base, <<[bucket |-> c.bucket, key |-> c.key,
                 result |-> Translate(c.result.type), extra |-> ToPointer(c.result.metadata)]>>))

\* The whole file is parsed before the library is called.
ExecuteBulk(text) ==
    IF ~ParsesAsBulk(OpenFile(text)) THEN InvalidCommandline
    ELSE Quiet(AdminSetPolicies(base, ParseBulk(OpenFile(text))))

ExecuteErase(c) == Quiet(AdminErase(base, c.bucket, c.recursive, c.key))

ExecuteCheck(c, found) ==
    LET reply == AdminCheck(base, c.bucket, c.key, found)
    IN  IF reply.code # "SUCCESS" THEN Quiet(reply)
        ELSE Done(reply, DumpFields(<<TypeText(reply.data.result, c.humanize),
                                      FromPointer(reply.data.extra)>>), {})

ExecuteListPolicies(c) ==
    LET reply == AdminListPolicies(base, c.bucket, c.key)
        lines == [i \in DOMAIN reply.data |-> PrintPolicy(reply.data[i], c.humanize)]
    IN  IF reply.code # "SUCCESS" THEN Quiet(reply)
        ELSE Done(reply, FlattenSeq(lines), ListedPolicies(base, c.bucket, c.key))

ExecuteDescriptions ==
    Done(Reply("SUCCESS", base, <<>>),
         FlattenSeq([i \in DOMAIN Descs |-> DumpFields(<<Numeral(Descs[i][1]), Descs[i][2]>>)]), {})

Execute(c, found) ==
    CASE c.kind = "error" -> InvalidCommandline
      [] c.kind = "help" -> Quiet(Reply("SUCCESS", base, <<>>))
      [] c.kind = "set-bucket" -> ExecuteSetBucket(c)
      [] c.kind = "delete-bucket" -> ExecuteDeleteBucket(c)
      [] c.kind = "set-policy" -> ExecuteSetPolicy(c)
      [] c.kind = "bulk" -> ExecuteBulk(saved.text)
      [] c.kind = "erase" -> ExecuteErase(c)
      [] c.kind = "check" -> ExecuteCheck(c, found)
      [] c.kind = "list-policies" -> ExecuteListPolicies(c)
      [] c.kind = "list-policies-descriptions" -> ExecuteDescriptions

(***************************************************************************)
(* Runs of cyad, one after the other, on the same database.                *)
(***************************************************************************)
NoOutput == [text |-> <<>>, of |-> {}]

CyadInit ==
    /\ base \in FirstBases
    /\ argv = <<>> /\ stage = "idle" /\ command = [kind |-> "none"] /\ exit = "none"
    /\ output = NoOutput /\ runs = 0
    /\ saved \in [text : BulkFiles, of : {{}}]

\* The constructor of Cyad: the library is initialized and lists the types it
\* knows.  cyad ends with the code of the one that fails.
Start(line, code) ==
    /\ stage = "idle" /\ runs < MaxRuns
    /\ runs' = runs + 1 /\ output' = NoOutput
    /\ command' = [kind |-> "none"]
    /\ IF code = "SUCCESS" THEN stage' = "parse" /\ exit' = "none" /\ argv' = line
       ELSE exit' = code /\ UNCHANGED <<stage, argv>>
    /\ UNCHANGED <<base, saved>>

ParseMain ==
    /\ stage = "parse"
    /\ command' = Parse(argv) /\ argv' = <<>>
    /\ stage' = "run"
    /\ UNCHANGED <<base, exit, output, saved, runs>>

\* What a check may find; the search itself is the subject of PolicyStorage.
Decisions ==
    IF command.kind # "check" THEN {NoType}
    ELSE {p.result : p \in base.policies} \union {base.defaults[b] : b \in DOMAIN base.defaults}

Run(found) ==
    LET done == Execute(command, found)
    IN  /\ stage = "run"
        /\ base' = done.base /\ exit' = done.code /\ output' = done.output
        /\ stage' = "idle"
        /\ UNCHANGED <<argv, command, saved, runs>>

\* The output of a run was redirected to the bulk file.
SaveOutput ==
    /\ stage = "idle" /\ output.text # <<>> /\ saved # output
    /\ saved' = output
    /\ UNCHANGED <<base, argv, stage, command, exit, output, runs>>

CyadNext ==
    \/ \E line \in CommandLines, code \in {"SUCCESS", "SERVICE_NOT_AVAILABLE"} : Start(line, code)
    \/ ParseMain
    \/ \E found \in Decisions : Run(found)
    \/ SaveOutput

(***************************************************************************)
(* Properties.                                                             *)
(***************************************************************************)
IsLink(p) == p.result.type = BUCKET

\* What list-policies printed, with or without --human-readable, restores the
\* listed policies when it is given to set-policy --bulk later, whatever was
\* set or erased in between and whatever separators the metadata contains.
\* The run fails only when a bucket the listing needs is gone by then, or when
\* a listed policy links to the default bucket, whose empty name is not told
\* from no metadata.
ListingRestores ==
    command.kind = "bulk" /\ exit # "none" /\ saved.of # {} =>
        \/ exit = "SUCCESS" /\ saved.of \subseteq base.policies
        \/ exit = "BUCKET_NOT_FOUND" /\ \E p \in saved.of :
               ~HasBucket(base, p.bucket) \/ (IsLink(p) /\ ~HasBucket(base, p.result.metadata))
        \/ exit = "INVALID_PARAM" /\ \E p \in saved.of :
               IsLink(p) /\ p.result.metadata = DefaultBucketId

=============================================================================
