----------------------------- MODULE TextRecords ----------------------------
(***************************************************************************)
(* Text made of records and fields, as the policy database and the listings*)
(* and bulk files of cyad have it.  A text is a sequence of marks: the two *)
(* separators, characters, and the marks the modules that use texts add.   *)
(***************************************************************************)
EXTENDS Naturals, Sequences, SequencesExt

FieldSep    == <<"field separator">>
RecordSep   == <<"record separator">>
Char(c)     == <<"char", c>>

\* dumpFields: the fields of a record, separated and ended.
DumpFields(fields) ==
    FlattenSeq([i \in DOMAIN fields |->
        IF i = 1 THEN fields[i] ELSE <<FieldSep>> \o fields[i]]) \o <<RecordSep>>

\* std::getline with the record separator: the pieces between separators, and
\* the last piece unless it is empty.
Lines(text) ==
    LET ends == SelectSeq([p \in DOMAIN text |-> p], LAMBDA p : text[p] = RecordSep)
        Begin(i) == IF i = 1 THEN 1 ELSE ends[i - 1] + 1
        whole == [i \in DOMAIN ends |-> SubSeq(text, Begin(i), ends[i] - 1)]
        rest == SubSeq(text, Begin(Len(ends) + 1), Len(text))
    IN  IF rest = <<>> THEN whole ELSE Append(whole, rest)

\* The loops of initBuckets and loadPolicies stop at the first empty line.
Records(text) ==
    LET lines == Lines(text)
        empty == {i \in DOMAIN lines : lines[i] = <<>>}
    IN  IF empty = {} THEN lines
        ELSE SubSeq(lines, 1, (CHOOSE i \in empty : \A j \in empty : i <= j) - 1)

\* The positions at which fields end.
Separators(line) ==
    SelectSeq([p \in DOMAIN line |-> p], LAMBDA p : line[p] = FieldSep)

\* The first n fields, as parseBucketId and parseKey cut them off.
HasFields(line, n) == Len(Separators(line)) >= n
FirstField(line, n) ==
    LET seps == Separators(line)
    IN  SubSeq(line, IF n = 1 THEN 1 ELSE seps[n - 1] + 1, seps[n] - 1)
=============================================================================
