---------------------------- MODULE BinaryQueue ----------------------------
(***************************************************************************)
(* The byte queue of src/common/containers/BinaryQueue.{h,cpp}, through    *)
(* which every byte of the protocol passes.  A queue is a list of          *)
(* nonempty buckets, one per append, and the total size, which the code    *)
(* keeps in m_size and trusts when it decides how far to walk the list.    *)
(* The operators return the queue after the call; a call that throws       *)
(* OutOfDataException is one whose HasData guard is false.                 *)
(***************************************************************************)
EXTENDS Naturals, Sequences, SequencesExt

EmptyQueue == [buckets |-> <<>>, size |-> 0]

\* appendUnmanaged: an empty buffer is not attached.
AppendUnmanaged(q, bytes) ==
    IF bytes = <<>> THEN q
    ELSE [buckets |-> Append(q.buckets, bytes), size |-> q.size + Len(bytes)]

\* appendCopy: the caller's buffer becomes a bucket of its own.
AppendCopy(q, bytes) == AppendUnmanaged(q, bytes)

\* appendMoveFrom: the buckets of the other queue are taken over as they are.
AppendMoveFrom(q, other) ==
    [buckets |-> q.buckets \o other.buckets, size |-> q.size + other.size]

\* The guard of consume and flatten.
\* Mutant: the last byte is never taken out.
HasDataMutant(q, n) == n < q.size
HasData(q, n) == n <= q.size

\* flatten: the first n bytes, gathered from as many buckets as they span.
Flatten(q, n) ==
    LET Gather(acc, bucket) ==
            acc \o SubSeq(bucket, 1, IF n - Len(acc) < Len(bucket)
                                     THEN n - Len(acc) ELSE Len(bucket))
    IN  FoldLeft(Gather, <<>>, q.buckets)

\* consume: whole buckets are dropped, the first one that has more is cut.
Consume(q, n) ==
    LET Eat(acc, bucket) ==
            IF acc.left >= Len(bucket)
            THEN [acc EXCEPT !.left = @ - Len(bucket)]
            ELSE [left |-> 0,
                  buckets |-> Append(acc.buckets,
                                     SubSeq(bucket, acc.left + 1, Len(bucket)))]
    IN  [buckets |-> FoldLeft(Eat, [left |-> n, buckets |-> <<>>], q.buckets).buckets,
         size    |-> q.size - n]

\* What the queue holds, for the properties.
Contents(q) == FlattenSeq(q.buckets)
=============================================================================
