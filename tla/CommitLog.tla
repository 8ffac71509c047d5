------------------------------ MODULE CommitLog ------------------------------
(***************************************************************************)
(* What a partition promises to producers and consumers, independent of    *)
(* segments, files and the cleaner thread (internal/storage).              *)
(*                                                                         *)
(* The log is a set of records, each carrying the offset it was given when *)
(* it was appended.  An append takes the next offset; retention drops a    *)
(* prefix; compaction may drop records as long as the latest value of      *)
(* every key, and every record without a key, stays.                       *)
(***************************************************************************)
EXTENDS Integers

CONSTANTS Keys,      \* keys a producer may use
          NoKey,     \* the key of a record that has none
          Values,    \* non-empty values
          Empty      \* the empty value: a tombstone for its key

VARIABLES log,       \* the records that can still be read
          start,     \* the lowest offset the log still covers
          end        \* the offset the next append gets

vars == <<log, start, end>>

Record == [offset : Nat, key : Keys \cup {NoKey}, value : Values \cup {Empty}]

\* The record that decides the value of key k in S, as a set of at most one.
LatestOf(k, S) == {r \in S : r.key = k /\ \A q \in S : q.key = k => q.offset <= r.offset}

\* The table a consumer builds by replaying S: for each key, its latest
\* record unless that is a tombstone.
View(S) == [k \in Keys |-> {r \in LatestOf(k, S) : r.value # Empty}]

Init == log = {} /\ start = 0 /\ end = 0

Append ==
    \E k \in Keys \cup {NoKey}, v \in Values \cup {Empty} :
        /\ log' = log \cup {[offset |-> end, key |-> k, value |-> v]}
        /\ end' = end + 1
        /\ UNCHANGED start

DropPrefix ==
    /\ start' \in start..end
    /\ log' = {r \in log : r.offset >= start'}
    /\ UNCHANGED end

Compact ==
    /\ log' \subseteq log
    /\ \A r \in log \ log' : r.key # NoKey
    /\ View(log') = View(log)
    /\ UNCHANGED <<start, end>>

Next == Append \/ DropPrefix \/ Compact

Spec == Init /\ [][Next]_vars
==============================================================================
