---------------------------- MODULE SnapshotDelta ----------------------------
(***************************************************************************)
(* The text deltas of src/src/project_history.rs: one source stored as its *)
(* difference from another.  A source is a sequence of characters, each of *)
(* them one byte; Escaped are those that JSON writes with a backslash (a   *)
(* source is JSON text itself, so no other character needs one).           *)
(***************************************************************************)
EXTENDS Integers, Sequences, FiniteSetsExt

CONSTANTS Character, Escaped

Source == Seq(Character)

Shorter(s, t) == IF Len(s) <= Len(t) THEN Len(s) ELSE Len(t)

\* The length of a source inside a JSON document, with its quotes.
serialized_string_bytes(value) ==
    Len(value) + 2 + Cardinality({i \in DOMAIN value : value[i] \in Escaped})

common_prefix(base, target) ==
    Max({n \in 0..Shorter(base, target) : \A i \in 1..n : base[i] = target[i]})

\* What is already in the prefix is not looked at again.
common_suffix(base, target, prefix) ==
    Max({n \in 0..(Shorter(base, target) - prefix) :
            \A i \in 1..n : base[Len(base) - i + 1] = target[Len(target) - i + 1]})

\* The characters of a source between a prefix and a suffix.
Between(source, prefix, suffix) == SubSeq(source, prefix + 1, Len(source) - suffix)

\* The delta that turns base into target.
snapshot_delta(base, target) ==
    LET prefix == common_prefix(base, target)
        suffix == common_suffix(base, target, prefix)
    IN [prefix |-> prefix, suffix |-> suffix,
        replacement |-> Between(target, prefix, suffix),
        reverse_replacement_bytes |-> serialized_string_bytes(Between(base, prefix, suffix))]

InBounds(base, delta) == delta.prefix + delta.suffix <= Len(base)

apply_snapshot_delta(base, delta) ==
    SubSeq(base, 1, delta.prefix) \o delta.replacement
        \o SubSeq(base, Len(base) - delta.suffix + 1, Len(base))

\* A plausible slip: the size of the reverse replacement is not swapped with it.
ReverseKeepsSize(base, delta) ==
    [delta EXCEPT !.replacement = Between(base, delta.prefix, delta.suffix)]

\* The delta back to base from what delta makes of it.
reverse_delta(base, delta) ==
    [delta EXCEPT !.replacement = Between(base, delta.prefix, delta.suffix),
                  !.reverse_replacement_bytes = serialized_string_bytes(delta.replacement)]
=============================================================================
