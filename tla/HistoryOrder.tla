---------------------------- MODULE HistoryOrder ----------------------------
(***************************************************************************)
(* internal/storage/sqlite.SnapshotStore: observed_at is written as        *)
(* RFC3339Nano text and a history is ordered by that text.  PostgreSQL     *)
(* keeps the same text and orders it by the collation of the database,     *)
(* which is not modelled.                                                  *)
(*                                                                         *)
(* An instant is a second and the digits of its fraction, as many in every *)
(* instant.  A text is the sequence of its character codes; date and time  *)
(* to the second are as wide in every text, and ordered as the seconds     *)
(* are, so they count as one character.                                    *)
(***************************************************************************)
EXTENDS Integers, Sequences, SequencesExt

\* One sequence is after another, character by character, then by length:
\* SQLite's collation BINARY of texts, the order in time of instants.
After(s, t) ==
    \/ IsStrictPrefix(t, s)
    \/ \E i \in DOMAIN s \cap DOMAIN t :
          s[i] > t[i] /\ SubSeq(s, 1, i - 1) = SubSeq(t, 1, i - 1)

Dot == 46
Zero == 48
UTC == 90 \* "Z"

\* A fraction loses its trailing zeros.
Trimmed(fraction) ==
    LET nonzero == {i \in DOMAIN fraction : fraction[i] # 0}
    IN  SubSeq(fraction, 1, IF nonzero = {} THEN 0 ELSE Max(nonzero))

\* ObservedAt.UTC().Format(time.RFC3339Nano); a fraction of zeros has no point.
Format_seconds(at) == <<at.second>> \o <<UTC>>

Format(at) ==
    LET digits == [i \in DOMAIN Trimmed(at.fraction) |-> Zero + at.fraction[i]]
    IN  <<at.second>> \o (IF digits = <<>> THEN <<>> ELSE <<Dot>> \o digits) \o <<UTC>>

\* time.Parse(time.RFC3339Nano, observedAt), to an instant of `width` digits.
Parse(text, width) ==
    [second   |-> text[1],
     fraction |-> [i \in 1 .. width |->
                      IF i + 3 <= Len(text) THEN text[i + 2] - Zero ELSE 0]]

\* ORDER BY observed_at DESC: any order of rows that no text contradicts.
ListByResource(rows) ==
    {list \in SetToSeqs(rows) :
        \A i, j \in DOMAIN list :
            i < j => ~After(list[j].observed_at, list[i].observed_at)}

Row(at) == [observed_at |-> Format(at)]

-----------------------------------------------------------------------------
(* Property *)

Later(a, b) == After(<<a.second>> \o a.fraction, <<b.second>> \o b.fraction)

\* An instant is read back as it was written, and a history is newest first
\* ("newest first", docs/api.md:109) except for two observations within one
\* second, the fraction of the older being the beginning of the newer's: there
\* "Z" is compared with a digit or with the point, and the older comes first.
HistoryIsOrdered(instants, width) ==
    LET Misread(a, b) ==
            a.second = b.second
                /\ IsStrictPrefix(Trimmed(a.fraction), Trimmed(b.fraction))
        read(row) == Parse(row.observed_at, width)
        lists == ListByResource({Row(at) : at \in instants})
    IN  /\ \A at \in instants : read(Row(at)) = at
        /\ lists # {}
        /\ \A list \in lists : \A i, j \in DOMAIN list :
              i < j => (Later(read(list[j]), read(list[i]))
                           <=> Misread(read(list[i]), read(list[j])))
=============================================================================
