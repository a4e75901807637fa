------------------------------ MODULE HashChain ------------------------------
(***************************************************************************)
(* A hash chain as the control plane verifies it.  Verification is linkage *)
(* only (decisions.go:40-44): a row names the row before it by hash.  A    *)
(* hash is a positive number, equal for two rows only if they are the same *)
(* row; Genesis stands for the "0" that precedes the first row.            *)
(*                                                                         *)
(* The rows of one writer form a set: a row received twice is one row.     *)
(***************************************************************************)
EXTENDS Naturals, Sequences

Genesis == 0

Hashes(rows) == {r.hash : r \in rows}

\* A row may hang from the genesis or from a row of the set, and nowhere else.
Gapless(rows) == \A r \in rows : r.prev \in Hashes(rows) \cup {Genesis}

\* No two rows claim the same predecessor.
Unforked(rows) == \A r, s \in rows : r.prev = s.prev => r = s

Verifies(rows) == Gapless(rows) /\ Unforked(rows)

\* A queue in chain order: each row follows the one before it.
Follows(r, s) == r.prev = s.hash /\ r.seq = s.seq + 1

Contiguous(q) == \A i \in 1 .. Len(q) - 1 : Follows(q[i + 1], q[i])
=============================================================================
