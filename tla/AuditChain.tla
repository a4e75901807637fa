----------------------------- MODULE AuditChain -----------------------------
(***************************************************************************)
(* What the guard promises the control plane about its decisions: the rows *)
(* received from one writer only ever grow, and verify as a chain unless   *)
(* the writer has broken its chain, which it never undoes.                 *)
(***************************************************************************)
EXTENDS HashChain

VARIABLES log,      \* the rows the control plane holds
          broken    \* whether the writer has broken its chain

Init == log = {} /\ broken = FALSE

\* More rows arrive, and the chain still verifies or was already broken.
Receive ==
  /\ log \subseteq log'
  /\ broken \/ Verifies(log')
  /\ UNCHANGED broken

\* The writer skips rows the control plane does not hold, or re-uses an
\* earlier position.  What arrives from here on need not link.
Break ==
  /\ broken' = TRUE
  /\ UNCHANGED log

Next == Receive \/ Break

Spec == Init /\ [][Next]_<<log, broken>>
=============================================================================
