----------------------------- MODULE MCRecorder -----------------------------
(* Small instances of Recorder.                                            *)
EXTENDS Recorder

\* One request, allowed or denied.
MCOutcomes ==
  {[sig |-> "s1", decision |-> "allow", redacted |-> FALSE],
   [sig |-> "s1", decision |-> "deny",  redacted |-> FALSE]}

\* Requests whose bodies are redacted now and then.
MCRedacted ==
  {[sig |-> s, decision |-> "allow", redacted |-> r] : s \in Sigs, r \in BOOLEAN}
=============================================================================
