----------------------------- MODULE MessageLog -----------------------------
(***************************************************************************)
(* What the logging streams promise their callers, with no ring buffer, no *)
(* lock and no worker: a message that a call has queued is emitted by the  *)
(* stream's handler once, after those queued on that stream before it; a   *)
(* synchronous message is emitted at once, ahead of whatever is queued; no *)
(* stream ever has more than Capacity messages between the two.            *)
(***************************************************************************)
EXTENDS Naturals, Sequences

CONSTANTS Streams,    \* the output streams
          Messages,   \* one element per call: no two calls are the same message
          Capacity    \* queued and not yet emitted, at most

VARIABLES pending,    \* pending[s]: accepted and not yet emitted, oldest first
          out         \* out[s]: what the stream's handler has emitted

logVars == <<pending, out>>

Elements(seq) == {seq[i] : i \in DOMAIN seq}

\* A message no stream holds yet: every call is accepted or emitted at most once.
Fresh(m) == \A s \in Streams : m \notin Elements(pending[s]) \cup Elements(out[s])

Init ==
  /\ pending = [s \in Streams |-> <<>>]
  /\ out     = [s \in Streams |-> <<>>]

Accept(s, m) ==
  /\ Fresh(m)
  /\ Len(pending[s]) < Capacity
  /\ pending' = [pending EXCEPT ![s] = Append(@, m)]
  /\ UNCHANGED out

Emit(s) ==
  /\ pending[s] # <<>>
  /\ out'     = [out EXCEPT ![s] = Append(@, Head(pending[s]))]
  /\ pending' = [pending EXCEPT ![s] = Tail(@)]

EmitNow(s, m) ==
  /\ Fresh(m)
  /\ out' = [out EXCEPT ![s] = Append(@, m)]
  /\ UNCHANGED pending

Next ==
  \E s \in Streams :
    \/ \E m \in Messages : Accept(s, m) \/ EmitNow(s, m)
    \/ Emit(s)

Spec == Init /\ [][Next]_logVars
=============================================================================
