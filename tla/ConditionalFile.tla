-------------------------- MODULE ConditionalFile --------------------------
(***************************************************************************)
(* What publication promises to cooperating callers, without a lock, a     *)
(* temporary or an intent: the target is a register, a write conditional   *)
(* on what its caller read takes effect at one instant or not at all, at   *)
(* most one write is unresolved, a refused invocation never touched the    *)
(* register, and a write acknowledged without a durability warning is one  *)
(* that a power loss cannot undo.                                          *)
(***************************************************************************)
CONSTANTS Writers, Original, Missing, Anything, Nobody

VARIABLES
  value,       \* what a reader of the target finds
  survivors,   \* the values a power loss may leave
  phase,       \* how far each invocation is for its caller
  warning,     \* the invocations that returned with a durability warning
  basis,       \* the value each invocation depends on, or Anything
  unresolved   \* the write that is not resolved yet, or Nobody

vars == <<value, survivors, phase, warning, basis, unresolved>>

Init ==
  /\ value \in {Original, Missing}
  /\ survivors = {value}
  /\ phase = [w \in Writers |-> "idle"]
  /\ warning = {}
  /\ basis = [w \in Writers |-> Anything]
  /\ unresolved = Nobody

To(w, from, to) == phase[w] \in from /\ phase' = [phase EXCEPT ![w] = to]

Read(w) ==
  /\ To(w, {"idle"}, "open")
  /\ \E b \in {Anything, value} : basis' = [basis EXCEPT ![w] = b]
  /\ UNCHANGED <<value, survivors, warning, unresolved>>

\* The one instant at which an invocation takes effect.
Write(w) ==
  /\ To(w, {"open"}, "written")
  /\ unresolved = Nobody
  /\ basis[w] \in {Anything, value}
  /\ value' = w
  /\ survivors' = survivors \cup {w}
  /\ unresolved' = w
  /\ UNCHANGED <<warning, basis>>

Persist ==
  /\ survivors' = {value}
  /\ UNCHANGED <<value, phase, warning, basis, unresolved>>

Resolve(w) ==
  /\ phase[w] = "written"
  /\ unresolved = w
  /\ unresolved' = Nobody
  /\ UNCHANGED <<value, survivors, phase, warning, basis>>

\* Without a warning, only the written value can survive.
Acknowledge(w) ==
  /\ To(w, {"written"}, "published")
  /\ value = w
  /\ \/ survivors = {w} /\ UNCHANGED warning
     \/ warning' = warning \cup {w}
  /\ UNCHANGED <<value, survivors, basis, unresolved>>

\* The caller is told to reconcile; the write stays unresolved.
Doubt(w) ==
  /\ To(w, {"written"}, "indeterminate")
  /\ unresolved = w
  /\ warning' \in {warning, warning \cup {w}}
  /\ UNCHANGED <<value, survivors, basis, unresolved>>

Refuse(w) ==
  /\ To(w, {"open"}, "refused")
  /\ UNCHANGED <<value, survivors, warning, basis, unresolved>>

Die(w) ==
  /\ To(w, {"open", "written"}, "dead")
  /\ UNCHANGED <<value, survivors, warning, basis, unresolved>>

PowerLoss ==
  /\ value' \in survivors
  /\ survivors' = {value'}
  /\ phase' = [w \in Writers |-> IF phase[w] \in {"open", "written"} THEN "dead" ELSE phase[w]]
  /\ unresolved' \in Writers \cup {Nobody}
  /\ UNCHANGED <<warning, basis>>

Next ==
  \/ \E w \in Writers : \/ Read(w) \/ Write(w) \/ Resolve(w) \/ Acknowledge(w)
                        \/ Doubt(w) \/ Refuse(w) \/ Die(w)
  \/ Persist
  \/ PowerLoss

Spec == Init /\ [][Next]_vars
=============================================================================
