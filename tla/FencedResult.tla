----------------------------- MODULE FencedResult -----------------------------
(***************************************************************************)
(* What a lease queue promises, with no clock, no run states and no        *)
(* failures: per task a counter of tokens, at most one of which may write, *)
(* and a value written at most once.  A token once closed never opens      *)
(* again, so a slow holder of an old token can write nothing.              *)
(***************************************************************************)
EXTENDS Naturals

CONSTANTS Tasks, Values, NoValue, MaxTokens

VARIABLES
  token,  \* the last token given out for each task, 0 before the first
  open,   \* the tasks whose last token may still write
  value   \* what was written

vars == <<token, open, value>>

Init ==
  /\ token = [t \in Tasks |-> 0]
  /\ open = {}
  /\ value = [t \in Tasks |-> NoValue]

\* A new token; `usable` is FALSE when it is burnt as it is given out.
Issue(t, usable) ==
  /\ t \notin open
  /\ value[t] = NoValue
  /\ token[t] < MaxTokens
  /\ token' = [token EXCEPT ![t] = @ + 1]
  /\ open' = IF usable THEN open \cup {t} ELSE open
  /\ UNCHANGED value

Close(t) ==
  /\ t \in open
  /\ open' = open \ {t}
  /\ UNCHANGED <<token, value>>

Write(t, v) ==
  /\ t \in open
  /\ value[t] = NoValue
  /\ value' = [value EXCEPT ![t] = v]
  /\ open' = open \ {t}
  /\ UNCHANGED token

Next ==
  \E t \in Tasks :
    \/ \E usable \in BOOLEAN : Issue(t, usable)
    \/ Close(t)
    \/ \E v \in Values : Write(t, v)

Spec == Init /\ [][Next]_vars
=============================================================================
