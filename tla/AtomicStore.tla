---------------------------- MODULE AtomicStore ----------------------------
(***************************************************************************)
(* What the store promises of its transactions: the content changes only   *)
(* by all writes of one open transaction at once, and a transaction that   *)
(* ended any other way has changed nothing.  Store implements it.          *)
(***************************************************************************)
CONSTANTS Tx, Key, Value, None

VARIABLES
  content,  \* content[k]: the value of k, None when there is none
  open,     \* the transactions that may still write
  writes    \* writes[t][k]: what t has written to k, None when nothing

vars == <<content, open, writes>>

Nothing == [k \in Key |-> None]

Overlay(c, ws) == [k \in Key |-> IF ws[k] = None THEN c[k] ELSE ws[k]]

Init ==
  /\ content = Nothing
  /\ open = {}
  /\ writes = [t \in Tx |-> Nothing]

Begin(t) ==
  /\ t \notin open
  /\ open' = open \cup {t}
  /\ UNCHANGED <<content, writes>>

Write(t, k, v) ==
  /\ t \in open
  /\ writes' = [writes EXCEPT ![t][k] = v]
  /\ UNCHANGED <<content, open>>

Apply(t) ==
  /\ t \in open
  /\ content' = Overlay(content, writes[t])
  /\ open' = open \ {t}
  /\ writes' = [writes EXCEPT ![t] = Nothing]

\* Rolled back, refused, or lost in a crash: one transaction or all of them.
Drop(S) ==
  /\ open' = open \ S
  /\ writes' = [t \in Tx |-> IF t \in S THEN Nothing ELSE writes[t]]
  /\ UNCHANGED content

Next ==
  \/ \E t \in Tx :
       \/ Begin(t) \/ Apply(t)
       \/ \E k \in Key, v \in Value : Write(t, k, v)
  \/ \E S \in SUBSET Tx : Drop(S)

Spec == Init /\ [][Next]_vars
=============================================================================
