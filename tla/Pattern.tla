------------------------------- MODULE Pattern -------------------------------
(***************************************************************************)
(* The matchers of internal/pattern/match.go, as sessions use them: Prefix *)
(* without a tail, which is All of one Equal for each word.                *)
(***************************************************************************)
EXTENDS Integers, Sequences

\* One turn of the loop of all.Match, with an equalityMatcher.
Turn(st, word) ==
  LET hit == st.rest # <<>> /\ Head(st.rest) = word
      rest == IF hit THEN Tail(st.rest) ELSE st.rest
  IN  IF st.over THEN st
      ELSE [over |-> ~hit \/ rest = <<>>, valid |-> hit, rest |-> rest,
            matches |-> IF hit THEN st.matches + 1 ELSE st.matches]

Loop(input, words) ==
  LET st[i \in 0..Len(words)] ==
        IF i = 0 THEN [over |-> FALSE, valid |-> TRUE, rest |-> input, matches |-> 0]
        ELSE Turn(st[i - 1], words[i])
  IN  st[Len(words)]

\* Fault: the matchers that were not reached are not missed.
MatchSoFar(input, words) ==
  LET st == Loop(input, words) IN st.valid /\ st.rest = <<>>

Match(input, words) ==
  LET st == Loop(input, words) IN st.valid /\ st.rest = <<>> /\ st.matches = Len(words)
=============================================================================
