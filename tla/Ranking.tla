------------------------------ MODULE Ranking ------------------------------
(***************************************************************************)
(* One call of rank::select: the exclusion window, the order, the rules    *)
(* for variety and the token budget.                                       *)
(*                                                                         *)
(* The score is arithmetic on embeddings, and any order may come of it;    *)
(* what the code fixes is that passages never played come first.  Consider *)
(* takes the best of the remaining passages.  Whether a passage is a near  *)
(* duplicate of a chosen one is any answer too: a pair is compared once.   *)
(***************************************************************************)
EXTENDS Integers, FiniteSets

CONSTANTS BudgetTokens, PerDocument

VARIABLES
  candidates,  \* what the store returned for this listener
  remaining,   \* passages not yet considered
  chosen,
  used,        \* the token_counts of the chosen
  duplicates,  \* ghost: passages left out as near duplicates
  status       \* "idle", "selecting", or the answer

rankingVars == <<candidates, remaining, chosen, used, duplicates, status>>

ASSUME BudgetAssumption == BudgetTokens \in Nat /\ PerDocument \in Nat \ {0}

(* last_played, against the window of 30 days. *)
Played == {"never", "recently", "long_ago"}

RankingInit ==
  /\ candidates = {} /\ remaining = {} /\ chosen = {} /\ duplicates = {}
  /\ used = 0
  /\ status = "idle"

Excluded(c) == c.played = "recently"

Select(cs) ==
  LET scored == {c \in cs : ~Excluded(c)} IN
  /\ status = "idle"
  /\ candidates' = cs
  /\ remaining' = scored
  /\ status' = IF cs = {} THEN "none" ELSE IF scored = {} THEN "exhausted" ELSE "selecting"
  /\ UNCHANGED <<chosen, used, duplicates>>

(* A bug for the mutant runs: by the score alone. *)
ByScore(c) == TRUE
NeverPlayedFirst(c) ==
  c.played = "never" \/ \A x \in remaining : x.played # "never"

CapReached(c) == Cardinality({x \in chosen : x.document = c.document}) >= PerDocument

OverBudget(c) == chosen # {} /\ used + c.tokens > BudgetTokens

Consider(c) ==
  /\ status = "selecting"
  /\ NeverPlayedFirst(c)
  /\ UNCHANGED <<candidates, status>>
  /\ \/ /\ CapReached(c)
        /\ remaining' = remaining \ {c}
        /\ UNCHANGED <<chosen, used, duplicates>>
     \/ /\ ~CapReached(c) /\ chosen # {}
        /\ remaining' = remaining \ {c}
        /\ duplicates' = duplicates \cup {c}
        /\ UNCHANGED <<chosen, used>>
     \/ /\ ~CapReached(c) /\ OverBudget(c)
        /\ remaining' = {}
        /\ UNCHANGED <<chosen, used, duplicates>>
     \/ /\ ~CapReached(c) /\ ~OverBudget(c)
        /\ remaining' = remaining \ {c}
        /\ chosen' = chosen \cup {c}
        /\ used' = used + c.tokens
        /\ UNCHANGED duplicates

Answer ==
  /\ status = "selecting" /\ remaining = {}
  /\ status' = "ok"
  /\ UNCHANGED <<candidates, remaining, chosen, used, duplicates>>
=============================================================================
