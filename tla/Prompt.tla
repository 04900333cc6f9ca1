------------------------------- MODULE Prompt -------------------------------
(***************************************************************************)
(* The prompt of a run: the slots the builder makes (context/builder.ts),   *)
(* what they weigh (context/token_estimator.ts) and which of them the       *)
(* packer keeps within the budget (context/packer.ts).  A text is its       *)
(* weight in tokens.  The slots for projects and verbose transcripts are    *)
(* left out: the compiler never gives them.                                *)
(***************************************************************************)
EXTENDS Naturals, Sequences, Functions

CONSTANTS
  Budget,           \* DEFAULT_BUDGET
  IdentityTokens,   \* DEFAULT_IDENTITY
  SchemaTokens,     \* SUMMARY_SYSTEM_IDENTITY
  JudgmentTokens,   \* the eligible judgments
  SummaryTokens,    \* the latest summary
  TurnTokens,       \* one turn
  ItemTokens        \* one memory item

ASSUME PromptAssumption ==
  {Budget, IdentityTokens, SchemaTokens, JudgmentTokens, SummaryTokens, TurnTokens, ItemTokens}
    \subseteq Nat

Floor == {"user_message", "system_identity"}

Priority == [user_message |-> 1000, system_identity |-> 900, judgment_active |-> 790,
             current_session_summary |-> 760, recent_turns |-> 500,
             memory_user_stated |-> 450, memory_other |-> 300]

(* The slots of a snapshot and what they weigh.  Resuming, the CLI has the  *)
(* history itself and gets the judgments only.                             *)
Built(mode, user, identity, judged, summarised, turns, stated, other) ==
  LET weight == [user_message |-> user, system_identity |-> identity,
                 judgment_active |-> JudgmentTokens, current_session_summary |-> SummaryTokens,
                 recent_turns |-> TurnTokens * turns, memory_user_stated |-> ItemTokens * stated,
                 memory_other |-> ItemTokens * other]
      present == Floor
                 \cup (IF judged THEN {"judgment_active"} ELSE {})
                 \cup (IF mode = "replay_mode"
                       THEN (IF summarised THEN {"current_session_summary"} ELSE {})
                            \cup (IF turns > 0 THEN {"recent_turns"} ELSE {})
                            \cup (IF stated > 0 THEN {"memory_user_stated"} ELSE {})
                            \cup (IF other > 0 THEN {"memory_other"} ELSE {})
                       ELSE {})
  IN  [s \in present |-> weight[s]]

(* Even the floor is too much: PromptOverflowError.                        *)
Overflows(snapshot) == SumFunctionOnSet(snapshot, DOMAIN snapshot \cap Floor) > Budget

(* A bug: the order is that of the priorities, highest first.              *)
Lowest(S) == CHOOSE s \in S : \A t \in S : Priority[s] <= Priority[t]

(* The slot among S whose turn comes last.                                 *)
Highest(S) == CHOOSE s \in S : \A t \in S : Priority[t] <= Priority[s]

(* A slot's turn in the loop: once the rest fits there is nothing to do.   *)
Drop(snapshot, s, acc) ==
  IF acc.total <= Budget THEN acc
  ELSE [dropped |-> acc.dropped \cup {s}, total |-> acc.total - snapshot[s]]

(* The loop over the droppable slots, lowest priority first.               *)
Dropped(snapshot) ==
  MapThenFoldSet(LAMBDA s, acc : Drop(snapshot, s, acc),
                 [dropped |-> {}, total |-> SumFunction(snapshot)],
                 LAMBDA s : s, Highest, DOMAIN snapshot \ Floor).dropped

-----------------------------------------------------------------------------
(* What keeps and drops have to be, said without the loop.                 *)
Fits(snapshot, kept) == SumFunctionOnSet(snapshot, kept) <= Budget

(* The lower slots go first, and none goes that there was room for.        *)
WellPacked(snapshot, kept) ==
  /\ Floor \subseteq kept /\ kept \subseteq DOMAIN snapshot /\ Fits(snapshot, kept)
  /\ \A d \in DOMAIN snapshot \ kept :
       /\ \A k \in kept : Priority[d] < Priority[k]
       /\ (\A e \in DOMAIN snapshot \ kept : Priority[e] <= Priority[d])
            => ~ Fits(snapshot, kept \cup {d})
=============================================================================
