------------------------------ MODULE TokenBudget ------------------------------
(***************************************************************************)
(* The model-call budget of the scanner (scanner/src/aegify/llm/budget.py) *)
(* as a value and the operations on it; AgentCheckpoint owns such a value  *)
(* in each process.  Every method of the class is one operator.            *)
(*                                                                         *)
(* A budget keeps both a list of call receipts and running counters that   *)
(* are meant to say the same thing: the receipts are what is written into  *)
(* an artifact, the counters are what the next admission is decided on.    *)
(* The four native token counters are added wherever the code uses them    *)
(* and are one number here.  A call id is the position of its receipt.     *)
(* Only tests call record_usage, whose counters have no receipt: it and    *)
(* the usage status "legacy" are left out.                                 *)
(***************************************************************************)
EXTENDS Integers, Sequences, FiniteSets, SequencesExt, PartialSums

CONSTANTS
  TotalBudget,      \* total_budget, in estimated tokens
  MaxCalls,         \* max_calls
  MaxTotalPrompt,   \* MAX_TOTAL_PROMPT_BYTES
  MaxOutput         \* MAX_OUTPUT_TOKENS_REQUESTED

ASSUME BudgetAssumption ==
  /\ TotalBudget \in Nat
  /\ MaxCalls \in Nat \ {0}
  /\ MaxTotalPrompt \in Nat
  /\ MaxOutput \in Nat

(***************************************************************************)
(* What a caller asks for: estimated input tokens plus requested output    *)
(* tokens, the output part alone, and the bytes of the prompt.  No call    *)
(* is without a prompt and a requested output: reserve refuses it.         *)
(***************************************************************************)
Ask == [tokens : Nat \ {0}, output : Nat \ {0}, bytes : Nat \ {0}]

CallStates == {"dispatched", "completed", "rejected", "unknown"}

\* usage_status of a receipt: both mandatory counters were reported, some
\* counter was, or none.
Reports == {"reported", "partial", "unknown"}

Receipts == [ask : Ask, state : CallStates, usage : Reports, reported : Nat]

NewReceipt(ask) ==
  [ask |-> ask, state |-> "dispatched", usage |-> "unknown", reported |-> 0]

Unused == [used |-> 0, unknown |-> 0, bytes |-> 0, output |-> 0, refused |-> 0,
           calls |-> <<>>, pending |-> {}]

Larger(x, y) == IF x > y THEN x ELSE y

\* What stays reserved when a call's usage is not known in full.
Remainder(ask, reported) == Larger(0, ask.tokens - reported)

TotalUsed(b) == b.used

\* The amounts of the pending calls.
PendingTokens(b) ==
  [i \in DOMAIN b.calls |-> IF i \in b.pending THEN b.calls[i].ask.tokens ELSE 0]

Reserved(b) == b.unknown + SumTo(PendingTokens(b), Len(b.calls))

Remaining(b) == Larger(0, TotalBudget - TotalUsed(b) - Reserved(b))

CanSpend(b, tokens) == tokens <= Remaining(b) /\ Len(b.calls) < MaxCalls

\* The conditions of reserve, in the order of the code.
Admits(b, ask) ==
  /\ CanSpend(b, ask.tokens)
  /\ b.bytes + ask.bytes <= MaxTotalPrompt
  /\ b.output + ask.output <= MaxOutput

RejectCall(b) == [b EXCEPT !.refused = @ + 1]

ReserveCall(b, ask) ==
  [b EXCEPT !.pending = b.pending \cup {Len(b.calls) + 1},
            !.calls = Append(b.calls, NewReceipt(ask)),
            !.bytes = b.bytes + ask.bytes,
            !.output = b.output + ask.output]

SettledReceipt(receipt, reported, usage, state) ==
  [receipt EXCEPT !.state = state, !.reported = reported, !.usage = usage]

SettleCall(b, id, reported, usage, state) ==
  [b EXCEPT !.pending = b.pending \ {id},
            !.used = b.used + reported,
            !.unknown = IF usage = "reported" THEN b.unknown
                        ELSE b.unknown + Remainder(b.calls[id].ask, reported),
            !.calls = [b.calls EXCEPT
                        ![id] = SettledReceipt(b.calls[id], reported, usage, state)]]

Uncertain(b) == {i \in DOMAIN b.calls : b.calls[i].usage # "reported"}

UsageStatus(b) ==
  CASE b.calls = <<>> -> "not_used"
    [] b.calls # <<>> /\ Uncertain(b) = {} -> "reported"
    [] OTHER -> IF \E i \in DOMAIN b.calls : b.calls[i].usage # "unknown"
                THEN "partial" ELSE "unknown"

(***************************************************************************)
(* get_token_usage: what is published and saved.  The list of pending ids  *)
(* is not part of it, only the number of tokens they hold.                 *)
(***************************************************************************)
Usage(b) ==
  [used |-> b.used, reserved |-> Reserved(b), bytes |-> b.bytes,
   output |-> b.output, refused |-> b.refused,
   uncertain |-> Cardinality(Uncertain(b)), status |-> UsageStatus(b),
   calls |-> b.calls]

\* TokenUsage: the values Usage takes.
Usages ==
  [used : Nat, reserved : Nat, bytes : Nat, output : Nat, refused : Nat, uncertain : Nat,
   status : {"not_used"} \cup Reports, calls : Seq(Receipts)]

\* What each receipt counts, and what it holds back.
ReportedTokens(calls) == [i \in DOMAIN calls |-> calls[i].reported]
HeldTokens(calls) ==
  [i \in DOMAIN calls |-> IF calls[i].usage = "reported" THEN 0
                          ELSE Remainder(calls[i].ask, calls[i].reported)]
PromptBytes(calls) == [i \in DOMAIN calls |-> calls[i].ask.bytes]
OutputTokens(calls) == [i \in DOMAIN calls |-> calls[i].ask.output]

\* The budget that the receipts of a saved usage amount to.
FromReceipts(usage) ==
  LET Total(counts) == SumTo(counts, Len(usage.calls))
  IN [used |-> Total(ReportedTokens(usage.calls)),
      unknown |-> Total(HeldTokens(usage.calls)),
      bytes |-> Total(PromptBytes(usage.calls)),
      output |-> Total(OutputTokens(usage.calls)),
      refused |-> usage.refused,
      calls |-> usage.calls,
      pending |-> {}]

\* restore_usage succeeds only into an unused budget, and only with a snapshot
\* whose receipts are settled and add up to its counters.
CanRestore(b, usage) ==
  /\ b.calls = <<>> /\ TotalUsed(b) = 0 /\ b.pending = {}
  /\ Len(usage.calls) <= MaxCalls
  /\ \A i \in DOMAIN usage.calls : usage.calls[i].state # "dispatched"
  /\ Usage(FromReceipts(usage)) = usage
================================================================================
