---------------------------- MODULE ChatContext -----------------------------
(***************************************************************************)
(* A ChatSession (wd-chat) whose messages the ContextManager trims for     *)
(* the model's window, with the TokenEstimator of wd-llm.                  *)
(*                                                                         *)
(* Abstracted: a message is its role and the length of its text;           *)
(* messages of a session call no tools; the definitions of the tools are   *)
(* their estimate.                                                         *)
(***************************************************************************)
EXTENDS Integers, Sift

CONSTANTS
  TextLength,  \* bound: lengths of texts
  MaxTalk,     \* bound: messages of a session
  PromptLength, \* length of the system prompt; 0 when it is empty
  ToolTokens,  \* estimate_tools of the tools on offer
  Configs      \* the ContextConfigs

ASSUME ChatAssumption ==
  /\ TextLength \subseteq Nat /\ MaxTalk \in Nat /\ PromptLength \in Nat /\ ToolTokens \in Nat
  /\ Configs \subseteq
       [strategy : {"sliding_window", "pinned_ends", "drop_oldest", "smart", "truncate"},
        max : Nat, reserved : Nat, window : Nat, pinned : Nat]

VARIABLES
  talk,     \* ChatSession.messages
  counted,  \* SessionMetadata.total_messages
  config,   \* configuration of the last trim; {} before
  trimmed   \* what it returned

chatVars == <<talk, counted, config, trimmed>>

(***************************************************************************)
(* TokenEstimator.                                                         *)
(***************************************************************************)
EstimateTokens(length) == (length + 3) \div 4
EstimateMessage(m) == EstimateTokens(m.length) + 4
Tokens(s) == Total([i \in DOMAIN s |-> EstimateMessage(s[i])])
EstimateMessages(s) == 3 + Tokens(s)

FitsContext(s, c) == EstimateMessages(s) + ToolTokens + c.reserved <= c.max

\* saturating_sub.
Minus(a, b) == IF a > b THEN a - b ELSE 0

SystemPart(s) == Sift(s, {i \in DOMAIN s : s[i].role = "system"})
TalkPart(s) == Sift(s, {i \in DOMAIN s : s[i].role # "system"})
From(s, k) == SubSeq(s, k, Len(s))
LeastOf(S) == CHOOSE n \in S : \A k \in S : n <= k
GreatestOf(S) == CHOOSE n \in S : \A k \in S : n >= k

\* Messages are added from the newest back until one does not fit in room.
NewestWithin(s, room) ==
  From(s, LeastOf({Len(s) + 1} \cup {k \in DOMAIN s : Tokens(From(s, k)) <= room}))
OldestWithin(s, room) ==
  SubSeq(s, 1, GreatestOf({0} \cup {k \in DOMAIN s : Tokens(SubSeq(s, 1, k)) <= room}))

(***************************************************************************)
(* ContextManager.                                                         *)
(***************************************************************************)
Budget(c) == Minus(c.max, c.reserved)

TrimSliding(s, c) ==
  LET rest == TalkPart(s) IN SystemPart(s) \o From(rest, 1 + Minus(Len(rest), c.window))

\* The room is that of the whole budget.
TrimDropOldestIgnoringSystem(s, c) ==
  SystemPart(s) \o NewestWithin(TalkPart(s), Budget(c))

TrimDropOldest(s, c) ==
  SystemPart(s) \o
    NewestWithin(TalkPart(s), Budget(c) - Tokens(SystemPart(s)) - ToolTokens)

TrimPinnedEnds(s, c) ==
  LET rest == TalkPart(s)
      kept == SystemPart(s) \o <<rest[1]>>
  IN IF rest = <<>> THEN SystemPart(s)
     ELSE kept \o NewestWithin(Tail(rest), Budget(c) - Tokens(kept) - ToolTokens)

TrimSmart(s, c) ==
  LET rest == TalkPart(s)
      start == Minus(Len(rest), c.pinned)
      pinned == From(rest, start + 1)
      room == Budget(c) - Tokens(SystemPart(s)) - ToolTokens - Tokens(pinned)
  IN SystemPart(s) \o OldestWithin(SubSeq(rest, 1, start), room) \o pinned

\* TokenEstimator::truncate_to_budget: drops the oldest message that is not the
\* system's until the rest fits or one message or no such message is left.
Truncate(s, c) ==
  LET budget == Minus(c.max, ToolTokens + c.reserved)
      rest == TalkPart(s)
      After(n) == SystemPart(s) \o From(rest, n + 1)
  IN After(LeastOf({Len(rest)} \cup
             {n \in 0..Len(rest) : EstimateMessages(After(n)) <= budget
                                     \/ Len(After(n)) <= 1}))

Trim(s, c) ==
  CASE c.strategy = "sliding_window" -> TrimSliding(s, c)
    [] c.strategy = "drop_oldest" -> TrimDropOldest(s, c)
    [] c.strategy = "pinned_ends" -> TrimPinnedEnds(s, c)
    [] c.strategy = "smart" -> TrimSmart(s, c)
    [] c.strategy = "truncate" -> Truncate(s, c)

BuildMessages ==
  (IF PromptLength = 0 THEN <<>> ELSE <<[role |-> "system", length |-> PromptLength]>>) \o talk

ChatInit ==
  /\ talk = <<>>
  /\ counted = 0
  /\ config = {}
  /\ trimmed = <<>>

AddMessage(role, length) ==
  /\ Len(talk) < MaxTalk
  /\ talk' = Append(talk, [role |-> role, length |-> length])
  /\ counted' = counted + 1
  /\ UNCHANGED <<config, trimmed>>

TrimForModel(c) ==
  /\ config' = {c}
  /\ trimmed' = Trim(BuildMessages, c)
  /\ UNCHANGED <<talk, counted>>

ChatNext ==
  \/ \E role \in {"user", "assistant"}, length \in TextLength : AddMessage(role, length)
  \/ \E c \in Configs : TrimForModel(c)

ChatSpec == ChatInit /\ [][ChatNext]_chatVars

(***************************************************************************)
(* Properties.                                                             *)
(***************************************************************************)
\* What a strategy keeps whatever it costs.
Mandatory(s, c) ==
  SystemPart(s) \o
    (CASE c.strategy = "drop_oldest" -> <<>>
       [] c.strategy = "pinned_ends" -> IF TalkPart(s) = <<>> THEN <<>> ELSE <<TalkPart(s)[1]>>
       [] c.strategy = "smart" -> From(TalkPart(s), 1 + Minus(Len(TalkPart(s)), c.pinned))
       [] c.strategy = "truncate" ->
            IF PromptLength = 0 /\ s # <<>> THEN <<s[Len(s)]>> ELSE <<>>)

\* A trimmed conversation overruns the budget only by what its strategy always
\* keeps (context.rs 116-249, token.rs 86-109); the sliding window does not look
\* at the budget.  truncate_to_budget leaves room for the 3 tokens fits_context
\* adds, the strategies do not, so what they trim may fail ContextManager::fits.
TrimKeepsBudget ==
  \A c \in config :
    c.strategy # "sliding_window" =>
      \/ Len(trimmed) = Len(Mandatory(trimmed, c))
      \/ /\ Tokens(trimmed) + ToolTokens <= Budget(c)
         /\ c.strategy = "truncate" => FitsContext(trimmed, c)

=============================================================================
