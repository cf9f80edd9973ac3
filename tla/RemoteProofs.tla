---------------------------- MODULE RemoteProofs ----------------------------
(***************************************************************************)
(* The parts that speak to other machines: a run of the agent keeps to its *)
(* limits and answers every tool call, for any tools, lists, limits and    *)
(* costs; the throttle grants no more than the bucket holds and the window *)
(* refills, and nothing while a backoff lasts, for every profile and any   *)
(* clock; the waits between retries never shrink; the pieces of a streamed *)
(* call arrive under its id; and a trimmed conversation overruns its       *)
(* budget only by what is always kept.                                     *)
(*                                                                         *)
(* The agent's properties need to be strengthened while a response is      *)
(* awaited and while its calls are worked through: the first by what was   *)
(* paid before the response, the second by the message being answered.     *)
(* The throttle's is about the grants still covered by the bucket: what    *)
(* was granted since grant i, with the tokens that are left, is at most    *)
(* what the bucket held and what was refilled from that grant on.          *)
(***************************************************************************)
EXTENDS AgentRun, LlmStream, ChatContext, Throttle, RetryPolicy,
        SiftProofs, SequenceTheorems, TLAPS

(* The agent.                                                             *)

Costs == ResponseCost \cup {0}

RunTypes ==
  /\ at \in {"idle", "loop", "complete", "tools", "finish"}
  /\ asked \in Nat
  /\ spent \in Nat

\* While a response is awaited, the ones before it are paid for.
Paid ==
  /\ at = "idle" => asked = 0 /\ spent = 0
  /\ asked <= MaxIterations
  /\ at = "complete" => asked >= 1 /\ spent <= (asked - 1) * CostCap /\ spent < MaxCost
  /\ at # "complete" => spent <= asked * CostCap
  /\ spent > 0 => spent < MaxCost + CostCap

SpendInv == RunTypes /\ Paid

\* The calls of a message, and that they are answered in their places.
CallsIn(msg) == IF msg.role = "assistant" THEN msg.calls ELSE <<>>
Settled(ms, i) ==
  \A j \in DOMAIN CallsIn(ms[i]) :
    i + j \in 1..Len(ms) /\ ms[i + j] = ToolResult(CallsIn(ms[i])[j])
AllSettled(ms, n) == \A i \in 1..n : Settled(ms, i)

\* Message m asked for calls c, of which d are answered and q are left.
Pending(ms, q, m, c, d) ==
  /\ m \in 1..Len(ms)
  /\ ms[m] = ToolCalls(c)
  /\ d <= Len(c) /\ Len(ms) = m + d /\ Len(q) = Len(c) - d
  /\ \A k \in 1..Len(q) : q[k] = c[d + k]
  /\ \A j \in 1..d : ms[m + j] = ToolResult(c[j])
  /\ AllSettled(ms, m - 1)

AnswerInv ==
  /\ messages \in Seq(AgentMessage)
  /\ queue \in Seq(Tool)
  /\ at # "tools" => AllSettled(messages, Len(messages))
  /\ at = "tools" => \E m \in Nat, c \in Seq(Tool), d \in Nat : Pending(messages, queue, m, c, d)

-----------------------------------------------------------------------------
(* Costs *)

LEMMA Bill ==
  ASSUME NEW n \in Nat, NEW c \in Nat
  PROVE  n * c \in Nat /\ (n + 1) * c = n * c + c
OBVIOUS

LEMMA SpendStep == SpendInv /\ [AgentNext]_agentVars => SpendInv'
<1> SUFFICES ASSUME SpendInv, [AgentNext]_agentVars PROVE SpendInv'
  OBVIOUS
<1>1. CostCap \in Nat /\ MaxCost \in Nat /\ MaxIterations \in Nat
  BY AgentAssumption
<1>2. asked \in Nat /\ spent \in Nat
  BY DEF SpendInv, RunTypes
<1>3. ASSUME UNCHANGED <<at, asked, spent>> PROVE SpendInv'
  BY <1>3 DEF SpendInv, RunTypes, Paid
<1>4. CASE Host
  <2>1. CASE StartRun
    BY <1>1, <2>1, Bill DEF StartRun, SpendInv, RunTypes, Paid
  <2>2. UNCHANGED <<at, asked, spent>> \/ StartRun
    BY <1>4 DEF Host, BlockTool, AllowTool, ConfirmTool, RecordToolCall, ResetSandbox,
                Configure, Remember, runVars
  <2> QED
    BY <1>3, <2>1, <2>2
<1>5. CASE Stop /\ at # "idle"
  <2>1. at' = "finish" /\ asked' = asked /\ spent' = spent
    BY <1>5 DEF Stop
  <2>2. CASE at = "complete"
    <3>1. PICK n \in Nat : asked = n + 1
      <4>1. asked - 1 \in Nat
        BY <1>2, <2>2 DEF SpendInv, Paid
      <4> QED
        BY <1>2, <4>1
    <3>2. n * CostCap \in Nat /\ asked * CostCap = n * CostCap + CostCap
      BY <1>1, <3>1, Bill
    <3>3. asked - 1 = n
      BY <3>1
    <3> QED
      BY <1>1, <1>2, <2>1, <2>2, <3>2, <3>3 DEF SpendInv, RunTypes, Paid
  <2> QED
    BY <2>1, <2>2 DEF SpendInv, RunTypes, Paid
<1>6. CASE Ask
  <2>1. /\ at = "loop" /\ at' = "complete" /\ asked' = asked + 1 /\ spent' = spent
        /\ asked < MaxIterations /\ spent < MaxCost
    BY <1>6 DEF Ask
  <2>2. asked' - 1 = asked
    BY <1>2, <2>1
  <2> QED
    BY <1>1, <1>2, <2>1, <2>2 DEF SpendInv, RunTypes, Paid
<1>7. CASE Responds
  <2>1. PICK r \in Response : CallsTools(r) \/ EndsTurn(r)
    BY <1>7 DEF Responds
  <2>2. r.cost \in Costs
    BY DEF Response, Costs
  <2>3. r.cost \in 0..CostCap
    <3>1. ResponseCost \subseteq 0..CostCap
      BY AgentAssumption
    <3>2. \A x \in ResponseCost \cup {0} : x \in ResponseCost \/ x = 0
      OBVIOUS
    <3>3. CASE r.cost \in ResponseCost
      BY <3>1, <3>3
    <3>4. CASE r.cost = 0
      BY <1>1, <3>4
    <3> QED
      BY <2>2, <3>2, <3>3, <3>4, Zenon DEF Costs
  <2>4. at = "complete" /\ asked' = asked /\ spent' = spent + r.cost
        /\ at' \in {"tools", "loop", "finish"}
    BY <2>1 DEF CallsTools, EndsTurn
  <2>5. PICK n \in Nat : asked = n + 1
    <3>1. asked - 1 \in Nat
      BY <1>2, <2>4 DEF SpendInv, Paid
    <3> QED
      BY <1>2, <3>1
  <2>6. n * CostCap \in Nat /\ asked * CostCap = n * CostCap + CostCap
    BY <1>1, <2>5, Bill
  <2>7. spent <= n * CostCap /\ spent < MaxCost /\ asked <= MaxIterations
    BY <2>4, <2>5 DEF SpendInv, Paid
  <2> QED
    BY <1>1, <1>2, <2>3, <2>4, <2>6, <2>7 DEF SpendInv, RunTypes, Paid
<1>8. CASE BlockCall \/ ExecuteCall
  BY <1>3, <1>8 DEF BlockCall, ExecuteCall, NextCall
<1>9. CASE FeedBack
  BY <1>9 DEF FeedBack, SpendInv, RunTypes, Paid
<1>10. CASE Finish
  BY <1>1, <1>10, Bill DEF Finish, SpendInv, RunTypes, Paid
<1>11. CASE UNCHANGED agentVars
  BY <1>3, <1>11 DEF agentVars
<1> QED
  BY <1>4, <1>5, <1>6, <1>7, <1>8, <1>9, <1>10, <1>11
  DEF AgentNext, RunStep, IterationLimit, BudgetExhausted, CompletionFails

-----------------------------------------------------------------------------
(* Answers *)

LEMMA BatchSeq ==
  ASSUME NEW b \in Batch
  PROVE  b \in Seq(Tool) /\ Len(b) >= 1
<1>1. PICK n \in 1..MaxBatch : b \in [1..n -> Tool]
  BY DEF Batch
<1>2. n \in Nat
  BY <1>1, AgentAssumption
<1> QED
  BY <1>1, <1>2, SeqDef

\* A message more leaves the answers in their places.
LEMMA StaySettled ==
  ASSUME NEW ms \in Seq(AgentMessage), NEW x \in AgentMessage, NEW n \in 0..Len(ms),
         AllSettled(ms, n)
  PROVE  AllSettled(Append(ms, x), n)
<1> DEFINE new == Append(ms, x)
<1>1. Len(new) = Len(ms) + 1 /\ \A i \in 1..Len(ms) : new[i] = ms[i]
  OBVIOUS
<1> HIDE DEF new
<1>2. ASSUME NEW i \in 1..n, NEW j \in DOMAIN CallsIn(new[i])
      PROVE  i + j \in 1..Len(new) /\ new[i + j] = ToolResult(CallsIn(new[i])[j])
  <2>1. new[i] = ms[i]
    BY <1>1
  <2>2. i + j \in 1..Len(ms) /\ ms[i + j] = ToolResult(CallsIn(ms[i])[j])
    BY <2>1 DEF AllSettled, Settled
  <2> QED
    BY <1>1, <2>1, <2>2
<1> QED
  BY <1>2 DEF AllSettled, Settled, new

\* A message without calls has nothing to settle.
LEMMA NothingAsked ==
  ASSUME NEW ms \in Seq(AgentMessage), NEW x \in AgentMessage, CallsIn(x) = <<>>,
         AllSettled(ms, Len(ms))
  PROVE  AllSettled(Append(ms, x), Len(Append(ms, x)))
<1> DEFINE new == Append(ms, x)
           n == Len(ms)
<1>1. n \in Nat /\ Len(new) = n + 1 /\ new[n + 1] = x
  OBVIOUS
<1>2. AllSettled(new, n)
  BY StaySettled
<1> HIDE DEF new, n
<1>3. Settled(new, n + 1)
  BY <1>1 DEF Settled
<1>4. AllSettled(new, n + 1)
  BY <1>1, <1>2, <1>3 DEF AllSettled
<1> QED
  BY <1>1, <1>4 DEF new, n

LEMMA SomeMessages ==
  /\ Msg("system") \in AgentMessage /\ CallsIn(Msg("system")) = <<>>
  /\ Msg("user") \in AgentMessage /\ CallsIn(Msg("user")) = <<>>
  /\ Msg("assistant") \in AgentMessage /\ CallsIn(Msg("assistant")) = <<>>
  /\ \A t \in Tool : ToolResult(t) \in AgentMessage
  /\ \A b \in Batch : ToolCalls(b) \in AgentMessage
BY DEF AgentMessage, Msg, ToolResult, ToolCalls, CallsIn

LEMMA PlainMessage ==
  ASSUME NEW ms \in Seq(AgentMessage), AllSettled(ms, Len(ms)),
         NEW r \in {"system", "user", "assistant"}
  PROVE  /\ Append(ms, Msg(r)) \in Seq(AgentMessage)
         /\ AllSettled(Append(ms, Msg(r)), Len(Append(ms, Msg(r))))
<1>1. Msg(r) \in AgentMessage /\ CallsIn(Msg(r)) = <<>>
  BY SomeMessages
<1>2. Append(ms, Msg(r)) \in Seq(AgentMessage)
  BY <1>1
<1> QED
  BY <1>1, <1>2, NothingAsked

\* The message that asks for the calls.
LEMMA AskedFor ==
  ASSUME NEW ms \in Seq(AgentMessage), NEW b \in Batch, AllSettled(ms, Len(ms))
  PROVE  Pending(Append(ms, ToolCalls(b)), b, Len(ms) + 1, b, 0)
<1> DEFINE new == Append(ms, ToolCalls(b))
           n == Len(ms)
<1>1. n \in Nat /\ Len(new) = n + 1 /\ new[n + 1] = ToolCalls(b)
  OBVIOUS
<1>2. AllSettled(new, n)
  BY StaySettled, SomeMessages
<1>3. Len(b) \in Nat /\ (n + 1) - 1 = n
  BY <1>1, BatchSeq
<1> HIDE DEF new, n
<1>4. AllSettled(new, (n + 1) - 1)
  BY <1>2, <1>3
<1>5. /\ n + 1 \in 1..Len(new) /\ 0 <= Len(b) /\ Len(new) = n + 1 + 0
      /\ Len(b) = Len(b) - 0
  BY <1>1, <1>3
<1>6. Pending(new, b, n + 1, b, 0)
  BY <1>1, <1>3, <1>4, <1>5 DEF Pending
<1> QED
  BY <1>6 DEF new, n

\* The next call is answered.
LEMMA AnswerNext ==
  ASSUME NEW ms \in Seq(AgentMessage), NEW q \in Seq(Tool), NEW m \in Nat,
         NEW c \in Seq(Tool), NEW d \in Nat, Pending(ms, q, m, c, d), q # <<>>
  PROVE  Pending(Append(ms, ToolResult(Head(q))), Tail(q), m, c, d + 1)
<1> DEFINE x == ToolResult(Head(q))
           new == Append(ms, x)
           p == Tail(q)
<1>1. /\ m \in 1..Len(ms) /\ ms[m] = ToolCalls(c) /\ d <= Len(c) /\ Len(ms) = m + d
      /\ Len(q) = Len(c) - d /\ \A k \in 1..Len(q) : q[k] = c[d + k]
      /\ \A j \in 1..d : ms[m + j] = ToolResult(c[j])
      /\ AllSettled(ms, m - 1)
  BY Zenon DEF Pending
<1>2. /\ Len(q) \in Nat /\ Len(q) >= 1 /\ Len(c) \in Nat /\ Len(p) = Len(q) - 1
      /\ \A k \in 1..Len(p) : p[k] = q[k + 1]
      /\ Head(q) = q[1] /\ Head(q) \in Tool
  OBVIOUS
<1>3. x \in AgentMessage /\ x = ToolResult(c[d + 1])
  <2>1. Head(q) = c[d + 1]
    BY <1>1, <1>2
  <2> QED
    BY <1>2, <2>1, SomeMessages
<1> HIDE DEF x, p
<1>4. Len(new) = Len(ms) + 1 /\ new[Len(ms) + 1] = x /\ \A i \in 1..Len(ms) : new[i] = ms[i]
  BY <1>3
<1>5. AllSettled(new, m - 1)
  <2>1. m - 1 \in 0..Len(ms)
    BY <1>1
  <2> QED
    BY <1>1, <1>3, <2>1, StaySettled
<1> HIDE DEF new
<1>6. /\ m \in 1..Len(new) /\ new[m] = ToolCalls(c) /\ d + 1 <= Len(c)
      /\ Len(new) = m + (d + 1) /\ Len(p) = Len(c) - (d + 1)
  BY <1>1, <1>2, <1>4, SMTT(30)
<1>7. ASSUME NEW k \in 1..Len(p) PROVE p[k] = c[(d + 1) + k]
  <2>1. k + 1 \in 1..Len(q) /\ d + (k + 1) = (d + 1) + k
    BY <1>2
  <2> QED
    BY <1>1, <1>2, <2>1
<1>8. ASSUME NEW j \in 1..(d + 1) PROVE new[m + j] = ToolResult(c[j])
  <2>1. CASE j = d + 1
    BY <1>1, <1>3, <1>4, <2>1
  <2>2. CASE j \in 1..d
    <3>1. m + j \in 1..Len(ms)
      BY <1>1, <2>2
    <3> QED
      BY <1>1, <1>4, <2>2, <3>1
  <2> QED
    BY <2>1, <2>2
<1>9. Pending(new, p, m, c, d + 1)
  BY <1>5, <1>6, <1>7, <1>8 DEF Pending
<1> QED
  BY <1>9 DEF new, p, x

\* No call is left.
LEMMA AllAnswered ==
  ASSUME NEW ms \in Seq(AgentMessage), NEW m \in Nat,
         NEW c \in Seq(Tool), NEW d \in Nat, Pending(ms, <<>>, m, c, d)
  PROVE  AllSettled(ms, Len(ms))
<1>1. /\ m \in 1..Len(ms) /\ ms[m] = ToolCalls(c) /\ Len(c) \in Nat /\ d = Len(c)
      /\ Len(ms) = m + d /\ AllSettled(ms, m - 1)
      /\ \A j \in 1..d : ms[m + j] = ToolResult(c[j])
  BY DEF Pending
<1>2. ASSUME NEW i \in 1..Len(ms) PROVE Settled(ms, i)
  <2>1. CASE i < m
    BY <1>1, <2>1 DEF AllSettled
  <2>2. CASE i = m
    <3>1. CallsIn(ms[i]) = c
      BY <1>1, <2>2 DEF CallsIn, ToolCalls
    <3>2. ASSUME NEW j \in DOMAIN c PROVE i + j \in 1..Len(ms) /\ ms[i + j] = ToolResult(c[j])
      BY <1>1, <2>2
    <3> QED
      BY <3>1, <3>2 DEF Settled
  <2>3. CASE i > m
    <3>1. i - m \in 1..d /\ m + (i - m) = i
      BY <1>1, <2>3
    <3>2. ms[i] = ToolResult(c[i - m])
      BY <1>1, <3>1
    <3>3. CallsIn(ms[i]) = <<>>
      BY <3>2 DEF ToolResult, CallsIn
    <3> QED
      BY <3>3 DEF Settled
  <2> QED
    BY <1>1, <2>1, <2>2, <2>3
<1> QED
  BY <1>2 DEF AllSettled

LEMMA AnswerStep == AnswerInv /\ RunTypes /\ [AgentNext]_agentVars => AnswerInv'
<1> SUFFICES ASSUME AnswerInv, RunTypes, [AgentNext]_agentVars PROVE AnswerInv'
  OBVIOUS
<1>1. PICK ms \in Seq(AgentMessage), q \in Seq(Tool) : ms = messages /\ q = queue
  BY DEF AnswerInv
<1>2. /\ at # "tools" => AllSettled(ms, Len(ms))
      /\ at = "tools" => \E m \in Nat, c \in Seq(Tool), d \in Nat : Pending(ms, q, m, c, d)
  BY <1>1 DEF AnswerInv
<1>3. ASSUME at' = "tools" <=> at = "tools", UNCHANGED <<messages, queue>> PROVE AnswerInv'
  BY <1>1, <1>2, <1>3 DEF AnswerInv
<1>4. ASSUME NEW new \in Seq(AgentMessage), AllSettled(new, Len(new)),
             messages' = new, queue' = queue, at' # "tools"
      PROVE  AnswerInv'
  BY <1>4 DEF AnswerInv
<1>5. CASE Host
  <2>1. CASE StartRun
    <3> DEFINE one == Append(<<>>, Msg("system"))
               two == Append(one, Msg("system"))
    <3>1. <<>> \in Seq(AgentMessage) /\ AllSettled(<<>>, Len(<<>>))
      BY DEF AllSettled
    <3>2. one \in Seq(AgentMessage) /\ AllSettled(one, Len(one))
      BY <3>1, PlainMessage
    <3>3. two \in Seq(AgentMessage) /\ AllSettled(two, Len(two))
      BY <3>2, PlainMessage
    <3>4. \/ messages' = Append(one, Msg("user"))
          \/ messages' = Append(two, Msg("user"))
      BY <2>1, SomeMessages DEF StartRun
    <3> HIDE DEF one, two
    <3>5. at' # "tools" /\ queue' = queue
      BY <2>1 DEF StartRun
    <3> QED
      <4>1. CASE messages' = Append(one, Msg("user"))
        BY <1>4, <3>2, <3>5, <4>1, PlainMessage
      <4>2. CASE messages' = Append(two, Msg("user"))
        BY <1>4, <3>3, <3>5, <4>2, PlainMessage
      <4> QED
        BY <3>4, <4>1, <4>2
  <2>2. UNCHANGED <<at, messages, queue>> \/ StartRun
    BY <1>5 DEF Host, BlockTool, AllowTool, ConfirmTool, RecordToolCall, ResetSandbox,
                Configure, Remember, runVars
  <2> QED
    BY <1>3, <2>1, <2>2
<1>6. CASE Stop /\ at # "tools"
  BY <1>3, <1>6 DEF Stop
<1>7. CASE Ask
  BY <1>3, <1>7 DEF Ask
<1>8. ASSUME NEW r \in Response, CallsTools(r) PROVE AnswerInv'
  <2>1. r.calls \in Batch
    BY <1>8 DEF Response, CallsTools
  <2>2. /\ messages' = Append(ms, ToolCalls(r.calls)) /\ queue' = r.calls
        /\ at = "complete" /\ at' = "tools"
    BY <1>1, <1>8 DEF CallsTools
  <2>3. PICK b \in Batch : b = r.calls
    BY <2>1
  <2>4. Pending(Append(ms, ToolCalls(b)), b, Len(ms) + 1, b, 0)
    BY <1>2, <2>2, AskedFor
  <2>5. b \in Seq(Tool) /\ Append(ms, ToolCalls(b)) \in Seq(AgentMessage)
    BY BatchSeq, SomeMessages
  <2> QED
    BY <2>2, <2>3, <2>4, <2>5 DEF AnswerInv
<1>9. ASSUME NEW r \in Response, EndsTurn(r) PROVE AnswerInv'
  <2>1. at = "complete" /\ at' # "tools" /\ queue' = queue
    BY <1>9 DEF EndsTurn
  <2>2. CASE messages' = ms
    BY <1>1, <1>3, <2>1, <2>2
  <2>3. CASE messages' = Append(ms, Msg("assistant"))
    BY <1>2, <1>4, <2>1, <2>3, PlainMessage
  <2> QED
    BY <1>1, <1>9, <2>2, <2>3 DEF EndsTurn
<1>10. CASE BlockCall \/ ExecuteCall
  <2>1. /\ at = "tools" /\ at' = at /\ q # <<>> /\ queue' = Tail(q)
        /\ messages' = Append(ms, ToolResult(Head(q)))
    BY <1>1, <1>10 DEF BlockCall, ExecuteCall, NextCall
  <2>2. PICK m \in Nat, c \in Seq(Tool), d \in Nat : Pending(ms, q, m, c, d)
    BY <1>2, <2>1
  <2>3. Pending(Append(ms, ToolResult(Head(q))), Tail(q), m, c, d + 1)
    BY <2>1, <2>2, AnswerNext
  <2>4. Tail(q) \in Seq(Tool) /\ Append(ms, ToolResult(Head(q))) \in Seq(AgentMessage)
    BY <2>1, SomeMessages
  <2> QED
    BY <2>1, <2>3, <2>4 DEF AnswerInv
<1>11. CASE FeedBack
  <2>1. at = "tools" /\ at' # "tools" /\ q = <<>> /\ messages' = ms /\ queue' = queue
    BY <1>1, <1>11 DEF FeedBack
  <2>2. AllSettled(ms, Len(ms))
    BY <1>2, <2>1, AllAnswered
  <2> QED
    BY <1>4, <2>1, <2>2
<1>12. CASE Finish
  <2>1. <<>> \in Seq(AgentMessage) /\ AllSettled(<<>>, Len(<<>>))
    BY DEF AllSettled
  <2> QED
    BY <1>4, <1>12, <2>1 DEF Finish
<1>13. CASE UNCHANGED agentVars
  BY <1>3, <1>13 DEF agentVars
<1> QED
  BY <1>5, <1>6, <1>7, <1>8, <1>9, <1>10, <1>11, <1>12, <1>13
  DEF AgentNext, RunStep, IterationLimit, BudgetExhausted, CompletionFails, Responds

-----------------------------------------------------------------------------
(* Theorems *)

LEMMA AgentStarts == AgentInit => SpendInv /\ AnswerInv
<1> SUFFICES ASSUME AgentInit PROVE SpendInv /\ AnswerInv
  OBVIOUS
<1>1. CostCap \in Nat /\ MaxCost \in Nat /\ MaxIterations \in Nat
  BY AgentAssumption
<1>2. SpendInv
  BY <1>1 DEF AgentInit, SpendInv, RunTypes, Paid
<1>3. messages \in Seq(AgentMessage) /\ queue \in Seq(Tool) /\ Len(messages) = 0 /\ at # "tools"
  BY DEF AgentInit
<1> QED
  BY <1>2, <1>3 DEF AnswerInv, AllSettled

\* Agent::run asks at most max_iterations times and passes its budget by less
\* than one response costs.
THEOREM AlwaysWithinLimits == AgentSpec => []SpendsWithinLimits
<1>1. SpendInv => SpendsWithinLimits
  <2> SUFFICES ASSUME SpendInv PROVE SpendsWithinLimits
    OBVIOUS
  <2>1. CostCap \in Nat /\ asked \in Nat /\ spent \in Nat
    BY AgentAssumption DEF SpendInv, RunTypes
  <2>2. CASE at = "complete"
    <3>1. PICK n \in Nat : asked = n + 1
      <4>1. asked - 1 \in Nat
        BY <2>1, <2>2 DEF SpendInv, Paid
      <4> QED
        BY <2>1, <4>1
    <3>2. n * CostCap \in Nat /\ asked * CostCap = n * CostCap + CostCap
      BY <2>1, <3>1, Bill
    <3>3. spent <= n * CostCap
      BY <2>2, <3>1 DEF SpendInv, Paid
    <3>4. spent <= asked * CostCap
      BY <2>1, <3>2, <3>3
    <3> QED
      BY <3>4 DEF SpendInv, Paid, SpendsWithinLimits
  <2> QED
    BY <2>2 DEF SpendInv, Paid, SpendsWithinLimits
<1> QED
  BY <1>1, AgentStarts, SpendStep, PTL DEF AgentSpec

\* Before the model is asked again every call it made is answered, in its place,
\* also the ones the sandbox blocks or nobody handles.
THEOREM ToolCallsAlwaysAnswered == AgentSpec => []ToolCallsAnswered
<1>1. AnswerInv => ToolCallsAnswered
  <2> SUFFICES ASSUME AnswerInv, at # "tools", NEW i \in DOMAIN messages,
                      NEW j \in DOMAIN CallsOf(i)
      PROVE AnsweredInPlace(i, j)
    BY DEF ToolCallsAnswered
  <2>1. DOMAIN messages = 1..Len(messages)
    BY DEF AnswerInv
  <2>2. Settled(messages, i)
    BY <2>1 DEF AnswerInv, AllSettled
  <2>3. CallsOf(i) = CallsIn(messages[i])
    BY DEF CallsOf, CallsIn
  <2> QED
    BY <2>1, <2>2, <2>3 DEF Settled, AnsweredInPlace
<1>2. SpendInv => RunTypes
  BY DEF SpendInv
<1> QED
  BY <1>1, <1>2, AgentStarts, SpendStep, AnswerStep, PTL DEF AgentSpec

----------------------------------------------------------------------------
(* The throttle.                                                          *)

Bucket == [max : Nat, tokens : Nat, refilled : Nat, limits : Nat, until : Nat]

\* Tokens refilled in d seconds to a bucket that holds max.
Refilled(max, d) == d * (max \div Token)

Accounted(b, g) ==
  \A i \in 1..Len(g) :
    /\ g[i] <= b.refilled
    /\ Token * (Len(g) - i + 1) + b.tokens <= b.max + Refilled(b.max, b.refilled - g[i])

Windows(max, g) ==
  \A i, j \in 1..Len(g) :
    i <= j => Token * (j - i + 1) <= max + Refilled(max, g[j] - g[i])

\* What holds of a server's bucket b and grants g at time t.
Sound(b, g, t) ==
  /\ b.tokens <= b.max
  /\ b.refilled <= t
  /\ b.max = 0 => b = NoBucket /\ g = <<>>
  /\ Accounted(b, g)
  /\ Windows(b.max, g)

\* The backoff promised is over, or it is the bucket's.
Kept(b, q, t) == t >= q \/ b.until = q

ThrottleInv ==
  /\ ThrottleTypeOK
  /\ \A s \in Server : /\ Sound(bucket[s], grants[s], now)
                       /\ Kept(bucket[s], promised[s], now)

-----------------------------------------------------------------------------
(* Buckets *)

LEMMA LeastIs ==
  ASSUME NEW a \in Nat, NEW b \in Nat
  PROVE  Least(a, b) \in Nat /\ Least(a, b) <= a /\ Least(a, b) <= b
BY DEF Least

LEMMA RefilledNat ==
  ASSUME NEW max \in Nat, NEW d \in Nat
  PROVE  Refilled(max, d) \in Nat
<1> DEFINE r == max \div Token
<1>1. r \in Nat
  BY DEF Token
<1> HIDE DEF r
<1>2. d * r \in Nat
  BY <1>1
<1> QED
  BY <1>2 DEF Refilled, r

LEMMA RefilledAdds ==
  ASSUME NEW max \in Nat, NEW d \in Nat, NEW e \in Nat
  PROVE  /\ Refilled(max, d) \in Nat
         /\ Refilled(max, d + e) = Refilled(max, d) + Refilled(max, e)
<1> DEFINE r == max \div Token
<1>1. r \in Nat
  BY DEF Token
<1> HIDE DEF r
<1>2. d * r \in Nat /\ (d + e) * r = d * r + e * r
  BY <1>1
<1> QED
  BY <1>2 DEF Refilled, r

LEMMA RefillSound ==
  ASSUME NEW b \in Bucket, NEW g \in Seq(Nat), now \in Nat, Sound(b, g, now)
  PROVE  /\ Refill(b) \in Bucket
         /\ Refill(b).max = b.max /\ Refill(b).until = b.until
         /\ Refill(b).refilled = now
         /\ Refill(b).tokens <= b.max
         /\ Accounted(Refill(b), g)
<1> DEFINE add == Refilled(b.max, now - b.refilled)
           sum == b.tokens + add
           t == Least(sum, b.max)
<1>1. /\ b.max \in Nat /\ b.tokens \in Nat /\ b.refilled \in Nat
      /\ b.refilled <= now /\ now - b.refilled \in Nat
  BY DEF Bucket, Sound
<1>2. add \in Nat /\ sum \in Nat
  <2>1. add \in Nat
    BY <1>1, RefilledNat
  <2> QED
    BY <1>1, <2>1
<1>3. t \in Nat /\ t <= b.max /\ t <= sum
  BY <1>1, <1>2, LeastIs
<1>4. Refill(b) = [b EXCEPT !.tokens = t, !.refilled = now]
  BY DEF Refill, Refilled
<1> HIDE DEF t
<1>5. /\ Refill(b) \in Bucket
      /\ Refill(b).max = b.max /\ Refill(b).until = b.until
      /\ Refill(b).refilled = now /\ Refill(b).tokens = t
  BY <1>3, <1>4 DEF Bucket
<1>6. ASSUME NEW i \in 1..Len(g)
      PROVE  /\ g[i] <= now
             /\ Token * (Len(g) - i + 1) + t <= b.max + Refilled(b.max, now - g[i])
  <2>1. g[i] \in Nat /\ g[i] <= b.refilled
    BY DEF Sound, Accounted
  <2>2. /\ Refilled(b.max, b.refilled - g[i]) \in Nat
        /\ Refilled(b.max, now - g[i]) = Refilled(b.max, b.refilled - g[i]) + add
    <3> DEFINE d == b.refilled - g[i]
               e == now - b.refilled
    <3>1. d \in Nat /\ e \in Nat /\ now - g[i] = d + e
      BY <1>1, <2>1
    <3>2. Refilled(b.max, d + e) = Refilled(b.max, d) + Refilled(b.max, e)
      BY <1>1, <3>1, RefilledAdds
    <3> QED
      BY <1>1, <3>1, <3>2, RefilledNat
  <2>3. Token * (Len(g) - i + 1) + b.tokens <= b.max + Refilled(b.max, b.refilled - g[i])
    BY DEF Sound, Accounted
  <2> DEFINE w == Refilled(b.max, b.refilled - g[i])
             k == Token * (Len(g) - i + 1)
  <2>4. k \in Int /\ w \in Nat
    BY <2>2 DEF Token
  <2>5. k + b.tokens <= b.max + w /\ Refilled(b.max, now - g[i]) = w + add
    BY <2>2, <2>3
  <2> HIDE DEF w, k, add
  <2>6. k + t <= b.max + (w + add)
    BY <1>1, <1>2, <1>3, <2>4, <2>5, SMTT(30)
  <2> QED
    BY <1>1, <2>1, <2>5, <2>6 DEF k
<1> QED
  BY <1>3, <1>5, <1>6 DEF Accounted

\* A bucket that keeps its size and has no more tokens is as sound as before.
LEMMA FewerTokens ==
  ASSUME NEW b \in Bucket, NEW c \in Bucket, NEW g \in Seq(Nat),
         Accounted(b, g), c.max = b.max, c.refilled = b.refilled, c.tokens <= b.tokens
  PROVE  Accounted(c, g)
<1> SUFFICES ASSUME NEW i \in 1..Len(g)
    PROVE /\ g[i] <= c.refilled
          /\ Token * (Len(g) - i + 1) + c.tokens <= c.max + Refilled(c.max, c.refilled - g[i])
  BY DEF Accounted
<1>1. /\ g[i] <= b.refilled
      /\ Token * (Len(g) - i + 1) + b.tokens <= b.max + Refilled(b.max, b.refilled - g[i])
  BY DEF Accounted
<1>2. /\ b.max \in Nat /\ b.tokens \in Nat /\ c.tokens \in Nat
      /\ g[i] \in Nat /\ b.refilled \in Nat
  BY DEF Bucket
<1>3. Refilled(b.max, b.refilled - g[i]) \in Nat
  <2>1. b.refilled - g[i] \in Nat
    BY <1>1, <1>2
  <2> QED
    BY <1>2, <2>1, RefilledNat
<1> QED
  BY <1>1, <1>2, <1>3 DEF Token

\* The step of a grant at time t: a token is charged and the grant recorded.
LEMMA GrantSound ==
  ASSUME NEW b \in Bucket, NEW c \in Bucket, NEW g \in Seq(Nat), NEW t \in Nat,
         Accounted(b, g), Windows(b.max, g), b.refilled = t, b.tokens <= b.max,
         b.tokens >= Token, c.max = b.max, c.refilled = t, c.tokens = b.tokens - Token
  PROVE  Sound(c, Append(g, t), t)
<1> DEFINE h == Append(g, t)
           n == Len(g)
<1>1. /\ b.max \in Nat /\ b.tokens \in Nat /\ c.tokens \in Nat /\ b.max > 0
      /\ n \in Nat
  BY DEF Bucket, Token
<1>2. /\ Len(h) = n + 1 /\ h[n + 1] = t
      /\ \A i \in 1..n : h[i] = g[i] /\ h[i] \in Nat /\ h[i] <= t
  BY DEF Accounted
<1>3. \A i \in 1..n : Token * (n - i + 1) + b.tokens <= b.max + Refilled(b.max, t - h[i])
  BY <1>2 DEF Accounted
<1>4. \A i, j \in 1..n : i <= j => Token * (j - i + 1) <= b.max + Refilled(b.max, h[j] - h[i])
  BY <1>2 DEF Windows
<1> HIDE DEF h, n
<1>5. \A i \in 1..(n + 1) : h[i] <= t /\ h[i] \in Nat /\ t - h[i] \in Nat
  BY <1>1, <1>2
<1>6. \A i \in 1..(n + 1) : Refilled(b.max, t - h[i]) \in Nat
  BY <1>1, <1>5, RefilledNat
<1>7. ASSUME NEW i \in 1..(n + 1)
      PROVE  Token * (n + 1 - i + 1) + c.tokens <= b.max + Refilled(b.max, t - h[i])
  <2> DEFINE w == Refilled(b.max, t - h[i])
  <2>1. w \in Nat /\ (i \in 1..n => Token * (n - i + 1) + b.tokens <= b.max + w)
    BY <1>3, <1>6
  <2> HIDE DEF w
  <2>2. i \in Nat /\ (i = n + 1 \/ i \in 1..n)
    BY <1>1
  <2>3. Token * (n + 1 - i + 1) + c.tokens <= b.max + w
    BY <1>1, <2>1, <2>2 DEF Token
  <2> QED
    BY <2>3 DEF w
<1>8. Accounted(c, h)
  BY <1>1, <1>2, <1>5, <1>7 DEF Accounted
<1>9. ASSUME NEW i \in 1..(n + 1), NEW j \in 1..(n + 1), i <= j
      PROVE  Token * (j - i + 1) <= b.max + Refilled(b.max, h[j] - h[i])
  <2>1. CASE j \in 1..n
    <3>1. i \in 1..n
      BY <1>1, <1>9, <2>1
    <3> QED
      BY <1>4, <1>9, <2>1, <3>1
  <2>2. CASE j = n + 1
    <3> DEFINE w == Refilled(b.max, t - h[i])
    <3>1. w \in Nat /\ Token * (n + 1 - i + 1) + c.tokens <= b.max + w
      BY <1>6, <1>7
    <3> HIDE DEF w
    <3>2. Token * (j - i + 1) <= b.max + w
      BY <1>1, <2>2, <3>1 DEF Token
    <3> QED
      BY <1>2, <2>2, <3>2 DEF w
  <2> QED
    BY <1>1, <2>1, <2>2
<1>10. Windows(c.max, h)
  BY <1>2, <1>9 DEF Windows
<1>11. c.tokens <= c.max /\ c.refilled <= t /\ c.max # 0
  BY <1>1 DEF Token
<1>12. Sound(c, h, t)
  BY <1>8, <1>10, <1>11 DEF Sound
<1> QED
  BY <1>12 DEF h

-----------------------------------------------------------------------------
(* Steps *)

LEMMA BackoffNat ==
  ASSUME NEW n \in Nat
  PROVE  BackoffSeconds(n) \in Nat
<1> DEFINE k == Least(n, 8)
<1>1. k \in Nat /\ k <= 8
  BY DEF Least
<1> HIDE DEF k
<1>2. k = 0 \/ k = 1 \/ k = 2 \/ k = 3 \/ k = 4 \/ k = 5 \/ k = 6 \/ k = 7 \/ k = 8
  BY <1>1
<1>3. 2 ^ k \in Nat
  <2>1. /\ 2 ^ 0 \in Nat /\ 2 ^ 1 \in Nat /\ 2 ^ 2 \in Nat /\ 2 ^ 3 \in Nat /\ 2 ^ 4 \in Nat
        /\ 2 ^ 5 \in Nat /\ 2 ^ 6 \in Nat /\ 2 ^ 7 \in Nat /\ 2 ^ 8 \in Nat
    OBVIOUS
  <2> QED
    BY <1>2, <2>1, Zenon
<1> QED
  BY <1>3, LeastIs DEF BackoffSeconds, k

\* The bucket a check works on: the server's, or a new one, filled up.
LEMMA HeldSound ==
  ASSUME ThrottleInv, NEW s \in Server, NEW p \in Profile
  PROVE  /\ Held(s, p) \in Bucket
         /\ Held(s, p).refilled = now /\ Held(s, p).max # 0
         /\ Sound(Held(s, p), grants[s], now)
         /\ Held(s, p).until = bucket[s].until
<1> DEFINE b == IF Tracked(s) THEN bucket[s] ELSE NewBucket(p)
<1>1. /\ now \in Nat /\ grants[s] \in Seq(Nat) /\ bucket[s] \in Bucket
      /\ Sound(bucket[s], grants[s], now)
  BY DEF ThrottleInv, ThrottleTypeOK, Bucket
<1>2. /\ b \in Bucket /\ Sound(b, grants[s], now) /\ b.until = bucket[s].until
      /\ b.max # 0
  <2>1. CASE Tracked(s)
    BY <1>1, <2>1 DEF Tracked, Sound
  <2>2. CASE ~ Tracked(s)
    <3>1. bucket[s] = NoBucket /\ grants[s] = <<>> /\ p.rpm \in Nat \ {0}
      BY <1>1, <2>2, ThrottleAssumption DEF Tracked, Sound, NoBucket
    <3>2. NewBucket(p) \in Bucket /\ NewBucket(p).max # 0
      BY <1>1, <3>1 DEF NewBucket, Bucket, Token
    <3>3. Len(grants[s]) = 0
      BY <3>1
    <3>4. Accounted(NewBucket(p), grants[s]) /\ Windows(NewBucket(p).max, grants[s])
      BY <3>3 DEF Accounted, Windows
    <3>5. Sound(NewBucket(p), grants[s], now)
      BY <1>1, <3>2, <3>4 DEF Sound, NewBucket, Bucket
    <3> QED
      BY <2>2, <3>1, <3>2, <3>5 DEF NewBucket, NoBucket
  <2> QED
    BY <2>1, <2>2
<1> HIDE DEF b
<1>3. /\ Refill(b) \in Bucket /\ Refill(b).max = b.max /\ Refill(b).until = b.until
      /\ Refill(b).refilled = now /\ Refill(b).tokens <= b.max
      /\ Accounted(Refill(b), grants[s])
  BY <1>1, <1>2, RefillSound
<1>4. Sound(Refill(b), grants[s], now)
  BY <1>1, <1>2, <1>3 DEF Sound
<1> QED
  BY <1>2, <1>3, <1>4 DEF Held, b

\* A step of one server keeps the invariant when its new bucket is sound.
LEMMA OneServer ==
  ASSUME ThrottleInv, NEW s \in Server,
         NEW b \in Bucket, NEW g \in Seq(Nat), NEW q \in Nat,
         Sound(b, g, now), Kept(b, q, now),
         now' = now,
         decision' \in [Server -> {"none", "allow", "wait", "deny"}],
         bucket' = [bucket EXCEPT ![s] = b],
         grants' = [grants EXCEPT ![s] = g],
         promised' = [promised EXCEPT ![s] = q]
  PROVE  ThrottleInv'
<1>1. ThrottleTypeOK'
  BY DEF ThrottleInv, ThrottleTypeOK, Bucket
<1>2. ASSUME NEW r \in Server
      PROVE  Sound(bucket'[r], grants'[r], now') /\ Kept(bucket'[r], promised'[r], now')
  <2>1. CASE r = s
    BY <2>1 DEF ThrottleInv, ThrottleTypeOK
  <2>2. CASE r # s
    <3>1. bucket'[r] = bucket[r] /\ grants'[r] = grants[r] /\ promised'[r] = promised[r]
      BY <2>2 DEF ThrottleInv, ThrottleTypeOK
    <3> QED
      BY <3>1 DEF ThrottleInv
  <2> QED
    BY <2>1, <2>2
<1> QED
  BY <1>1, <1>2 DEF ThrottleInv

\* A check either charges a token or leaves the grants alone.
LEMMA CheckStep ==
  ASSUME ThrottleInv, NEW s \in Server, NEW p \in Profile, Check(s, p)
  PROVE  /\ ThrottleInv'
         /\ \A r \in Server : Len(grants'[r]) > Len(grants[r]) => now >= promised[r]
<1>1. PICK h \in Bucket, g \in Seq(Nat), q \in Nat, t \in Nat, u \in Nat :
        /\ h = Held(s, p) /\ g = grants[s] /\ q = promised[s] /\ t = now
        /\ u = bucket[s].until
  BY HeldSound DEF ThrottleInv, ThrottleTypeOK
<1>2. /\ h.refilled = t /\ h.max # 0 /\ Sound(h, g, t) /\ h.until = u /\ (t >= q \/ u = q)
  BY <1>1, HeldSound DEF ThrottleInv, Kept
<1>3. /\ now' = now /\ promised' = [promised EXCEPT ![s] = q]
      /\ decision' \in [Server -> {"none", "allow", "wait", "deny"}]
  BY <1>1 DEF Check, Deny, Consume, Refuse, ThrottleInv, ThrottleTypeOK
<1>4. grants \in [Server -> Seq(Nat)]
  BY DEF ThrottleInv, ThrottleTypeOK
<1>5. ASSUME grants' = grants PROVE \A r \in Server : ~ (Len(grants'[r]) > Len(grants[r]))
  BY <1>4, <1>5
<1>6. CASE Deny(s, p)
  <2>1. grants' = grants
    BY <1>6 DEF Deny
  <2>2. bucket' = [bucket EXCEPT ![s] = h]
    BY <1>1, <1>6 DEF Deny
  <2>3. grants' = [grants EXCEPT ![s] = g]
    BY <1>1, <1>4, <2>1
  <2>4. Sound(h, g, now) /\ Kept(h, q, now)
    BY <1>1, <1>2 DEF Kept
  <2>5. ThrottleInv'
    BY <1>3, <2>2, <2>3, <2>4, OneServer
  <2> QED
    BY <1>5, <2>1, <2>5
<1> DEFINE e == EndBackoff(h)
<1>7. /\ e \in Bucket /\ e.max = h.max /\ e.tokens = h.tokens /\ e.refilled = h.refilled
      /\ e.until = 0
  BY DEF EndBackoff, Bucket
<1>8. CASE Consume(s, p)
  <2> DEFINE c == Charge(e)
             k == Append(g, t)
  <2>1. h.until <= t /\ h.tokens >= Token /\ h.tokens <= h.max /\ h.tokens \in Nat
    BY <1>1, <1>2, <1>8 DEF Consume, Sound, Bucket
  <2> HIDE DEF e
  <2>2. /\ c \in Bucket /\ c.max = h.max /\ c.refilled = t /\ c.tokens = h.tokens - Token
        /\ c.until = 0
    BY <1>2, <1>7, <2>1 DEF Charge, Bucket, Token
  <2>3. bucket' = [bucket EXCEPT ![s] = c] /\ grants' = [grants EXCEPT ![s] = k]
    BY <1>1, <1>8 DEF Consume, e
  <2>4. k \in Seq(Nat)
    BY <1>1
  <2> HIDE DEF c
  <2>5. Sound(c, k, t)
    BY <1>2, <2>1, <2>2, GrantSound DEF Sound
  <2>6. t >= q
    BY <1>1, <1>2, <2>1
  <2>7. Kept(c, q, t)
    BY <2>6 DEF Kept
  <2> HIDE DEF k
  <2>8. PICK cc \in Bucket, kk \in Seq(Nat) : cc = c /\ kk = k
    BY <2>2, <2>4
  <2>9. ThrottleInv'
    BY <1>1, <1>3, <2>3, <2>5, <2>7, <2>8, OneServer
  <2>10. \A r \in Server : r # s => grants'[r] = grants[r]
    BY <2>3, <1>4
  <2>11. now >= promised[s]
    BY <1>1, <2>6
  <2>12. \A r \in Server : Len(grants'[r]) > Len(grants[r]) => r = s
    BY <1>4, <2>10
  <2> QED
    BY <2>9, <2>11, <2>12
<1>9. CASE Refuse(s, p)
  <2>1. h.until <= t
    BY <1>1, <1>9 DEF Refuse
  <2> HIDE DEF e
  <2>2. bucket' = [bucket EXCEPT ![s] = e] /\ grants' = grants
    BY <1>1, <1>9 DEF Refuse, e
  <2>3. grants' = [grants EXCEPT ![s] = g]
    BY <1>1, <1>4, <2>2
  <2>4. Kept(e, q, t)
    BY <1>1, <1>2, <2>1 DEF Kept
  <2>5. Sound(e, g, t)
    <3>1. Accounted(e, g)
      BY <1>2, <1>7, FewerTokens DEF Sound, Bucket
    <3> QED
      BY <1>2, <1>7, <3>1 DEF Sound
  <2>6. PICK ee \in Bucket : ee = e
    BY <1>7
  <2>7. ThrottleInv'
    BY <1>1, <1>3, <2>2, <2>3, <2>4, <2>5, <2>6, OneServer
  <2> QED
    BY <1>5, <2>2, <2>7
<1> QED
  BY <1>6, <1>8, <1>9 DEF Check

\* A report keeps the size of the bucket and the time of its last refill, and
\* adds no tokens.
LEMMA ReportStep ==
  ASSUME ThrottleInv, NEW s \in Server, ReportRateLimit(s) \/ ReportSuccess(s)
  PROVE  ThrottleInv' /\ grants' = grants
<1>1. PICK b \in Bucket, g \in Seq(Nat), q \in Nat, t \in Nat :
        b = bucket[s] /\ g = grants[s] /\ q = promised[s] /\ t = now
  BY DEF ThrottleInv, ThrottleTypeOK, Bucket
<1>2. /\ Sound(b, g, t) /\ Kept(b, q, t) /\ b # NoBucket /\ b.max # 0
  BY <1>1 DEF ThrottleInv, ReportRateLimit, ReportSuccess, Tracked, Sound
<1>3. /\ now' = now /\ grants' = grants
      /\ decision' \in [Server -> {"none", "allow", "wait", "deny"}]
  BY DEF ReportRateLimit, ReportSuccess, ThrottleInv, ThrottleTypeOK
<1>4. grants' = [grants EXCEPT ![s] = g]
  BY <1>1, <1>3 DEF ThrottleInv, ThrottleTypeOK
<1>5. ASSUME NEW c \in Bucket, NEW r \in Nat, c.max = b.max, c.refilled = b.refilled,
             c.tokens <= b.tokens, Kept(c, r, t),
             bucket' = [bucket EXCEPT ![s] = c], promised' = [promised EXCEPT ![s] = r]
      PROVE  ThrottleInv'
  <2>1. Accounted(c, g) /\ Windows(c.max, g)
    BY <1>2, <1>5, FewerTokens DEF Sound
  <2>2. c.tokens \in Nat /\ b.tokens \in Nat /\ b.max \in Nat
    BY DEF Bucket
  <2>3. Sound(c, g, now) /\ Kept(c, r, now)
    BY <1>1, <1>2, <1>5, <2>1, <2>2 DEF Sound
  <2> QED
    BY <1>3, <1>4, <1>5, <2>3, OneServer
<1>6. promised \in [Server -> Nat]
  BY DEF ThrottleInv, ThrottleTypeOK
<1>7. ASSUME NEW n \in Nat
      PROVE  /\ Limited(b, n) \in Bucket /\ Limited(b, n).max = b.max
             /\ Limited(b, n).refilled = b.refilled /\ Limited(b, n).tokens <= b.tokens
             /\ Kept(Limited(b, n), q, t)
  BY <1>2 DEF Limited, Bucket, Kept
<1>8. ASSUME NEW n \in Nat, bucket' = [bucket EXCEPT ![s] = Limited(b, n)],
             UNCHANGED promised
      PROVE  ThrottleInv'
  <2>1. PICK c \in Bucket : c = Limited(b, n)
    BY <1>7
  <2>2. promised' = [promised EXCEPT ![s] = q]
    BY <1>1, <1>6, <1>8
  <2> QED
    BY <1>5, <1>7, <1>8, <2>1, <2>2
<1>9. CASE ReportRateLimit(s)
  <2> DEFINE n == b.limits + 1
  <2>1. n \in Nat
    BY DEF Bucket
  <2> HIDE DEF n
  <2>2. \/ bucket' = [bucket EXCEPT ![s] = Limited(b, n)] /\ UNCHANGED promised
        \/ /\ bucket' = [bucket EXCEPT ![s] = BackOff(b, n)]
           /\ promised' = [promised EXCEPT ![s] = now + BackoffSeconds(n)]
    BY <1>1, <1>9 DEF ReportRateLimit, n
  <2>3. CASE bucket' = [bucket EXCEPT ![s] = BackOff(b, n)]
             /\ promised' = [promised EXCEPT ![s] = now + BackoffSeconds(n)]
    <3>1. PICK r \in Nat : r = now + BackoffSeconds(n)
      BY <1>1, <2>1, BackoffNat
    <3>2. PICK c \in Bucket : c = [b EXCEPT !.limits = n, !.tokens = 0, !.until = r]
      BY <2>1, <3>1 DEF Bucket
    <3>3. c.max = b.max /\ c.refilled = b.refilled /\ c.tokens <= b.tokens /\ c.until = r
      BY <3>2 DEF Bucket
    <3>4. bucket' = [bucket EXCEPT ![s] = c] /\ promised' = [promised EXCEPT ![s] = r]
      BY <2>3, <3>1, <3>2 DEF BackOff
    <3>5. Kept(c, r, t)
      BY <3>3 DEF Kept
    <3> QED
      BY <1>3, <1>5, <3>3, <3>4, <3>5
  <2> QED
    BY <1>3, <1>8, <2>1, <2>2, <2>3
<1>10. CASE ReportSuccess(s)
  <2>1. bucket' = [bucket EXCEPT ![s] = Limited(b, 0)] /\ UNCHANGED promised
    BY <1>1, <1>10 DEF ReportSuccess
  <2> QED
    BY <1>3, <1>8, <2>1
<1> QED
  BY <1>3, <1>9, <1>10

\* A server that was never asked.
LEMMA EmptySound ==
  ASSUME NEW t \in Nat
  PROVE  Sound(NoBucket, <<>>, t) /\ Kept(NoBucket, 0, t) /\ NoBucket \in Bucket
BY DEF Sound, Kept, Accounted, Windows, NoBucket, Bucket

LEMMA ThrottleStep ==
  ASSUME ThrottleInv, [ThrottleNext]_throttleVars
  PROVE  /\ ThrottleInv'
         /\ \A s \in Server : Len(grants'[s]) > Len(grants[s]) => now >= promised[s]
<1>1. ASSUME grants' = grants
      PROVE  \A s \in Server : ~ (Len(grants'[s]) > Len(grants[s]))
  BY <1>1 DEF ThrottleInv, ThrottleTypeOK
<1>2. ASSUME NEW d \in TimeStep, Elapse(d)
      PROVE  ThrottleInv' /\ grants' = grants
  <2>1. /\ now' \in Nat /\ now' >= now /\ now \in Nat
        /\ UNCHANGED <<bucket, decision, grants, promised>>
    BY <1>2, ThrottleAssumption DEF Elapse, ThrottleInv, ThrottleTypeOK
  <2>2. ASSUME NEW s \in Server
        PROVE  Sound(bucket[s], grants[s], now') /\ Kept(bucket[s], promised[s], now')
    <3>1. bucket[s].refilled \in Nat /\ promised[s] \in Nat
      BY DEF ThrottleInv, ThrottleTypeOK
    <3> QED
      BY <2>1, <3>1 DEF ThrottleInv, Sound, Kept
  <2> QED
    BY <2>1, <2>2 DEF ThrottleInv, ThrottleTypeOK
<1>3. CASE ResetEngine
  <2>1. ThrottleTypeOK'
    BY <1>3, EmptySound DEF ResetEngine, ThrottleInv, ThrottleTypeOK, Bucket
  <2>2. ASSUME NEW s \in Server
        PROVE  Sound(bucket'[s], grants'[s], now') /\ Kept(bucket'[s], promised'[s], now')
    BY <1>3, EmptySound DEF ResetEngine, ThrottleInv, ThrottleTypeOK
  <2>3. \A s \in Server : ~ (Len(grants'[s]) > Len(grants[s]))
    BY <1>3 DEF ResetEngine, ThrottleInv, ThrottleTypeOK
  <2> QED
    BY <2>1, <2>2, <2>3 DEF ThrottleInv
<1>4. CASE UNCHANGED throttleVars
  BY <1>1, <1>4 DEF throttleVars, ThrottleInv, ThrottleTypeOK
<1> QED
  BY <1>1, <1>2, <1>3, <1>4, CheckStep, ReportStep DEF ThrottleNext

LEMMA ThrottleStarts == ThrottleInit => ThrottleInv
BY EmptySound DEF ThrottleInit, ThrottleInv, ThrottleTypeOK, Bucket

-----------------------------------------------------------------------------
(* Theorems *)

\* ThrottleEngine::check asks a server, over every window, for no more than its
\* bucket holds and the window refills.
THEOREM RateAlwaysBounded == ThrottleSpec => []RateBounded
<1>1. ThrottleInv => RateBounded
  <2> SUFFICES ASSUME ThrottleInv, NEW s \in Server,
                      NEW i \in DOMAIN grants[s], NEW j \in DOMAIN grants[s], i <= j
      PROVE Token * (j - i + 1)
              <= bucket[s].max + Refilled(bucket[s].max, grants[s][j] - grants[s][i])
    BY Zenon DEF RateBounded, Refilled
  <2>1. grants[s] \in Seq(Nat) /\ Windows(bucket[s].max, grants[s])
    BY DEF ThrottleInv, ThrottleTypeOK, Sound
  <2>2. DOMAIN grants[s] = 1..Len(grants[s])
    BY <2>1
  <2> QED
    BY <2>1, <2>2 DEF Windows
<1> QED
  BY <1>1, ThrottleStarts, ThrottleStep, PTL DEF ThrottleSpec

\* No check grants anything while the backoff last started lasts, whatever
\* successes are reported in between.
THEOREM BackoffAlwaysHolds == ThrottleSpec => BackoffHolds
<1>1. ThrottleInv /\ [ThrottleNext]_throttleVars
        => [\A s \in Server : Len(grants'[s]) > Len(grants[s]) => now >= promised[s]]_throttleVars
  BY ThrottleStep
<1> QED
  BY <1>1, ThrottleStarts, ThrottleStep, PTL DEF ThrottleSpec, BackoffHolds

----------------------------------------------------------------------------
(* The retries.                                                           *)

\* A request's waits are the delays of its attempts so far, the shortest first.
RetryInv ==
  /\ waits \in Seq(Nat)
  /\ \/ request = NoRequest /\ waits = <<>>
     \/ LET c == request.config IN
        /\ request = [phase |-> "asked", pause |-> request.pause, config |-> c,
                      attempt |-> Len(waits)]
        /\ c \in Backoff /\ Len(waits) <= c.retries
        /\ \A i \in 1..Len(waits) : waits[i] = Delay(c, i - 1)
        /\ \A i, j \in 1..Len(waits) : i < j => waits[i] <= waits[j]

\* The powers of two of the attempts.
LEMMA Powers ==
  ASSUME NEW a \in 0..20
  PROVE  2 ^ a \in Nat /\ 2 ^ a >= 1 /\ 2 ^ (a + 1) = 2 * 2 ^ a
<1>1. /\ 2 ^ 0 = 1 /\ 2 ^ 1 = 2 /\ 2 ^ 2 = 4 /\ 2 ^ 3 = 8 /\ 2 ^ 4 = 16
      /\ 2 ^ 5 = 32 /\ 2 ^ 6 = 64 /\ 2 ^ 7 = 128 /\ 2 ^ 8 = 256 /\ 2 ^ 9 = 512
      /\ 2 ^ 10 = 1024 /\ 2 ^ 11 = 2048 /\ 2 ^ 12 = 4096 /\ 2 ^ 13 = 8192 /\ 2 ^ 14 = 16384
      /\ 2 ^ 15 = 32768 /\ 2 ^ 16 = 65536 /\ 2 ^ 17 = 131072 /\ 2 ^ 18 = 262144 /\ 2 ^ 19 = 524288
      /\ 2 ^ 20 = 1048576 /\ 2 ^ 21 = 2097152
  OBVIOUS
<1>2. PICK p : p = [i \in 0..21 |-> 2 ^ i]
  OBVIOUS
<1>3. \A i \in 0..20 : p[i] \in Nat /\ p[i] >= 1 /\ p[i + 1] = 2 * p[i]
  <2>1. /\ p[0] = 1 /\ p[1] = 2 /\ p[2] = 4 /\ p[3] = 8 /\ p[4] = 16
        /\ p[5] = 32 /\ p[6] = 64 /\ p[7] = 128 /\ p[8] = 256 /\ p[9] = 512
        /\ p[10] = 1024 /\ p[11] = 2048 /\ p[12] = 4096 /\ p[13] = 8192 /\ p[14] = 16384
        /\ p[15] = 32768 /\ p[16] = 65536 /\ p[17] = 131072 /\ p[18] = 262144 /\ p[19] = 524288
        /\ p[20] = 1048576 /\ p[21] = 2097152
    BY <1>1, <1>2
  <2> QED BY <2>1
<1>4. a \in 0..21 /\ a + 1 \in 0..21
  OBVIOUS
<1>5. p[a] = 2 ^ a
  BY <1>2, <1>4
<1>6. p[a + 1] = 2 ^ (a + 1)
  BY <1>2, <1>4
<1>7. p[a] \in Nat /\ p[a] >= 1 /\ p[a + 1] = 2 * p[a]
  BY <1>3
<1> QED BY <1>5, <1>6, <1>7

LEMMA Thousandths ==
  ASSUME NEW a \in 0..21
  PROVE  PseudoRandom(a) \in 0..999
BY DEF PseudoRandom

\* The jitter of a delay.
JitterOf(d, j, r) == (d * j * r) \div 10000

\* A jitter of at most ten tenths never doubles a delay.
LEMMA JitterUnderDouble ==
  ASSUME NEW d \in Nat, NEW j \in 0..10, NEW r \in 0..999
  PROVE  JitterOf(d, j, r) \in Nat /\ JitterOf(d, j, r) <= d
<1> DEFINE k == j * r
<1>1. k \in Nat /\ k <= 9990
  OBVIOUS
<1>2. d * j * r = d * k
  OBVIOUS
<1> HIDE DEF k
<1>3. d * k \in Nat /\ d * k <= d * 9990
  BY <1>1
<1> DEFINE x == d * k
<1>4. x \in Nat /\ x <= d * 9990
  BY <1>3
<1> HIDE DEF x
<1>5. x \div 10000 \in Nat /\ x \div 10000 <= d
  BY <1>4
<1> QED BY <1>2, <1>5 DEF x, JitterOf

LEMMA BackoffFields ==
  ASSUME NEW c \in Backoff
  PROVE  /\ c.strategy \in Strategies /\ c.base \in Nat /\ c.max \in Nat
         /\ c.retries \in 0..21 /\ c.retries \in Nat /\ c.jitter \in 0..10
<1>1. c \in [strategy : Strategies, base : Nat, max : Nat, retries : 0..21, jitter : 0..10]
  BY RetryAssumption
<1> QED BY <1>1

\* No delay is shorter than the one before it, and each keeps to its bounds.
LEMMA DelayGrows ==
  ASSUME NEW c \in Backoff, NEW a \in Nat, a < c.retries
  PROVE  /\ Delay(c, a) \in Nat
         /\ c.base <= c.max => c.base <= Delay(c, a) /\ Delay(c, a) <= c.max
         /\ a + 1 < c.retries => Delay(c, a) <= Delay(c, a + 1)
<1>1. /\ c.strategy \in Strategies /\ c.base \in Nat /\ c.max \in Nat
      /\ c.retries \in 0..21 /\ c.jitter \in 0..10 /\ a \in 0..20
  BY BackoffFields
<1>2. ~ (a >= c.retries)
  BY <1>1
<1> DEFINE d == c.base * 2 ^ a
           e == c.base * 2 ^ (a + 1)
           s == (d * c.jitter * PseudoRandom(a)) \div 10000
           u == (e * c.jitter * PseudoRandom(a + 1)) \div 10000
<1>3. d \in Nat /\ e \in Nat /\ c.base <= d /\ e = 2 * d
  <2> DEFINE p == 2 ^ a
  <2>1. p \in Nat /\ p >= 1 /\ 2 ^ (a + 1) = 2 * p
    BY <1>1, Powers
  <2> HIDE DEF p
  <2>2. c.base * p \in Nat /\ c.base <= c.base * p /\ c.base * (2 * p) = 2 * (c.base * p)
    BY <1>1, <2>1
  <2> QED BY <2>1, <2>2 DEF p
<1>4. s \in Nat /\ s <= d
  <2>1. s = JitterOf(d, c.jitter, PseudoRandom(a))
    BY DEF JitterOf
  <2>2. d \in Nat /\ c.jitter \in 0..10 /\ PseudoRandom(a) \in 0..999
    BY <1>1, <1>3, Thousandths
  <2> HIDE DEF d, s
  <2> QED BY <2>1, <2>2, JitterUnderDouble
<1>5. u \in Nat
  <2>1. u = JitterOf(e, c.jitter, PseudoRandom(a + 1))
    BY DEF JitterOf
  <2>2. a + 1 \in 0..21
    BY <1>1
  <2>3. e \in Nat /\ c.jitter \in 0..10 /\ PseudoRandom(a + 1) \in 0..999
    BY <1>1, <1>3, <2>2, Thousandths
  <2> HIDE DEF e, u
  <2> QED BY <2>1, <2>3, JitterUnderDouble
<1>6. /\ c.strategy = "fixed" => Delay(c, a) = Smaller(c.max, c.base)
      /\ c.strategy = "linear" => Delay(c, a) = Smaller(c.max, c.base * (a + 1))
      /\ c.strategy = "exponential" => Delay(c, a) = Smaller(c.max, d)
      /\ c.strategy = "jitter" => Delay(c, a) = Smaller(c.max, d + s)
  BY <1>2 DEF Delay
<1>7. ASSUME a + 1 < c.retries
      PROVE  /\ c.strategy = "fixed" => Delay(c, a + 1) = Smaller(c.max, c.base)
             /\ c.strategy = "linear" => Delay(c, a + 1) = Smaller(c.max, c.base * (a + 2))
             /\ c.strategy = "exponential" => Delay(c, a + 1) = Smaller(c.max, e)
             /\ c.strategy = "jitter" => Delay(c, a + 1) = Smaller(c.max, e + u)
  <2>1. ~ (a + 1 >= c.retries) /\ (a + 1) + 1 = a + 2
    BY <1>1, <1>7
  <2> QED BY <2>1 DEF Delay
<1> HIDE DEF d, e, s, u
<1>8. /\ c.base * (a + 1) \in Nat /\ c.base <= c.base * (a + 1)
      /\ c.base * (a + 2) \in Nat /\ c.base * (a + 1) <= c.base * (a + 2)
  BY <1>1
<1>9. CASE c.strategy = "fixed"
  BY <1>1, <1>6, <1>7, <1>9 DEF Smaller
<1>10. CASE c.strategy = "linear"
  BY <1>1, <1>6, <1>7, <1>8, <1>10 DEF Smaller
<1>11. CASE c.strategy = "exponential"
  BY <1>1, <1>3, <1>6, <1>7, <1>11 DEF Smaller
<1>12. CASE c.strategy = "jitter"
  BY <1>1, <1>3, <1>4, <1>5, <1>6, <1>7, <1>12 DEF Smaller
<1> QED BY <1>1, <1>9, <1>10, <1>11, <1>12 DEF Strategies

\* One more wait, which is the longest so far.
LEMMA AnsweredStep ==
  ASSUME RetryInv, NEW response, NEW slow, NEW status, Answered(response, slow, status)
  PROVE  RetryInv'
<1> DEFINE c == request.config
           n == Len(waits)
<1>1. /\ waits \in Seq(Nat) /\ request.phase = "asked" /\ c \in Backoff /\ n <= c.retries
      /\ request = [phase |-> "asked", pause |-> request.pause, config |-> c, attempt |-> n]
      /\ \A i \in 1..n : waits[i] = Delay(c, i - 1)
      /\ \A i, j \in 1..n : i < j => waits[i] <= waits[j]
  BY DEF RetryInv, Answered, NoRequest
<1>2. CASE request' = NoRequest /\ waits' = <<>>
  BY <1>2 DEF RetryInv
<1>3. CASE /\ ShouldRetry(c, request.attempt)
           /\ waits' = Append(waits, Delay(c, request.attempt))
           /\ request' = [request EXCEPT !.attempt = @ + 1]
  <2>1. n \in Nat /\ n < c.retries /\ request.attempt = n
    BY <1>1, <1>3 DEF ShouldRetry
  <2>2. Delay(c, n) \in Nat
    BY <1>1, <2>1, DelayGrows
  <2>3. waits' \in Seq(Nat) /\ Len(waits') = n + 1
    BY <1>1, <1>3, <2>1, <2>2
  <2>4. /\ request'.config = c /\ request'.pause = request.pause
        /\ request' = [phase |-> "asked", pause |-> request.pause, config |-> c, attempt |-> n + 1]
    <3> DEFINE q == [phase |-> "asked", pause |-> request.pause, config |-> c, attempt |-> n]
    <3>1. request' = [q EXCEPT !.attempt = n + 1]
      BY <1>1, <1>3, <2>1
    <3> QED BY <3>1
  <2>5. waits'[n + 1] = Delay(c, n) /\ \A i \in 1..n : waits'[i] = waits[i]
    BY <1>1, <1>3, <2>1, <2>2
  <2>6. n + 1 <= c.retries
    <3>1. c.retries \in Nat
      BY <1>1, BackoffFields
    <3> QED BY <2>1, <3>1
  <2> HIDE DEF c, n
  <2>7. \A i \in 1..(n + 1) : waits'[i] = Delay(c, i - 1)
    <3> TAKE i \in 1..(n + 1)
    <3>1. CASE i = n + 1
      BY <2>1, <2>5, <3>1
    <3>2. CASE i # n + 1
      BY <1>1, <2>1, <2>5, <3>2
    <3> QED BY <3>1, <3>2
  <2>8. \A i \in 1..n : waits[i] \in Nat /\ waits[i] <= Delay(c, n)
    <3> TAKE i \in 1..n
    <3>1. n - 1 \in Nat /\ n - 1 < c.retries /\ (n - 1) + 1 = n /\ n \in 1..n
      <4>1. c.retries \in Nat
        BY <1>1, BackoffFields
      <4> QED BY <2>1, <4>1
    <3>2. Delay(c, n - 1) \in Nat /\ Delay(c, n - 1) <= Delay(c, n)
      BY <1>1, <2>1, <3>1, DelayGrows
    <3>3. waits[n] = Delay(c, n - 1)
      BY <1>1, <3>1
    <3>4. waits[i] \in Nat
      BY <1>1 DEF n
    <3>5. waits[i] <= waits[n]
      BY <1>1, <2>1, <3>1, <3>2, <3>3, <3>4
    <3> QED BY <2>2, <3>2, <3>3, <3>4, <3>5
  <2>9. \A i, j \in 1..(n + 1) : i < j => waits'[i] <= waits'[j]
    <3> SUFFICES ASSUME NEW i \in 1..(n + 1), NEW j \in 1..(n + 1), i < j
                 PROVE  waits'[i] <= waits'[j]
      OBVIOUS
    <3>1. i \in 1..n
      BY <2>1
    <3>2. CASE j = n + 1
      BY <2>5, <2>8, <3>1, <3>2
    <3>3. CASE j # n + 1
      BY <1>1, <2>1, <2>5, <3>1, <3>3
    <3> QED BY <3>2, <3>3
  <2> QED BY <1>1, <2>3, <2>4, <2>6, <2>7, <2>9 DEF RetryInv
<1> QED BY <1>2, <1>3 DEF Answered

LEMMA RetryStep == RetryInv /\ [RetryNext]_retryVars => RetryInv'
<1> SUFFICES ASSUME RetryInv, [RetryNext]_retryVars
             PROVE  RetryInv'
  OBVIOUS
<1>1. CASE UNCHANGED <<request, waits>>
  BY <1>1 DEF RetryInv
<1>2. ASSUME NEW server, NEW c \in Backoff, AskServer(server, c)
      PROVE  RetryInv'
  <2>1. waits' = <<>> /\ waits' \in Seq(Nat)
    BY <1>2 DEF RetryInv, AskServer, NoRequest
  <2>2. request' = [phase |-> "asked", pause |-> request'.pause, config |-> c, attempt |-> 0]
        /\ request'.config = c
    BY <1>2 DEF AskServer
  <2>3. c.retries \in Nat
    BY BackoffFields
  <2> QED BY <2>1, <2>2, <2>3 DEF RetryInv
<1>3. ASSUME NEW response, NEW slow, NEW status, Answered(response, slow, status)
      PROVE  RetryInv'
  BY <1>3, AnsweredStep
<1> QED BY <1>1, <1>2, <1>3 DEF RetryNext, AddProfile, AddPattern, retryVars

\* A request's delays (backoff.rs) never shrink from one retry to the next,
\* whatever the jitter, stay between the base and the maximum, and are no more
\* than the retries of its configuration.
THEOREM DelaysAlwaysGrow == RetrySpec => []DelaysGrow
<1>1. RetryInit => RetryInv
  BY DEF RetryInit, RetryInv
<1>2. RetryInv => DelaysGrow
  <2> SUFFICES ASSUME RetryInv, request.phase = "asked"
               PROVE  LET c == request.config IN
                      /\ Len(waits) = request.attempt /\ request.attempt <= c.retries
                      /\ \A i, j \in DOMAIN waits : i < j => waits[i] <= waits[j]
                      /\ c.base <= c.max => \A i \in DOMAIN waits : waits[i] \in c.base..c.max
    BY DEF DelaysGrow
  <2> DEFINE c == request.config
  <2>1. /\ waits \in Seq(Nat) /\ c \in Backoff /\ Len(waits) <= c.retries
        /\ request.attempt = Len(waits)
        /\ \A i \in 1..Len(waits) : waits[i] = Delay(c, i - 1)
        /\ \A i, j \in 1..Len(waits) : i < j => waits[i] <= waits[j]
    BY DEF RetryInv, NoRequest
  <2>2. DOMAIN waits = 1..Len(waits) /\ Len(waits) \in Nat
    BY <2>1
  <2>3. c.retries \in Nat /\ c.base \in Nat /\ c.max \in Nat
    BY <2>1, BackoffFields
  <2> HIDE DEF c
  <2>4. ASSUME c.base <= c.max, NEW i \in 1..Len(waits) PROVE waits[i] \in c.base..c.max
    <3>1. i - 1 \in Nat /\ i - 1 < c.retries
      BY <2>1, <2>2, <2>3
    <3>2. Delay(c, i - 1) \in Nat /\ c.base <= Delay(c, i - 1) /\ Delay(c, i - 1) <= c.max
      BY <2>1, <2>4, <3>1, DelayGrows
    <3> QED BY <2>1, <2>3, <3>2
  <2> QED BY <2>1, <2>2, <2>4 DEF c
<1> QED BY <1>1, <1>2, RetryStep, PTL DEF RetrySpec

----------------------------------------------------------------------------
(* A streamed completion.                                                 *)

(***************************************************************************)
(* The property and what it needs of the past: with a server that repeats  *)
(* ids a piece travels under its call's id, which names its accumulator;   *)
(* and nothing is sent before the format is known.                         *)
(***************************************************************************)
ChunkId == StreamCall \cup {Absent, "index"}
Piece == [call : StreamCall \cup {Absent}, id : ChunkId, piece : Nat]
Accumulator == [id : ChunkId, name : StreamCall \cup {Absent}, args : Seq(Nat)]

StreamFormat == {Absent, "openai", "repeating", "anthropic"}

StreamInv ==
  /\ sent \in Seq(Piece) /\ toolCalls \in Seq(Accumulator)
  /\ text \in Seq(Nat) /\ line \in Nat
  /\ format \in StreamFormat
  /\ format = Absent => sent = <<>> /\ toolCalls = <<>>
  /\ format = "repeating" =>
       \A i \in DOMAIN sent : sent[i].call # Absent => sent[i].id = sent[i].call
  /\ PiecesInPlace

LEMMA PiecesAppend ==
  ASSUME NEW s \in Seq(Piece), NEW e \in Piece
  PROVE  /\ PiecesOf(Append(s, e)) = Append(PiecesOf(s), e.piece)
         /\ PiecesOf(s) \in Seq(Nat)
<1>0. \A p \in Piece : p.piece \in Nat
  BY DEF Piece
<1>1. DOMAIN s = 1..Len(s) /\ Len(s) \in Nat /\ \A i \in 1..Len(s) : s[i].piece \in Nat
  BY <1>0
<1>2. PiecesOf(s) \in [1..Len(s) -> Nat]
  BY <1>1 DEF PiecesOf
<1>3. PiecesOf(s) \in Seq(Nat) /\ Len(PiecesOf(s)) = Len(s)
  BY <1>1, <1>2
<1> DEFINE t == Append(s, e)
<1>4. /\ DOMAIN t = 1..(Len(s) + 1) /\ t[Len(s) + 1] = e
      /\ \A i \in 1..Len(s) : t[i] = s[i]
  BY <1>1
<1>5. e.piece \in Nat
  BY DEF Piece
<1> HIDE DEF t
<1>6. PiecesOf(t) = [i \in 1..(Len(s) + 1) |-> t[i].piece]
  BY <1>4 DEF PiecesOf
<1>7. /\ Append(PiecesOf(s), e.piece) \in Seq(Nat)
      /\ Len(Append(PiecesOf(s), e.piece)) = Len(s) + 1
  BY <1>3, <1>5
<1>8. \A i \in 1..(Len(s) + 1) : PiecesOf(t)[i] = Append(PiecesOf(s), e.piece)[i]
  BY <1>1, <1>3, <1>4, <1>5, <1>6 DEF PiecesOf
<1>9. PiecesOf(t) = Append(PiecesOf(s), e.piece)
  BY <1>6, <1>7, <1>8
<1> QED BY <1>3, <1>9 DEF t

\* What is sent last shows in the text or in the arguments of its id.
LEMMA TextSentStep ==
  ASSUME sent \in Seq(Piece), NEW e \in Piece, sent' = Append(sent, e)
  PROVE  TextSent' = IF e.call = Absent THEN Append(TextSent, e.piece) ELSE TextSent
<1>1. Sift(sent, TextPlaces) \in Seq(Piece)
  BY SiftType
<1>2. \A i \in 1..Len(sent) : i \in TextPlaces <=> i \in TextPlaces'
  BY DEF TextPlaces
<1>3. Len(sent) + 1 \in TextPlaces' <=> e.call = Absent
  BY DEF TextPlaces
<1>4. Sift(sent, TextPlaces)' =
        IF e.call = Absent THEN Append(Sift(sent, TextPlaces), e) ELSE Sift(sent, TextPlaces)
  BY <1>2, <1>3, SiftAppend
<1> QED BY <1>1, <1>4, PiecesAppend DEF TextSent

LEMMA ArgsSentStep ==
  ASSUME sent \in Seq(Piece), NEW e \in Piece, sent' = Append(sent, e), NEW id
  PROVE  ArgsSent(id)' = IF e.call # Absent /\ e.id = id /\ e.piece # 0
                         THEN Append(ArgsSent(id), e.piece) ELSE ArgsSent(id)
<1>1. Sift(sent, ArgsPlaces(id)) \in Seq(Piece)
  BY SiftType
<1>2. \A i \in 1..Len(sent) : i \in ArgsPlaces(id) <=> i \in ArgsPlaces(id)'
  BY DEF ArgsPlaces
<1>3. Len(sent) + 1 \in ArgsPlaces(id)' <=> e.call # Absent /\ e.id = id /\ e.piece # 0
  BY DEF ArgsPlaces
<1>4. Sift(sent, ArgsPlaces(id))' =
        IF e.call # Absent /\ e.id = id /\ e.piece # 0
        THEN Append(Sift(sent, ArgsPlaces(id)), e) ELSE Sift(sent, ArgsPlaces(id))
  BY <1>2, <1>3, SiftAppend
<1> QED BY <1>1, <1>4, PiecesAppend DEF ArgsSent

\* Nothing was sent under an id that has no accumulator.
LEMMA NoneSentYet ==
  ASSUME StreamInv, NEW id, WithId(id) = {}
  PROVE  ArgsSent(id) = <<>>
<1>1. \A i \in DOMAIN sent : ~ (sent[i].call # Absent /\ sent[i].id = id)
  BY DEF StreamInv, PiecesInPlace, WithId
<1>2. Sift(sent, ArgsPlaces(id)) \in Seq(Piece)
  BY SiftType DEF StreamInv
<1>3. Len(Sift(sent, ArgsPlaces(id))) = 0
  <2>1. ArgsPlaces(id) = {}
    BY <1>1 DEF ArgsPlaces
  <2> QED BY <1>2, <2>1, SiftType DEF StreamInv
<1>4. Sift(sent, ArgsPlaces(id)) = <<>>
  BY <1>2, <1>3
<1> QED BY <1>4 DEF ArgsSent, PiecesOf

\* What a delta does to an accumulator.
LEMMA DeltaApplied ==
  ASSUME NEW acc \in Accumulator, NEW id \in ChunkId, NEW name \in StreamCall \cup {Absent},
         NEW n \in Nat
  PROVE  /\ ApplyDelta(acc, ToolDelta(id, name, n)) \in Accumulator
         /\ ApplyDelta(acc, ToolDelta(id, name, n)).id = acc.id
         /\ ApplyDelta(acc, ToolDelta(id, name, n)).name =
              IF acc.name = Absent THEN name ELSE acc.name
         /\ ApplyDelta(acc, ToolDelta(id, name, n)).args =
              IF n = 0 THEN acc.args ELSE Append(acc.args, n)
<1> DEFINE d == ToolDelta(id, name, n)
<1>1. d.id = id /\ d.name = name /\ d.piece = n
  BY DEF ToolDelta
<1>2. acc.args \in Seq(Nat) /\ acc.name \in StreamCall \cup {Absent} /\ acc.id \in ChunkId
  BY DEF Accumulator
<1>3. Append(acc.args, n) \in Seq(Nat)
  BY <1>2
<1> HIDE DEF d
<1>4. /\ ApplyDelta(acc, d).id = acc.id
      /\ ApplyDelta(acc, d).name = IF acc.name = Absent THEN name ELSE acc.name
      /\ ApplyDelta(acc, d).args = IF n = 0 THEN acc.args ELSE Append(acc.args, n)
  BY <1>1 DEF ApplyDelta, Accumulator
<1>5. \A x \in StreamCall \cup {Absent}, y \in Seq(Nat) :
        [acc EXCEPT !.name = x, !.args = y] \in Accumulator
  BY DEF Accumulator
<1>6. ApplyDelta(acc, d) \in Accumulator
  <2>1. ApplyDelta(acc, d) = [acc EXCEPT !.name = IF acc.name = Absent THEN name ELSE acc.name,
                                         !.args = IF n = 0 THEN acc.args ELSE Append(acc.args, n)]
    BY <1>1 DEF ApplyDelta
  <2> QED BY <1>2, <1>3, <1>5, <2>1
<1> QED BY <1>4, <1>6 DEF d

\* A piece goes to the accumulator of its id, and to no other.
LEMMA PushedInPlace ==
  ASSUME StreamInv, NEW id \in ChunkId, NEW name \in StreamCall \cup {Absent}, NEW n \in Nat,
         toolCalls' = PushTool(ToolDelta(id, name, n))
  PROVE  /\ toolCalls' \in Seq(Accumulator)
         /\ \A k \in DOMAIN toolCalls :
              /\ k \in DOMAIN toolCalls'
              /\ toolCalls[k].id # id => toolCalls'[k] = toolCalls[k]
              /\ toolCalls[k].id = id => toolCalls'[k] = ApplyDelta(toolCalls[k], ToolDelta(id, name, n))
         /\ WithId(id) # {} => DOMAIN toolCalls' = DOMAIN toolCalls
         /\ WithId(id) = {} =>
              /\ DOMAIN toolCalls' = DOMAIN toolCalls \cup {Len(toolCalls) + 1}
              /\ toolCalls'[Len(toolCalls) + 1] = ApplyDelta(Fresh(id), ToolDelta(id, name, n))
<1> DEFINE d == ToolDelta(id, name, n)
<1>0. toolCalls \in Seq(Accumulator) /\ d.id = id
  BY DEF StreamInv, ToolDelta
<1>1. CASE WithId(id) = {}
  <2>1. Fresh(id) \in Accumulator
    BY DEF Fresh, Accumulator
  <2>2. ApplyDelta(Fresh(id), d) \in Accumulator
    BY <2>1, DeltaApplied
  <2>3. toolCalls' = Append(toolCalls, ApplyDelta(Fresh(id), d))
    BY <1>0, <1>1 DEF PushTool
  <2>4. \A k \in DOMAIN toolCalls : toolCalls[k].id # id
    BY <1>1 DEF WithId
  <2> HIDE DEF d
  <2> QED BY <1>0, <1>1, <2>2, <2>3, <2>4 DEF d
<1>2. CASE WithId(id) # {}
  <2>1. PICK k \in DOMAIN toolCalls : toolCalls[k].id = id
    BY <1>2 DEF WithId
  <2>2. WithId(id) = {k}
    BY <2>1 DEF StreamInv, PiecesInPlace
  <2>3. k <= k
    BY <1>0
  <2>4. (CHOOSE i \in WithId(id) : \A j \in WithId(id) : i <= j) = k
    BY <2>2, <2>3
  <2>5. toolCalls' = [toolCalls EXCEPT ![k] = ApplyDelta(toolCalls[k], d)]
    BY <1>0, <1>2, <2>4 DEF PushTool
  <2>6. ApplyDelta(toolCalls[k], d) \in Accumulator
    BY <1>0, <2>1, DeltaApplied
  <2>7. \A j \in DOMAIN toolCalls : toolCalls[j].id = id => j = k
    BY <2>2 DEF WithId
  <2> HIDE DEF d
  <2>8. toolCalls' \in Seq(Accumulator) /\ DOMAIN toolCalls' = DOMAIN toolCalls
    BY <1>0, <2>1, <2>5, <2>6
  <2> QED BY <1>2, <2>1, <2>5, <2>7, <2>8 DEF d
<1> QED BY <1>1, <1>2

LEMMA ToolStep ==
  ASSUME StreamInv, NEW c \in StreamCall, NEW id \in ChunkId,
         NEW name \in StreamCall \cup {Absent}, NEW n \in Nat,
         sent' = Append(sent, [call |-> c, id |-> id, piece |-> n]),
         toolCalls' = PushTool(ToolDelta(id, name, n)), text' = text, line' = line + 1,
         format' = format, format # Absent,
         format = "repeating" => id = c /\ (name = id \/ WithId(id) # {})
  PROVE  StreamInv'
<1> DEFINE e == [call |-> c, id |-> id, piece |-> n]
           d == ToolDelta(id, name, n)
<1>0. /\ sent \in Seq(Piece) /\ toolCalls \in Seq(Accumulator) /\ line \in Nat /\ text \in Seq(Nat)
      /\ c # Absent
  BY StreamAssumption DEF StreamInv, Absent
<1>1. e \in Piece /\ e.call = c /\ e.id = id /\ e.piece = n
  BY DEF Piece
<1> HIDE DEF e
<1>2. /\ sent' \in Seq(Piece) /\ DOMAIN sent' = DOMAIN sent \cup {Len(sent) + 1}
      /\ \A i \in DOMAIN sent : sent'[i] = sent[i]
      /\ sent'[Len(sent) + 1] = e
  BY <1>0, <1>1 DEF e
<1>3. sent' = Append(sent, e)
  BY DEF e
<1>4. toolCalls' \in Seq(Accumulator)
  BY PushedInPlace
<1>5. \A k \in DOMAIN toolCalls : k \in DOMAIN toolCalls' /\ toolCalls'[k].id = toolCalls[k].id
  <2> SUFFICES ASSUME NEW k \in DOMAIN toolCalls
               PROVE  k \in DOMAIN toolCalls' /\ toolCalls'[k].id = toolCalls[k].id
    OBVIOUS
  <2>1. toolCalls[k] \in Accumulator
    BY <1>0
  <2>2. ApplyDelta(toolCalls[k], ToolDelta(id, name, n)).id = toolCalls[k].id
    BY <2>1, DeltaApplied
  <2> QED BY <2>2, PushedInPlace
<1>6. text' = TextSent'
  BY <1>0, <1>1, <1>3, TextSentStep DEF StreamInv, PiecesInPlace
<1>7. \E k \in DOMAIN toolCalls' : toolCalls'[k].id = id
  <2>1. CASE WithId(id) # {}
    BY <2>1, <1>5 DEF WithId
  <2>2. CASE WithId(id) = {}
    <3>1. Fresh(id) \in Accumulator /\ Fresh(id).id = id
      BY DEF Fresh, Accumulator
    <3>2. ApplyDelta(Fresh(id), ToolDelta(id, name, n)).id = id
      BY <3>1, DeltaApplied
    <3>3. /\ Len(toolCalls) + 1 \in DOMAIN toolCalls'
          /\ toolCalls'[Len(toolCalls) + 1] = ApplyDelta(Fresh(id), ToolDelta(id, name, n))
      BY <2>2, PushedInPlace
    <3> QED BY <3>2, <3>3
  <2> QED BY <2>1, <2>2
<1>8. ASSUME NEW i \in DOMAIN sent', sent'[i].call # Absent
      PROVE  \E k \in DOMAIN toolCalls' : toolCalls'[k].id = sent'[i].id
  <2>1. CASE i \in DOMAIN sent
    <3>1. PICK k \in DOMAIN toolCalls : toolCalls[k].id = sent[i].id
      BY <1>2, <1>8, <2>1 DEF StreamInv, PiecesInPlace
    <3> QED BY <1>2, <1>5, <2>1, <3>1
  <2>2. CASE i = Len(sent) + 1
    BY <1>1, <1>2, <1>7, <2>2
  <2> QED BY <1>2, <2>1, <2>2
<1>9. ASSUME NEW k \in DOMAIN toolCalls'
      PROVE  (/\ WithId(toolCalls[k].id) = {k}
              /\ toolCalls[k].args = ArgsSent(toolCalls[k].id)
              /\ format = "repeating" => toolCalls[k].name = toolCalls[k].id)'
  <2>1. CASE k \in DOMAIN toolCalls
    <3> PICK acc : acc = toolCalls[k]
      OBVIOUS
    <3>1. /\ acc \in Accumulator /\ WithId(acc.id) = {k} /\ acc.args = ArgsSent(acc.id)
          /\ format = "repeating" => acc.name = acc.id
      <4>1. toolCalls[k] \in Accumulator
        BY <1>0, <2>1
      <4>2. /\ WithId(toolCalls[k].id) = {k} /\ toolCalls[k].args = ArgsSent(toolCalls[k].id)
            /\ format = "repeating" => toolCalls[k].name = toolCalls[k].id
        BY <2>1 DEF StreamInv, PiecesInPlace
      <4> QED BY <4>1, <4>2
    <3>2. toolCalls'[k].id = acc.id
      BY <1>5, <2>1
    <3>3. WithId(acc.id)' = {k}
      <4>1. \A j \in DOMAIN toolCalls : toolCalls'[j].id = acc.id <=> j = k
        BY <1>5, <2>1, <3>1 DEF WithId
      <4>2. ASSUME NEW j \in DOMAIN toolCalls', j \notin DOMAIN toolCalls
            PROVE  toolCalls'[j].id # acc.id
        <5>1. WithId(id) = {} /\ j = Len(toolCalls) + 1
          BY <4>2, PushedInPlace
        <5>2. Fresh(id) \in Accumulator /\ Fresh(id).id = id
          BY DEF Fresh, Accumulator
        <5>5. ApplyDelta(Fresh(id), ToolDelta(id, name, n)).id = id
          BY <5>2, DeltaApplied
        <5>6. toolCalls'[j] = ApplyDelta(Fresh(id), ToolDelta(id, name, n))
          BY <5>1, PushedInPlace
        <5>3. toolCalls'[j].id = id
          BY <5>5, <5>6
        <5>4. acc.id # id
          BY <2>1, <5>1 DEF WithId
        <5> QED BY <5>3, <5>4
      <4> QED BY <4>1, <4>2, <1>5, <2>1 DEF WithId
    <3>4. CASE acc.id # id
      <4>1. toolCalls'[k] = acc
        BY <2>1, <3>4, PushedInPlace
      <4>2. ArgsSent(acc.id)' = ArgsSent(acc.id)
        BY <1>0, <1>1, <1>3, <3>4, ArgsSentStep
      <4> QED BY <3>1, <3>3, <4>1, <4>2
    <3>5. CASE acc.id = id
      <4>1. toolCalls'[k] = ApplyDelta(acc, ToolDelta(id, name, n))
        BY <2>1, <3>5, PushedInPlace
      <4>2. ArgsSent(acc.id)' = IF n # 0 THEN Append(ArgsSent(acc.id), n) ELSE ArgsSent(acc.id)
        BY <1>0, <1>1, <1>3, <3>5, ArgsSentStep
      <4>5. /\ ApplyDelta(acc, ToolDelta(id, name, n)).args =
                 IF n = 0 THEN acc.args ELSE Append(acc.args, n)
            /\ ApplyDelta(acc, ToolDelta(id, name, n)).name =
                 IF acc.name = Absent THEN name ELSE acc.name
        BY <3>1, DeltaApplied
      <4>3. toolCalls'[k].args = IF n = 0 THEN acc.args ELSE Append(acc.args, n)
        BY <4>1, <4>5
      <4>4. format = "repeating" => toolCalls'[k].name = acc.name
        <5>1. toolCalls'[k].name = IF acc.name = Absent THEN name ELSE acc.name
          BY <4>1, <4>5
        <5> QED BY <1>0, <3>1, <3>5, <5>1
      <4> QED BY <3>1, <3>2, <3>3, <4>2, <4>3, <4>4
    <3> QED BY <3>4, <3>5
  <2>2. CASE k \notin DOMAIN toolCalls
    <3>1. /\ WithId(id) = {} /\ k = Len(toolCalls) + 1
          /\ toolCalls'[k] = ApplyDelta(Fresh(id), ToolDelta(id, name, n))
          /\ DOMAIN toolCalls' = DOMAIN toolCalls \cup {k}
      BY <1>9, <2>2, PushedInPlace
    <3>2. /\ Fresh(id) \in Accumulator /\ Fresh(id).id = id /\ Fresh(id).name = Absent
          /\ Fresh(id).args = <<>>
      BY DEF Fresh, Accumulator
    <3>3. /\ toolCalls'[k].id = id /\ toolCalls'[k].name = name
          /\ toolCalls'[k].args = IF n = 0 THEN <<>> ELSE Append(<<>>, n)
      <4> DEFINE new == ApplyDelta(Fresh(id), ToolDelta(id, name, n))
      <4>1. new.id = Fresh(id).id
        BY <3>2, DeltaApplied
      <4>2. new.name = IF Fresh(id).name = Absent THEN name ELSE Fresh(id).name
        BY <3>2, DeltaApplied
      <4>3. new.args = IF n = 0 THEN Fresh(id).args ELSE Append(Fresh(id).args, n)
        BY <3>2, DeltaApplied
      <4> HIDE DEF new
      <4>4. toolCalls'[k] = new
        BY <3>1 DEF new
      <4> QED BY <3>2, <4>1, <4>2, <4>3, <4>4
    <3>4. ArgsSent(id)' = IF n # 0 THEN Append(<<>>, n) ELSE <<>>
      <4>1. ArgsSent(id) = <<>>
        BY <3>1, NoneSentYet
      <4>2. ArgsSent(id)' = IF n # 0 THEN Append(ArgsSent(id), n) ELSE ArgsSent(id)
        BY <1>0, <1>1, <1>3, ArgsSentStep
      <4> QED BY <4>1, <4>2
    <3>5. WithId(id)' = {k}
      <4>1. \A j \in DOMAIN toolCalls : toolCalls'[j].id # id
        BY <1>5, <3>1 DEF WithId
      <4> QED BY <3>1, <3>3, <4>1 DEF WithId
    <3> QED BY <3>1, <3>3, <3>4, <3>5
  <2> QED BY <2>1, <2>2
<1>10. PiecesInPlace'
  BY <1>6, <1>8, <1>9 DEF PiecesInPlace
<1>11. format' = "repeating" =>
         \A i \in DOMAIN sent' : sent'[i].call # Absent => sent'[i].id = sent'[i].call
  BY <1>1, <1>2 DEF StreamInv
<1> QED BY <1>0, <1>2, <1>4, <1>10, <1>11 DEF StreamInv

LEMMA TextStep ==
  ASSUME StreamInv, NEW n \in Nat, text' = Append(text, n), toolCalls' = toolCalls,
         sent' = Append(sent, [call |-> Absent, id |-> Absent, piece |-> n]),
         line' = line + 1, format' = format, format # Absent
  PROVE  StreamInv'
<1> DEFINE e == [call |-> Absent, id |-> Absent, piece |-> n]
<1>0. /\ sent \in Seq(Piece) /\ toolCalls \in Seq(Accumulator) /\ line \in Nat /\ text \in Seq(Nat)
      /\ PiecesInPlace
  BY DEF StreamInv
<1>1. e \in Piece /\ e.call = Absent /\ e.piece = n
  BY DEF Piece, ChunkId
<1> HIDE DEF e
<1>2. sent' = Append(sent, e)
  BY DEF e
<1>3. /\ sent' \in Seq(Piece) /\ DOMAIN sent' = DOMAIN sent \cup {Len(sent) + 1}
      /\ \A i \in DOMAIN sent : sent'[i] = sent[i]
      /\ sent'[Len(sent) + 1] = e
  BY <1>0, <1>1, <1>2
<1>4. text' = TextSent'
  BY <1>0, <1>1, <1>2, TextSentStep DEF PiecesInPlace
<1>5. ASSUME NEW k \in DOMAIN toolCalls'
      PROVE  (/\ WithId(toolCalls[k].id) = {k}
              /\ toolCalls[k].args = ArgsSent(toolCalls[k].id)
              /\ format = "repeating" => toolCalls[k].name = toolCalls[k].id)'
  <2> PICK acc : acc = toolCalls[k]
    OBVIOUS
  <2>1. /\ WithId(acc.id) = {k} /\ acc.args = ArgsSent(acc.id)
        /\ format = "repeating" => acc.name = acc.id
    BY <1>0, <1>5 DEF PiecesInPlace
  <2>2. WithId(acc.id)' = WithId(acc.id)
    BY DEF WithId
  <2>3. ArgsSent(acc.id)' = ArgsSent(acc.id)
    BY <1>0, <1>1, <1>2, ArgsSentStep
  <2> QED BY <2>1, <2>2, <2>3
<1>6. \A i \in DOMAIN sent' : sent'[i].call # Absent =>
        \E k \in DOMAIN toolCalls' : toolCalls'[k].id = sent'[i].id
  <2> SUFFICES ASSUME NEW i \in DOMAIN sent', sent'[i].call # Absent
               PROVE  \E k \in DOMAIN toolCalls : toolCalls[k].id = sent'[i].id
    OBVIOUS
  <2>1. i \in DOMAIN sent /\ sent'[i] = sent[i]
    BY <1>1, <1>3
  <2> QED BY <1>0, <2>1 DEF PiecesInPlace
<1>7. PiecesInPlace'
  BY <1>4, <1>5, <1>6 DEF PiecesInPlace
<1>8. format' = "repeating" =>
         \A i \in DOMAIN sent' : sent'[i].call # Absent => sent'[i].id = sent'[i].call
  BY <1>1, <1>3 DEF StreamInv
<1> QED BY <1>0, <1>3, <1>7, <1>8 DEF StreamInv

LEMMA SilentStep ==
  ASSUME StreamInv, UNCHANGED <<text, toolCalls, sent>>, line' \in Nat,
         format' = format \/ (format = Absent /\ format' \in StreamFormat)
  PROVE  StreamInv'
<1>1. UNCHANGED <<TextSent, text, toolCalls, sent>>
  BY DEF TextSent, TextPlaces
<1>2. ASSUME NEW id PROVE UNCHANGED <<WithId(id), ArgsSent(id)>>
  BY DEF WithId, ArgsSent, ArgsPlaces
<1>3. CASE format = Absent
  <2>1. sent = <<>> /\ toolCalls = <<>> /\ DOMAIN sent = {} /\ DOMAIN toolCalls = {}
    BY <1>3 DEF StreamInv
  <2>2. PiecesInPlace'
    BY <1>1, <2>1 DEF StreamInv, PiecesInPlace
  <2> QED BY <1>1, <2>1, <2>2 DEF StreamInv
<1>4. CASE format # Absent
  <2>1. format' = format /\ PiecesInPlace
    BY <1>4 DEF StreamInv
  <2>3. ASSUME NEW k \in DOMAIN toolCalls'
        PROVE  (/\ WithId(toolCalls[k].id) = {k}
                /\ toolCalls[k].args = ArgsSent(toolCalls[k].id)
                /\ format = "repeating" => toolCalls[k].name = toolCalls[k].id)'
    <3> PICK acc : acc = toolCalls[k]
      OBVIOUS
    <3>1. /\ WithId(acc.id) = {k} /\ acc.args = ArgsSent(acc.id)
          /\ format = "repeating" => acc.name = acc.id
      BY <1>1, <2>1, <2>3 DEF PiecesInPlace
    <3> QED BY <1>1, <1>2, <2>1, <3>1
  <2>2. PiecesInPlace'
    BY <1>1, <2>1, <2>3 DEF PiecesInPlace
  <2> QED BY <1>1, <2>1, <2>2 DEF StreamInv
<1> QED BY <1>3, <1>4

(***************************************************************************)
(* What the parsers make of the lines of a server.                         *)
(***************************************************************************)
LEMMA ParsedText ==
  ASSUME NEW n \in Nat, n # 0
  PROVE  /\ ParseAnthropic([type |-> "text_delta", piece |-> n]) = TextDelta(n)
         /\ ParseOpenAi(OpenAi(<<>>, n, Absent, FALSE)) = TextDelta(n)
BY DEF ParseAnthropic, ParseOpenAi, OpenAi

LEMMA ParsedTool ==
  ASSUME NEW id, NEW name, NEW n
  PROVE  /\ ParseOpenAi(OpenAi(<<ToolDelta(id, name, n)>>, 0, Absent, FALSE)) =
              ToolDelta(id, name, n)
         /\ ParseAnthropic([type |-> "tool_use", id |-> id]) = ToolDelta(id, id, 0)
         /\ ParseAnthropic([type |-> "input_json_delta", index |-> "index", piece |-> n]) =
              ToolDelta("index", Absent, n)
BY DEF ParseAnthropic, ParseOpenAi, OpenAi

Silent(c) == c.type \in {"none", "done", "usage"}

LEMMA ParsedRest ==
  /\ Silent(NoChunk)
  /\ \A r : /\ Silent(ParseAnthropic([type |-> "message_delta", reason |-> r]))
            /\ Silent(ParseOpenAi(OpenAi(<<>>, 0, r, FALSE)))
  /\ Silent(ParseAnthropic([type |-> "message_stop"]))
  /\ Silent(ParseOpenAi(OpenAiUsage)) /\ Silent(ParseOpenAi(OpenAiEnd))
<1>1. Silent(NoChunk)
  BY DEF Silent, NoChunk
<1>2. ASSUME NEW r
      PROVE  /\ Silent(ParseAnthropic([type |-> "message_delta", reason |-> r]))
             /\ Silent(ParseOpenAi(OpenAi(<<>>, 0, r, FALSE)))
  BY DEF Silent, ParseAnthropic, ParseOpenAi, OpenAi, DoneChunk, NoChunk, UsageChunk
<1>3. Silent(ParseAnthropic([type |-> "message_stop"]))
  BY DEF Silent, ParseAnthropic, DoneChunk
<1>4. Silent(ParseOpenAi(OpenAiUsage)) /\ Silent(ParseOpenAi(OpenAiEnd))
  BY DEF Silent, ParseOpenAi, OpenAiUsage, OpenAiEnd, OpenAi, DoneChunk, NoChunk
<1> QED BY <1>1, <1>2, <1>3, <1>4

LEMMA Pushed ==
  /\ \A n : Sending(TextDelta(n)) => text' = Append(text, n) /\ toolCalls' = toolCalls
  /\ \A id, name, n :
       Sending(ToolDelta(id, name, n)) =>
         text' = text /\ toolCalls' = PushTool(ToolDelta(id, name, n))
  /\ \A c : Silent(c) /\ Sending(c) => text' = text /\ toolCalls' = toolCalls
BY DEF Sending, PushChunk, TextDelta, ToolDelta, Silent

\* Text and arguments arrive whole, in order and each in its place, for any
\* calls, any number of lines and each format.
THEOREM PiecesAlwaysInPlace == StreamSpec => []PiecesInPlace
<1>1. StreamInit => StreamInv
  <2> SUFFICES ASSUME StreamInit PROVE StreamInv
    OBVIOUS
  <2>1. sent = <<>> /\ toolCalls = <<>> /\ text = <<>> /\ line = 0 /\ format = Absent
    BY DEF StreamInit
  <2>2. Sift(sent, TextPlaces) = <<>>
    BY <2>1, SiftEmpty
  <2>3. TextSent = <<>>
    BY <2>2 DEF TextSent, PiecesOf
  <2>4. PiecesInPlace
    BY <2>1, <2>3 DEF PiecesInPlace
  <2>5. format # "repeating"
    BY <2>1 DEF Absent
  <2> QED BY <2>1, <2>4, <2>5 DEF StreamInv, StreamFormat
<1>2. StreamInv /\ [StreamNext]_streamVars => StreamInv'
  <2> SUFFICES ASSUME StreamInv, [StreamNext]_streamVars PROVE StreamInv'
    OBVIOUS
  <2>0. line \in Nat /\ line + 1 \in Nat /\ line + 1 # 0
    BY DEF StreamInv
  <2>1. CASE OpenStream
    BY <2>0, <2>1, SilentStep DEF OpenStream, StreamFormat
  <2>2. CASE SendText
    <3>1. Sending(TextDelta(line + 1))
      BY <2>0, <2>2, ParsedText DEF SendText
    <3>2. line' = line + 1 /\ format' = format /\ format # Absent
      BY <3>1 DEF Sending
    <3>3. sent' = Append(sent, [call |-> Absent, id |-> Absent, piece |-> line + 1])
      BY <2>2 DEF SendText
    <3> QED BY <2>0, <3>1, <3>2, <3>3, Pushed, TextStep
  <2>3. ASSUME NEW c \in StreamCall, StartCall(c) PROVE StreamInv'
    <3>1. Sending(ToolDelta(c, c, 0))
      BY <2>3, ParsedTool DEF StartCall
    <3>2. line' = line + 1 /\ format' = format /\ format # Absent
      BY <3>1 DEF Sending
    <3>3. sent' = Append(sent, [call |-> c, id |-> c, piece |-> 0])
      BY <2>3 DEF StartCall
    <3>4. c \in ChunkId /\ c \in StreamCall \cup {Absent} /\ 0 \in Nat
      BY DEF ChunkId
    <3>5. text' = text /\ toolCalls' = PushTool(ToolDelta(c, c, 0))
      BY <3>1, Pushed
    <3> QED BY <3>2, <3>3, <3>4, <3>5, ToolStep
  <2>4. ASSUME NEW c \in StreamCall, ContinueCall(c) PROVE StreamInv'
    <3> PICK id : id = LaterId(c)
      OBVIOUS
    <3>0. format # Absent /\ format' = format /\ line' = line + 1
      BY <2>4 DEF ContinueCall, Sending
    <3>1. Sending(ToolDelta(id, Absent, line + 1))
      BY <2>4, ParsedTool DEF ContinueCall, LaterId
    <3>3. sent' = Append(sent, [call |-> c, id |-> id, piece |-> line + 1])
      BY <2>4 DEF ContinueCall
    <3>4. id \in ChunkId /\ Absent \in StreamCall \cup {Absent}
      BY <3>0 DEF ChunkId, LaterId, StreamInv, StreamFormat
    <3>5. text' = text /\ toolCalls' = PushTool(ToolDelta(id, Absent, line + 1))
      BY <3>1, Pushed
    <3>6. ASSUME format = "repeating" PROVE id = c /\ WithId(id) # {}
      <4>1. id = c
        BY <3>6 DEF LaterId
      <4>2. PICK i \in DOMAIN sent : sent[i].call = c
        BY <2>4 DEF ContinueCall, Started
      <4>3. sent[i].call # Absent /\ sent[i].id = c
        BY <3>6, <4>2, StreamAssumption DEF StreamInv, Absent
      <4> QED BY <4>1, <4>3 DEF StreamInv, PiecesInPlace, WithId
    <3> QED BY <2>0, <3>0, <3>3, <3>4, <3>5, <3>6, ToolStep
  <2>5. ASSUME NEW c, Silent(c), Sending(c), sent' = sent PROVE StreamInv'
    <3>1. line' = line + 1 /\ format' = format
      BY <2>5 DEF Sending
    <3> QED BY <2>0, <2>5, <3>1, Pushed, SilentStep
  <2>6. CASE KeepAlive
    BY <2>5, <2>6, ParsedRest DEF KeepAlive
  <2>7. ASSUME NEW r \in StopReason, SendReason(r) PROVE StreamInv'
    BY <2>5, <2>7, ParsedRest DEF SendReason
  <2>8. CASE SendUsage
    BY <2>5, <2>8, ParsedRest DEF SendUsage
  <2>9. CASE SendEnd
    BY <2>5, <2>9, ParsedRest DEF SendEnd
  <2>10. CASE UNCHANGED streamVars
    BY <2>0, <2>10, SilentStep DEF streamVars
  <2> QED BY <2>1, <2>2, <2>3, <2>4, <2>6, <2>7, <2>8, <2>9, <2>10 DEF StreamNext
<1>3. StreamInv => PiecesInPlace
  BY DEF StreamInv
<1> QED BY <1>1, <1>2, <1>3, PTL DEF StreamSpec

----------------------------------------------------------------------------
(* The trimmed conversation.                                              *)

TalkMessage == [role : {"user", "assistant"}, length : Nat]
AnyMessage == [role : {"system", "user", "assistant"}, length : Nat]

\* A conversation begins with the system prompt, if there is one.
Prompt ==
  IF PromptLength = 0 THEN <<>> ELSE <<[role |-> "system", length |-> PromptLength]>>

LEMMA TalkIsAny == TalkMessage \subseteq AnyMessage /\ Seq(TalkMessage) \subseteq Seq(AnyMessage)
<1>1. TalkMessage \subseteq AnyMessage
  BY DEF TalkMessage, AnyMessage
<1> QED BY <1>1

LEMMA Parts ==
  ASSUME NEW x \in Seq(TalkMessage)
  PROVE  SystemPart(Prompt \o x) = Prompt /\ TalkPart(Prompt \o x) = x
<1>1. \A i \in 1..Len(x) : x[i].role # "system"
  <2>1. \A m \in TalkMessage : m.role # "system"
    BY DEF TalkMessage
  <2>2. \A i \in 1..Len(x) : x[i] \in TalkMessage
    OBVIOUS
  <2> QED BY <2>1, <2>2
<1>2. x \in Seq(AnyMessage)
  BY TalkIsAny
<1>3. DOMAIN x = 1..Len(x)
  OBVIOUS
<1>4. CASE PromptLength = 0
  <2>1. Prompt = <<>> /\ Prompt \o x = x
    BY <1>4 DEF Prompt
  <2>2. SystemPart(x) = <<>>
    BY <1>1, <1>3, SiftNone DEF SystemPart
  <2>3. TalkPart(x) = x
    BY <1>1, <1>3, SiftAll DEF TalkPart
  <2> QED BY <2>1, <2>2, <2>3
<1>5. CASE PromptLength # 0
  <2>1. PICK p : p = [role |-> "system", length |-> PromptLength]
    OBVIOUS
  <2>2. p \in AnyMessage /\ p.role = "system"
    BY <2>1, ChatAssumption DEF AnyMessage
  <2>3. PICK s : s = <<p>> \o x
    OBVIOUS
  <2>4. Prompt = <<p>> /\ Prompt \o x = s
    BY <1>5, <2>1, <2>3 DEF Prompt
  <2>5. /\ s \in Seq(AnyMessage) /\ DOMAIN s = 1..(Len(x) + 1) /\ s[1] = p
        /\ \A i \in 1..Len(x) : s[i + 1] = x[i]
    BY <1>2, <2>2, <2>3
  <2>6. \A i \in 2..Len(s) : s[i].role # "system"
    <3> TAKE i \in 2..Len(s)
    <3>1. i - 1 \in 1..Len(x) /\ (i - 1) + 1 = i
      BY <2>5
    <3> QED BY <1>1, <2>5, <3>1
  <2>7. Len(s) >= 1 /\ DOMAIN s = 1..Len(s) /\ \A i \in 2..Len(s) : i \in DOMAIN s
    BY <2>5
  <2>8. SystemPart(s) = <<s[1]>>
    BY <2>2, <2>5, <2>6, <2>7, SiftFirst DEF SystemPart
  <2>9. TalkPart(s) = SubSeq(s, 2, Len(s))
    BY <2>2, <2>5, <2>6, <2>7, SiftRest DEF TalkPart
  <2>10. SubSeq(s, 2, Len(s)) = x
    BY <2>3, <2>2, <1>2
  <2> QED BY <2>4, <2>5, <2>8, <2>9, <2>10
<1> QED BY <1>4, <1>5

LEMMA TokensConcat ==
  ASSUME NEW a \in Seq(AnyMessage), NEW b \in Seq(AnyMessage)
  PROVE  Tokens(a) \in Nat /\ Tokens(b) \in Nat /\ Tokens(a \o b) = Tokens(a) + Tokens(b)
<1> DEFINE W(s) == [i \in DOMAIN s |-> EstimateMessage(s[i])]
<1>1. \A m \in AnyMessage : EstimateMessage(m) \in Nat
  BY DEF AnyMessage, EstimateMessage, EstimateTokens
<1>2. ASSUME NEW s \in Seq(AnyMessage)
      PROVE  /\ W(s) \in Seq(Nat) /\ Len(W(s)) = Len(s)
             /\ \A i \in 1..Len(s) : W(s)[i] = EstimateMessage(s[i])
  <2>1. DOMAIN s = 1..Len(s) /\ Len(s) \in Nat /\ \A i \in 1..Len(s) : s[i] \in AnyMessage
    OBVIOUS
  <2>2. W(s) \in [1..Len(s) -> Nat]
    BY <1>1, <2>1
  <2> QED BY <2>1, <2>2
<1>3. W(a \o b) = W(a) \o W(b)
  <2> PICK c : c = a \o b
    OBVIOUS
  <2>1. /\ c \in Seq(AnyMessage) /\ Len(c) = Len(a) + Len(b)
        /\ \A i \in 1..Len(a) : c[i] = a[i]
        /\ \A i \in 1..Len(b) : c[Len(a) + i] = b[i]
    OBVIOUS
  <2> PICK u, v, w : u = W(a) /\ v = W(b) /\ w = W(c)
    OBVIOUS
  <2>2. /\ u \in Seq(Nat) /\ Len(u) = Len(a) /\ \A i \in 1..Len(a) : u[i] = EstimateMessage(a[i])
        /\ v \in Seq(Nat) /\ Len(v) = Len(b) /\ \A i \in 1..Len(b) : v[i] = EstimateMessage(b[i])
        /\ w \in Seq(Nat) /\ Len(w) = Len(c) /\ \A i \in 1..Len(c) : w[i] = EstimateMessage(c[i])
    <3> HIDE DEF W
    <3> QED BY <1>2, <2>1
  <2>3. \A i \in 1..Len(w) : w[i] = (u \o v)[i]
    <3> TAKE i \in 1..Len(w)
    <3>1. CASE i <= Len(a)
      BY <2>1, <2>2, <3>1
    <3>2. CASE ~ (i <= Len(a))
      <4>1. i - Len(a) \in 1..Len(b) /\ Len(a) + (i - Len(a)) = i /\ i \in 1..Len(c)
        BY <2>1, <2>2, <3>2
      <4>2. (u \o v)[i] = v[i - Len(a)]
        <5>1. (u \o v)[Len(u) + (i - Len(a))] = v[i - Len(a)]
          BY <2>2, <4>1, Concatenated
        <5> QED BY <2>2, <4>1, <5>1
      <4>3. c[i] = b[i - Len(a)]
        BY <2>1, <4>1
      <4> QED BY <2>2, <4>1, <4>2, <4>3
    <3> QED BY <3>1, <3>2
  <2>4. u \o v \in Seq(Nat) /\ Len(u \o v) = Len(w)
    <3>1. u \in Seq(Nat) /\ v \in Seq(Nat)
      BY ONLY <2>2
    <3>2. u \o v \in Seq(Nat) /\ Len(u \o v) = Len(u) + Len(v)
      BY ONLY <3>1
    <3> QED BY <2>1, <2>2, <3>2
  <2>5. w = u \o v
    <3> PICK z : z = u \o v
      OBVIOUS
    <3>1. z \in Seq(Nat) /\ w \in Seq(Nat) /\ Len(z) = Len(w) /\ \A i \in 1..Len(w) : w[i] = z[i]
      BY <2>2, <2>3, <2>4
    <3>2. \A f, g \in Seq(Nat) : Len(g) = Len(f) /\ (\A i \in 1..Len(f) : f[i] = g[i]) => f = g
      BY SameSequence
    <3>3. w = z
      BY ONLY <3>1, <3>2
    <3> QED BY ONLY <3>3, z = u \o v
  <2> HIDE DEF W
  <2> QED BY <2>5
<1> QED BY <1>2, <1>3, TotalConcat DEF Tokens

LEMMA PromptType ==
  Prompt \in Seq(AnyMessage) /\ Len(Prompt) \in {0, 1} /\ (PromptLength = 0 <=> Prompt = <<>>)
<1>1. CASE PromptLength = 0
  BY <1>1 DEF Prompt
<1>2. CASE PromptLength # 0
  <2>1. PICK p : p = [role |-> "system", length |-> PromptLength]
    OBVIOUS
  <2>2. p \in AnyMessage
    BY <2>1, ChatAssumption DEF AnyMessage
  <2>3. Prompt = <<p>>
    BY <1>2, <2>1 DEF Prompt
  <2> QED BY <1>2, <2>2, <2>3
<1> QED BY <1>1, <1>2

\* The newest messages, and the oldest, are none or fit.
LEMMA NewestFit ==
  ASSUME NEW s \in Seq(TalkMessage), NEW room
  PROVE  /\ NewestWithin(s, room) \in Seq(TalkMessage)
         /\ NewestWithin(s, room) = <<>> \/ Tokens(NewestWithin(s, room)) <= room
<1> PICK K : K = {Len(s) + 1} \cup {k \in DOMAIN s : Tokens(From(s, k)) <= room}
  OBVIOUS
<1>1. K \subseteq 1..(Len(s) + 1) /\ Len(s) + 1 \in K
  OBVIOUS
<1>2. PICK n \in K : \A k \in K : n <= k
  <2>1. K \subseteq Nat /\ K # {}
    BY ONLY <1>1
  <2> QED BY ONLY <2>1, LeastNumber
<1>3. LeastOf(K) = n
  <2>1. \A m \in K : (\A k \in K : m <= k) => m = n
    BY <1>1, <1>2
  <2> QED BY <1>2, <2>1 DEF LeastOf
<1>4. NewestWithin(s, room) = From(s, n)
  BY <1>3 DEF NewestWithin
<1>5. From(s, n) \in Seq(TalkMessage) /\ (n = Len(s) + 1 => From(s, n) = <<>>)
  BY <1>1 DEF From
<1>6. n # Len(s) + 1 => Tokens(From(s, n)) <= room
  BY <1>2
<1> QED BY <1>4, <1>5, <1>6

LEMMA OldestFit ==
  ASSUME NEW s \in Seq(TalkMessage), NEW room
  PROVE  /\ OldestWithin(s, room) \in Seq(TalkMessage)
         /\ OldestWithin(s, room) = <<>> \/ Tokens(OldestWithin(s, room)) <= room
<1> PICK K : K = {0} \cup {k \in DOMAIN s : Tokens(SubSeq(s, 1, k)) <= room}
  OBVIOUS
<1>1. K \subseteq 0..Len(s) /\ 0 \in K
  OBVIOUS
<1>2. PICK n \in K : \A k \in K : n >= k
  <2>1. Len(s) \in Nat
    OBVIOUS
  <2> QED BY <1>1, <2>1, GreatestNumber
<1>3. GreatestOf(K) = n
  <2>1. \A m \in K : (\A k \in K : m >= k) => m = n
    BY <1>1, <1>2
  <2> QED BY <1>2, <2>1 DEF GreatestOf
<1>4. OldestWithin(s, room) = SubSeq(s, 1, n)
  BY <1>3 DEF OldestWithin
<1>5. SubSeq(s, 1, n) \in Seq(TalkMessage) /\ (n = 0 => SubSeq(s, 1, n) = <<>>)
  BY <1>1
<1>6. n # 0 => Tokens(SubSeq(s, 1, n)) <= room
  BY <1>2
<1> QED BY <1>4, <1>5, <1>6

\* What a trimmed conversation keeps, of one whose strategy looks at the budget.
WithinBudget(t, c) ==
  \/ Len(t) = Len(Mandatory(t, c))
  \/ /\ Tokens(t) + ToolTokens <= Budget(c)
     /\ c.strategy = "truncate" => FitsContext(t, c)

LEMMA ConfigFields ==
  ASSUME NEW c \in Configs
  PROVE  /\ c.strategy \in {"sliding_window", "pinned_ends", "drop_oldest", "smart", "truncate"}
         /\ c.max \in Nat /\ c.reserved \in Nat /\ c.window \in Nat /\ c.pinned \in Nat
         /\ Budget(c) \in Nat
<1>1. /\ c.strategy \in {"sliding_window", "pinned_ends", "drop_oldest", "smart", "truncate"}
      /\ c.max \in Nat /\ c.reserved \in Nat /\ c.window \in Nat /\ c.pinned \in Nat
  BY ChatAssumption
<1> QED BY <1>1 DEF Budget, Minus

LEMMA DropOldestKeeps ==
  ASSUME NEW x \in Seq(TalkMessage), NEW c \in Configs, c.strategy = "drop_oldest",
         NEW t, t = Trim(Prompt \o x, c)
  PROVE  WithinBudget(t, c)
<1> PICK room, y : /\ room = Budget(c) - Tokens(Prompt) - ToolTokens /\ y = NewestWithin(x, room)
  OBVIOUS
<1>1. t = Prompt \o y
  BY Parts DEF Trim, TrimDropOldest
<1>2. y \in Seq(TalkMessage) /\ (y = <<>> \/ Tokens(y) <= room)
  BY NewestFit
<1>3. CASE y = <<>>
  <2>1. SystemPart(t) = Prompt
    BY <1>1, <1>2, Parts
  <2>2. Mandatory(t, c) = Prompt \o <<>>
    BY <2>1 DEF Mandatory
  <2> QED BY <1>1, <1>3, <2>2 DEF WithinBudget
<1>4. CASE Tokens(y) <= room
  <2>1. /\ Tokens(Prompt) \in Nat /\ Tokens(y) \in Nat /\ Tokens(t) = Tokens(Prompt) + Tokens(y)
    BY <1>1, <1>2, PromptType, TalkIsAny, TokensConcat
  <2>2. ToolTokens \in Nat /\ Budget(c) \in Nat
    BY ConfigFields, ChatAssumption
  <2>3. Tokens(t) + ToolTokens <= Budget(c)
    BY <1>4, <2>1, <2>2
  <2> QED BY <2>3 DEF WithinBudget
<1> QED BY <1>2, <1>3, <1>4

LEMMA PinnedEndsKeeps ==
  ASSUME NEW x \in Seq(TalkMessage), NEW c \in Configs, c.strategy = "pinned_ends",
         NEW t, t = Trim(Prompt \o x, c)
  PROVE  WithinBudget(t, c)
<1>1. CASE x = <<>>
  <2>1. t = Prompt
    BY <1>1, Parts DEF Trim, TrimPinnedEnds
  <2>2. t = Prompt \o x
    BY <1>1, <2>1, PromptType
  <2>3. SystemPart(t) = Prompt /\ TalkPart(t) = <<>>
    BY <1>1, <2>2, Parts
  <2>4. Mandatory(t, c) = Prompt \o <<>>
    BY <2>3 DEF Mandatory
  <2> QED BY <2>1, <2>4, PromptType DEF WithinBudget
<1>2. CASE x # <<>>
  <2> PICK f, r : f = x[1] /\ r = Tail(x)
    OBVIOUS
  <2>1. f \in TalkMessage /\ r \in Seq(TalkMessage)
    BY <1>2
  <2> PICK k, room, y : /\ k = Prompt \o <<f>> /\ room = Budget(c) - Tokens(k) - ToolTokens
                        /\ y = NewestWithin(r, room)
    OBVIOUS
  <2>2. t = k \o y
    BY <1>2, Parts DEF Trim, TrimPinnedEnds
  <2>3. y \in Seq(TalkMessage) /\ (y = <<>> \/ Tokens(y) <= room)
    BY <2>1, NewestFit
  <2>4. <<f>> \o y \in Seq(TalkMessage) /\ <<f>> \o y # <<>> /\ (<<f>> \o y)[1] = f
    BY <2>1, <2>3
  <2>5. t = Prompt \o (<<f>> \o y)
    BY <2>1, <2>2, <2>3, PromptType, TalkIsAny
  <2>6. SystemPart(t) = Prompt /\ TalkPart(t) = <<f>> \o y
    BY <2>4, <2>5, Parts
  <2>7. Mandatory(t, c) = k
    BY <2>4, <2>6 DEF Mandatory
  <2>8. k \in Seq(AnyMessage)
    BY <2>1, PromptType, TalkIsAny
  <2>9. CASE y = <<>>
    BY <2>2, <2>7, <2>8, <2>9 DEF WithinBudget
  <2>10. CASE Tokens(y) <= room
    <3>1. Tokens(k) \in Nat /\ Tokens(y) \in Nat /\ Tokens(t) = Tokens(k) + Tokens(y)
      BY <2>2, <2>3, <2>8, TalkIsAny, TokensConcat
    <3>2. ToolTokens \in Nat /\ Budget(c) \in Nat
      BY ConfigFields, ChatAssumption
    <3>3. Tokens(t) + ToolTokens <= Budget(c)
      BY <2>10, <3>1, <3>2
    <3> QED BY <3>3 DEF WithinBudget
  <2> QED BY <2>3, <2>9, <2>10
<1> QED BY <1>1, <1>2

LEMMA SmartKeeps ==
  ASSUME NEW x \in Seq(TalkMessage), NEW c \in Configs, c.strategy = "smart",
         NEW t, t = Trim(Prompt \o x, c)
  PROVE  WithinBudget(t, c)
<1> PICK start, pinned, room, y :
      /\ start = Minus(Len(x), c.pinned) /\ pinned = From(x, start + 1)
      /\ room = Budget(c) - Tokens(Prompt) - ToolTokens - Tokens(pinned)
      /\ y = OldestWithin(SubSeq(x, 1, start), room)
  OBVIOUS
<1>1. t = Prompt \o y \o pinned
  BY Parts DEF Trim, TrimSmart
<1>2. /\ c.pinned \in Nat /\ start \in 0..Len(x)
      /\ start = 0 \/ start = Len(x) - c.pinned
      /\ Len(x) <= start + c.pinned
  BY ConfigFields DEF Minus
<1>3. SubSeq(x, 1, start) \in Seq(TalkMessage)
  BY <1>2
<1>4. y \in Seq(TalkMessage) /\ (y = <<>> \/ Tokens(y) <= room)
  BY <1>3, OldestFit
<1>5. pinned \in Seq(TalkMessage) /\ Len(pinned) = Len(x) - start
  BY <1>2 DEF From
<1>6. y \o pinned \in Seq(TalkMessage) /\ t = Prompt \o (y \o pinned)
  <2>1. y \o pinned \in Seq(TalkMessage)
    BY <1>4, <1>5
  <2>2. Prompt \in Seq(AnyMessage) /\ y \in Seq(AnyMessage) /\ pinned \in Seq(AnyMessage)
    BY <1>4, <1>5, PromptType, TalkIsAny
  <2>3. (Prompt \o y) \o pinned = Prompt \o (y \o pinned)
    BY ONLY <2>2
  <2> QED BY <1>1, <2>1, <2>3
<1>7. SystemPart(t) = Prompt /\ TalkPart(t) = y \o pinned
  BY <1>6, Parts
<1>8. CASE y = <<>>
  <2>1. y \o pinned = pinned
    BY <1>5, <1>8
  <2>2. TalkPart(t) = pinned /\ t = Prompt \o pinned
    BY <1>6, <1>7, <2>1
  <2>3. Minus(Len(pinned), c.pinned) = 0
    BY <1>2, <1>5 DEF Minus
  <2>4. From(pinned, 1 + 0) = pinned
    BY <1>5 DEF From
  <2>5. Mandatory(t, c) = Prompt \o pinned
    BY <1>7, <2>2, <2>3, <2>4 DEF Mandatory
  <2> QED BY <2>2, <2>5 DEF WithinBudget
<1>9. CASE Tokens(y) <= room
  <2>1. /\ Tokens(y) \in Nat /\ Tokens(pinned) \in Nat
        /\ Tokens(y \o pinned) = Tokens(y) + Tokens(pinned)
    BY <1>4, <1>5, TalkIsAny, TokensConcat
  <2>2. Tokens(Prompt) \in Nat /\ Tokens(t) = Tokens(Prompt) + Tokens(y \o pinned)
    <3> PICK z : z = y \o pinned
      OBVIOUS
    <3>1. Prompt \in Seq(AnyMessage) /\ z \in Seq(AnyMessage) /\ t = Prompt \o z
      BY <1>6, PromptType, TalkIsAny
    <3>2. Tokens(Prompt) \in Nat /\ Tokens(t) = Tokens(Prompt) + Tokens(z)
      BY ONLY <3>1, TokensConcat
    <3> QED BY ONLY <3>2, z = y \o pinned
  <2>3. ToolTokens \in Nat /\ Budget(c) \in Nat
    BY ConfigFields, ChatAssumption
  <2>4. Tokens(t) + ToolTokens <= Budget(c)
    BY <1>9, <2>1, <2>2, <2>3
  <2> QED BY <2>4 DEF WithinBudget
<1> QED BY <1>4, <1>8, <1>9

LEMMA TruncateKeeps ==
  ASSUME NEW x \in Seq(TalkMessage), NEW c \in Configs, c.strategy = "truncate",
         NEW t, t = Trim(Prompt \o x, c)
  PROVE  WithinBudget(t, c)
<1> DEFINE After(n) == Prompt \o From(x, n + 1)
<1> PICK budget : budget = Minus(c.max, ToolTokens + c.reserved)
  OBVIOUS
<1> PICK K : K = {Len(x)} \cup {n \in 0..Len(x) : EstimateMessages(After(n)) <= budget
                                                    \/ Len(After(n)) <= 1}
  OBVIOUS
<1>1. K \subseteq 0..Len(x) /\ Len(x) \in K
  OBVIOUS
<1>2. PICK n \in K : \A k \in K : n <= k
  <2>1. K \subseteq Nat /\ K # {}
    BY ONLY <1>1
  <2> QED BY ONLY <2>1, LeastNumber
<1>3. LeastOf(K) = n
  <2>1. \A m \in K : (\A k \in K : m <= k) => m = n
    BY <1>1, <1>2
  <2> QED BY <1>2, <2>1 DEF LeastOf
<1>4. t = After(n)
  BY <1>3, Parts DEF Trim, Truncate
<1> PICK y : y = From(x, n + 1)
  OBVIOUS
<1>5. y \in Seq(TalkMessage) /\ (n = Len(x) => y = <<>>) /\ t = Prompt \o y
  BY <1>1, <1>4 DEF From
<1>6. \/ y = <<>> \/ EstimateMessages(t) <= budget \/ Len(t) <= 1
  BY <1>2, <1>4, <1>5
<1>7. SystemPart(t) = Prompt
  BY <1>5, Parts
<1>8. /\ Tokens(Prompt) \in Nat /\ Tokens(y) \in Nat /\ Tokens(t) = Tokens(Prompt) + Tokens(y)
  BY <1>5, PromptType, TalkIsAny, TokensConcat
<1>9. CASE y = <<>> \/ Len(t) <= 1
  <2>1. t \in Seq(AnyMessage) /\ Len(t) = Len(Prompt) + Len(y) /\ Len(y) \in Nat
    BY <1>5, PromptType, TalkIsAny
  <2>2. CASE PromptLength # 0
    <3>1. Len(Prompt) = 1 /\ Len(t) = 1
      BY <1>5, <1>9, <2>1, <2>2, PromptType
    <3>2. Mandatory(t, c) = Prompt \o <<>>
      BY <1>7, <2>2 DEF Mandatory
    <3> QED BY <3>1, <3>2, PromptType DEF WithinBudget
  <2>3. CASE PromptLength = 0
    <3>1. Prompt = <<>> /\ Len(t) \in {0, 1}
      <4>1. Prompt = <<>>
        BY <2>3, PromptType
      <4>2. t = y
        BY <1>5, <4>1
      <4>3. Len(t) \in Nat /\ (y = <<>> => Len(t) = 0)
        BY <2>1, <4>2
      <4>4. Len(t) <= 1
        BY <1>9, <4>3
      <4>5. \A k \in Nat : k <= 1 => k \in {0, 1}
        OBVIOUS
      <4> QED BY <4>1, <4>3, <4>4, <4>5, Zenon
    <3>2. CASE t = <<>>
      <4>1. Mandatory(t, c) = <<>> \o <<>>
        BY <1>7, <2>3, <3>1, <3>2 DEF Mandatory
      <4> QED BY <3>2, <4>1 DEF WithinBudget
    <3>3. CASE t # <<>>
      <4>1. Mandatory(t, c) = <<>> \o <<t[Len(t)]>>
        BY <1>7, <2>3, <3>1, <3>3 DEF Mandatory
      <4>2. Len(t) = 1
        BY <2>1, <3>1, <3>3
      <4> QED BY <4>1, <4>2 DEF WithinBudget
    <3> QED BY <3>2, <3>3
  <2> QED BY <2>2, <2>3
<1>10. CASE EstimateMessages(t) <= budget
  <2>1. /\ c.max \in Nat /\ c.reserved \in Nat /\ ToolTokens \in Nat
    BY ConfigFields, ChatAssumption
  <2>2. 3 + Tokens(t) <= budget
    BY <1>10 DEF EstimateMessages
  <2>3. budget = c.max - (ToolTokens + c.reserved)
    BY <1>8, <2>1, <2>2 DEF Minus
  <2>4. Budget(c) = c.max - c.reserved
    BY <1>8, <2>1, <2>2, <2>3 DEF Budget, Minus
  <2>5. Tokens(t) + ToolTokens <= Budget(c)
    BY <1>8, <2>1, <2>2, <2>3, <2>4
  <2>6. FitsContext(t, c)
    BY <1>8, <2>1, <2>2, <2>3 DEF FitsContext, EstimateMessages
  <2> QED BY <2>5, <2>6 DEF WithinBudget
<1> QED BY <1>6, <1>9, <1>10

\* What the model's session is: messages of the user and the assistant, and what
\* the last trim left of them.
ChatInv ==
  /\ talk \in Seq(TalkMessage)
  /\ \A c \in config : c.strategy # "sliding_window" => WithinBudget(trimmed, c)

\* A trimmed conversation overruns the budget only by what its strategy always
\* keeps, for any messages, prompts, tools and configurations (ContextManager::trim,
\* truncate_to_budget).
THEOREM TrimAlwaysKeepsBudget == ChatSpec => []TrimKeepsBudget
<1>1. ChatInit => ChatInv
  BY DEF ChatInit, ChatInv
<1>2. ChatInv /\ [ChatNext]_chatVars => ChatInv'
  <2> SUFFICES ASSUME ChatInv, [ChatNext]_chatVars PROVE ChatInv'
    OBVIOUS
  <2>1. ASSUME NEW role \in {"user", "assistant"}, NEW length \in TextLength, AddMessage(role, length)
        PROVE  ChatInv'
    <3>1. [role |-> role, length |-> length] \in TalkMessage
      BY ChatAssumption DEF TalkMessage
    <3>2. talk' \in Seq(TalkMessage)
      BY <2>1, <3>1 DEF AddMessage, ChatInv
    <3>3. config' = config /\ trimmed' = trimmed
      BY <2>1 DEF AddMessage
    <3> QED BY <3>2, <3>3 DEF ChatInv, WithinBudget, Mandatory
  <2>2. ASSUME NEW c \in Configs, TrimForModel(c) PROVE ChatInv'
    <3>1. talk' = talk /\ config' = {c} /\ trimmed' = Trim(Prompt \o talk, c)
      BY <2>2 DEF TrimForModel, BuildMessages, Prompt
    <3>2. c.strategy # "sliding_window" => WithinBudget(trimmed', c)
      BY <3>1, ConfigFields, DropOldestKeeps, PinnedEndsKeeps, SmartKeeps, TruncateKeeps DEF ChatInv
    <3> QED BY <3>1, <3>2 DEF ChatInv
  <2>3. CASE UNCHANGED chatVars
    BY <2>3 DEF ChatInv, chatVars
  <2> QED BY <2>1, <2>2, <2>3 DEF ChatNext
<1>3. ChatInv => TrimKeepsBudget
  BY DEF ChatInv, TrimKeepsBudget, WithinBudget
<1> QED BY <1>1, <1>2, <1>3, PTL DEF ChatSpec
=============================================================================
