------------------------------ MODULE AgentRun ------------------------------
(***************************************************************************)
(* Agent::run of wd-agent with its Sandbox, ToolExecutor and               *)
(* WorkingMemory. run takes &mut self, so the host configures the agent    *)
(* only between runs.                                                      *)
(*                                                                         *)
(* Abstracted: a message is its role and the tools it calls or answers,    *)
(* a response is what run looks at, a cost is a number of units of         *)
(* money, the memory is whether it has something to say.  Of the steps,    *)
(* a log of the run, only whether one is an AssistantMessage is kept.      *)
(* Texts, ids, events, what a tool computes, and Sandbox.total_cost        *)
(* (which nothing reads but check_cost, which nothing calls) are left      *)
(* out.                                                                    *)
(***************************************************************************)
EXTENDS Naturals, Sequences, FiniteSets

CONSTANTS
  Tool,
  Handled,        \* the tools the executor has a handler for
  MaxIterations,  \* AgentConfig.max_iterations
  MaxCost,        \* AgentConfig.max_cost_usd
  MaxToolCalls,   \* SandboxConfig.max_tool_calls
  ResponseCost,   \* what the provider may report for one response
  CostCap,        \* the largest of them
  MaxBatch,       \* bound: tool calls in one response
  MaxListed       \* bound: tools named in the sandbox's lists

ASSUME AgentAssumption ==
  /\ Handled \subseteq Tool
  /\ {MaxIterations, MaxCost, MaxToolCalls, CostCap, MaxBatch, MaxListed} \subseteq Nat
  /\ ResponseCost \subseteq 0..CostCap

VARIABLES
  sandbox,   \* Sandbox: tool lists, switch and tool_call_count
  remembers, \* WorkingMemory holds something
  at,        \* where run stands
  asked,     \* iterations
  spent,     \* total_cost
  messages,
  answered,  \* steps has an AssistantMessage
  queue,     \* tool calls of the last response still to be looked at
  executed,  \* history: tools executed in this run
  completed  \* AgentResult.completed of the last run

agentVars ==
  <<sandbox, remembers, at, asked, spent, messages, answered, queue, executed, completed>>
runVars == <<at, asked, spent, messages, answered, queue, executed, completed>>

Msg(role) == [role |-> role, calls |-> <<>>]
ToolCalls(calls) == [role |-> "assistant", calls |-> calls]
ToolResult(tool) == [role |-> "tool", calls |-> <<tool>>]

Batch == UNION {[1..n -> Tool] : n \in 1..MaxBatch}
AgentMessage ==
  {Msg(r) : r \in {"system", "user", "assistant"}}
    \cup {ToolCalls(b) : b \in Batch} \cup {ToolResult(t) : t \in Tool}

\* A response either calls tools or ends a turn; a cost is optional, and a
\* missing one counts as nothing.
Response ==
  [calls : Batch, cost : ResponseCost \cup {0}, text : {FALSE}, finish : {"tool_use"}]
    \cup [calls : {<<>>}, cost : ResponseCost \cup {0}, text : BOOLEAN,
          finish : {"stop", "tool_use"}]

\* Sandbox::check_tool is Ok.
Permitted(tool) ==
  /\ tool \notin sandbox.blocked
  /\ sandbox.allowed = {} \/ tool \in sandbox.allowed
  /\ sandbox.calls < MaxToolCalls
  /\ ~ (sandbox.require /\ tool \in sandbox.confirm)

AgentInit ==
  /\ sandbox = [blocked |-> {}, allowed |-> {}, confirm |-> {}, require |-> FALSE,
                calls |-> 0]
  /\ remembers = FALSE
  /\ at = "idle"
  /\ asked = 0
  /\ spent = 0
  /\ messages = <<>>
  /\ answered = FALSE
  /\ queue = <<>>
  /\ executed = <<>>
  /\ completed = FALSE

(***************************************************************************)
(* The host, between runs.                                                 *)
(***************************************************************************)
Configure(next) ==
  /\ at = "idle"
  /\ Cardinality(next.blocked \cup next.allowed \cup next.confirm) <= MaxListed
  /\ sandbox' = next
  /\ UNCHANGED <<remembers, runVars>>

BlockTool(t) == Configure([sandbox EXCEPT !.blocked = @ \cup {t}])
AllowTool(t) == Configure([sandbox EXCEPT !.allowed = @ \cup {t}])
ConfirmTool(t) == Configure([sandbox EXCEPT !.confirm = @ \cup {t}, !.require = TRUE])
RecordToolCall ==
  /\ sandbox.calls < MaxToolCalls
  /\ Configure([sandbox EXCEPT !.calls = @ + 1])
ResetSandbox == Configure([sandbox EXCEPT !.calls = 0])

Remember ==
  /\ at = "idle"
  /\ remembers' \in BOOLEAN
  /\ UNCHANGED <<sandbox, runVars>>

(***************************************************************************)
(* run.                                                                    *)
(***************************************************************************)
StartRun ==
  /\ at = "idle"
  /\ at' = "loop"
  /\ messages' = <<Msg("system")>> \o (IF remembers THEN <<Msg("system")>> ELSE <<>>)
                   \o <<Msg("user")>>
  /\ UNCHANGED <<sandbox, remembers, asked, spent, answered, queue, executed, completed>>

Stop ==
  /\ at' = "finish"
  /\ UNCHANGED <<sandbox, remembers, asked, spent, messages, answered, queue, executed,
                 completed>>

\* The limit has to be passed, which Ask never does.
IterationLimitLate == at = "loop" /\ asked > MaxIterations /\ Stop

IterationLimit == at = "loop" /\ asked >= MaxIterations /\ Stop
BudgetExhausted ==
  /\ at = "loop"
  /\ asked < MaxIterations
  /\ spent >= MaxCost
  /\ Stop

\* One iteration more than the limit.
AskOnceMore ==
  /\ at = "loop"
  /\ asked <= MaxIterations
  /\ spent < MaxCost
  /\ asked' = asked + 1
  /\ at' = "complete"
  /\ UNCHANGED <<sandbox, remembers, spent, messages, answered, queue, executed, completed>>

Ask ==
  /\ at = "loop"
  /\ asked < MaxIterations
  /\ spent < MaxCost
  /\ asked' = asked + 1
  /\ at' = "complete"
  /\ UNCHANGED <<sandbox, remembers, spent, messages, answered, queue, executed, completed>>

CompletionFails == at = "complete" /\ Stop

CallsTools(r) ==
  /\ at = "complete"
  /\ r.calls # <<>>
  /\ spent' = spent + r.cost
  /\ messages' = Append(messages, ToolCalls(r.calls))
  /\ queue' = r.calls
  /\ at' = "tools"
  /\ UNCHANGED <<sandbox, remembers, asked, answered, executed, completed>>

EndsTurn(r) ==
  /\ at = "complete"
  /\ r.calls = <<>>
  /\ spent' = spent + r.cost
  /\ messages' = IF r.text THEN Append(messages, Msg("assistant")) ELSE messages
  /\ answered' = (answered \/ r.text)
  /\ at' = IF r.finish = "tool_use" THEN "loop" ELSE "finish"
  /\ UNCHANGED <<sandbox, remembers, asked, queue, executed, completed>>

NextCall ==
  /\ at = "tools"
  /\ queue # <<>>
  /\ queue' = Tail(queue)
  /\ messages' = Append(messages, ToolResult(Head(queue)))

\* A blocked call is skipped without a message.
BlockCallSilently ==
  /\ at = "tools"
  /\ queue # <<>>
  /\ ~ Permitted(Head(queue))
  /\ queue' = Tail(queue)
  /\ UNCHANGED <<sandbox, remembers, at, asked, spent, messages, answered, executed, completed>>

BlockCall ==
  /\ NextCall
  /\ ~ Permitted(Head(queue))
  /\ UNCHANGED <<sandbox, remembers, at, asked, spent, answered, executed, completed>>

\* A tool without a handler answers with an error; nothing is counted.
ExecuteCall ==
  /\ NextCall
  /\ Permitted(Head(queue))
  /\ executed' = IF Head(queue) \in Handled THEN Append(executed, Head(queue)) ELSE executed
  /\ UNCHANGED <<sandbox, remembers, at, asked, spent, answered, completed>>

FeedBack ==
  /\ at = "tools"
  /\ queue = <<>>
  /\ at' = "loop"
  /\ UNCHANGED <<sandbox, remembers, asked, spent, messages, answered, queue, executed, completed>>

\* The locals of run go with it.
Finish ==
  /\ at = "finish"
  /\ at' = "idle"
  /\ asked' = 0
  /\ spent' = 0
  /\ messages' = <<>>
  /\ answered' = FALSE
  /\ executed' = <<>>
  /\ completed' = answered
  /\ UNCHANGED <<sandbox, remembers, queue>>

Host ==
  \/ \E t \in Tool : BlockTool(t) \/ AllowTool(t) \/ ConfirmTool(t)
  \/ RecordToolCall
  \/ ResetSandbox
  \/ Remember
  \/ StartRun

Responds == \E r \in Response : CallsTools(r) \/ EndsTurn(r)

RunStep ==
  \/ IterationLimit
  \/ BudgetExhausted
  \/ Ask
  \/ CompletionFails
  \/ Responds
  \/ BlockCall
  \/ ExecuteCall
  \/ FeedBack
  \/ Finish

AgentNext == Host \/ RunStep

\* The completion function and the tool handlers return.
AgentSpec == AgentInit /\ [][AgentNext]_agentVars /\ WF_agentVars(RunStep)

(***************************************************************************)
(* Properties.                                                             *)
(***************************************************************************)
AgentTypeOK ==
  /\ sandbox \in [blocked : SUBSET Tool, allowed : SUBSET Tool, confirm : SUBSET Tool,
                  require : BOOLEAN, calls : Nat]
  /\ remembers \in BOOLEAN
  /\ at \in {"idle", "loop", "complete", "tools", "finish"}
  /\ asked \in Nat
  /\ spent \in Nat
  /\ messages \in Seq(AgentMessage)
  /\ answered \in BOOLEAN
  /\ queue \in {<<>>} \cup Batch
  /\ executed \in Seq(Tool)
  /\ completed \in BOOLEAN

\* What the j-th call of message i is answered by stands j places after it.
CallsOf(i) == IF messages[i].role = "assistant" THEN messages[i].calls ELSE <<>>
AnsweredInPlace(i, j) ==
  i + j \in DOMAIN messages /\ messages[i + j] = ToolResult(CallsOf(i)[j])

\* Every tool call the model makes is answered, in order, before the model is
\* asked again, also the calls the sandbox blocks or nobody handles (agent.rs
\* 203-233): providers refuse a conversation with an unanswered call.
ToolCallsAnswered ==
  at # "tools" => \A i \in DOMAIN messages : \A j \in DOMAIN CallsOf(i) : AnsweredInPlace(i, j)

\* A run overshoots its budget by at most one response (160, 189-191), and the
\* costs it reports are of at most max_iterations responses.
SpendsWithinLimits ==
  /\ asked <= MaxIterations
  /\ spent <= asked * CostCap
  /\ spent > 0 => spent < MaxCost + CostCap

\* A started run comes to an end, whatever the model answers.
RunEnds == at = "loop" ~> at = "idle"

=============================================================================
