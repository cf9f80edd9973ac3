------------------------------ MODULE MCRemote ------------------------------
(***************************************************************************)
(* The instance of the parts that speak to other machines: the agent and   *)
(* its plans, a streamed completion, a chat session, the rate limits and   *)
(* the retries of requests, and the proxies they go through.  The parts    *)
(* share no state, so each behaviour is one of a single part, the others   *)
(* standing still: TLC explores the parts side by side and not their       *)
(* product.                                                                *)
(***************************************************************************)
EXTENDS AgentRun, Plans, LlmStream, ChatContext, Throttle, RetryPolicy, ProxyRotation

CONSTANTS p1, p2

VARIABLE part

remoteVars ==
  <<part, agentVars, planVars, streamVars, chatVars, throttleVars, retryVars, vars>>

Parts == {"agent", "plan", "stream", "chat", "throttle", "retry", "proxies"}

\* The portfolio analysis as a pipeline and as a plan ask for these; every tool of the
\* toolbox has a handler, and expiry_alert of the plan (planner.rs 180) is not in it.
AgentTools == Catalog["portfolio_analysis"][2] \cup PortfolioPlan[3].tools
HandledTools == AgentTools \cap Toolbox

ContextConfigs ==
  [strategy : {"pinned_ends", "drop_oldest", "smart", "truncate"}, max : {12, 24},
   reserved : {2}, window : {2}, pinned : {1}]
    \cup [strategy : {"sliding_window"}, max : {12}, reserved : {2}, window : {0, 2},
          pinned : {1}]

RateProfiles == {[rpm |-> 1, delay |-> 0], [rpm |-> 2, delay |-> 5]}

ServerNames == {"whois.nic.io", "WHOIS.NIC.IO", "whois.pir.org"}
LowerNames == [s \in ServerNames |-> IF s = "WHOIS.NIC.IO" THEN "whois.nic.io" ELSE s]
BackoffConfigs ==
  [strategy : Strategies, base : {10}, max : {9, 100, 600}, retries : {0, 3, 5},
   jitter : {3, 10}]

\* Proxies: lists of none, two and three entries, a junk entry, a proxy listed
\* twice, each mode, with and without a limit.
ProxySettings ==
  {[mode |-> "ascending", list |-> <<p1, Junk, p2>>, retries |-> 1],
   [mode |-> "descending", list |-> <<p1, p2, p1>>, retries |-> 1],
   [mode |-> "ascending", list |-> <<p2, p1>>, retries |-> 0],
   [mode |-> "random", list |-> <<p1, p2>>, retries |-> 1],
   Default}

RemoteInit ==
  /\ part \in Parts
  /\ AgentInit /\ PlanInit /\ StreamInit /\ ChatInit /\ ThrottleInit /\ RetryInit /\ Init

Of(name, others) == part = name /\ UNCHANGED <<part, others>>

Agent ==
  /\ Of("agent", <<planVars, streamVars, chatVars, throttleVars, retryVars, vars>>)
  /\ AgentNext
AgentSteps ==
  /\ Of("agent", <<planVars, streamVars, chatVars, throttleVars, retryVars, vars>>)
  /\ RunStep
Planning ==
  /\ Of("plan", <<agentVars, streamVars, chatVars, throttleVars, retryVars, vars>>)
  /\ PlanNext
Stream ==
  /\ Of("stream", <<agentVars, planVars, chatVars, throttleVars, retryVars, vars>>)
  /\ StreamNext
Chat ==
  /\ Of("chat", <<agentVars, planVars, streamVars, throttleVars, retryVars, vars>>)
  /\ ChatNext
Limits ==
  /\ Of("throttle", <<agentVars, planVars, streamVars, chatVars, retryVars, vars>>)
  /\ ThrottleNext
Retries ==
  /\ Of("retry", <<agentVars, planVars, streamVars, chatVars, throttleVars, vars>>)
  /\ RetryNext
Proxies ==
  /\ Of("proxies", <<agentVars, planVars, streamVars, chatVars, throttleVars, retryVars>>)
  /\ Next

RemoteNext ==
  Agent \/ Planning \/ Stream \/ Chat \/ Limits \/ Retries \/ Proxies

\* The fairness of AgentSpec.
RemoteSpec == RemoteInit /\ [][RemoteNext]_remoteVars /\ WF_agentVars(AgentSteps)
=============================================================================
