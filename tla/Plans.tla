------------------------------- MODULE Plans --------------------------------
(***************************************************************************)
(* What the agent works through (wd-agent): the Toolbox, the pipelines     *)
(* and plan templates that name its tools, and the status of a Plan's      *)
(* steps.                                                                  *)
(*                                                                         *)
(* Abstracted: a pipeline is the sequence of its steps' required_tools,    *)
(* a plan the sequence of its steps; prompts, descriptions and the         *)
(* parameters of a tool are left out.  Nothing in the repository drives    *)
(* a plan, so its methods may be called in any order and with any index.   *)
(***************************************************************************)
EXTENDS Naturals, Sequences

CONSTANTS
  HandTool,  \* names of tools in steps that are added by hand
  MaxSteps   \* bound: steps of a plan such steps are added to

WhoisTools == {"whois_lookup", "bulk_whois", "rdap_lookup", "parse_whois"}
DnsTools == {"dns_lookup", "reverse_dns"}
ExportTools == {"export_csv", "export_json"}
AnalysisTools == {"check_expiry", "check_availability", "domain_stats"}
SecurityTools == {"threat_scan", "generate_typosquats", "homoglyph_check"}
DomainGenTools == {"generate_domains"}
HistoryTools == {"get_history", "diff_whois"}
UtilityTools == {"get_settings", "get_cache_stats", "clear_cache"}

\* Toolbox::full, by category.
Toolbox ==
  UNION {WhoisTools, DnsTools, ExportTools, AnalysisTools, SecurityTools, DomainGenTools,
         HistoryTools, UtilityTools}

AuditPipeline ==
  <<{"whois_lookup", "parse_whois"}, {"dns_lookup"}, {"threat_scan", "generate_typosquats"}, {}>>
PortfolioPipeline == <<{"bulk_whois"}, {"check_expiry"}, {}>>
SecurityPipeline == <<{"generate_typosquats", "bulk_whois"}, {"homoglyph_check"}, {}>>
BrandPipeline == <<{"generate_domains", "generate_typosquats"}, {"bulk_whois"}, {}>>
DropPipeline == <<{"bulk_whois", "check_expiry"}, {"domain_stats"}, {}>>

\* Pipeline::catalog, with what each kind is built from.
Catalog ==
  [domain_audit |-> AuditPipeline, portfolio_analysis |-> PortfolioPipeline,
   security_scan |-> SecurityPipeline, brand_protection |-> BrandPipeline,
   drop_watch |-> DropPipeline]

NewStep(tools, dependent) == [tools |-> tools, dependent |-> dependent, status |-> "pending"]

\* TaskPlanner.  No category registers expiry_alert.
AuditPlan ==
  <<NewStep({"whois_lookup"}, FALSE), NewStep({"dns_lookup"}, FALSE),
    NewStep({"parse_whois"}, TRUE), NewStep({"threat_scan"}, TRUE), NewStep({}, TRUE)>>
PortfolioPlan ==
  <<NewStep({"bulk_whois"}, FALSE), NewStep({"parse_whois", "check_expiry"}, TRUE),
    NewStep({"expiry_alert"}, TRUE), NewStep({}, TRUE)>>
SecurityPlan ==
  <<NewStep({"whois_lookup"}, FALSE), NewStep({"generate_typosquats"}, FALSE),
    NewStep({"bulk_whois"}, TRUE), NewStep({"homoglyph_check"}, TRUE), NewStep({}, TRUE)>>

VARIABLE plan

planVars == <<plan>>

PlanInit == plan = <<>>

\* TaskPlanner makes one of its plans, Plan::new an empty one.
MakePlan == plan' \in {AuditPlan, PortfolioPlan, SecurityPlan, <<>>}

\* The names of a step are taken as they are.
AddStep(tools, dependent) ==
  /\ Len(plan) < MaxSteps
  /\ plan' = Append(plan, NewStep(tools, dependent))

\* An index that is no step changes nothing and is answered by false.
SetStatus(i, status) ==
  /\ i \in DOMAIN plan
  /\ plan' = [plan EXCEPT ![i].status = status]

StartStep(i) == SetStatus(i, "in_progress")
CompleteStep(i) == SetStatus(i, "completed")
FailStep(i) == SetStatus(i, "failed")

Having(status) == {i \in DOMAIN plan : plan[i].status = status}

PlanNext ==
  \/ MakePlan
  \/ \E tools \in SUBSET HandTool, dependent \in BOOLEAN : AddStep(tools, dependent)
  \/ \E i \in DOMAIN plan : StartStep(i) \/ CompleteStep(i) \/ FailStep(i)

PlanSpec == PlanInit /\ [][PlanNext]_planVars
=============================================================================
