----------------------------- MODULE Workflows -----------------------------
(***************************************************************************)
(* The workflow of a project from its planning to its runs.  A plan waits   *)
(* for the thinking model, and only then is a version number taken; the    *)
(* draft is edited, shown for review, confirmed by the hash of what was    *)
(* shown, run, and revised.  All of these handlers but the plan run to     *)
(* their end in one step of the event loop; several windows may call them. *)
(*                                                                         *)
(* The content of a workflow has a covered part, which the snapshot hash is *)
(* made from (0 stands for no tasks), and an extra part, which the review  *)
(* shows as well but the hash leaves out: writes, done definitions, verify *)
(* steps and run gates.                                                    *)
(***************************************************************************)
EXTENDS ThinkingModels, FiniteSetsExt

CONSTANTS
  Extras,         \* the values of the extra part
  MaxWorkflows,   \* bound: versions of the workflow
  MaxPlans        \* bound: plans requested

ASSUME PlansAssumption == MaxPlans \in Nat /\ MaxWorkflows \in Nat

VARIABLES
  project,     \* whether the project exists
  active,      \* its active_workflow_version, 0 for none
  workflows,   \* the workflows table
  plans,       \* the plans that wait for their thinking model
  planned,     \* plans requested so far
  shown,       \* what the review page shows: a workflow and its content then
  runs         \* the workflows that have runs

authoringVars == <<project, active, workflows, plans, planned, shown, runs>>
workflowVars  == <<modelVars, authoringVars>>

Workflows == 1..MaxWorkflows
Content   == [covered: 0..2, extra: Extras]
Version   == 1..(MaxWorkflows + 1)
NoReview  == [of |-> Nothing, content |-> Nothing]

(* Ids are told apart and nothing more: a new one is the next.             *)
NewId == Cardinality(DOMAIN workflows) + 1

(* What a plan records, and the provider that it really asks.              *)
Origin == [profile: Profiles \cup {Nothing}, endpoint: Endpoints \cup {Nothing},
           asked: Provider, chosen: BOOLEAN]
Plan   == [origin: Origin, repaired: BOOLEAN]

ASSUME NothingAssumption == Nothing \notin Workflows \cup Origin

(* by and confirmed are history: the plan a workflow came from, and the     *)
(* content that the page showed at its review.                             *)
Workflow == [version: Version, status: {"draft", "reviewed"}, content: Content,
             by: Origin \cup {Nothing}, confirmed: Content \cup {Nothing}]

Hash(content) == content.covered

(* Mutant: the number of a revision follows that of its source.            *)
NextAfter(source) == source + 1
NextVersion(source) == 1 + Max({source} \cup {workflows[w].version : w \in DOMAIN workflows})

Save(row) ==
  /\ NewId \in Workflows
  /\ workflows' = [w \in 1..NewId |-> IF w = NewId THEN row ELSE workflows[w]]
  /\ active' = row.version

-----------------------------------------------------------------------------
WorkflowsInit ==
  /\ ModelsInit
  /\ project = TRUE
  /\ active = 0
  /\ workflows = [w \in {} |-> Nothing]
  /\ plans = {}
  /\ planned = 0
  /\ shown = NoReview
  /\ runs = {}

(* The planner is replaced by the chosen profile's, and by the default's if *)
(* there is none yet.  The mutant keeps the planner that is there.         *)
PlannerKept(p, chosen) ==
  IF p # Nothing /\ planner = NoPlanner
  THEN [of |-> p, endpoint |-> profiles[p].endpoint] ELSE planner
PlannerFor(p, chosen) ==
  IF p # Nothing /\ (planner = NoPlanner \/ chosen)
  THEN [of |-> p, endpoint |-> profiles[p].endpoint] ELSE planner

HasKey(origin) == origin.asked.of \in keys

(* Without a choice the default profile is the one that is recorded, though *)
(* the planner may be another.  Without a credential the request fails.     *)
BeginPlan(p, chosen) ==
  /\ project
  /\ planned < MaxPlans
  /\ \/ p \in DOMAIN profiles /\ (chosen \/ p \in Default) /\ profiles[p].enabled
     \/ p = Nothing /\ ~chosen /\ Default = {}
  /\ planner' = PlannerFor(p, chosen)
  /\ planner' # NoPlanner
  /\ LET origin == [profile |-> p, asked |-> planner', chosen |-> chosen,
         endpoint |-> IF p = Nothing THEN Nothing ELSE profiles[p].endpoint]
     IN plans' = IF HasKey(origin)
                 THEN plans \cup {[origin |-> origin, repaired |-> FALSE]} ELSE plans
  /\ planned' = planned + 1
  /\ UNCHANGED <<profiles, keys, config, changes, project, active, workflows,
                 shown, runs>>

(* An output that does not validate is sent back once.                     *)
RepairPlan(plan) ==
  /\ ~plan.repaired
  /\ HasKey(plan.origin)
  /\ plans' = (plans \ {plan}) \cup {[plan EXCEPT !.repaired = TRUE]}
  /\ UNCHANGED <<modelVars, project, active, workflows, planned, shown, runs>>

(* A timeout, a missing credential at the repair, a second invalid output,  *)
(* an id that exists already, or a project that has been deleted.          *)
PlanFails(plan) ==
  /\ plans' = plans \ {plan}
  /\ UNCHANGED <<modelVars, project, active, workflows, planned, shown, runs>>

(* Id, content and status are the thinking model's; so is the version, if   *)
(* it is the first.  Contents are only compared: the first is any.         *)
PlanAnswers(plan, version, status, extra) ==
  /\ project
  /\ IF DOMAIN workflows = {} THEN version \in 1..2 ELSE version = NextVersion(1)
  /\ Save([version |-> version, status |-> status,
           content |-> [covered |-> 1, extra |-> extra],
           by |-> plan.origin, confirmed |-> Nothing])
  /\ plans' = plans \ {plan}
  /\ UNCHANGED <<modelVars, project, planned, shown, runs>>

(* Mutant: a reviewed workflow may be edited too.                          *)
MayEditAny(w) == w \in DOMAIN workflows
MayEdit(w) == w \in DOMAIN workflows /\ workflows[w].status = "draft"

UpdateWorkflow(w, content) ==
  /\ Change
  /\ MayEdit(w)
  /\ workflows' = [workflows EXCEPT ![w].content = content]
  /\ UNCHANGED <<profiles, keys, config, planner, project, active, plans, planned, shown, runs>>

PrepareReview(w) ==
  /\ w \in DOMAIN workflows
  /\ shown' = [of |-> w, content |-> workflows[w].content]
  /\ UNCHANGED <<modelVars, project, active, workflows, plans, planned, runs>>

(* Warnings that the user has not acknowledged refuse the review as well.   *)
Review(w) ==
  /\ w \in DOMAIN workflows
  /\ shown.of = w
  /\ workflows[w].status = "draft"
  /\ Hash(shown.content) = Hash(workflows[w].content)
  /\ workflows[w].content.covered # 0
  /\ workflows' = [workflows EXCEPT ![w].status = "reviewed",
                                    ![w].confirmed = shown.content]
  /\ UNCHANGED <<modelVars, project, active, plans, planned, shown, runs>>

CreateRevision(source) ==
  /\ source \in DOMAIN workflows
  /\ workflows[source].status = "reviewed"
  /\ Save([version |-> NextVersion(workflows[source].version), status |-> "draft",
           content |-> workflows[source].content, by |-> Nothing, confirmed |-> Nothing])
  /\ UNCHANGED <<modelVars, project, plans, planned, shown, runs>>

(* As far as project, planner and workflow are concerned; the nodes' part   *)
(* of readiness is in Readiness.                                           *)
CreateRun(w) ==
  /\ w \in DOMAIN workflows
  /\ workflows[w].status = "reviewed"
  /\ PlannerReady
  /\ workflows[w].content.covered # 0
  /\ runs' = runs \cup {w}
  /\ UNCHANGED <<modelVars, project, active, workflows, plans, planned, shown>>

(* The workflows go with their project.  Runs refer to them and keep the    *)
(* project from being deleted.                                             *)
DeleteProject ==
  /\ project
  /\ runs = {}
  /\ project' = FALSE
  /\ active' = 0
  /\ workflows' = [w \in {} |-> Nothing]
  /\ UNCHANGED <<modelVars, plans, planned, shown, runs>>

RestartCoordinator ==
  /\ plans' = {}
  /\ planner' = ConfiguredPlanner
  /\ UNCHANGED <<profiles, keys, config, changes, project, active, workflows,
                 planned, shown, runs>>

WorkflowsStep ==
  \/ ModelsStep /\ UNCHANGED authoringVars
  \/ \E p \in Profiles \cup {Nothing}, chosen \in BOOLEAN : BeginPlan(p, chosen)
  \/ \E plan \in plans :
       \/ RepairPlan(plan) \/ PlanFails(plan)
       \/ \E version \in Version, status \in {"draft", "reviewed"}, extra \in Extras :
            PlanAnswers(plan, version, status, extra)
  \/ \E w \in Workflows :
       \/ \E content \in Content : UpdateWorkflow(w, content)
       \/ PrepareReview(w) \/ Review(w) \/ CreateRun(w) \/ CreateRevision(w)
  \/ DeleteProject
  \/ RestartCoordinator

WorkflowsTypeOK ==
  /\ ModelsTypeOK
  /\ project \in BOOLEAN /\ active \in {0} \cup Version
  /\ DOMAIN workflows \subseteq Workflows
  /\ \A w \in DOMAIN workflows : workflows[w] \in Workflow
  /\ plans \subseteq Plan
  /\ planned \in 0..MaxPlans
  /\ shown = NoReview \/ (shown.of \in Workflows /\ shown.content \in Content)
  /\ runs \subseteq Workflows

-----------------------------------------------------------------------------
(* However plans, revisions and a deleted project interleave, no two        *)
(* versions have the same number, and the active one is the latest.        *)
VersionsInOrder ==
  /\ \A v, w \in DOMAIN workflows :
       workflows[v].version = workflows[w].version => v = w
  /\ \A w \in DOMAIN workflows : workflows[w].version <= active
  /\ DOMAIN workflows # {} => \E w \in DOMAIN workflows : workflows[w].version = active

(* A workflow that was planned with a chosen profile was planned by that    *)
(* profile, with the endpoint it records, whatever other plans, edits and  *)
(* deletions of profiles happened while it waited.                         *)
PlannedByChosen ==
  \A w \in DOMAIN workflows :
    workflows[w].by # Nothing /\ workflows[w].by.chosen =>
      LET plan == workflows[w].by
      IN plan.asked = [of |-> plan.profile, endpoint |-> plan.endpoint]

(* What runs is reviewed, and is what a page showed when it was confirmed,  *)
(* as far as the hash covers it.  Except for a workflow that its thinking  *)
(* model has called reviewed, which nobody confirmed.                      *)
RunsAsConfirmed ==
  \A w \in runs :
    /\ w \in DOMAIN workflows
    /\ workflows[w].status = "reviewed"
    /\ \/ workflows[w].by # Nothing /\ workflows[w].confirmed = Nothing
       \/ Hash(workflows[w].confirmed) = Hash(workflows[w].content)

(* The review confirms what the page showed: an edit between its opening    *)
(* and its confirmation makes the confirmation stale.                      *)
ReviewedAsShown ==
  \A w \in DOMAIN workflows :
    workflows[w].confirmed \in {Nothing, workflows[w].content}
=============================================================================
