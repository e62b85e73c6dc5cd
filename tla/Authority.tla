------------------------------ MODULE Authority ------------------------------
(***************************************************************************)
(* The evidence authority of a bundle (core/src/evidence_bundle/           *)
(* authority.rs): the contract its manifest must meet, and the decision    *)
(* whether, at an instant and in a context, it authorizes a claim.         *)
(*                                                                         *)
(* A digest is a record: Sha(x) of x, or one that is malformed. Timestamps *)
(* are natural numbers; NoTime is one that does not parse.                 *)
(***************************************************************************)
EXTENDS Integers, Sequences

CONSTANT Day  \* time::Duration::hours(24)

ASSUME DayAssumption == Day \in Nat \ {0}

Sha(x) == [sha256 |-> x]
Malformed == [malformed |-> TRUE]
IsSha(d) == DOMAIN d = {"sha256"}

\* The field of a record that may not have it.
Field(r, f, default) == IF f \in DOMAIN r THEN r[f] ELSE default

NoTime == -1
Known(name) == name \notin {"", "unknown"}

ProhibitedClaims == {"LIVE_EXECUTION", "PRODUCTION_AUTHORITY",
  "EXTERNAL_MUTATION", "REAL_USER_SUCCESS", "CURRENT_RUNTIME_CAPABILITY",
  "DEPLOYABILITY", "LIVE_EVALUATION_COMPLETION", "LIVE_EGRESS_BLOCKED"}
PermittedClaims == {"LOCAL_CONTROLLED_EXECUTION", "BUNDLE_INTEGRITY",
  "OFFLINE_POLICY_CONFIGURATION"}
Claims == ProhibitedClaims \union PermittedClaims
ControlledEffects == {"LOCAL_RUNTIME_DIRECTORY_WRITE", "LOCAL_AUDIT_LOG_WRITE",
  "LOCAL_EVIDENCE_BUNDLE_WRITE"}
AuthorizingOrigins == {"CONTROL_SIMULATION", "LOCAL_ARTIFACT_EXPORT"}

Tool(id, available, used) ==
  [id |-> id, available |-> available, used |-> used, mutates |-> FALSE]
ControlledTools == [LOCAL_EVIDENCE_BUNDLE_EXPORT |-> <<TRUE, TRUE>>,
  MODEL_INFERENCE |-> <<FALSE, FALSE>>,
  EXTERNAL_PUBLICATION_OR_DEPLOYMENT |-> <<FALSE, FALSE>>]

----------------------------------------------------------------------------
\* Mutant: the window has no end.
WithinOpenEnded(t, a) == a.generated <= t
----------------------------------------------------------------------------
\* controlled_simulation, and controlled_local_export, which differs in the
\* origin. Neither has seen the audit log: Sha of no bytes.
ControlledManifest(origin, case, producer, generated, validUntil) ==
  [schema |-> "EVIDENCE_AUTHORITY_V1", case |-> case,
   requested |-> "CONTROLLED", observed |-> "CONTROLLED", origin |-> origin,
   productionEquivalent |-> FALSE, generated |-> generated,
   validUntil |-> validUntil,
   source |-> [producer |-> producer, revision |-> "rev", executable |-> "exe",
     executableSha |-> Sha("exe"), argumentsSha |-> Sha("args"),
     environmentSha |-> Sha("env"), logSha |-> Sha(<< >>)],
   allowedEffects |-> ControlledEffects, observedEffects |-> ControlledEffects,
   credentials |-> "NOT_REQUESTED",
   tools |-> [t \in DOMAIN ControlledTools |->
                Tool(t, ControlledTools[t][1], ControlledTools[t][2])],
   cache |-> "CASE_LOCAL", reused |-> {}, may |-> PermittedClaims,
   mustNot |-> ProhibitedClaims, limitations |-> TRUE]

\* bind_audit_log
BindLog(a, log) == [a EXCEPT !.source.logSha = Sha(log)]

----------------------------------------------------------------------------
\* validate_tool_authority
ToolsCoherent(tools) ==
  /\ DOMAIN tools # {}
  /\ \A i \in DOMAIN tools :
       /\ Known(tools[i].id)
       /\ tools[i].used => tools[i].available
       /\ tools[i].mutates => tools[i].available
       /\ \A j \in DOMAIN tools : tools[i].id = tools[j].id => i = j

\* require_exact_tool_ids and require_tool_state
ToolsExact(tools) ==
  /\ {tools[i].id : i \in DOMAIN tools} = DOMAIN ControlledTools
  /\ \A i \in DOMAIN tools :
       /\ <<tools[i].available, tools[i].used>> = ControlledTools[tools[i].id]
       /\ ~tools[i].mutates

SourceOk(s) ==
  /\ Known(s.producer) /\ Known(s.revision) /\ Known(s.executable)
  /\ IsSha(s.executableSha) /\ IsSha(s.argumentsSha)
  /\ IsSha(s.environmentSha) /\ IsSha(s.logSha)

WindowOk(a) ==
  /\ {a.generated, a.validUntil} \subseteq Nat
  /\ a.generated < a.validUntil
  /\ a.validUntil - a.generated <= Day

\* What validate_internal and validate_shape_without_audit both demand. The
\* sets of effects and claims must be the fixed ones, so that they are not
\* empty, observed effects are allowed and no claim is in both sets.
Contract(a) ==
  /\ a.schema = "EVIDENCE_AUTHORITY_V1"
  /\ SourceOk(a.source)
  /\ WindowOk(a)
  /\ a.allowedEffects = ControlledEffects
  /\ a.observedEffects = ControlledEffects
  /\ a.limitations
  /\ ToolsCoherent(a.tools) /\ ToolsExact(a.tools)
  /\ a.credentials # "UNKNOWN"
  /\ a.cache = "CASE_LOCAL" /\ a.reused = {}
  /\ a.may = PermittedClaims /\ a.mustNot = ProhibitedClaims
  /\ a.origin \in AuthorizingOrigins
  /\ ~a.productionEquivalent
  /\ a.requested = "CONTROLLED" /\ a.observed = "CONTROLLED"

\* validate_controlled_audit: a line is a record with an event, or not JSON.
AuditAgrees(log, case, origin) ==
  LET egress == {n \in DOMAIN log : Field(log[n].event, "type", "") \in
                   {"EGRESS_REQUEST_ALLOWED", "EGRESS_REQUEST_BLOCKED"}} IN
  /\ \A n \in DOMAIN log : "event" \in DOMAIN log[n]
  /\ \A n \in DOMAIN log : Field(log[n].event, "run", "") = case
  /\ \A n \in egress :
       /\ origin # "LOCAL_ARTIFACT_EXPORT"
       /\ log[n].event.type = "EGRESS_REQUEST_BLOCKED"
       /\ Field(log[n].event, "origin", "") = "CONTROL_SIMULATION"
  /\ origin = "CONTROL_SIMULATION" => egress # {}

\* validate_internal
ValidInternal(a, case, log) ==
  /\ Contract(a)
  /\ a.case = case
  /\ a.source.logSha = Sha(log)
  /\ AuditAgrees(log, case, a.origin)

\* validate_shape_without_audit
ValidShape(a) == Contract(a) /\ Known(a.case)

----------------------------------------------------------------------------
\* The instants at which the authority speaks, both ends included.
Within(t, a) == a.generated <= t /\ t <= a.validUntil

\* evaluate_claim: ctx.source is what the caller expects of source, ctx.tool
\* the tool it requires, if any.
EvaluateClaim(a, claim, ctx) ==
  LET bound == /\ ValidShape(a) /\ a.case = ctx.case
               /\ \A f \in {"revision", "executableSha", "argumentsSha",
                            "environmentSha", "logSha"} :
                    a.source[f] = ctx.source[f]
      toolOk == \/ ctx.tool = ""
                \/ \E i \in DOMAIN a.tools : /\ a.tools[i].id = ctx.tool
                                             /\ a.tools[i].available
                                             /\ a.tools[i].used IN
  IF ~bound \/ ctx.asOf = NoTime \/ ~Within(ctx.asOf, a) THEN "UNKNOWN"
  ELSE IF claim \in a.mustNot THEN "DENIED"
  ELSE IF /\ claim \in a.may
          /\ ctx.credentials => a.credentials = "AVAILABLE"
          /\ toolOk THEN "AUTHORIZED"
  ELSE "UNKNOWN"
=============================================================================
