------------------------------ MODULE MCServices ------------------------------
(*****************************************************************************)
(* Model checking of the services of the Product API that share no state:    *)
(* each behaviour is one of a single part, chosen at the start, so the state *)
(* spaces add up instead of multiplying.                                     *)
(*****************************************************************************)
EXTENDS UsageGovernance, RequestAuthority, ImprovementRelease,
        CredentialRotation, WebhookDelivery, InboxPages, InboxDecisions

VARIABLE part   \* the component this behaviour is about

vars == <<part, usageVars, authorityVars, improvementVars, credentialVars, hookVars, inboxVars, decisionVars>>

Init ==
    /\ part \in {"usage", "authority", "improvement", "credentials", "webhook", "inbox", "decision"}
    /\ UsageInit
    /\ AuthorityInit
    /\ ImprovementInit
    /\ CredentialInit
    /\ HookInit
    /\ InboxInit
    /\ InboxDecisionInit
    /\ part # "webhook" => signerKeys = {CHOOSE k \in HookKeys : TRUE}

\* the other parts do nothing
OthersIdle ==
    /\ UNCHANGED part
    /\ part # "usage" => UNCHANGED usageVars
    /\ part # "authority" => UNCHANGED authorityVars
    /\ part # "improvement" => UNCHANGED improvementVars
    /\ part # "credentials" => UNCHANGED credentialVars
    /\ part # "webhook" => UNCHANGED hookVars
    /\ part # "inbox" => UNCHANGED inboxVars
    /\ part # "decision" => UNCHANGED decisionVars

Next ==
    /\ OthersIdle
    /\ \/ part = "usage" /\ UsageNext
       \/ part = "authority" /\ AuthorityNext
       \/ part = "improvement" /\ ImprovementNext
       \/ part = "credentials" /\ CredentialNext
       \/ part = "webhook" /\ HookNext
       \/ part = "inbox" /\ InboxNext
       \/ part = "decision" /\ InboxDecisionNext

-----------------------------------------------------------------------------
\* two people whom different issuers call by the same subject
MCIdentities == {[issuer |-> "i1", subject |-> "s"], [issuer |-> "i2", subject |-> "s"]}

\* complete and incomplete evidence, the default thresholds and weaker ones
MCPackets == {METRIC_NAMES, METRIC_NAMES \ {"evidence"}}
MCThresholds == {[m \in METRIC_NAMES |-> 2], [m \in METRIC_NAMES |-> 1]}

\* reviews 1 and 2 were created at the same time
MCCreatedAt == [p \in Reviews |-> (p + 1) \div 2]
=============================================================================
