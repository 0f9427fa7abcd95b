----------------------------- MODULE ServiceProofs -----------------------------
(***************************************************************************)
(* Theorems about the services of the Product API that share no state, one *)
(* part for each of them.                                                  *)
(***************************************************************************)
EXTENDS WebhookDelivery, CredentialRotation, UsageGovernance, ImprovementRelease,
        RequestAuthority, InboxPages, InboxDecisions,
        TLAPS, FiniteSetTheorems, SequenceTheorems

-----------------------------------------------------------------------------
(***************************************************************************)
(* An event is accepted at most once, for every set of keys and every way  *)
(* in which deliveries are repeated, delayed and altered.                  *)
(***************************************************************************)
Delivery ==
    [event: HookEvents, key: HookKeys, time: Nat, nonce: Nat, genuine: BOOLEAN]
Audit ==
    [event: HookEvents, key: HookKeys, nonce: Nat, genuine: BOOLEAN, age: Nat,
     status: {"rejected", "replayed", "accepted"}]

HookTypeOK ==
    /\ inFlight \subseteq Delivery /\ IsFiniteSet(inFlight)
    /\ audits \in Seq(Audit)
    /\ hookClock \in Nat

HookInv == HookTypeOK /\ EventAcceptedOnce

LEMMA AgeNat ==
    ASSUME HookTypeOK, NEW d \in Delivery
    PROVE  Age(d) \in Nat
BY DEF HookTypeOK, Age, Delivery

\* accept_webhook_delivery appends one audit; an accepted one is of an event
\* that no earlier audit accepted, genuine and fresh.
LEMMA AcceptAppends ==
    ASSUME HookTypeOK, NEW d \in inFlight, AcceptDelivery(d)
    PROVE  \E a \in Audit :
              /\ audits' = Append(audits, a)
              /\ a.status = "accepted" => /\ ~PriorEvent(a.event)
                                          /\ a.genuine /\ a.age <= MaxHookAge
<1> DEFINE reason == RejectionOf(d)
           status == IF reason # "none" THEN "rejected"
                     ELSE IF PriorEvent(d.event) \/ NonceUsed(d.nonce) THEN "replayed"
                     ELSE "accepted"
           a == AuditRow(d, status)
<1>1. d \in Delivery
  BY DEF HookTypeOK
<1>2. Age(d) \in Nat
  BY <1>1, AgeNat
<1>3. audits' = Append(audits, a)
  BY DEF AcceptDelivery
<1>4. status \in {"rejected", "replayed", "accepted"}
  OBVIOUS
<1>5. status = "accepted" => reason = "none" /\ ~PriorEvent(d.event)
  OBVIOUS
<1>6. reason = "none" => d.genuine /\ Age(d) <= MaxHookAge
  BY <1>2, WebhookAssumption DEF RejectionOf
<1> HIDE DEF status, reason
<1>7. a \in Audit
  BY <1>1, <1>2, <1>4 DEF AuditRow, Audit, Delivery
<1>8. a.status = status /\ a.event = d.event /\ a.genuine = d.genuine /\ a.age = Age(d)
  BY DEF AuditRow
<1> HIDE DEF a
<1> QED BY <1>3, <1>5, <1>6, <1>7, <1>8

LEMMA AcceptStep ==
    ASSUME HookInv, NEW d \in inFlight, AcceptDelivery(d)
    PROVE  HookInv'
<1>1. PICK a \in Audit :
              /\ audits' = Append(audits, a)
              /\ a.status = "accepted" => /\ ~PriorEvent(a.event)
                                          /\ a.genuine /\ a.age <= MaxHookAge
  BY AcceptAppends DEF HookInv
<1>2. inFlight' = inFlight /\ hookClock' = hookClock
  BY DEF AcceptDelivery
<1>3. audits \in Seq(Audit)
  BY DEF HookInv, HookTypeOK
<1>4. /\ audits' \in Seq(Audit)
      /\ Len(audits') = Len(audits) + 1
      /\ \A i \in 1..Len(audits) : audits'[i] = audits[i]
      /\ audits'[Len(audits) + 1] = a
  BY <1>1, <1>3, AppendProperties
<1>5. DOMAIN audits = 1..Len(audits) /\ DOMAIN audits' = 1..(Len(audits) + 1)
      /\ Len(audits) \in Nat
  BY <1>3, <1>4, LenProperties
<1>6. \A i \in DOMAIN audits' : i \in DOMAIN audits \/ i = Len(audits) + 1
  BY <1>5
<1>7. a.status = "accepted" =>
          \A i \in DOMAIN audits : ~(audits[i].event = a.event /\ audits[i].status = "accepted")
  BY <1>1 DEF PriorEvent
<1>8. \A i \in DOMAIN audits : audits'[i] = audits[i]
  BY <1>4, <1>5
<1>9. \A i, j \in DOMAIN audits' :
          /\ audits'[i].status = "accepted" /\ audits'[j].status = "accepted"
          /\ audits'[i].event = audits'[j].event
          => i = j
  BY <1>4, <1>6, <1>7, <1>8 DEF HookInv, EventAcceptedOnce
<1>10. \A i \in DOMAIN audits' : audits'[i].status = "accepted" =>
          audits'[i].genuine /\ audits'[i].age <= MaxHookAge
  BY <1>1, <1>4, <1>6, <1>8 DEF HookInv, EventAcceptedOnce
<1>11. EventAcceptedOnce'
  BY <1>9, <1>10 DEF EventAcceptedOnce
<1> QED BY <1>2, <1>4, <1>11 DEF HookInv, HookTypeOK

\* Deliveries that are under way judge nothing.
LEMMA InFlightStep ==
    ASSUME HookInv, NEW d \in Delivery, inFlight' = inFlight \cup {d},
           UNCHANGED <<audits, hookClock>>
    PROVE  HookInv'
<1>1. IsFiniteSet(inFlight')
  BY FS_AddElement DEF HookInv, HookTypeOK
<1> QED BY <1>1 DEF HookInv, HookTypeOK, EventAcceptedOnce

LEMMA SignStep ==
    ASSUME HookInv, NEW e \in HookEvents, NEW k \in HookKeys, Sign(e, k)
    PROVE  HookInv'
<1> DEFINE d == [event |-> e, key |-> k, time |-> hookClock,
                 nonce |-> Cardinality(inFlight) + 1, genuine |-> TRUE]
<1>1. Cardinality(inFlight) \in Nat
  BY FS_CardinalityType DEF HookInv, HookTypeOK
<1>2. d \in Delivery
  BY <1>1 DEF HookInv, HookTypeOK, Delivery
<1> QED BY <1>2, InFlightStep DEF Sign

LEMMA AlterStep ==
    ASSUME HookInv, NEW d \in inFlight, NEW e \in HookEvents, NEW t \in 0..MaxHookTime,
           Alter(d, e, t)
    PROVE  HookInv'
<1> DEFINE altered == [d EXCEPT !.event = e, !.time = t, !.genuine = FALSE]
<1>1. d \in Delivery
  BY DEF HookInv, HookTypeOK
<1>2. t \in Nat
  BY WebhookAssumption
<1>3. altered \in Delivery
  BY <1>1, <1>2 DEF Delivery
<1> QED BY <1>3, InFlightStep DEF Alter

LEMMA HookStep == HookInv /\ [HookNext]_hookVars => HookInv'
<1> SUFFICES ASSUME HookInv, [HookNext]_hookVars PROVE HookInv'
  OBVIOUS
<1>1. CASE ConfigureKeys \/ UNCHANGED hookVars
  BY <1>1 DEF ConfigureKeys, hookVars, HookInv, HookTypeOK, EventAcceptedOnce
<1>2. CASE HookTick
  <2>1. hookClock' \in Nat /\ UNCHANGED <<inFlight, audits>>
    BY <1>2 DEF HookTick, HookInv, HookTypeOK
  <2> QED BY <2>1 DEF HookInv, HookTypeOK, EventAcceptedOnce
<1> QED BY <1>1, <1>2, SignStep, AlterStep, AcceptStep DEF HookNext

LEMMA HookInitInv == HookInit => HookInv
<1> SUFFICES ASSUME HookInit PROVE HookInv
  OBVIOUS
<1>1. inFlight = {} /\ audits = <<>> /\ hookClock = 0
  BY DEF HookInit
<1>2. IsFiniteSet(inFlight)
  BY <1>1, FS_EmptySet
<1>3. DOMAIN audits = {}
  BY <1>1
<1> QED BY <1>1, <1>2, <1>3 DEF HookInv, HookTypeOK, EventAcceptedOnce

\* EventAcceptedOnce: accept_webhook_delivery looks up the audits of the event
\* before the nonce, so a second signature of it changes nothing.
THEOREM EventAcceptedOnceHolds == HookSpec => []EventAcceptedOnce
<1>1. HookInv => EventAcceptedOnce
  BY DEF HookInv
<1> QED BY <1>1, HookInitInv, HookStep, PTL DEF HookSpec

-----------------------------------------------------------------------------
(***************************************************************************)
(* Every process can read every stored credential during the whole         *)
(* replacement of the key, for every number of processes, rows, batches    *)
(* and kills of the rewrap.                                                *)
(***************************************************************************)
Rings == {Keyrings.old, Keyrings.staged, Keyrings.overlap, Keyrings.retired}
CredentialRow ==
    [status: {"absent", "enabled", "disabled"}, version: {"v1", "v2"}, plain: Nat]
RewrapState ==
    [pc: {"idle", "loop", "count", "passed", "failed"}, batches: Nat, remaining: Nat]

CredentialTypeOK ==
    /\ keyring \in [KeyProcesses -> Rings]
    /\ credential \in [Destinations -> CredentialRow]
    /\ deviceKey \in [Destinations -> Nat]
    /\ settingsTx \in [ApiProcesses -> Destinations \cup {NoRow}]
    /\ rewrap \in RewrapState

NewActive == \A p \in KeyProcesses : keyring[p].active = "v2"
NoneOld == \A p \in KeyProcesses : keyring[p] # Keyrings.old

\* how far the processes, the rewrap and the rows are
RolloutOrder ==
    /\ \A p \in KeyProcesses : keyring[p].active = "v2" => NoneOld
    /\ \A d \in Destinations : credential[d].version = "v2" => NoneOld
    /\ rewrap.pc \in {"loop", "count", "passed"} => NewActive /\ NoneOld
    /\ rewrap.pc = "loop" /\ rewrap.remaining = 0 => OldRows = {}
    /\ rewrap.pc = "passed" => OldRows = {}
    /\ \A p \in KeyProcesses : keyring[p] = Keyrings.retired => rewrap.pc = "passed"

NewestStored ==
    \A d \in Destinations : credential[d].status # "absent" => credential[d].plain = deviceKey[d]

CredentialInv == CredentialTypeOK /\ RolloutOrder /\ NewestStored

\* The four keyrings, and what each reads.
LEMMA RingFacts ==
    /\ Keyrings.old.active = "v1" /\ Keyrings.staged.active = "v1"
    /\ Keyrings.overlap.active = "v2" /\ Keyrings.retired.active = "v2"
    /\ Keyrings.old # Keyrings.staged
    /\ Keyrings.overlap # Keyrings.retired
    /\ SupportsDecryption(Keyrings.old, "v1")
    /\ SupportsDecryption(Keyrings.staged, "v1") /\ SupportsDecryption(Keyrings.staged, "v2")
    /\ SupportsDecryption(Keyrings.overlap, "v1") /\ SupportsDecryption(Keyrings.overlap, "v2")
    /\ SupportsDecryption(Keyrings.retired, "v2")
<1>1. /\ Keyrings.old = [active |-> "v1", decrypt |-> {}]
      /\ Keyrings.staged = [active |-> "v1", decrypt |-> {"v2"}]
      /\ Keyrings.overlap = [active |-> "v2", decrypt |-> {"v1"}]
      /\ Keyrings.retired = [active |-> "v2", decrypt |-> {}]
  BY DEF Keyrings
<1>2. Keyrings.old.decrypt # Keyrings.staged.decrypt
      /\ Keyrings.overlap.decrypt # Keyrings.retired.decrypt
  BY <1>1
<1>3. Keyrings.old # Keyrings.staged /\ Keyrings.overlap # Keyrings.retired
  BY <1>2
<1> QED BY <1>1, <1>3 DEF SupportsDecryption

\* A count of zero means that no row is left under the old key.
LEMMA NoneRemaining ==
    ASSUME CredentialTypeOK
    PROVE  RemainingOldRows \in Nat /\ (RemainingOldRows = 0 => OldRows = {})
<1>1. OldRows \subseteq Destinations
  BY DEF OldRows
<1>2. IsFiniteSet(OldRows)
  BY <1>1, CredentialAssumption, FS_Subset
<1> QED BY <1>2, FS_CardinalityType, FS_EmptySet DEF RemainingOldRows

LEMMA InvReadable == CredentialInv => CredentialsReadable
<1> SUFFICES ASSUME CredentialInv, NEW d \in Destinations, credential[d].status # "absent"
             PROVE  /\ \A p \in KeyProcesses :
                          SupportsDecryption(keyring[p], credential[d].version)
                    /\ credential[d].plain = deviceKey[d]
  BY DEF CredentialsReadable
<1>1. credential[d].plain = deviceKey[d]
  BY DEF CredentialInv, NewestStored
<1>2. ASSUME NEW p \in KeyProcesses
      PROVE  SupportsDecryption(keyring[p], credential[d].version)
  <2>1. keyring[p] \in Rings /\ credential[d].version \in {"v1", "v2"}
    BY DEF CredentialInv, CredentialTypeOK, CredentialRow
  <2>2. CASE credential[d].version = "v1"
    <3>1. d \in OldRows
      BY <2>2, RingFacts DEF OldRows
    <3>2. keyring[p] # Keyrings.retired
      BY <3>1 DEF CredentialInv, RolloutOrder
    <3> QED BY <2>1, <2>2, <3>2, RingFacts DEF Rings
  <2>3. CASE credential[d].version = "v2"
    <3>1. keyring[p] # Keyrings.old
      BY <2>3 DEF CredentialInv, RolloutOrder, NoneOld
    <3> QED BY <2>1, <2>3, <3>1, RingFacts DEF Rings
  <2> QED BY <2>1, <2>2, <2>3
<1> QED BY <1>1, <1>2

-----------------------------------------------------------------------------
(* Steps. *)

LEMMA SettingsLockInv ==
    ASSUME CredentialInv, NEW p \in ApiProcesses, NEW d \in Destinations, SettingsLock(p, d)
    PROVE  CredentialInv'
<1>1. UNCHANGED <<keyring, credential, deviceKey, rewrap>>
      /\ settingsTx' = [settingsTx EXCEPT ![p] = d]
  BY DEF SettingsLock
<1>2. CredentialTypeOK'
  BY <1>1 DEF CredentialInv, CredentialTypeOK
<1> QED BY <1>1, <1>2 DEF CredentialInv, RolloutOrder, NewestStored, OldRows, NewActive, NoneOld

\* A process that writes under the new key found no process with only the old
\* one; once the rewrap began, nobody writes under the old key.
LEMMA EnterDeviceKeyInv ==
    ASSUME CredentialInv, NEW p \in ApiProcesses, NEW enabled \in BOOLEAN,
           EnterDeviceKey(p, enabled)
    PROVE  CredentialInv'
<1> DEFINE d == settingsTx[p]
           row == [status |-> IF enabled THEN "enabled" ELSE "disabled",
                   version |-> keyring[p].active, plain |-> deviceKey[d] + 1]
<1>1. d \in Destinations /\ p \in KeyProcesses
  BY DEF EnterDeviceKey, CredentialInv, CredentialTypeOK, KeyProcesses
<1>2. keyring[p].active \in {"v1", "v2"}
  BY <1>1, RingFacts DEF CredentialInv, CredentialTypeOK, Rings
<1>3. deviceKey[d] + 1 \in Nat
  BY <1>1 DEF CredentialInv, CredentialTypeOK
<1>4. row \in CredentialRow
  BY <1>2, <1>3 DEF CredentialRow
<1>5. /\ credential' = [credential EXCEPT ![d] = row]
      /\ deviceKey' = [deviceKey EXCEPT ![d] = deviceKey[d] + 1]
      /\ settingsTx' = [settingsTx EXCEPT ![p] = NoRow]
      /\ UNCHANGED <<keyring, rewrap>>
  BY DEF EnterDeviceKey
<1>6. row.version = keyring[p].active /\ row.plain = deviceKey[d] + 1
  OBVIOUS
<1> HIDE DEF d, row
<1>7. CredentialTypeOK'
  BY <1>1, <1>3, <1>4, <1>5 DEF CredentialInv, CredentialTypeOK
<1>8. /\ credential'[d] = row /\ deviceKey'[d] = row.plain
      /\ \A e \in Destinations : e # d => /\ credential'[e] = credential[e]
                                          /\ deviceKey'[e] = deviceKey[e]
  BY <1>1, <1>5, <1>6 DEF CredentialInv, CredentialTypeOK
<1>9. NewestStored'
  BY <1>8 DEF CredentialInv, NewestStored
<1>10. NewActive => OldRows' \subseteq OldRows
  BY <1>1, <1>6, <1>8, RingFacts DEF OldRows, NewActive
<1>11. \A e \in Destinations : credential'[e].version = "v2" => NoneOld
  BY <1>1, <1>6, <1>8 DEF CredentialInv, RolloutOrder
<1> QED BY <1>5, <1>7, <1>9, <1>10, <1>11 DEF CredentialInv, RolloutOrder, NewActive, NoneOld

\* Whether it is enabled changes nothing about what is stored.
LEMMA SetEnabledInv ==
    ASSUME CredentialInv, NEW p \in ApiProcesses, NEW enabled \in BOOLEAN,
           SetEnabled(p, enabled)
    PROVE  CredentialInv'
<1> DEFINE d == settingsTx[p]
           status == IF enabled THEN "enabled" ELSE "disabled"
<1>1. /\ d \in Destinations
      /\ settingsTx' = [settingsTx EXCEPT ![p] = NoRow]
      /\ UNCHANGED <<keyring, deviceKey, rewrap>>
      /\ \/ credential' = credential
         \/ /\ credential[d].status # "absent"
            /\ credential' = [credential EXCEPT ![d].status = status]
  BY DEF SetEnabled, CredentialInv, CredentialTypeOK
<1>2. status \in {"enabled", "disabled"}
  OBVIOUS
<1> HIDE DEF d, status
<1>3. credential' \in [Destinations -> CredentialRow]
  BY <1>1, <1>2 DEF CredentialInv, CredentialTypeOK, CredentialRow
<1>4. \A e \in Destinations :
          /\ credential'[e].version = credential[e].version
          /\ credential'[e].plain = credential[e].plain
          /\ credential'[e].status # "absent" => credential[e].status # "absent"
  BY <1>1, <1>2 DEF CredentialInv, CredentialTypeOK, CredentialRow
<1>5. CredentialTypeOK'
  BY <1>1, <1>3 DEF CredentialInv, CredentialTypeOK
<1>6. OldRows' \subseteq OldRows
  BY <1>4 DEF OldRows
<1>7. NewestStored'
  BY <1>1, <1>4 DEF CredentialInv, NewestStored
<1> QED BY <1>1, <1>4, <1>5, <1>6, <1>7 DEF CredentialInv, RolloutOrder, NewActive, NoneOld

\* The rewrap changes versions only, to the new one.
LEMMA RewrapBatchInv ==
    ASSUME CredentialInv, RewrapBatch
    PROVE  CredentialInv'
<1>1. PICK batch \in SUBSET Destinations :
          credential' = [d \in Destinations |->
               IF d \in batch
               THEN [credential[d] EXCEPT !.version = Keyrings.overlap.active]
               ELSE credential[d]]
  <2> DEFINE open == {d \in OldRows : ~RowLocked(d)}
             taken == {d \in open : Cardinality({e \in open : e < d}) < RewrapBatchSize}
  <2>1. taken \in SUBSET Destinations
    BY DEF OldRows
  <2>2. credential' = [d \in Destinations |->
               IF d \in taken
               THEN [credential[d] EXCEPT !.version = Keyrings.overlap.active]
               ELSE credential[d]]
    BY DEF RewrapBatch
  <2> HIDE DEF taken
  <2> QED BY <2>1, <2>2
<1>2. /\ UNCHANGED <<keyring, deviceKey, settingsTx>> /\ rewrap.pc = "loop"
      /\ rewrap' = [rewrap EXCEPT !.pc = "count", !.batches = @ + 1]
  BY DEF RewrapBatch
<1>3. rewrap' \in RewrapState /\ rewrap'.pc = "count"
  <2>1. rewrap.batches + 1 \in Nat
    BY DEF CredentialInv, CredentialTypeOK, RewrapState
  <2>2. ASSUME NEW n \in Nat
        PROVE  LET s == [rewrap EXCEPT !.pc = "count", !.batches = n]
               IN  s \in RewrapState /\ s.pc = "count"
    BY DEF CredentialInv, CredentialTypeOK, RewrapState
  <2> QED BY <1>2, <2>1, <2>2
<1>4. credential' \in [Destinations -> CredentialRow]
  BY <1>1, RingFacts DEF CredentialInv, CredentialTypeOK, CredentialRow
<1>5. \A d \in Destinations : /\ credential'[d].status = credential[d].status
                              /\ credential'[d].plain = credential[d].plain
  BY <1>1 DEF CredentialInv, CredentialTypeOK, CredentialRow
<1>6. NewActive /\ NoneOld
  BY <1>2 DEF CredentialInv, RolloutOrder
<1>7. CredentialTypeOK'
  BY <1>2, <1>3, <1>4 DEF CredentialInv, CredentialTypeOK
<1>8. NewestStored'
  BY <1>2, <1>5 DEF CredentialInv, NewestStored
<1>9. \A p \in KeyProcesses : keyring[p] # Keyrings.retired
  BY <1>2 DEF CredentialInv, RolloutOrder
<1> QED BY <1>2, <1>3, <1>6, <1>7, <1>8, <1>9 DEF CredentialInv, RolloutOrder, NewActive, NoneOld

\* The other steps of the rewrap; a success follows a count of zero.
LEMMA RewrapOtherInv ==
    ASSUME CredentialInv,
           RotationStarts \/ CountRemaining \/ RotationEnds \/ RotationKilled
    PROVE  CredentialInv'
<1>1. UNCHANGED <<keyring, credential, deviceKey, settingsTx>>
  BY DEF RotationStarts, CountRemaining, RotationEnds, RotationKilled
<1>2. OldRows' = OldRows
  BY <1>1 DEF OldRows
<1>3. RemainingOldRows \in Nat /\ (RemainingOldRows = 0 => OldRows = {})
  BY NoneRemaining DEF CredentialInv
<1>4. /\ rewrap' \in RewrapState
      /\ rewrap'.pc \in {"loop", "count", "passed"} => NewActive /\ NoneOld
      /\ rewrap'.pc = "loop" /\ rewrap'.remaining = 0 => OldRows = {}
      /\ rewrap'.pc = "passed" => OldRows = {}
      /\ rewrap.pc # "passed"
  <2>1. CASE RotationStarts
    <3> DEFINE s == [pc |-> "loop", batches |-> 0, remaining |-> RemainingOldRows]
    <3>1. s \in RewrapState
      BY <1>3 DEF RewrapState
    <3>2. rewrap' = s /\ rewrap.pc \in {"idle", "failed"} /\ NewActive
      BY <2>1 DEF RotationStarts, NewActive
    <3>3. NoneOld
      BY <3>2, RingFacts DEF NewActive, NoneOld
    <3> QED BY <1>3, <3>1, <3>2, <3>3
  <2>2. CASE CountRemaining
    <3>1. rewrap.pc = "count"
          /\ rewrap' = [rewrap EXCEPT !.pc = "loop", !.remaining = RemainingOldRows]
      BY <2>2 DEF CountRemaining
    <3>2. /\ rewrap' \in RewrapState /\ rewrap'.pc = "loop"
          /\ rewrap'.remaining = RemainingOldRows
      BY <1>3, <3>1 DEF CredentialInv, CredentialTypeOK, RewrapState
    <3> QED BY <1>3, <3>1, <3>2 DEF CredentialInv, RolloutOrder
  <2>3. CASE RotationEnds
    <3> DEFINE pc == IF rewrap.remaining = 0 THEN "passed" ELSE "failed"
    <3>1. rewrap.pc = "loop" /\ rewrap' = [rewrap EXCEPT !.pc = pc]
      BY <2>3 DEF RotationEnds
    <3>2. rewrap' \in RewrapState /\ rewrap'.pc = pc
      BY <3>1 DEF CredentialInv, CredentialTypeOK, RewrapState
    <3> QED BY <3>1, <3>2 DEF CredentialInv, RolloutOrder
  <2>4. CASE RotationKilled
    BY <2>4 DEF RotationKilled, RewrapIdle, RewrapState
  <2> QED BY <2>1, <2>2, <2>3, <2>4
<1>5. \A p \in KeyProcesses : keyring[p] # Keyrings.retired
  BY <1>4 DEF CredentialInv, RolloutOrder
<1>6. CredentialTypeOK'
  BY <1>1, <1>4 DEF CredentialInv, CredentialTypeOK
<1> QED BY <1>1, <1>2, <1>4, <1>5, <1>6 DEF CredentialInv, RolloutOrder, NewestStored, NewActive,
                                            NoneOld

\* A process goes on to the next keyring when those before it allow it.
LEMMA RolloutStepInv ==
    ASSUME CredentialInv, NEW p \in KeyProcesses, RolloutStep(p)
    PROVE  CredentialInv'
<1>1. PICK ring \in {Keyrings.staged, Keyrings.overlap, Keyrings.retired} :
          /\ RestartWith(p, ring)
          /\ ring = Keyrings.staged => keyring[p] = Keyrings.old
          /\ ring = Keyrings.overlap => keyring[p] = Keyrings.staged /\ NoneOld
          /\ ring = Keyrings.retired => keyring[p] = Keyrings.overlap /\ rewrap.pc = "passed"
  <2>1. CASE keyring[p] = Keyrings.old /\ RestartWith(p, Keyrings.staged)
    BY <2>1, RingFacts
  <2>2. CASE /\ keyring[p] = Keyrings.staged
             /\ \A q \in KeyProcesses : keyring[q] # Keyrings.old
             /\ RestartWith(p, Keyrings.overlap)
    BY <2>2, RingFacts DEF NoneOld
  <2>3. CASE /\ keyring[p] = Keyrings.overlap /\ rewrap.pc = "passed"
             /\ RestartWith(p, Keyrings.retired)
    BY <2>3, RingFacts
  <2> QED BY <2>1, <2>2, <2>3 DEF RolloutStep
<1>2. /\ keyring' = [keyring EXCEPT ![p] = ring]
      /\ settingsTx' \in [ApiProcesses -> Destinations \cup {NoRow}]
      /\ UNCHANGED <<credential, deviceKey, rewrap>>
  BY <1>1 DEF RestartWith, CredentialInv, CredentialTypeOK
<1>3. /\ keyring'[p] = ring
      /\ \A q \in KeyProcesses : q # p => keyring'[q] = keyring[q]
      /\ keyring' \in [KeyProcesses -> Rings]
  BY <1>2 DEF CredentialInv, CredentialTypeOK, Rings
<1>4. CredentialTypeOK'
  BY <1>2, <1>3 DEF CredentialInv, CredentialTypeOK
<1>5. ring # Keyrings.old
  BY RingFacts
<1>6. NoneOld => NoneOld'
  BY <1>3, <1>5 DEF NoneOld
<1>7. \A q \in KeyProcesses : keyring'[q].active = "v2" => NoneOld'
  <2>1. CASE ring = Keyrings.staged
    BY <1>3, <1>6, <2>1, RingFacts DEF CredentialInv, RolloutOrder
  <2>2. CASE ring = Keyrings.overlap
    BY <1>1, <1>6, <2>2
  <2>3. CASE ring = Keyrings.retired
    BY <1>1, <1>6, <2>3 DEF CredentialInv, RolloutOrder
  <2> QED BY <1>1, <2>1, <2>2, <2>3
<1>8. rewrap.pc \in {"loop", "count", "passed"} => NewActive'
  BY <1>1, <1>3, RingFacts DEF CredentialInv, RolloutOrder, NewActive, NoneOld
<1>9. \A q \in KeyProcesses : keyring'[q] = Keyrings.retired => rewrap.pc = "passed"
  BY <1>1, <1>3, RingFacts DEF CredentialInv, RolloutOrder
<1>10. OldRows' = OldRows
  BY <1>2 DEF OldRows
<1>11. RolloutOrder'
  BY <1>2, <1>6, <1>7, <1>8, <1>9, <1>10 DEF CredentialInv, RolloutOrder
<1>12. NewestStored'
  BY <1>2 DEF CredentialInv, NewestStored
<1> QED BY <1>4, <1>11, <1>12 DEF CredentialInv

LEMMA CredentialInitInv == CredentialInit => CredentialInv
<1> SUFFICES ASSUME CredentialInit PROVE CredentialInv
  OBVIOUS
<1>1. \A p \in KeyProcesses : keyring[p] = Keyrings.old
  BY DEF CredentialInit
<1>2. \A d \in Destinations : credential[d] = NoCredential
  BY DEF CredentialInit
<1>3. NoCredential \in CredentialRow /\ NoCredential.status = "absent"
      /\ NoCredential.version = "v1"
  BY DEF NoCredential, CredentialRow
<1>4. rewrap \in RewrapState /\ rewrap.pc = "idle"
  BY DEF CredentialInit, RewrapIdle, RewrapState
<1>5. CredentialTypeOK
  BY <1>3, <1>4 DEF CredentialInit, CredentialTypeOK, Rings
<1>6. RolloutOrder
  BY <1>1, <1>2, <1>3, <1>4, RingFacts DEF RolloutOrder
<1>7. NewestStored
  BY <1>2, <1>3 DEF NewestStored
<1> QED BY <1>5, <1>6, <1>7 DEF CredentialInv

LEMMA CredentialStepInv == CredentialInv /\ [CredentialNext]_credentialVars => CredentialInv'
<1>1. ASSUME CredentialInv, CredentialNext PROVE CredentialInv'
  BY <1>1, SettingsLockInv, EnterDeviceKeyInv, SetEnabledInv, RewrapBatchInv, RewrapOtherInv,
     RolloutStepInv DEF CredentialNext
<1>2. ASSUME CredentialInv, UNCHANGED credentialVars PROVE CredentialInv'
  BY <1>2 DEF credentialVars, CredentialInv, CredentialTypeOK, RolloutOrder, NewestStored,
              OldRows, NewActive, NoneOld
<1> QED BY <1>1, <1>2

\* CredentialsReadable: the order in which the operator replaces keyrings and
\* waits for the rewrap to report that no row is left keeps every credential
\* readable by every process.
THEOREM CredentialsReadableHolds == CredentialSpec => []CredentialsReadable
BY CredentialInitInv, CredentialStepInv, InvReadable, PTL DEF CredentialSpec

-----------------------------------------------------------------------------
(***************************************************************************)
(* Nothing is charged twice, for every number of requesters, triggers and  *)
(* months and whatever the limits.                                         *)
(*                                                                         *)
(* The keys of the ledger identify what they charge, except that a trigger *)
(* has two: one written on admission, one by a repair.  The heart of the   *)
(* argument is that a repair that does not find the first key in its month *)
(* may conclude that the trigger was never charged, because a trigger is   *)
(* charged in the month in which it was received.                          *)
(***************************************************************************)
TaskNames == {"request"} \cup TriggerIds
TaskRow == [task: TaskNames, created: Nat, ended: Nat, active: BOOLEAN]
TriggerRow == [id: TriggerIds, received: Nat, status: {"admitted", "suppressed"}]

AdmissionKey(r) == <<"agent-admission", r>>
UsageKey(x)     == <<"monitor-trigger-usage", x>>
RepairKey(x)    == <<"reconcile-monitor-trigger", x>>
RunKey(f)       == <<"run-usage", f>>

\* the four kinds of ledger entries, each of something that exists
IsAdmission(e) == \E r \in TaskNames : e.key = AdmissionKey(r) /\ e.fact = Admission(r)
IsUsage(e) == \E x \in triggers :
    e.key = UsageKey(x.id) /\ e.fact = Triggered(x.id) /\ e.period = x.received
IsRepair(e) == \E x \in triggers : e.key = RepairKey(x.id) /\ e.fact = Triggered(x.id)
IsRun(e) == \E t \in tasks :
    ~t.active /\ \E f \in RunUsage(t.task) : e.key = RunKey(f) /\ e.fact = f
Entry(e) == IsAdmission(e) \/ IsUsage(e) \/ IsRepair(e) \/ IsRun(e)

\* a fact that a reconciliation of month m read from the rows
Sourced(f, m) ==
    \/ \E r \in TaskNames : f = Admission(r)
    \/ \E x \in triggers : f = Triggered(x.id) /\ x.received = m
    \/ \E t \in tasks : ~t.active /\ f \in RunUsage(t.task)

RowsInv ==
    /\ month \in Nat \ {0}
    /\ tasks \subseteq TaskRow /\ triggers \subseteq TriggerRow
    /\ \A r \in Requesters : requester[r].started \in Nat
    /\ requester \in [Requesters -> [pc: {"idle", "admit", "done"}, started: Nat]]
    /\ \A t, u \in tasks : t.task = u.task => t = u
    /\ \A x, y \in triggers : x.id = y.id => x = y
    /\ \A t \in tasks : t.task # "request" => \E x \in triggers : x.id = t.task
    /\ \A t \in tasks : t.active => t.ended = 0

LedgerInv ==
    /\ \A e \in ledger : Entry(e)
    /\ \A e, g \in ledger : e.key = g.key => e = g
    /\ \A e, g \in ledger, x \in TriggerIds : ~(e.key = UsageKey(x) /\ g.key = RepairKey(x))

AuditInv ==
    /\ auditor.pc = "compare" => \A f \in auditor.source : Sourced(f, auditor.month)
    /\ \A f \in repaired : \E e \in ledger : e.fact = f

UsageInv == RowsInv /\ LedgerInv /\ AuditInv

\* The keys of the four kinds, and of different facts, are different.
LEMMA KeysDiffer ==
    /\ \A a, b : AdmissionKey(a) = AdmissionKey(b) => a = b
    /\ \A a, b : UsageKey(a) = UsageKey(b) => a = b
    /\ \A a, b : RepairKey(a) = RepairKey(b) => a = b
    /\ \A a, b : RunKey(a) = RunKey(b) => a = b
    /\ \A a, b : /\ AdmissionKey(a) # UsageKey(b) /\ AdmissionKey(a) # RepairKey(b)
                 /\ AdmissionKey(a) # RunKey(b) /\ UsageKey(a) # RepairKey(b)
                 /\ UsageKey(a) # RunKey(b) /\ RepairKey(a) # RunKey(b)
BY DEF AdmissionKey, UsageKey, RepairKey, RunKey

LEMMA FactsInjective ==
    /\ \A a, b : Admission(a) = Admission(b) => a = b
    /\ \A a, b : Triggered(a) = Triggered(b) => a = b
BY DEF Admission, Triggered

LEMMA FactsDiffer ==
    /\ \A a, b : Admission(a) = Admission(b) => a = b
    /\ \A a, b : Triggered(a) = Triggered(b) => a = b
    /\ \A a, b : Admission(a) # Triggered(b)
    /\ \A t, f : f \in RunUsage(t) => /\ \A a : f # Admission(a) /\ f # Triggered(a)
                                      /\ f[1] \in RunUnits /\ f[2] = t
    /\ \A a : Admission(a)[1] = "agent_admission" /\ Admission(a)[2] = a
    /\ \A a : Triggered(a)[1] = "trigger" /\ Triggered(a)[2] = a
BY DEF Admission, Triggered, RunUsage, RunUnits

LEMMA ReconcileKeys ==
    /\ \A r : ReconcileKey(Admission(r)) = AdmissionKey(r)
    /\ \A x : ReconcileKey(Triggered(x)) = RepairKey(x)
    /\ \A t, f : f \in RunUsage(t) => ReconcileKey(f) = RunKey(f)
BY FactsDiffer DEF ReconcileKey, AdmissionKey, RepairKey, RunKey, RunUnits

\* Two entries of one fact have one key.
LEMMA OneEntryPerFact ==
    ASSUME UsageInv, NEW e \in ledger, NEW g \in ledger, e.fact = g.fact
    PROVE  e = g
<1>1. Entry(e) /\ Entry(g)
  BY DEF UsageInv, LedgerInv
<1>2. \A x \in triggers : x.id \in TriggerIds
  BY DEF UsageInv, RowsInv, TriggerRow
<1>3. CASE IsAdmission(e)
  <2>1. IsAdmission(g)
    BY <1>1, <1>3, FactsDiffer DEF Entry, IsAdmission, IsUsage, IsRepair, IsRun
  <2>2. PICK a : e.key = AdmissionKey(a) /\ e.fact = Admission(a)
    BY <1>3 DEF IsAdmission
  <2>3. PICK b : g.key = AdmissionKey(b) /\ g.fact = Admission(b)
    BY <2>1 DEF IsAdmission
  <2>4. Admission(a) = Admission(b)
    BY <2>2, <2>3
  <2>5. a = b
    BY <2>4, FactsInjective
  <2>6. e.key = g.key
    BY <2>2, <2>3, <2>5
  <2> QED BY <2>6 DEF UsageInv, LedgerInv
<1>4. CASE IsRun(e)
  <2>1. IsRun(g)
    BY <1>1, <1>4, FactsDiffer DEF Entry, IsAdmission, IsUsage, IsRepair, IsRun
  <2>2. e.key = g.key
    BY <1>4, <2>1 DEF IsRun
  <2> QED BY <2>2 DEF UsageInv, LedgerInv
<1>5. CASE IsUsage(e) \/ IsRepair(e)
  <2>1. IsUsage(g) \/ IsRepair(g)
    BY <1>1, <1>5, FactsDiffer DEF Entry, IsAdmission, IsUsage, IsRepair, IsRun
  <2>2. PICK x \in triggers : e.key \in {UsageKey(x.id), RepairKey(x.id)}
                              /\ e.fact = Triggered(x.id)
    BY <1>5 DEF IsUsage, IsRepair
  <2>3. PICK y \in triggers : g.key \in {UsageKey(y.id), RepairKey(y.id)}
                              /\ g.fact = Triggered(y.id)
    BY <2>1 DEF IsUsage, IsRepair
  <2>4. x.id = y.id
    <3>1. Triggered(x.id) = Triggered(y.id)
      BY <2>2, <2>3
    <3> QED BY <3>1, FactsInjective
  <2>5. e.key = g.key
    BY <1>2, <2>2, <2>3, <2>4 DEF UsageInv, LedgerInv
  <2> QED BY <2>5 DEF UsageInv, LedgerInv
<1> QED BY <1>1, <1>3, <1>4, <1>5 DEF Entry

LEMMA InvChargedOnce == UsageInv => ChargedOnce
<1> SUFFICES ASSUME UsageInv PROVE ChargedOnce
  OBVIOUS
<1>1. ASSUME NEW e \in ledger PROVE Cardinality(Charges(e.fact)) = 1
  <2>1. Charges(e.fact) = {e}
    BY OneEntryPerFact DEF Charges
  <2> QED BY <2>1, FS_Singleton
<1>2. \A f \in repaired : Charges(f) # {}
  BY DEF UsageInv, AuditInv, Charges
<1> QED BY <1>1, <1>2 DEF ChargedOnce

-----------------------------------------------------------------------------
(* The ledger only grows, and by what no entry stands for yet. *)

NewEntries(new) ==
    /\ ledger' = ledger \cup new
    /\ \A e \in new : Entry(e)'
    /\ \A e \in new, g \in ledger : e.key # g.key
    /\ \A e, g \in new : e.key = g.key => e = g
    /\ \A e \in new, x \in TriggerIds :
          /\ e.key = UsageKey(x) =>
                \A g \in ledger \cup new : g.key # RepairKey(x)
          /\ e.key = RepairKey(x) =>
                \A g \in ledger \cup new : g.key # UsageKey(x)

\* what a row says of the past stays true
RowsGrow ==
    /\ triggers \subseteq triggers'
    /\ \A t \in tasks : ~t.active => t \in tasks'

LEMMA EntryStays ==
    ASSUME RowsGrow, NEW e, Entry(e)
    PROVE  Entry(e)'
BY DEF RowsGrow, Entry, IsAdmission, IsUsage, IsRepair, IsRun

LEMMA LedgerGrows ==
    ASSUME UsageInv, RowsGrow, NEW new, NewEntries(new)
    PROVE  LedgerInv'
<1>1. \A e \in ledger' : Entry(e)'
  BY EntryStays DEF UsageInv, LedgerInv, NewEntries
<1>2. \A e, g \in ledger' : e.key = g.key => e = g
  BY DEF UsageInv, LedgerInv, NewEntries
<1>3. \A e, g \in ledger', x \in TriggerIds : ~(e.key = UsageKey(x) /\ g.key = RepairKey(x))
  BY DEF UsageInv, LedgerInv, NewEntries
<1> QED BY <1>1, <1>2, <1>3 DEF LedgerInv

LEMMA SourcedStays ==
    ASSUME RowsGrow, NEW f, NEW m, Sourced(f, m)
    PROVE  Sourced(f, m)'
BY DEF RowsGrow, Sourced

\* A step that neither reads nor compares keeps what an audit knows.
LEMMA AuditStays ==
    ASSUME UsageInv, RowsGrow, UNCHANGED <<auditor, repaired>>, ledger \subseteq ledger'
    PROVE  AuditInv'
BY SourcedStays DEF UsageInv, AuditInv

LEMMA NothingNew ==
    ASSUME UNCHANGED ledger
    PROVE  NewEntries({})
BY DEF NewEntries

\* append_fact with a key of its own kind adds one entry or none.
LEMMA ChargeOne ==
    ASSUME UsageInv, NEW key, NEW fact, ledger' = Charge(key, fact),
           NEW e, e = LedgerEntry(key, fact), Entry(e)',
           \A x \in TriggerIds : key # RepairKey(x),
           \A x \in TriggerIds, g \in ledger : key = UsageKey(x) => g.key # RepairKey(x)
    PROVE  \E new : NewEntries(new)
<1>1. CASE \E g \in ledger : g.key = key
  BY <1>1, NothingNew DEF Charge
<1>2. CASE ~\E g \in ledger : g.key = key
  <2>1. ledger' = ledger \cup {e}
    BY <1>2 DEF Charge
  <2>2. e.key = key
    BY DEF LedgerEntry
  <2>3. \A g \in ledger : g.key # key
    BY <1>2
  <2>4. NewEntries({e})
    BY <2>1, <2>2, <2>3 DEF NewEntries
  <2> QED BY <2>4
<1> QED BY <1>1, <1>2

-----------------------------------------------------------------------------
(* Steps. *)

\* Steps that charge nothing and leave Tasks and triggers alone.
LEMMA QuietStep ==
    ASSUME UsageInv, UNCHANGED <<tasks, triggers, ledger>>,
           month' \in Nat \ {0},
           requester' \in [Requesters -> [pc: {"idle", "admit", "done"}, started: Nat]],
           AuditInv'
    PROVE  UsageInv'
<1>1. RowsGrow
  BY DEF RowsGrow
<1>2. LedgerInv'
  BY <1>1, NothingNew, LedgerGrows
<1>3. RowsInv'
  BY DEF UsageInv, RowsInv
<1> QED BY <1>2, <1>3 DEF UsageInv

LEMMA ClockAndEntitlementInv ==
    ASSUME UsageInv, MonthEnds \/ EntitlementChanges
    PROVE  UsageInv'
<1>1. UNCHANGED <<tasks, triggers, ledger, requester, auditor, repaired>>
  BY DEF MonthEnds, EntitlementChanges
<1>2. month' \in Nat \ {0}
  BY DEF MonthEnds, EntitlementChanges, UsageInv, RowsInv
<1>3. RowsGrow
  BY <1>1 DEF RowsGrow
<1>4. AuditInv'
  BY <1>1, <1>3, AuditStays
<1> QED BY <1>1, <1>2, <1>4, QuietStep DEF UsageInv, RowsInv

LEMMA FindAdmissionTaskInv ==
    ASSUME UsageInv, NEW r \in Requesters, FindAdmissionTask(r)
    PROVE  UsageInv'
<1>1. UNCHANGED <<month, tasks, triggers, ledger, auditor, repaired>>
  BY DEF FindAdmissionTask
<1>2. month \in Nat \ {0}
  BY DEF UsageInv, RowsInv
<1>3. requester' \in [Requesters -> [pc: {"idle", "admit", "done"}, started: Nat]]
  BY <1>2 DEF FindAdmissionTask, UsageInv, RowsInv
<1>4. AuditInv'
  BY <1>1, AuditStays DEF RowsGrow
<1> QED BY <1>1, <1>2, <1>3, <1>4, QuietStep

\* A Task is added whose name no other has.
LEMMA NewTaskRows ==
    ASSUME UsageInv, NEW t \in TaskRow, t.active, t.ended = 0,
           \A u \in tasks : u.task # t.task,
           tasks' = tasks \cup {t},
           triggers \subseteq triggers', triggers' \subseteq TriggerRow,
           \A x, y \in triggers' : x.id = y.id => x = y,
           t.task # "request" => \E x \in triggers' : x.id = t.task,
           requester' \in [Requesters -> [pc: {"idle", "admit", "done"}, started: Nat]],
           UNCHANGED month
    PROVE  RowsInv' /\ RowsGrow
<1>1. RowsGrow
  BY DEF RowsGrow
<1>2. \A u, v \in tasks' : u.task = v.task => u = v
  BY DEF UsageInv, RowsInv
<1>3. \A u \in tasks' : u.task # "request" => \E x \in triggers' : x.id = u.task
  BY DEF UsageInv, RowsInv
<1>4. \A u \in tasks' : u.active => u.ended = 0
  BY DEF UsageInv, RowsInv
<1> QED BY <1>1, <1>2, <1>3, <1>4 DEF UsageInv, RowsInv

\* An admission is charged under a key of its own.
LEMMA AdmitAgentInv ==
    ASSUME UsageInv, NEW r \in Requesters, AdmitAgent(r)
    PROVE  UsageInv'
<1>1. /\ requester' = [requester EXCEPT ![r].pc = "done"]
      /\ UNCHANGED <<month, triggers, auditor, repaired>>
  BY DEF AdmitAgent
<1>2. requester' \in [Requesters -> [pc: {"idle", "admit", "done"}, started: Nat]]
  BY <1>1 DEF UsageInv, RowsInv
<1>3. CASE UNCHANGED <<tasks, ledger>>
  <2>1. AuditInv'
    BY <1>1, <1>3, AuditStays DEF RowsGrow
  <2> QED BY <1>1, <1>2, <1>3, <2>1, QuietStep DEF UsageInv, RowsInv
<1>4. CASE /\ ~\E t \in tasks : t.task = "request"
           /\ tasks' = tasks \cup {[task |-> "request", created |-> requester[r].started,
                                     ended |-> 0, active |-> TRUE]}
           /\ ledger' = Charge(AdmissionKey("request"), Admission("request"))
  <2>1. PICK t : t = [task |-> "request", created |-> requester[r].started,
                      ended |-> 0, active |-> TRUE]
    OBVIOUS
  <2>2. /\ t \in TaskRow /\ t.active /\ t.ended = 0 /\ t.task = "request"
        /\ tasks' = tasks \cup {t}
    BY <1>4, <2>1 DEF UsageInv, RowsInv, TaskRow, TaskNames
  <2>3. RowsInv' /\ RowsGrow
    BY <1>1, <1>2, <1>4, <2>2, NewTaskRows DEF UsageInv, RowsInv
  <2>4. PICK e : e = LedgerEntry(AdmissionKey("request"), Admission("request"))
    OBVIOUS
  <2>5. Entry(e)'
    BY <2>4 DEF Entry, IsAdmission, LedgerEntry, TaskNames
  <2>6. PICK new : NewEntries(new)
    BY <1>4, <2>4, <2>5, KeysDiffer, ChargeOne
  <2>7. LedgerInv'
    BY <2>3, <2>6, LedgerGrows
  <2>8. AuditInv'
    BY <1>1, <2>3, <2>6, AuditStays DEF NewEntries
  <2> QED BY <2>3, <2>7, <2>8 DEF UsageInv
<1> QED BY <1>3, <1>4 DEF AdmitAgent, Admitted, AdmissionKey

\* A trigger that is new has no Task, and no entry of either kind.
LEMMA NewTriggerFacts ==
    ASSUME UsageInv, NEW x \in TriggerIds, NewTrigger(x)
    PROVE  /\ \A t \in tasks : t.task # x
           /\ \A g \in ledger : g.key # RepairKey(x)
<1>1. x # "request"
  BY UsageAssumption
<1>2. \A t \in tasks : t.task # x
  BY <1>1 DEF UsageInv, RowsInv, NewTrigger
<1>3. ASSUME NEW g \in ledger, g.key = RepairKey(x) PROVE FALSE
  <2>1. IsRepair(g)
    BY <1>3, KeysDiffer DEF UsageInv, LedgerInv, Entry, IsAdmission, IsUsage, IsRun
  <2>2. PICK y \in triggers : g.key = RepairKey(y.id)
    BY <2>1 DEF IsRepair
  <2>3. RepairKey(y.id) = RepairKey(x)
    BY <1>3, <2>2
  <2>4. y.id = x
    BY <2>3, KeysDiffer, Zenon
  <2> QED BY <2>4 DEF NewTrigger
<1> QED BY <1>2, <1>3

LEMMA NewTriggerRows ==
    ASSUME UsageInv, NEW x \in TriggerIds, NewTrigger(x), NEW y \in TriggerRow, y.id = x,
           triggers' = triggers \cup {y}
    PROVE  triggers' \subseteq TriggerRow /\ \A a, b \in triggers' : a.id = b.id => a = b
BY DEF UsageInv, RowsInv, NewTrigger

\* A suppressed trigger is stored and not charged.
LEMMA SuppressedInv ==
    ASSUME UsageInv, NEW x \in TriggerIds, NewTrigger(x),
           triggers' = triggers \cup {[id |-> x, received |-> month, status |-> "suppressed"]},
           UNCHANGED <<month, tasks, ledger, requester, auditor, repaired>>
    PROVE  UsageInv'
<1>1. PICK y : y = [id |-> x, received |-> month, status |-> "suppressed"]
  OBVIOUS
<1>2. y \in TriggerRow /\ y.id = x /\ triggers' = triggers \cup {y}
  BY <1>1 DEF UsageInv, RowsInv, TriggerRow
<1>3. triggers' \subseteq TriggerRow /\ \A a, b \in triggers' : a.id = b.id => a = b
  BY <1>2, NewTriggerRows
<1>4. RowsGrow
  BY <1>2 DEF RowsGrow
<1>5. RowsInv'
  BY <1>2, <1>3 DEF UsageInv, RowsInv
<1>6. LedgerInv'
  BY <1>4, NothingNew, LedgerGrows
<1>7. AuditInv'
  BY <1>4, AuditStays
<1> QED BY <1>5, <1>6, <1>7 DEF UsageInv

\* An admitted one is charged in the month in which it is received.
LEMMA AdmittedTriggerInv ==
    ASSUME UsageInv, NEW x \in TriggerIds, NewTrigger(x),
           triggers' = triggers \cup {[id |-> x, received |-> month, status |-> "admitted"]},
           tasks' = tasks \cup {[task |-> x, created |-> month, ended |-> 0, active |-> TRUE]},
           ledger' = Charge(UsageKey(x), Triggered(x)),
           UNCHANGED <<month, requester, auditor, repaired>>
    PROVE  UsageInv'
<1>1. PICK y : y = [id |-> x, received |-> month, status |-> "admitted"]
  OBVIOUS
<1>2. /\ y \in TriggerRow /\ y.id = x /\ y.received = month
      /\ triggers' = triggers \cup {y}
  BY <1>1 DEF UsageInv, RowsInv, TriggerRow
<1>3. triggers' \subseteq TriggerRow /\ \A a, b \in triggers' : a.id = b.id => a = b
  BY <1>2, NewTriggerRows
<1>4. PICK t : t = [task |-> x, created |-> month, ended |-> 0, active |-> TRUE]
  OBVIOUS
<1>5. /\ t \in TaskRow /\ t.active /\ t.ended = 0 /\ t.task = x
      /\ tasks' = tasks \cup {t}
  BY <1>4 DEF UsageInv, RowsInv, TaskRow, TaskNames
<1>6. /\ \A u \in tasks : u.task # x
      /\ \A g \in ledger : g.key # RepairKey(x)
  BY NewTriggerFacts
<1>7. requester' \in [Requesters -> [pc: {"idle", "admit", "done"}, started: Nat]]
  BY DEF UsageInv, RowsInv
<1>8. RowsInv' /\ RowsGrow
  BY <1>2, <1>3, <1>5, <1>6, <1>7, NewTaskRows
<1>9. PICK e : e = LedgerEntry(UsageKey(x), Triggered(x))
  OBVIOUS
<1>10. Entry(e)'
  <2>1. e.key = UsageKey(y.id) /\ e.fact = Triggered(y.id) /\ e.period = y.received
    BY <1>2, <1>9 DEF LedgerEntry
  <2>2. IsUsage(e)'
    BY <1>2, <2>1 DEF IsUsage
  <2> QED BY <2>2 DEF Entry
<1>11. \A z \in TriggerIds, g \in ledger : UsageKey(x) = UsageKey(z) => g.key # RepairKey(z)
  <2>1. \A z \in TriggerIds : UsageKey(x) = UsageKey(z) => x = z
    BY KeysDiffer, Zenon
  <2> QED BY <1>6, <2>1
<1>12. PICK new : NewEntries(new)
  BY <1>9, <1>10, <1>11, KeysDiffer, ChargeOne
<1>13. LedgerInv'
  BY <1>8, <1>12, LedgerGrows
<1>14. AuditInv'
  BY <1>8, <1>12, AuditStays DEF NewEntries
<1> QED BY <1>8, <1>13, <1>14 DEF UsageInv

LEMMA TriggersInv ==
    ASSUME UsageInv, NEW x \in TriggerIds, NEW suppressed \in BOOLEAN,
           AdmitTrigger(x, suppressed) \/ IngressRevoked(x)
    PROVE  UsageInv'
<1>1. CASE IngressRevoked(x)
  BY <1>1, SuppressedInv DEF IngressRevoked
<1>2. CASE AdmitTrigger(x, suppressed)
  <2>1. CASE suppressed \/ SuppressionReason
    BY <1>2, <2>1, SuppressedInv DEF AdmitTrigger
  <2>2. CASE ~(suppressed \/ SuppressionReason)
    BY <1>2, <2>2, AdmittedTriggerInv DEF AdmitTrigger, UsageKey
  <2> QED BY <2>1, <2>2
<1> QED BY <1>1, <1>2

\* No entry stands for the usage of a Run that has not ended.
LEMMA RunNotCharged ==
    ASSUME UsageInv, NEW t \in tasks, t.active, NEW f \in RunUsage(t.task), NEW g \in ledger
    PROVE  g.key # RunKey(f)
<1> SUFFICES ASSUME g.key = RunKey(f) PROVE FALSE
  OBVIOUS
<1>1. IsRun(g)
  BY KeysDiffer DEF UsageInv, LedgerInv, Entry, IsAdmission, IsUsage, IsRepair
<1>2. PICK u \in tasks : ~u.active /\ \E h \in RunUsage(u.task) : g.key = RunKey(h)
  BY <1>1 DEF IsRun
<1>3. PICK h \in RunUsage(u.task) : g.key = RunKey(h)
  BY <1>2
<1>4. RunKey(f) = RunKey(h)
  BY <1>3
<1>5. f = h
  BY <1>4, KeysDiffer, Zenon
<1>6. f[2] = t.task /\ h[2] = u.task
  BY FactsDiffer
<1>7. t = u
  BY <1>5, <1>6 DEF UsageInv, RowsInv
<1> QED BY <1>2, <1>7

LEMMA RunEndsInv ==
    ASSUME UsageInv, NEW t \in tasks, RunEnds(t)
    PROVE  UsageInv'
<1>1. PICK u : u = [t EXCEPT !.active = FALSE, !.ended = month]
  OBVIOUS
<1>2. t \in TaskRow /\ month \in Nat \ {0} /\ t.active
  BY DEF UsageInv, RowsInv, RunEnds, ActiveTasks
<1>3. u \in TaskRow /\ u.task = t.task /\ ~u.active
  BY <1>1, <1>2 DEF TaskRow
<1>4. /\ tasks' = (tasks \ {t}) \cup {u}
      /\ UNCHANGED <<month, triggers, requester, auditor, repaired>>
  BY <1>1 DEF RunEnds
<1>5. RowsGrow
  BY <1>2, <1>4 DEF RowsGrow
<1>6. RowsInv'
  <2>1. tasks' \subseteq TaskRow
    BY <1>3, <1>4 DEF UsageInv, RowsInv
  <2>2. \A v, w \in tasks' : v.task = w.task => v = w
    BY <1>3, <1>4 DEF UsageInv, RowsInv
  <2>3. \A v \in tasks' : v.task # "request" => \E x \in triggers' : x.id = v.task
    BY <1>3, <1>4 DEF UsageInv, RowsInv
  <2>4. \A v \in tasks' : v.active => v.ended = 0
    BY <1>3, <1>4 DEF UsageInv, RowsInv
  <2> QED BY <1>4, <2>1, <2>2, <2>3, <2>4 DEF UsageInv, RowsInv
<1>7. PICK new : new = {LedgerEntry(RunKey(f), f) : f \in RunUsage(t.task)}
  OBVIOUS
<1>8. \A e \in new : \E f \in RunUsage(t.task) : e = LedgerEntry(RunKey(f), f)
  BY <1>7
<1>9. \A e \in new : \E f \in RunUsage(t.task) :
          e.key = RunKey(f) /\ e.fact = f /\ e.period = month
          /\ e = [key |-> RunKey(f), fact |-> f, period |-> month]
  BY <1>8 DEF LedgerEntry
<1>10. ledger' = ledger \cup new
  BY <1>7 DEF RunEnds, RunKey
<1>11. \A e \in new : Entry(e)'
  <2>1. \A e \in new : IsRun(e)'
    BY <1>3, <1>4, <1>9 DEF IsRun
  <2> QED BY <2>1 DEF Entry
<1>12. \A e \in new, g \in ledger : e.key # g.key
  BY <1>2, <1>9, RunNotCharged
<1>13. \A e, g \in new : e.key = g.key => e = g
  BY <1>9, KeysDiffer
<1>14. \A e \in new, x \in TriggerIds : e.key # UsageKey(x) /\ e.key # RepairKey(x)
  BY <1>9, KeysDiffer
<1>15. NewEntries(new)
  BY <1>10, <1>11, <1>12, <1>13, <1>14 DEF NewEntries
<1>16. LedgerInv'
  BY <1>5, <1>15, LedgerGrows
<1>17. AuditInv'
  BY <1>4, <1>5, <1>10, AuditStays
<1> QED BY <1>6, <1>16, <1>17 DEF UsageInv

\* A reconciliation reads what its month stands for; a month is never 0, so the
\* Runs that ended in it have ended.
LEMMA ReadSourceInv ==
    ASSUME UsageInv, NEW m \in 1..month, NEW repair \in BOOLEAN, ReadSource(m, repair)
    PROVE  UsageInv'
<1>1. /\ UNCHANGED <<month, tasks, triggers, ledger, requester, repaired>>
      /\ auditor' = [pc |-> "compare", month |-> m, repair |-> repair,
                     source |-> SourceFacts(m)]
  BY DEF ReadSource
<1>2. m # 0
  BY DEF UsageInv, RowsInv
<1>3. \A t \in tasks : t.ended = m => ~t.active
  BY <1>2 DEF UsageInv, RowsInv
<1>4. \A t \in tasks : t.task \in TaskNames
  BY DEF UsageInv, RowsInv, TaskRow
<1>5. \A f \in SourceFacts(m) : Sourced(f, m)
  BY <1>3, <1>4 DEF SourceFacts, Sourced
<1>6. AuditInv'
  BY <1>1, <1>5 DEF UsageInv, AuditInv, Sourced
<1> QED BY <1>1, <1>6, QuietStep DEF UsageInv, RowsInv

\* What a repair adds is not charged yet, under either key.
LEMMA CompareInv ==
    ASSUME UsageInv, Compare
    PROVE  UsageInv'
<1>1. /\ auditor.pc = "compare" /\ auditor' = NoAudit
      /\ UNCHANGED <<month, tasks, triggers, requester>>
  BY DEF Compare
<1>2. RowsGrow
  BY <1>1 DEF RowsGrow
<1>3. \A f \in auditor.source : Sourced(f, auditor.month)
  BY <1>1 DEF UsageInv, AuditInv
<1>4. auditor'.pc # "compare"
  BY <1>1 DEF NoAudit
<1>5. RowsInv'
  BY <1>1 DEF UsageInv, RowsInv
<1>6. CASE ~auditor.repair
  <2>1. UNCHANGED <<ledger, repaired>>
    BY <1>6 DEF Compare
  <2>2. LedgerInv'
    BY <1>2, <2>1, NothingNew, LedgerGrows
  <2>3. AuditInv'
    BY <1>4, <2>1 DEF UsageInv, AuditInv
  <2> QED BY <1>5, <2>2, <2>3 DEF UsageInv
<1>7. CASE auditor.repair
  <2>1. PICK new : new = {[key |-> ReconcileKey(f), fact |-> f, period |-> auditor.month] :
                              f \in {g \in auditor.source : Missing(g)}}
    OBVIOUS
  <2>2. ledger' = ledger \cup new /\ repaired' = repaired \cup auditor.source
    BY <1>7, <2>1 DEF Compare
  <2>3. \A e \in new : \E f \in auditor.source :
            /\ Missing(f)
            /\ e = [key |-> ReconcileKey(f), fact |-> f, period |-> auditor.month]
    BY <2>1
  <2>4. \A e \in new :
            /\ e.fact \in auditor.source /\ Missing(e.fact) /\ e.key = ReconcileKey(e.fact)
            /\ e = [key |-> e.key, fact |-> e.fact, period |-> auditor.month]
    BY <2>3
  <2>5. ASSUME NEW f, Sourced(f, auditor.month)
        PROVE  \/ \E r \in TaskNames : f = Admission(r) /\ ReconcileKey(f) = AdmissionKey(r)
               \/ \E x \in triggers : /\ f = Triggered(x.id) /\ x.received = auditor.month
                                       /\ ReconcileKey(f) = RepairKey(x.id)
               \/ \E t \in tasks : /\ ~t.active /\ f \in RunUsage(t.task)
                                    /\ ReconcileKey(f) = RunKey(f)
    BY <2>5, ReconcileKeys DEF Sourced
  <2>6. \A e \in new : Entry(e)'
    <3>1. \A e \in new : Entry(e)
      BY <1>3, <2>4, <2>5 DEF Entry, IsAdmission, IsRepair, IsRun
    <3> QED BY <1>2, <3>1, EntryStays
  <2>7. \A e \in new, g \in ledger : e.key # g.key
    BY <2>4 DEF Missing
  <2>8. \A f, g \in auditor.source : ReconcileKey(f) = ReconcileKey(g) => f = g
    <3> SUFFICES ASSUME NEW f \in auditor.source, NEW g \in auditor.source,
                        ReconcileKey(f) = ReconcileKey(g)
                 PROVE  f = g
      OBVIOUS
    <3>1. Sourced(f, auditor.month) /\ Sourced(g, auditor.month)
      BY <1>3
    <3> QED BY <2>5, <3>1, KeysDiffer
  <2>9. \A e, g \in new : e.key = g.key => e = g
    BY <2>4, <2>8
  <2>10. \A e \in new, x \in TriggerIds : e.key # UsageKey(x)
    <3> SUFFICES ASSUME NEW e \in new, NEW x \in TriggerIds, e.key = UsageKey(x)
                 PROVE  FALSE
      OBVIOUS
    <3>1. Sourced(e.fact, auditor.month) /\ e.key = ReconcileKey(e.fact)
      BY <1>3, <2>4
    <3>2. \/ \E a : e.key = AdmissionKey(a)
          \/ \E a : e.key = RepairKey(a)
          \/ \E a : e.key = RunKey(a)
      BY <2>5, <3>1
    <3> QED BY <3>2, KeysDiffer
  <2>11. ASSUME NEW e \in new, NEW x \in TriggerIds, e.key = RepairKey(x),
                NEW g \in ledger, g.key = UsageKey(x)
         PROVE  FALSE
    <3>1. PICK y \in triggers : /\ e.fact = Triggered(y.id) /\ y.received = auditor.month
                                /\ e.key = RepairKey(y.id)
      <4>1. Sourced(e.fact, auditor.month) /\ e.key = ReconcileKey(e.fact)
        BY <1>3, <2>4
      <4>2. ~(\E a : e.key = AdmissionKey(a)) /\ ~(\E a : e.key = RunKey(a))
        BY <2>11, KeysDiffer
      <4> QED BY <2>5, <4>1, <4>2
    <3>2. y.id = x
      BY <2>11, <3>1, KeysDiffer
    <3>3. IsUsage(g)
      <4>1. Entry(g)
        BY DEF UsageInv, LedgerInv
      <4>2. /\ ~(\E a : g.key = AdmissionKey(a))
            /\ ~(\E a : g.key = RepairKey(a))
            /\ ~(\E a : g.key = RunKey(a))
        BY <2>11, KeysDiffer
      <4> QED BY <4>1, <4>2 DEF Entry, IsAdmission, IsRepair, IsRun
    <3>4. PICK z \in triggers : g.key = UsageKey(z.id) /\ g.period = z.received
      BY <3>3 DEF IsUsage
    <3>5. z.id = x
      BY <2>11, <3>4, KeysDiffer
    <3>6. z = y
      BY <3>2, <3>5 DEF UsageInv, RowsInv
    <3>7. e.fact[1] = "trigger" /\ e.fact[2] = x
      BY <3>1, <3>2, FactsDiffer
    <3>8. g.period # auditor.month
      BY <2>4, <2>11, <3>7 DEF Missing, UsageKey
    <3> QED BY <3>1, <3>4, <3>6, <3>8
  <2>12. NewEntries(new)
    BY <2>2, <2>6, <2>7, <2>9, <2>10, <2>11 DEF NewEntries
  <2>13. LedgerInv'
    BY <1>2, <2>12, LedgerGrows
  <2>14. \A f \in auditor.source : \E e \in ledger' : e.fact = f
    <3> SUFFICES ASSUME NEW f \in auditor.source PROVE \E e \in ledger' : e.fact = f
      OBVIOUS
    <3>1. CASE Missing(f)
      <4>1. [key |-> ReconcileKey(f), fact |-> f, period |-> auditor.month] \in new
        BY <2>1, <3>1
      <4> QED BY <2>2, <4>1
    <3>2. CASE ~Missing(f)
      <4>1. Sourced(f, auditor.month)
        BY <1>3
      <4>2. PICK g \in ledger : \/ g.key = ReconcileKey(f)
                                \/ f[1] = "trigger" /\ g.key = UsageKey(f[2])
        BY <3>2 DEF Missing, UsageKey
      <4>3. g.fact = f
        <5>1. Entry(g)
          BY DEF UsageInv, LedgerInv
        <5>2. CASE \E r \in TaskNames : f = Admission(r) /\ ReconcileKey(f) = AdmissionKey(r)
          BY <4>2, <5>1, <5>2, KeysDiffer, FactsDiffer
             DEF Entry, IsAdmission, IsUsage, IsRepair, IsRun
        <5>3. CASE \E x \in triggers : f = Triggered(x.id) /\ ReconcileKey(f) = RepairKey(x.id)
          BY <4>2, <5>1, <5>3, KeysDiffer, FactsDiffer
             DEF Entry, IsAdmission, IsUsage, IsRepair, IsRun
        <5>4. CASE \E t \in tasks : f \in RunUsage(t.task) /\ ReconcileKey(f) = RunKey(f)
          <6>1. f[1] \in RunUnits
            BY <5>4, FactsDiffer
          <6>2. g.key = RunKey(f)
            BY <4>2, <5>4, <6>1 DEF RunUnits
          <6> QED BY <5>1, <6>2, KeysDiffer DEF Entry, IsAdmission, IsUsage, IsRepair, IsRun
        <5> QED BY <2>5, <4>1, <5>2, <5>3, <5>4
      <4> QED BY <2>2, <4>3
    <3> QED BY <3>1, <3>2
  <2>15. AuditInv'
    BY <1>4, <2>2, <2>14 DEF UsageInv, AuditInv
  <2> QED BY <1>5, <2>13, <2>15 DEF UsageInv
<1> QED BY <1>6, <1>7

-----------------------------------------------------------------------------
LEMMA UsageInitInv == UsageInit => UsageInv
BY DEF UsageInit, UsageInv, RowsInv, LedgerInv, AuditInv, NoAudit

LEMMA UsageStepInv == UsageInv /\ [UsageNext]_usageVars => UsageInv'
<1>1. ASSUME UsageInv, UsageNext PROVE UsageInv'
  BY <1>1, FindAdmissionTaskInv, AdmitAgentInv, TriggersInv, RunEndsInv, ReadSourceInv,
     CompareInv, ClockAndEntitlementInv DEF UsageNext
<1>2. ASSUME UsageInv, UNCHANGED usageVars PROVE UsageInv'
  BY <1>2, AuditStays, QuietStep DEF usageVars, UsageInv, RowsInv, RowsGrow
<1> QED BY <1>1, <1>2

\* ChargedOnce: requests sent twice, triggers that a repair finds under another
\* key, and months that end between a start and its charge never charge twice.
THEOREM ChargedOnceHolds == UsageSpec => []ChargedOnce
BY UsageInitInv, UsageStepInv, InvChargedOnce, PTL DEF UsageSpec

-----------------------------------------------------------------------------
(***************************************************************************)
(* What is released was approved by a human and by the gate, for every set *)
(* of cases and of concurrent requests about the review.                   *)
(***************************************************************************)
CandidateStatus == {"none", "draft", "evaluated", "pending_review", "approved",
                    "rejected", "shadow", "active", "rolled_back"}
Experiment == [approved: BOOLEAN, cases: SUBSET Postmortems]

ImprovementTypeOK ==
    /\ postmortem \in [Postmortems -> [status: {"none", "open", "frozen"},
                                       packet: SUBSET METRIC_NAMES]]
    /\ candidate \in [status: CandidateStatus, thresholds: [METRIC_NAMES -> 0..2]]
    /\ experiments \in Seq(Experiment)
    /\ candReview \in [status: {"none", "pending", "approved", "rejected"},
                       key: {"none", "k1"}, interrupt: Nat]
    /\ reviewThread \in [state: {"idle", "running", "waiting", "ended"}, runs: Nat,
                         resumed: BOOLEAN, decision: {"none", "approved", "rejected"}]
    /\ caller \in [ReviewCallers ->
          [pc: {"idle", "list", "create", "join", "store", "resume", "compare"},
           action: {"none", "approved", "rejected"}, interrupt: Nat]]

Strict == candidate.thresholds = [m \in METRIC_NAMES |-> 2]
Flawless(cases) == \A c \in cases : postmortem[c].packet = METRIC_NAMES
Frozen(cases) == cases \subseteq FrozenReplays

\* datasets and experiments are about frozen cases, and an experiment that
\* passed the strict gate stays flawless
Judged ==
    /\ \A cases \in datasets : Frozen(cases)
    /\ \A i \in DOMAIN experiments :
          /\ Frozen(experiments[i].cases)
          /\ Strict /\ experiments[i].approved => Flawless(experiments[i].cases)
    /\ candidate.status = "none" => experiments = <<>>

\* a review is asked for after a passed experiment, which stays the last one; an
\* answer is compared with what the graph decided once
Decided ==
    /\ candidate.status \notin {"none", "draft", "evaluated"} => LatestApproved
    /\ candidate.status \in {"approved", "shadow", "active", "rolled_back"} =>
          reviewThread.resumed /\ reviewThread.decision = "approved"
    /\ \A c \in ReviewCallers : caller[c].pc = "compare" => reviewThread.resumed

ImprovementInv == ImprovementTypeOK /\ Judged /\ Decided

\* A strict gate passes only what scores in everything.
LEMMA StrictGate ==
    ASSUME ImprovementTypeOK, Strict, NEW cases \in SUBSET Postmortems,
           GateApproved(cases)
    PROVE  Flawless(cases)
<1>1. IsFiniteSet(cases) /\ Cardinality(cases) \in Nat
  BY ImprovementAssumption, FS_Subset, FS_CardinalityType
<1>2. ASSUME NEW m \in METRIC_NAMES, NEW c \in cases PROVE m \in postmortem[c].packet
  <2> DEFINE passed == {k \in cases : CaseScore(k, m) = 2}
  <2>1. candidate.thresholds[m] = 2
    BY DEF Strict
  <2>2. 2 * Cardinality(passed) >= 2 * Cardinality(cases)
    BY <2>1 DEF GateApproved
  <2>3. /\ IsFiniteSet(passed) /\ Cardinality(passed) \in Nat
        /\ Cardinality(passed) <= Cardinality(cases)
        /\ Cardinality(passed) = Cardinality(cases) => passed = cases
    <3>1. passed \subseteq cases
      OBVIOUS
    <3> HIDE DEF passed
    <3> QED
      BY <1>1, <3>1, FS_Subset, FS_CardinalityType
  <2>4. passed = cases
    <3> HIDE DEF passed
    <3> QED
      BY <1>1, <2>2, <2>3
  <2>5. CaseScore(c, m) = 2
    BY <2>4
  <2> QED
    BY <2>5 DEF CaseScore
<1> QED
  BY <1>2 DEF Flawless, ImprovementTypeOK

LEMMA ImprovementInitInv == ImprovementInit => ImprovementInv
<1> SUFFICES ASSUME ImprovementInit PROVE ImprovementInv
  OBVIOUS
<1> USE DEF ImprovementInit
<1>1. ImprovementTypeOK
  BY DEF ImprovementTypeOK, NoPostmortem, NoCandidate, NoCandidateReview, CallerIdle,
         CandidateStatus, METRIC_NAMES
<1>2. Judged /\ Decided
  BY DEF Judged, Decided, NoCandidate, CallerIdle
<1> QED
  BY <1>1, <1>2 DEF ImprovementInv

\* nothing that was judged is disturbed while the frozen cases stay, the
\* thresholds stay and no experiment is added
LEMMA StillJudged ==
    ASSUME Judged, datasets' = datasets, experiments' = experiments,
           candidate'.thresholds = candidate.thresholds,
           candidate'.status = "none" => candidate.status = "none",
           postmortem' = postmortem
    PROVE  Judged'
BY DEF Judged, Frozen, FrozenReplays, Flawless, Strict

LEMMA StillDecided ==
    ASSUME Decided, experiments' = experiments, candidate' = candidate,
           UNCHANGED reviewThread,
           \A c \in ReviewCallers :
               caller'[c].pc = "compare" => caller[c].pc = "compare"
    PROVE  Decided'
BY DEF Decided, LatestApproved

\* cases are frozen once, and only frozen ones are judged
LEMMA CasesKeep ==
    ASSUME ImprovementInv,
           \/ \E c \in Postmortems : CreatePostmortem(c) \/ FreezePostmortem(c)
           \/ CreateImprovementDataset
    PROVE  ImprovementInv'
<1> USE DEF ImprovementInv
<1>1. ASSUME NEW c \in Postmortems, CreatePostmortem(c) \/ FreezePostmortem(c)
      PROVE  ImprovementInv'
  <2>1. /\ UNCHANGED <<datasets, candidate, experiments, reviewVars>>
        /\ postmortem[c].status # "frozen"
        /\ postmortem' \in [Postmortems -> [status: {"none", "open", "frozen"},
                                            packet: SUBSET METRIC_NAMES]]
        /\ \A d \in Postmortems : d # c => postmortem'[d] = postmortem[d]
    <3>1. CASE CreatePostmortem(c)
      <4>1. PICK n : n = [postmortem[c] EXCEPT !.status = "open"]
        OBVIOUS
      <4>2. n \in [status: {"none", "open", "frozen"}, packet: SUBSET METRIC_NAMES]
        BY <4>1 DEF ImprovementTypeOK
      <4>3. postmortem' = [postmortem EXCEPT ![c] = n]
        BY <3>1, <4>1 DEF CreatePostmortem
      <4>4. /\ UNCHANGED <<datasets, candidate, experiments, reviewVars>>
            /\ postmortem[c].status # "frozen"
        BY <3>1 DEF CreatePostmortem
      <4> QED
        BY <4>2, <4>3, <4>4 DEF ImprovementTypeOK
    <3>2. CASE FreezePostmortem(c)
      <4>1. PICK packet \in SUBSET METRIC_NAMES :
               postmortem' = [postmortem EXCEPT ![c] =
                                 [status |-> "frozen", packet |-> packet]]
        BY <3>2, ImprovementAssumption DEF FreezePostmortem
      <4> QED
        BY <3>2, <4>1 DEF FreezePostmortem, ImprovementTypeOK
    <3> QED
      BY <1>1, <3>1, <3>2
  <2>2. \A d \in FrozenReplays : d \in FrozenReplays' /\ postmortem'[d] = postmortem[d]
    BY <2>1 DEF FrozenReplays
  <2>3. Judged'
    BY <2>1, <2>2 DEF Judged, Frozen, Flawless, Strict
  <2>4. ImprovementTypeOK' /\ Decided'
    BY <2>1, StillDecided DEF ImprovementTypeOK, reviewVars
  <2> QED
    BY <2>3, <2>4
<1>2. CASE CreateImprovementDataset
  <2>1. UNCHANGED <<postmortem, candidate, experiments, reviewVars>>
    BY <1>2 DEF CreateImprovementDataset
  <2>2. Judged'
    BY <1>2, <2>1 DEF CreateImprovementDataset, Judged, Frozen, FrozenReplays,
       Flawless, Strict
  <2>3. ImprovementTypeOK' /\ Decided'
    BY <2>1, StillDecided DEF ImprovementTypeOK, reviewVars
  <2> QED
    BY <2>2, <2>3
<1> QED
  BY <1>1, <1>2

LEMMA ExperimentKeeps ==
    ASSUME ImprovementInv, RunImprovementExperiment
    PROVE  ImprovementInv'
<1> USE DEF ImprovementInv
<1> DEFINE n == Len(experiments)
<1>1. PICK cases \in datasets, place \in {n, n - 1} :
         /\ place >= 0
         /\ experiments' = SubSeq(experiments, 1, place) \o <<ExperimentRow(cases)>>
                              \o SubSeq(experiments, place + 1, n)
  BY DEF RunImprovementExperiment
<1>2. /\ candidate.status \in {"draft", "evaluated"}
      /\ UNCHANGED <<postmortem, datasets, reviewVars>>
      /\ candidate'.status = "evaluated"
      /\ candidate'.thresholds = candidate.thresholds
      /\ candidate' \in [status: CandidateStatus, thresholds: [METRIC_NAMES -> 0..2]]
  BY DEF RunImprovementExperiment, TransitionCandidate, ImprovementTypeOK, CandidateStatus
<1> DEFINE row == ExperimentRow(cases)
<1>3. /\ row \in Experiment /\ row.cases = cases /\ Frozen(cases)
      /\ Strict /\ row.approved => Flawless(cases)
  <2>1. Frozen(cases) /\ cases \in SUBSET Postmortems
    BY DEF Judged, Frozen, FrozenReplays
  <2>2. GateApproved(cases) \in BOOLEAN
    BY DEF GateApproved
  <2>3. row.approved = GateApproved(cases) /\ row.cases = cases
    BY DEF ExperimentRow
  <2>4. row \in Experiment
    BY <2>1, <2>2 DEF ExperimentRow, Experiment
  <2> QED
    BY <2>1, <2>3, <2>4, StrictGate
<1> HIDE DEF row
<1>4. /\ experiments' \in Seq(Experiment)
      /\ \A i \in DOMAIN experiments' :
            \/ experiments'[i] = row
            \/ \E j \in DOMAIN experiments : experiments'[i] = experiments[j]
  <2>1. n \in Nat /\ place \in 0..n /\ experiments \in Seq(Experiment)
    BY <1>1 DEF ImprovementTypeOK
  <2> DEFINE front == SubSeq(experiments, 1, place)
             back == SubSeq(experiments, place + 1, n)
             middle == <<row>>
  <2>2. /\ front \in Seq(Experiment) /\ Len(front) = place
        /\ \A i \in 1..place : front[i] = experiments[i]
    BY <2>1
  <2>3. /\ back \in Seq(Experiment) /\ Len(back) = n - place
        /\ \A i \in 1..(n - place) : back[i] = experiments[place + i]
    BY <2>1
  <2>4. middle \in Seq(Experiment) /\ Len(middle) = 1 /\ middle[1] = row
    BY <1>3
  <2>5. experiments' = front \o middle \o back
    BY <1>1 DEF row
  <2> HIDE DEF front, middle, back
  <2>6. /\ experiments' \in Seq(Experiment) /\ Len(experiments') = n + 1
        /\ \A i \in 1..(n + 1) : experiments'[i] =
              IF i <= place THEN front[i] ELSE IF i = place + 1 THEN row
              ELSE back[i - (place + 1)]
    <3> DEFINE head == front \o middle
    <3>1. /\ head \in Seq(Experiment) /\ Len(head) = place + 1
          /\ \A i \in 1..(place + 1) :
                head[i] = IF i <= place THEN front[i] ELSE middle[i - place]
      <4>1. /\ head \in Seq(Experiment) /\ Len(head) = Len(front) + Len(middle)
            /\ \A i \in 1..(Len(front) + Len(middle)) :
                  head[i] = IF i <= Len(front) THEN front[i] ELSE middle[i - Len(front)]
        BY <2>2, <2>4, ConcatProperties
      <4>2. Len(front) = place /\ Len(middle) = 1
        BY <2>2, <2>4
      <4> QED
        BY <2>1, <4>1, <4>2
    <3>2. head[place + 1] = row
      BY <2>1, <2>4, <3>1
    <3> HIDE DEF head
    <3>3. /\ head \o back \in Seq(Experiment) /\ Len(head \o back) = n + 1
          /\ \A i \in 1..(n + 1) : (head \o back)[i] =
                IF i <= place + 1 THEN head[i] ELSE back[i - (place + 1)]
      BY <2>1, <2>3, <3>1, ConcatProperties
    <3>4. experiments' = head \o back
      BY <2>5 DEF head
    <3>5. PICK s : s = head \o back
      OBVIOUS
    <3>6. s \in Seq(Experiment) /\ Len(s) = n + 1
      BY <3>3, <3>5
    <3>7. ASSUME NEW i \in 1..(n + 1)
          PROVE  s[i] = IF i <= place THEN front[i] ELSE IF i = place + 1 THEN row
                        ELSE back[i - (place + 1)]
      <4>1. s[i] = IF i <= place + 1 THEN head[i] ELSE back[i - (place + 1)]
        BY <3>3, <3>5
      <4>2. i <= place => head[i] = front[i]
        BY <2>1, <3>1
      <4> QED
        BY <2>1, <3>2, <4>1, <4>2
    <3> QED
      BY <3>4, <3>5, <3>6, <3>7
  <2>7. DOMAIN experiments' = 1..(n + 1) /\ DOMAIN experiments = 1..n
    BY <2>1, <2>6
  <2>8. ASSUME NEW i \in 1..(n + 1)
        PROVE  \/ experiments'[i] = row
               \/ \E j \in 1..n : experiments'[i] = experiments[j]
    <3>1. CASE i <= place
      BY <2>1, <2>2, <2>6, <3>1
    <3>2. CASE i = place + 1
      BY <2>1, <2>6, <3>2
    <3>3. CASE i > place + 1
      <4>1. i - (place + 1) \in 1..(n - place) /\ i - 1 \in 1..n
        BY <2>1, <3>3
      <4>2. experiments'[i] = back[i - (place + 1)]
        BY <2>1, <2>6, <3>3
      <4>3. back[i - (place + 1)] = experiments[place + (i - (place + 1))]
        BY <2>3, <4>1
      <4>4. place + (i - (place + 1)) = i - 1
        BY <2>1
      <4> QED
        BY <4>1, <4>2, <4>3, <4>4
    <3> QED
      BY <2>1, <3>1, <3>2, <3>3
  <2> QED
    BY <2>6, <2>7, <2>8
<1>5. Judged'
  <2>1. FrozenReplays' = FrozenReplays
    BY <1>2 DEF FrozenReplays
  <2>2. Strict' <=> Strict
    BY <1>2 DEF Strict
  <2> QED
    BY <1>2, <1>3, <1>4, <2>1, <2>2 DEF Judged, Frozen, Flawless
<1>6. Decided'
  BY <1>2 DEF Decided, reviewVars
<1>7. ImprovementTypeOK'
  BY <1>2, <1>4 DEF ImprovementTypeOK, reviewVars
<1> QED
  BY <1>5, <1>6, <1>7

LEMMA CreateCandidateKeeps ==
    ASSUME ImprovementInv, CreateImprovementCandidate PROVE ImprovementInv'
<1> USE DEF ImprovementInv
<1>1. PICK t \in [METRIC_NAMES -> 0..2] :
         candidate' = [status |-> "draft", thresholds |-> t]
  BY ImprovementAssumption DEF CreateImprovementCandidate
<1>2. /\ candidate.status = "none"
      /\ UNCHANGED <<postmortem, datasets, experiments, reviewVars>>
      /\ candidate'.status = "draft"
      /\ candidate' \in [status: CandidateStatus, thresholds: [METRIC_NAMES -> 0..2]]
  BY <1>1 DEF CreateImprovementCandidate, judgedVars, CandidateStatus
<1>3. experiments = <<>> /\ experiments' = <<>>
  BY <1>2 DEF Judged
<1>4. Judged'
  BY <1>2, <1>3 DEF Judged, Frozen, FrozenReplays
<1>5. Decided' /\ ImprovementTypeOK'
  BY <1>2 DEF Decided, ImprovementTypeOK, reviewVars
<1> QED
  BY <1>4, <1>5

\* the requests that touch neither the candidate nor the decision
LEMMA ReviewStepsKeep ==
    ASSUME ImprovementInv,
           UNCHANGED <<candidate, judgedVars>>, ImprovementTypeOK',
           reviewThread'.resumed = reviewThread.resumed,
           reviewThread'.decision = reviewThread.decision,
           \A c \in ReviewCallers :
               caller'[c].pc = "compare" => caller[c].pc = "compare"
    PROVE  ImprovementInv'
<1>1. Judged'
  BY StillJudged DEF ImprovementInv, judgedVars
<1>2. Decided'
  BY DEF ImprovementInv, Decided, LatestApproved, judgedVars
<1> QED
  BY <1>1, <1>2 DEF ImprovementInv

LEMMA CallerWritten ==
    ASSUME ImprovementTypeOK, NEW c \in ReviewCallers,
           NEW v \in [pc: {"idle", "list", "create", "join", "store", "resume", "compare"},
                      action: {"none", "approved", "rejected"}, interrupt: Nat],
           caller' = [caller EXCEPT ![c] = v]
    PROVE  /\ caller' \in [ReviewCallers ->
                 [pc: {"idle", "list", "create", "join", "store", "resume", "compare"},
                  action: {"none", "approved", "rejected"}, interrupt: Nat]]
           /\ caller'[c] = v
           /\ \A d \in ReviewCallers : d # c => caller'[d] = caller[d]
BY DEF ImprovementTypeOK

\* What a caller's next step may leave of it.
LEMMA CallerNext ==
    ASSUME ImprovementTypeOK, NEW c \in ReviewCallers,
           NEW pc \in {"idle", "list", "create", "join", "store", "resume", "compare"},
           NEW v, v = [caller[c] EXCEPT !.pc = pc]
    PROVE  /\ v \in [pc: {"idle", "list", "create", "join", "store", "resume", "compare"},
                     action: {"none", "approved", "rejected"}, interrupt: Nat]
           /\ v.pc = pc
<1>1. caller[c] \in [pc: {"idle", "list", "create", "join", "store", "resume", "compare"},
                     action: {"none", "approved", "rejected"}, interrupt: Nat]
  BY DEF ImprovementTypeOK
<1> QED
  BY <1>1

LEMMA IdleCaller ==
    /\ CallerIdle \in [pc: {"idle", "list", "create", "join", "store", "resume", "compare"},
                       action: {"none", "approved", "rejected"}, interrupt: Nat]
    /\ CallerIdle.pc = "idle"
BY DEF CallerIdle

LEMMA RequestReviewKeeps ==
    ASSUME ImprovementInv, NEW c \in ReviewCallers, RequestReview(c)
    PROVE  ImprovementInv'
<1> USE DEF ImprovementInv
<1>1. /\ UNCHANGED <<postmortem, datasets, experiments, reviewThread>> /\ LatestApproved
      /\ caller' = [caller EXCEPT ![c].pc = "list"]
  BY DEF RequestReview, judgedVars
<1>2. \A d \in ReviewCallers : caller'[d].pc = "compare" => caller[d].pc = "compare"
  BY <1>1 DEF ImprovementTypeOK
<1>3. /\ caller' \in [ReviewCallers ->
          [pc: {"idle", "list", "create", "join", "store", "resume", "compare"},
           action: {"none", "approved", "rejected"}, interrupt: Nat]]
  <2>1. PICK v : v = [caller[c] EXCEPT !.pc = "list"]
    OBVIOUS
  <2>2. v \in [pc: {"idle", "list", "create", "join", "store", "resume", "compare"},
               action: {"none", "approved", "rejected"}, interrupt: Nat]
    BY <2>1, CallerNext
  <2>3. caller' = [caller EXCEPT ![c] = v]
    BY <1>1, <2>1
  <2> QED
    BY <2>2, <2>3, CallerWritten
<1>4. CASE UNCHANGED <<candidate, candReview>>
  <2>1. ImprovementTypeOK'
    BY <1>1, <1>3, <1>4 DEF ImprovementTypeOK
  <2> QED
    BY <1>1, <1>2, <1>4, <2>1, ReviewStepsKeep DEF judgedVars
<1>5. CASE /\ TransitionCandidate("pending_review")
           /\ candReview' = [status |-> "pending", key |-> "k1", interrupt |-> 0]
  <2>1. /\ candidate.status = "evaluated" /\ candidate'.status = "pending_review"
        /\ candidate'.thresholds = candidate.thresholds
        /\ candidate' \in [status: CandidateStatus, thresholds: [METRIC_NAMES -> 0..2]]
    BY <1>5 DEF TransitionCandidate, CandidateMoves, ImprovementTypeOK, CandidateStatus
  <2>2. Judged'
    BY <1>1, <2>1, StillJudged
  <2>3. Decided'
    BY <1>1, <1>2, <2>1 DEF Decided, LatestApproved
  <2>4. ImprovementTypeOK'
    BY <1>1, <1>3, <1>5, <2>1 DEF ImprovementTypeOK
  <2> QED
    BY <2>2, <2>3, <2>4
<1> QED
  BY <1>4, <1>5 DEF RequestReview

LEMMA CallersKeep ==
    ASSUME ImprovementInv, NEW c \in ReviewCallers,
           \/ ListReviewRuns(c) \/ CreateReviewRun(c) \/ JoinReviewRun(c)
           \/ StoreReceipt(c) \/ CallerLost(c)
           \/ \E action \in {"approved", "rejected"} : DecideReview(c, action)
    PROVE  ImprovementInv'
<1> USE DEF ImprovementInv
<1> DEFINE PCs == {"idle", "list", "create", "join", "store", "resume", "compare"}
           Actions == {"none", "approved", "rejected"}
<1>1. UNCHANGED <<candidate, judgedVars>>
  BY DEF ListReviewRuns, CreateReviewRun, JoinReviewRun, StoreReceipt, CallerLost,
         DecideReview
<1>2. /\ caller[c].interrupt \in Nat /\ reviewThread.runs \in Nat
      /\ candReview.interrupt \in Nat /\ 0 \in Nat
  BY DEF ImprovementTypeOK
<1>3. \/ caller' = [caller EXCEPT ![c] = CallerIdle]
      \/ \E pc \in PCs \ {"compare"} : caller' = [caller EXCEPT ![c].pc = pc]
      \/ \E pc \in PCs \ {"compare"}, action \in Actions, k \in Nat :
            caller' = [caller EXCEPT ![c] = [pc |-> pc, action |-> action,
                                             interrupt |-> k]]
  BY <1>2 DEF ListReviewRuns, CreateReviewRun, JoinReviewRun, StoreReceipt,
              CallerLost, DecideReview
<1>4. /\ caller' \in [ReviewCallers -> [pc: PCs, action: Actions, interrupt: Nat]]
      /\ caller'[c].pc # "compare"
      /\ \A d \in ReviewCallers : d # c => caller'[d] = caller[d]
  <2>1. PICK v \in [pc: PCs, action: Actions, interrupt: Nat] :
               caller' = [caller EXCEPT ![c] = v] /\ v.pc # "compare"
    <3>1. CASE caller' = [caller EXCEPT ![c] = CallerIdle]
      BY <3>1, IdleCaller
    <3>2. ASSUME NEW pc \in PCs \ {"compare"}, caller' = [caller EXCEPT ![c].pc = pc]
          PROVE  \E v \in [pc: PCs, action: Actions, interrupt: Nat] :
                    caller' = [caller EXCEPT ![c] = v] /\ v.pc # "compare"
      <4>1. PICK v : v = [caller[c] EXCEPT !.pc = pc]
        OBVIOUS
      <4>2. v \in [pc: PCs, action: Actions, interrupt: Nat] /\ v.pc # "compare"
        BY <4>1, CallerNext
      <4>3. caller' = [caller EXCEPT ![c] = v]
        BY <3>2, <4>1
      <4> QED
        BY <4>2, <4>3
    <3>3. ASSUME NEW pc \in PCs \ {"compare"}, NEW action \in Actions, NEW k \in Nat,
                 caller' = [caller EXCEPT ![c] = [pc |-> pc, action |-> action,
                                                  interrupt |-> k]]
          PROVE  \E v \in [pc: PCs, action: Actions, interrupt: Nat] :
                    caller' = [caller EXCEPT ![c] = v] /\ v.pc # "compare"
      <4>1. PICK v : v = [pc |-> pc, action |-> action, interrupt |-> k]
        OBVIOUS
      <4>2. pc \in PCs /\ pc # "compare"
        OBVIOUS
      <4> HIDE DEF PCs, Actions
      <4>3. v \in [pc: PCs, action: Actions, interrupt: Nat] /\ v.pc = pc
        BY <4>1, <4>2
      <4>4. caller' = [caller EXCEPT ![c] = v]
        BY <3>3, <4>1
      <4> QED
        BY <4>2, <4>3, <4>4
    <3> QED
      BY <1>3, <3>1, <3>2, <3>3
  <2> QED
    BY <2>1, CallerWritten
<1>5. \A d \in ReviewCallers : caller'[d].pc = "compare" => caller[d].pc = "compare"
  BY <1>4
<1>6. /\ reviewThread' \in [state: {"idle", "running", "waiting", "ended"}, runs: Nat,
                            resumed: BOOLEAN, decision: {"none", "approved", "rejected"}]
      /\ reviewThread'.resumed = reviewThread.resumed
      /\ reviewThread'.decision = reviewThread.decision
  <2>1. CASE reviewThread' = reviewThread
    BY <2>1 DEF ImprovementTypeOK
  <2>2. CASE reviewThread' = [reviewThread EXCEPT !.state = "running", !.runs = @ + 1]
    <3>1. PICK k \in Nat : k = reviewThread.runs + 1
      BY <1>2
    <3>2. reviewThread' = [reviewThread EXCEPT !.state = "running", !.runs = k]
      BY <2>2, <3>1
    <3> QED
      BY <3>2 DEF ImprovementTypeOK
  <2> QED
    BY <2>1, <2>2 DEF ListReviewRuns, CreateReviewRun, JoinReviewRun, StoreReceipt,
                      CallerLost, DecideReview
<1>7. candReview' \in [status: {"none", "pending", "approved", "rejected"},
                       key: {"none", "k1"}, interrupt: Nat]
  <2>1. CASE candReview' = candReview
    BY <2>1 DEF ImprovementTypeOK
  <2>2. CASE candReview' = [candReview EXCEPT !.interrupt = caller[c].interrupt]
    BY <1>2, <2>2 DEF ImprovementTypeOK
  <2> QED
    BY <2>1, <2>2 DEF ListReviewRuns, CreateReviewRun, JoinReviewRun, StoreReceipt,
                      CallerLost, DecideReview
<1>8. ImprovementTypeOK'
  BY <1>1, <1>4, <1>6, <1>7 DEF ImprovementTypeOK, judgedVars
<1> QED
  BY <1>1, <1>5, <1>6, <1>8, ReviewStepsKeep

\* the graph decides once
LEMMA ResumeKeeps ==
    ASSUME ImprovementInv, NEW c \in ReviewCallers, ResumeReview(c)
    PROVE  ImprovementInv'
<1> USE DEF ImprovementInv
<1>1. UNCHANGED <<candidate, candReview, postmortem, datasets, experiments>>
  BY DEF ResumeReview, judgedVars
<1>2. /\ \/ caller' = [caller EXCEPT ![c].pc = "compare"]
         \/ caller' = [caller EXCEPT ![c] = CallerIdle] /\ reviewThread' = reviewThread
      /\ \/ reviewThread' = reviewThread
         \/ /\ ~reviewThread.resumed
            /\ reviewThread' = [reviewThread EXCEPT !.state = "ended", !.resumed = TRUE,
                                                    !.decision = caller[c].action]
      /\ reviewThread'.resumed \/ caller' = [caller EXCEPT ![c] = CallerIdle]
  BY DEF ResumeReview, ImprovementTypeOK
<1>3. caller' \in [ReviewCallers ->
          [pc: {"idle", "list", "create", "join", "store", "resume", "compare"},
           action: {"none", "approved", "rejected"}, interrupt: Nat]]
  <2>1. CASE caller' = [caller EXCEPT ![c].pc = "compare"]
    BY <2>1 DEF ImprovementTypeOK
  <2>2. CASE caller' = [caller EXCEPT ![c] = CallerIdle]
    BY <2>2 DEF ImprovementTypeOK, CallerIdle
  <2> QED
    BY <1>2, <2>1, <2>2
<1>4. /\ reviewThread' \in [state: {"idle", "running", "waiting", "ended"}, runs: Nat,
                            resumed: BOOLEAN, decision: {"none", "approved", "rejected"}]
      /\ reviewThread.resumed => reviewThread' = reviewThread
      /\ reviewThread' # reviewThread => reviewThread'.resumed
  <2>1. PICK e \in BOOLEAN : e = TRUE
    OBVIOUS
  <2>2. CASE /\ ~reviewThread.resumed
             /\ reviewThread' = [reviewThread EXCEPT !.state = "ended", !.resumed = e,
                                                    !.decision = caller[c].action]
    <3>1. caller[c].action \in {"none", "approved", "rejected"}
      BY DEF ImprovementTypeOK
    <3>2. reviewThread \in [state: {"idle", "running", "waiting", "ended"}, runs: Nat,
                            resumed: BOOLEAN, decision: {"none", "approved", "rejected"}]
      BY DEF ImprovementTypeOK
    <3>3. PICK a \in {"none", "approved", "rejected"} : a = caller[c].action
      BY <3>1
    <3>4. PICK n : n = [reviewThread EXCEPT !.state = "ended", !.resumed = e, !.decision = a]
      OBVIOUS
    <3>5. n \in [state: {"idle", "running", "waiting", "ended"}, runs: Nat,
                 resumed: BOOLEAN, decision: {"none", "approved", "rejected"}] /\ n.resumed
      BY <2>1, <3>2, <3>4
    <3> QED
      BY <2>2, <3>3, <3>4, <3>5
  <2> QED
    BY <1>2, <2>1, <2>2 DEF ImprovementTypeOK
<1>5. ImprovementTypeOK'
  BY <1>1, <1>3, <1>4 DEF ImprovementTypeOK
<1>6. Judged'
  BY <1>1, StillJudged
<1>7. Decided'
  <2>1. \A d \in ReviewCallers : caller'[d].pc = "compare" => reviewThread'.resumed
    BY <1>2, <1>4 DEF Decided, ImprovementTypeOK, CallerIdle
  <2> QED
    BY <1>1, <1>4, <2>1 DEF Decided, LatestApproved
<1> QED
  BY <1>5, <1>6, <1>7

\* the status follows the decision of the graph
LEMMA RecordDecisionKeeps ==
    ASSUME ImprovementInv, NEW c \in ReviewCallers, RecordDecision(c)
    PROVE  ImprovementInv'
<1> USE DEF ImprovementInv
<1>1. /\ UNCHANGED <<postmortem, datasets, experiments, reviewThread>>
      /\ caller[c].pc = "compare" /\ caller' = [caller EXCEPT ![c] = CallerIdle]
  BY DEF RecordDecision, judgedVars
<1>2. /\ caller' \in [ReviewCallers ->
          [pc: {"idle", "list", "create", "join", "store", "resume", "compare"},
           action: {"none", "approved", "rejected"}, interrupt: Nat]]
      /\ \A d \in ReviewCallers : caller'[d].pc = "compare" => caller[d].pc = "compare"
  <2>1. PICK v \in [pc: {"idle", "list", "create", "join", "store", "resume", "compare"},
                    action: {"none", "approved", "rejected"}, interrupt: Nat] :
               v = CallerIdle /\ v.pc = "idle"
    BY IdleCaller
  <2>2. caller' = [caller EXCEPT ![c] = v]
    BY <1>1, <2>1
  <2> QED
    BY <2>1, <2>2, CallerWritten
<1>3. CASE UNCHANGED <<candidate, candReview>>
  <2>1. ImprovementTypeOK'
    BY <1>1, <1>2, <1>3 DEF ImprovementTypeOK
  <2> QED
    BY <1>1, <1>2, <1>3, <2>1, ReviewStepsKeep DEF judgedVars
<1>4. CASE /\ ConsistentResult(c)
           /\ TransitionCandidate(caller[c].action)
           /\ candReview' = [candReview EXCEPT !.status = caller[c].action]
  <2>1. PICK a \in {"approved", "rejected"} : a = caller[c].action
    BY <1>4 DEF TransitionCandidate, CandidateMoves, ImprovementTypeOK
  <2>2. /\ candidate.status = "pending_review" /\ candidate'.status = a
        /\ candidate'.thresholds = candidate.thresholds
        /\ candidate' \in [status: CandidateStatus, thresholds: [METRIC_NAMES -> 0..2]]
    BY <1>4, <2>1 DEF TransitionCandidate, CandidateMoves, ImprovementTypeOK,
                      CandidateStatus
  <2>3. candReview' = [candReview EXCEPT !.status = a]
    BY <1>4, <2>1
  <2>4. ImprovementTypeOK'
    BY <1>1, <1>2, <2>2, <2>3 DEF ImprovementTypeOK
  <2>5. reviewThread.resumed /\ (a = "approved" => reviewThread.decision = "approved")
    BY <1>1, <1>4, <2>1 DEF Decided, ConsistentResult
  <2>6. Decided'
    BY <1>1, <1>2, <2>2, <2>5 DEF Decided, LatestApproved
  <2>7. Judged'
    BY <1>1, <2>2, StillJudged
  <2> QED
    BY <2>4, <2>6, <2>7
<1> QED
  BY <1>3, <1>4 DEF RecordDecision

LEMMA ReleaseKeeps ==
    ASSUME ImprovementInv,
           (\E n \in 1..2 : RunImprovementShadow(n)) \/ Promote \/ RollBack
    PROVE  ImprovementInv'
<1> USE DEF ImprovementInv
<1>1. UNCHANGED <<judgedVars, reviewVars>>
  BY DEF RunImprovementShadow, Promote, RollBack
<1>2. PICK target \in {"shadow", "active", "rolled_back"} : TransitionCandidate(target)
  BY DEF RunImprovementShadow, Promote, RollBack
<1>3. /\ candidate.status \in {"approved", "shadow", "active"}
      /\ candidate'.status = target
      /\ candidate'.thresholds = candidate.thresholds
      /\ candidate' \in [status: CandidateStatus, thresholds: [METRIC_NAMES -> 0..2]]
  BY <1>2 DEF TransitionCandidate, CandidateMoves, ImprovementTypeOK, CandidateStatus
<1>4. Judged'
  BY <1>1, <1>3, StillJudged DEF judgedVars
<1>5. Decided' /\ ImprovementTypeOK'
  BY <1>1, <1>3 DEF Decided, LatestApproved, ImprovementTypeOK, judgedVars, reviewVars
<1> QED
  BY <1>4, <1>5

LEMMA ImprovementNextInv ==
    ImprovementInv /\ [ImprovementNext]_improvementVars => ImprovementInv'
<1> SUFFICES ASSUME ImprovementInv, [ImprovementNext]_improvementVars
             PROVE  ImprovementInv'
  OBVIOUS
<1>1. CASE UNCHANGED improvementVars
  BY <1>1 DEF improvementVars, ImprovementInv, ImprovementTypeOK, Judged, Decided,
              Frozen, FrozenReplays, Flawless, Strict, LatestApproved
<1>2. CASE ReviewInterrupts
  <2>1. /\ reviewThread' = [reviewThread EXCEPT !.state = "waiting"]
        /\ UNCHANGED <<candidate, candReview, judgedVars, caller>>
    BY <1>2 DEF ReviewInterrupts
  <2>2. ImprovementTypeOK' /\ reviewThread'.resumed = reviewThread.resumed
        /\ reviewThread'.decision = reviewThread.decision
    BY <2>1 DEF ImprovementInv, ImprovementTypeOK, judgedVars
  <2> QED
    BY <2>1, <2>2, ReviewStepsKeep
<1> QED
  BY <1>1, <1>2, CasesKeep, ExperimentKeeps, CreateCandidateKeeps, RequestReviewKeeps,
     CallersKeep, ResumeKeeps, RecordDecisionKeeps, ReleaseKeeps DEF ImprovementNext

\* A candidate that is shadowed or released was approved at the graph's own interrupt
\* and passed the gate on cases that are what they were (ReleaseBacked), whatever
\* requests, lost answers and experiments were mixed.
THEOREM ReleaseBackedHolds == ImprovementSpec => []ReleaseBacked
<1>1. ImprovementInv => ReleaseBacked
  <2> SUFFICES ASSUME ImprovementInv PROVE ReleaseBacked
    OBVIOUS
  <2>1. LatestApproved => Len(experiments) \in DOMAIN experiments
    BY DEF LatestApproved, ImprovementInv, ImprovementTypeOK
  <2> QED
    BY <2>1 DEF ReleaseBacked, ImprovementInv, Judged, Decided, LatestApproved, Strict,
                Flawless
<1> QED
  BY <1>1, ImprovementInitInv, ImprovementNextInv, PTL DEF ImprovementSpec

-----------------------------------------------------------------------------
(***************************************************************************)
(* Who writes or reads is an active member with the permission at that     *)
(* moment, for every set of identities, spaces and requests.               *)
(*                                                                         *)
(* The requests under way, the rows and the tokens name identities and     *)
(* spaces that exist (Named); the rest is what the handlers read again.    *)
(***************************************************************************)
TokenNames == \A i \in Identities : token[i].use = "user" => token[i].space \in Spaces
RequestNames ==
    \A q \in ApiRequests : request[q].pc # "idle" =>
        request[q].who \in Identities /\ request[q].space \in Spaces
Named ==
    /\ DOMAIN token = Identities /\ DOMAIN request = ApiRequests
    /\ \A i \in Identities : DOMAIN token[i] = {"use", "space", "age"}
    /\ TokenNames /\ RequestNames
    /\ rows \subseteq [who: Identities, space: Spaces]

LEMMA NamedInit == AuthorityInit => Named
  BY DEF AuthorityInit, Named, TokenNames, RequestNames, NoToken, NoRequest

LEMMA RequestAnew ==
    ASSUME Named, NEW q \in ApiRequests, NEW r,
           r.pc # "idle" => r.who \in Identities /\ r.space \in Spaces,
           request' = [request EXCEPT ![q] = r], UNCHANGED token,
           rows' \subseteq [who: Identities, space: Spaces]
    PROVE  Named'
<1>1. DOMAIN request' = ApiRequests
  BY DEF Named
<1>2. \A p \in ApiRequests : request'[p] = IF p = q THEN r ELSE request[p]
  BY DEF Named
<1>3. RequestNames'
  BY <1>2 DEF Named, RequestNames
<1> QED
  BY <1>1, <1>3 DEF Named, TokenNames

LEMMA TokenAnew ==
    ASSUME Named, NEW i \in Identities, NEW t, DOMAIN t = {"use", "space", "age"},
           t.use = "user" => t.space \in Spaces,
           token' = [token EXCEPT ![i] = t], UNCHANGED <<request, rows>>
    PROVE  Named'
<1>1. /\ DOMAIN token' = Identities
      /\ \A j \in Identities : token'[j] = IF j = i THEN t ELSE token[j]
  BY DEF Named
<1>2. TokenNames'
  BY <1>1 DEF Named, TokenNames
<1> QED
  BY <1>1, <1>2 DEF Named, RequestNames

\* A request enters through a token that is accepted and a membership that is active.
LEMMA EntersNamed ==
    ASSUME Named, NEW q \in ApiRequests, NEW i \in Identities,
           ActorForRequest(q, i) \/ AuthenticateAgent(q, i)
    PROVE  Named' /\ rows' = rows /\ objects' = objects /\ answer' = {}
<1>1. token[i].space \in Spaces
  BY DEF ActorForRequest, AuthenticateAgent, TokenAccepted, Named, TokenNames
<1>2. CASE ActorForRequest(q, i)
  <2>1. PICK o \in DOMAIN Operations : request' = [request EXCEPT ![q] =
            [pc |-> "product", who |-> i, space |-> token[i].space, needs |-> Operations[o]]]
    BY <1>2 DEF ActorForRequest
  <2>2. PICK n : n = Operations[o]
    OBVIOUS
  <2>3. PICK r : r = [pc |-> "product", who |-> i, space |-> token[i].space, needs |-> n]
    OBVIOUS
  <2>4. request' = [request EXCEPT ![q] = r]
    BY <2>1, <2>2, <2>3
  <2>5. r.who \in Identities /\ r.space \in Spaces
    BY <2>3, <1>1
  <2> QED
    BY <1>2, <2>4, <2>5, RequestAnew DEF ActorForRequest, Named
<1>3. CASE AuthenticateAgent(q, i)
  <2>1. PICK n \in Permissions, k \in ObjectKinds : request' = [request EXCEPT ![q] =
            [pc |-> k, who |-> i, space |-> token[i].space, needs |-> n]]
    BY <1>3 DEF AuthenticateAgent
  <2>3. PICK r : r = [pc |-> k, who |-> i, space |-> token[i].space, needs |-> n]
    OBVIOUS
  <2>4. request' = [request EXCEPT ![q] = r]
    BY <2>1, <2>3
  <2>5. r.who \in Identities /\ r.space \in Spaces
    BY <2>3, <1>1
  <2> QED
    BY <1>3, <2>4, <2>5, RequestAnew DEF AuthenticateAgent, Named
<1> QED
  BY <1>2, <1>3

\* A request that ends leaves the named rows named.
LEMMA EndsNamed ==
    ASSUME Named, NEW q \in ApiRequests, request[q].pc # "idle",
           request' = [request EXCEPT ![q] = NoRequest], UNCHANGED token,
           rows' \subseteq rows \cup {OwnRow(q)}
    PROVE  Named'
<1>1. OwnRow(q) \in [who: Identities, space: Spaces]
  BY DEF OwnRow, Named, RequestNames
<1>2. rows' \subseteq [who: Identities, space: Spaces]
  BY <1>1 DEF Named
<1>3. NoRequest.pc = "idle"
  BY DEF NoRequest
<1> QED
  BY <1>2, <1>3, RequestAnew

AccessStep ==
    /\ \A r \in rows' \ rows : Member(r.who, r.space, CanWrite)
    /\ \A a \in answer' : \E s \in Spaces :
          \/ a.got = [who |-> a.by, space |-> s] /\ membership[a.by][s].active
          \/ \E k \in ObjectKinds :
                /\ a.got = Owned(k, a.by, s)
                /\ IF k = "store" THEN membership[a.by][s].active ELSE Member(a.by, s, CanRead)
    /\ \A x \in objects' \ objects : \E i \in Identities, s \in Spaces :
          /\ x = Owned(x.kind, i, s)
          /\ \/ [who |-> i, space |-> s] \in rows
             \/ Member(i, s, CanWrite)
             \/ x.kind = "store" /\ membership[i][s].active

LEMMA NothingSaid ==
    ASSUME rows' = rows, objects' = objects, answer' = {}
    PROVE  AccessStep
  BY DEF AccessStep

LEMMA ServeProductOK ==
    ASSUME Named, NEW q \in ApiRequests, ServeProduct(q)
    PROVE  Named' /\ AccessStep
<1>1. request[q].who \in Identities /\ request[q].space \in Spaces
  BY DEF ServeProduct, Named, RequestNames
<1>2. Named'
  BY EndsNamed DEF ServeProduct
<1>3. \A r \in rows' \ rows : Member(r.who, r.space, CanWrite)
  BY DEF ServeProduct, ResolveActor, OwnRow, Member
<1>4. ASSUME NEW a \in answer'
      PROVE  a.got = [who |-> a.by, space |-> request[q].space]
             /\ membership[a.by][request[q].space].active
  <2>1. ResolveActor(q)
    BY DEF ServeProduct
  <2>2. a.by = request[q].who /\ a.got = OwnRow(q)
    BY <2>1 DEF ServeProduct
  <2> QED
    BY <2>1, <2>2 DEF ResolveActor, OwnRow
<1>5. objects' = objects
  BY DEF ServeProduct
<1> QED
  BY <1>1, <1>2, <1>3, <1>4, <1>5 DEF AccessStep

LEMMA CreateObjectOK ==
    ASSUME Named, NEW q \in ApiRequests, CreateObject(q)
    PROVE  Named' /\ AccessStep
<1>1. request[q].pc # "idle"
  BY DEF CreateObject, ObjectKinds
<1>2. request[q].who \in Identities /\ request[q].space \in Spaces
  BY <1>1 DEF Named, RequestNames
<1>3. Named'
  BY <1>1, EndsNamed DEF CreateObject
<1>4. ASSUME NEW x \in objects' \ objects
      PROVE  /\ x = Owned(x.kind, request[q].who, request[q].space)
             /\ \/ Member(request[q].who, request[q].space, CanWrite)
                \/ x.kind = "store" /\ membership[request[q].who][request[q].space].active
  <2>1. AgentAllows(q) /\ x = Owned(request[q].pc, request[q].who, request[q].space)
    BY DEF CreateObject
  <2>2. x.kind = request[q].pc
    BY <2>1 DEF Owned
  <2> QED
    BY <2>1, <2>2 DEF AgentAllows, Member, CreateObject
<1>5. rows' = rows /\ answer' = {}
  BY DEF CreateObject
<1> QED
  BY <1>2, <1>3, <1>4, <1>5 DEF AccessStep

LEMMA ReadObjectsOK ==
    ASSUME Named, NEW q \in ApiRequests, ReadObjects(q)
    PROVE  Named' /\ AccessStep
<1>1. request[q].pc # "idle"
  BY DEF ReadObjects, ObjectKinds
<1>2. request[q].who \in Identities /\ request[q].space \in Spaces
  BY <1>1 DEF Named, RequestNames
<1>3. Named'
  BY <1>1, EndsNamed DEF ReadObjects
<1>4. ASSUME NEW a \in answer'
      PROVE  LET k == request[q].pc
                 s == request[q].space
             IN  /\ k \in ObjectKinds
                 /\ a.got = Owned(k, a.by, s)
                 /\ IF k = "store" THEN membership[a.by][s].active ELSE Member(a.by, s, CanRead)
  <2>1. AgentAllows(q) /\ request[q].pc \in ObjectKinds
    BY DEF ReadObjects
  <2>2. PICK x \in objects : /\ x.kind = request[q].pc
                             /\ VisibleTo(request[q].who, request[q].space, x)
                             /\ a = [by |-> request[q].who, got |-> x]
    BY <2>1 DEF ReadObjects
  <2>3. a.by = request[q].who /\ a.got = Owned(request[q].pc, a.by, request[q].space)
    BY <2>2 DEF VisibleTo
  <2> QED
    BY <2>1, <2>3 DEF AgentAllows, Member, ReadObjects
<1>5. rows' = rows /\ objects' = objects
  BY DEF ReadObjects
<1> QED
  BY <1>2, <1>3, <1>4, <1>5 DEF AccessStep

LEMMA WorkerActsOK ==
    ASSUME Named, WorkerActs
    PROVE  Named' /\ AccessStep
<1>1. Named' /\ rows' = rows /\ answer' = {}
  BY DEF WorkerActs, Named, TokenNames, RequestNames
<1>2. ASSUME NEW x \in objects' \ objects
      PROVE  \E i \in Identities, s \in Spaces :
                /\ x = Owned(x.kind, i, s)
                /\ [who |-> i, space |-> s] \in rows
  <2>1. PICK r \in rows, k \in {"thread", "cron"} :
            objects' = objects \cup {Owned(k, r.who, r.space)}
    BY DEF WorkerActs
  <2>2. x = Owned(k, r.who, r.space)
    BY <2>1
  <2>3. x.kind = k
    BY <2>2 DEF Owned
  <2>4. r \in [who: Identities, space: Spaces]
    BY DEF Named
  <2>5. r.who \in Identities /\ r.space \in Spaces /\ r = [who |-> r.who, space |-> r.space]
    BY <2>4
  <2> QED
    BY <2>2, <2>3, <2>5
<1> QED
  BY <1>1, <1>2 DEF AccessStep

LEMMA AuthorityNextOK ==
    ASSUME Named, [AuthorityNext]_authorityVars
    PROVE  Named' /\ (AccessStep \/ UNCHANGED authorityVars)
<1>1. CASE UNCHANGED authorityVars
  BY <1>1 DEF authorityVars, Named, TokenNames, RequestNames
<1>2. ASSUME NEW i \in Identities, NEW s \in Spaces,
             (\E p \in {{CanRead}, {CanRead, CanWrite}} : ProvisionActor(i, s, p))
             \/ Deactivate(i, s)
      PROVE  Named' /\ AccessStep
  <2>1. UNCHANGED <<token, request, rows, objects>> /\ answer' = {}
    BY <1>2 DEF ProvisionActor, Deactivate
  <2> QED
    BY <2>1, NothingSaid DEF Named, TokenNames, RequestNames
<1>3. ASSUME NEW i \in Identities, NEW s \in Spaces, IssueScoped(i, s)
      PROVE  Named' /\ AccessStep
  <2>1. PICK t : t = [use |-> "user", space |-> s, age |-> 0]
    OBVIOUS
  <2>2. DOMAIN t = {"use", "space", "age"} /\ t.space = s
    BY <2>1
  <2>3. token' = [token EXCEPT ![i] = t] /\ UNCHANGED <<request, rows, objects>> /\ answer' = {}
    BY <1>3, <2>1 DEF IssueScoped
  <2> QED
    BY <2>2, <2>3, TokenAnew, NothingSaid
<1>4. ASSUME NEW i \in Identities, TokenAges(i)
      PROVE  Named' /\ AccessStep
  <2>1. PICK t : t = [token[i] EXCEPT !.age = @ + 1]
    OBVIOUS
  <2>2. DOMAIN t = {"use", "space", "age"} /\ t.use = token[i].use /\ t.space = token[i].space
    BY <2>1 DEF Named
  <2>3. token' = [token EXCEPT ![i] = t] /\ UNCHANGED <<request, rows, objects>> /\ answer' = {}
    BY <1>4, <2>1 DEF TokenAges
  <2>4. t.use = "user" => t.space \in Spaces
    BY <2>2 DEF Named, TokenNames
  <2> QED
    BY <2>2, <2>3, <2>4, TokenAnew, NothingSaid
<1>5. ASSUME NEW q \in ApiRequests, NEW i \in Identities,
             ActorForRequest(q, i) \/ AuthenticateAgent(q, i)
      PROVE  Named' /\ AccessStep
  BY <1>5, EntersNamed, NothingSaid
<1> QED
  BY <1>1, <1>2, <1>3, <1>4, <1>5, ServeProductOK, CreateObjectOK, ReadObjectsOK, WorkerActsOK
     DEF AuthorityNext

\* Whoever writes or reads a row or an object is at that moment an active member with
\* the permission, and nobody reads what another identity owns (AccessIsCurrent).
THEOREM AccessIsCurrentHolds == AuthoritySpec => AccessIsCurrent
<1>1. Named /\ [AuthorityNext]_authorityVars => [AccessStep]_authorityVars
  BY AuthorityNextOK
<1>2. Named /\ [AuthorityNext]_authorityVars => Named'
  BY AuthorityNextOK
<1>3. AuthoritySpec => [][AccessStep]_authorityVars
  BY NamedInit, <1>1, <1>2, PTL DEF AuthoritySpec
<1> QED
  BY <1>3 DEF AccessStep, AccessIsCurrent

-----------------------------------------------------------------------------
(***************************************************************************)
(* What a review card tells of an answer is true and final, for every      *)
(* number of attempts, list answers and mounts of the card.                *)
(*                                                                         *)
(* A key stands for one answer (OneAnswer), also on the card (CardKeeps),  *)
(* whose promise is the newest call (Promised).  The pause takes a key     *)
(* once and is then no longer pending (Recorded), so an accepted call has  *)
(* that key and a refused one never gets it (Told).                        *)
(***************************************************************************)
RowStatuses == {"pending", "responding", "resolved", "closed"}
Shown == RowStatuses \cup {"absent", "none"}
Phases == {"idle", "submitting", "accepted", "conflict", "network_error"}
DecideCall ==
    [response: Decisions, key: Nat, at: {"sent", "accepted", "conflict", "receipt"},
     heard: BOOLEAN, mounted: BOOLEAN, status: RowStatuses \cup {"none"}]

DecisionTypeOK ==
    /\ reviewRow \in [status: RowStatuses, due: BOOLEAN, response: Decisions \cup {"none"},
                      key: Nat]
    /\ card \in [shown: Shown, phase: Phases, sent: Decisions \cup {"none"}, key: Nat,
                 unmounts: Nat]
    /\ listsAway \in Seq(Shown)
    /\ decideCalls \in Seq(DecideCall)

Calls == DOMAIN decideCalls
\* no answer can be recorded any more
Closed == reviewRow.key # NoKey \/ reviewRow.due \/ reviewRow.status # "pending"

OneAnswer ==
    /\ \A n \in Calls : decideCalls[n].key \in 1..Len(decideCalls)
    /\ \A m, n \in Calls : decideCalls[m].key = decideCalls[n].key
                              => decideCalls[m].response = decideCalls[n].response
CardKeeps ==
    card.sent # "none" =>
        /\ card.key \in 1..Len(decideCalls)
        /\ \A n \in Calls : decideCalls[n].key = card.key => decideCalls[n].response = card.sent
        /\ card.key = reviewRow.key => card.sent = reviewRow.response
Promised ==
    \A n \in Calls : decideCalls[n].heard /\ decideCalls[n].mounted =>
        /\ n = Len(decideCalls) /\ card.phase = "submitting"
        /\ card.key = decideCalls[n].key /\ card.sent = decideCalls[n].response
Recorded ==
    /\ reviewRow.key \in 0..Len(decideCalls)
    /\ reviewRow.key # NoKey => reviewRow.status # "pending"
    /\ \A n \in Calls : decideCalls[n].key = reviewRow.key
                           => decideCalls[n].response = reviewRow.response
Told ==
    /\ \A n \in Calls :
          /\ decideCalls[n].at \in {"accepted", "receipt"} => decideCalls[n].key = reviewRow.key
          /\ decideCalls[n].at = "conflict" => decideCalls[n].key # reviewRow.key /\ Closed
    /\ card.phase = "accepted" => card.sent # "none" /\ card.key = reviewRow.key
    /\ card.phase = "conflict" => card.key # reviewRow.key /\ Closed

DecisionInv ==
    DecisionTypeOK /\ OneAnswer /\ CardKeeps /\ Promised /\ Recorded /\ Told

LEMMA DecisionInitInv == InboxDecisionInit => DecisionInv
<1> SUFFICES ASSUME InboxDecisionInit PROVE DecisionInv
  OBVIOUS
<1>1. DecisionTypeOK /\ Len(decideCalls) = 0 /\ Calls = {}
  BY DEF InboxDecisionInit, DecisionTypeOK, RowStatuses, Shown, Phases, IdleCard, NoKey, Calls
<1> QED
  BY <1>1 DEF DecisionInv, OneAnswer, CardKeeps, Promised, Recorded, Told, InboxDecisionInit,
     IdleCard, NoKey

LEMMA DecisionHonest == DecisionInv => AnswerTold
  BY InboxDecisionAssumption DEF DecisionInv, Told, CardKeeps, AnswerTold, Calls

\* One call is written.
LEMMA CallWritten ==
    ASSUME DecisionTypeOK, NEW n \in Calls, NEW c \in DecideCall,
           decideCalls' = [decideCalls EXCEPT ![n] = c]
    PROVE  /\ decideCalls' \in Seq(DecideCall) /\ Len(decideCalls') = Len(decideCalls)
           /\ Calls' = Calls
           /\ \A m \in Calls : decideCalls'[m] = IF m = n THEN c ELSE decideCalls[m]
           /\ decideCalls[n] \in DecideCall
<1> USE DEF DecisionTypeOK, Calls
<1>1. DOMAIN decideCalls = 1..Len(decideCalls) /\ Len(decideCalls) \in Nat
  OBVIOUS
<1>2. \A m \in Calls : decideCalls[m] \in DecideCall
  BY <1>1
<1>3. \A m \in Calls : decideCalls'[m] = IF m = n THEN c ELSE decideCalls[m]
  OBVIOUS
<1>4. decideCalls' \in [1..Len(decideCalls) -> DecideCall]
  BY <1>1, <1>2
<1> QED
  BY <1>1, <1>2, <1>3, <1>4

\* The service moves the pause on, its answer stays what it is.
LEMMA ReviewMoves ==
    ASSUME DecisionInv, NEW r, r \in [status: RowStatuses, due: BOOLEAN,
                                      response: Decisions \cup {"none"}, key: Nat],
           r.key = reviewRow.key, r.response = reviewRow.response,
           r.status = "pending" => reviewRow.status = "pending",
           reviewRow.due => r.due,
           reviewRow' = r, UNCHANGED <<card, listsAway, decideCalls>>
    PROVE  DecisionInv'
<1>1. DecisionTypeOK' /\ Calls' = Calls
  BY DEF DecisionInv, DecisionTypeOK, Calls
<1>2. Closed => Closed'
  BY DEF Closed
<1> QED
  BY <1>1, <1>2 DEF DecisionInv, OneAnswer, CardKeeps, Promised, Recorded, Told

\* The card shows something else; its phase, key and answer stay.
LEMMA CardShows ==
    ASSUME DecisionInv, NEW s \in Shown, card' = [card EXCEPT !.shown = s],
           listsAway' \in Seq(Shown), UNCHANGED <<reviewRow, decideCalls>>
    PROVE  DecisionInv'
<1>1. /\ card' \in [shown: Shown, phase: Phases, sent: Decisions \cup {"none"}, key: Nat,
                    unmounts: Nat]
      /\ card'.phase = card.phase /\ card'.sent = card.sent /\ card'.key = card.key
  BY DEF DecisionInv, DecisionTypeOK
<1>2. DecisionTypeOK' /\ Calls' = Calls /\ Closed' = Closed
  BY <1>1 DEF DecisionInv, DecisionTypeOK, Calls, Closed
<1> QED
  BY <1>1, <1>2 DEF DecisionInv, OneAnswer, CardKeeps, Promised, Recorded, Told

LEMMA ListsMove ==
    ASSUME DecisionInv, listsAway' \in Seq(Shown), UNCHANGED <<reviewRow, card, decideCalls>>
    PROVE  DecisionInv'
<1>1. DecisionTypeOK' /\ Calls' = Calls /\ Closed' = Closed
  BY DEF DecisionInv, DecisionTypeOK, Calls, Closed
<1> QED
  BY <1>1 DEF DecisionInv, OneAnswer, CardKeeps, Promised, Recorded, Told

\* A card that is unmounted forgets; the calls under way no longer reach it.
LEMMA Unmounts ==
    ASSUME DecisionInv, CardUnmounted, listsAway' \in Seq(Shown), UNCHANGED reviewRow
    PROVE  DecisionInv'
<1>1. /\ card'.phase = "idle" /\ card'.sent = "none"
      /\ card' \in [shown: Shown, phase: Phases, sent: Decisions \cup {"none"}, key: Nat,
                    unmounts: Nat]
  <2>1. card.unmounts + 1 \in Nat
    BY DEF DecisionInv, DecisionTypeOK
  <2>2. PICK u \in Nat : u = card.unmounts + 1
    BY <2>1
  <2>3. card' = [IdleCard EXCEPT !.unmounts = u]
    BY <2>2 DEF CardUnmounted
  <2> QED
    BY <2>3 DEF IdleCard, NoKey, Shown, Phases
<1>2. /\ Calls' = Calls /\ decideCalls' \in Seq(DecideCall) /\ Len(decideCalls') = Len(decideCalls)
      /\ \A n \in Calls :
            /\ decideCalls'[n].key = decideCalls[n].key /\ decideCalls'[n].at = decideCalls[n].at
            /\ decideCalls'[n].response = decideCalls[n].response
            /\ decideCalls'[n].mounted = FALSE
  <2>1. Calls = 1..Len(decideCalls) /\ Len(decideCalls) \in Nat
        /\ \A n \in Calls : decideCalls[n] \in DecideCall
    BY DEF DecisionInv, DecisionTypeOK, Calls
  <2>2. decideCalls' = [n \in Calls |-> [decideCalls[n] EXCEPT !.mounted = FALSE]]
    BY DEF CardUnmounted, Calls
  <2>3. \A n \in Calls : [decideCalls[n] EXCEPT !.mounted = FALSE] \in DecideCall
    BY <2>1 DEF DecideCall
  <2>4. decideCalls' \in [1..Len(decideCalls) -> DecideCall]
    BY <2>1, <2>2, <2>3
  <2>5. decideCalls' \in Seq(DecideCall) /\ Len(decideCalls') = Len(decideCalls)
    BY <2>1, <2>4
  <2>6. Calls' = Calls
    BY <2>2 DEF Calls
  <2> QED
    BY <2>1, <2>2, <2>5, <2>6 DEF DecideCall
<1>3. DecisionTypeOK'
  BY <1>1, <1>2 DEF DecisionInv, DecisionTypeOK
<1>4. Closed' = Closed
  BY DEF Closed
<1>5. OneAnswer'
  BY <1>2 DEF DecisionInv, OneAnswer
<1>6. CardKeeps' /\ Promised'
  BY <1>1, <1>2 DEF CardKeeps, Promised
<1>7. Recorded'
  BY <1>2 DEF DecisionInv, Recorded
<1>8. Told'
  BY <1>1, <1>2, <1>4 DEF DecisionInv, Told
<1> QED
  BY <1>3, <1>5, <1>6, <1>7, <1>8 DEF DecisionInv

LEMMA DecideKeeps ==
    ASSUME DecisionInv, NEW decision \in Decisions, Decide(decision)
    PROVE  DecisionInv'
<1> DEFINE n == Len(decideCalls)
           k == DecisionKey(decision)
           c == [response |-> decision, key |-> k, at |-> "sent", heard |-> TRUE,
                 mounted |-> TRUE, status |-> "none"]
<1>1. /\ decideCalls \in Seq(DecideCall) /\ n \in Nat /\ Calls = 1..n
      /\ \A m \in Calls : decideCalls[m] \in DecideCall
      /\ card.key \in Nat
  BY DEF DecisionInv, DecisionTypeOK, Calls
<1>2. \/ k = n + 1
      \/ k = card.key /\ card.sent = decision
  BY DEF DecisionKey
<1>3. k \in 1..(n + 1) /\ (k # n + 1 => k = card.key /\ card.sent = decision)
  BY <1>1, <1>2, InboxDecisionAssumption DEF DecisionInv, CardKeeps
<1>4. /\ c \in DecideCall /\ c.response = decision /\ c.key = k /\ c.at = "sent"
      /\ c.heard = TRUE /\ c.mounted = TRUE
  BY <1>3, <1>1 DEF DecideCall
<1>5. /\ card' = [card EXCEPT !.phase = "submitting", !.sent = decision, !.key = k]
      /\ decideCalls' = Append(decideCalls, c) /\ UNCHANGED <<reviewRow, listsAway>>
      /\ card.phase \in {"idle", "network_error"}
  BY DEF Decide, CardOpen
<1> HIDE DEF k, c
<1>6. /\ decideCalls' \in Seq(DecideCall) /\ Len(decideCalls') = n + 1 /\ Calls' = 1..(n + 1)
      /\ \A m \in 1..(n + 1) : decideCalls'[m] = IF m = n + 1 THEN c ELSE decideCalls[m]
  BY <1>1, <1>4, <1>5 DEF Calls
<1>16. PICK j \in Nat : j = k
  BY <1>1, <1>3
<1>7. /\ card' \in [shown: Shown, phase: Phases, sent: Decisions \cup {"none"}, key: Nat,
                    unmounts: Nat]
      /\ card'.phase = "submitting" /\ card'.sent = decision /\ card'.key = k
  <2>1. card' = [card EXCEPT !.phase = "submitting", !.sent = decision, !.key = j]
    BY <1>5, <1>16
  <2> QED
    BY <1>16, <2>1 DEF DecisionInv, DecisionTypeOK, Phases
<1>8. DecisionTypeOK' /\ Closed' = Closed
  BY <1>5, <1>6, <1>7 DEF DecisionInv, DecisionTypeOK, Closed
<1>9. \A m \in Calls : decideCalls[m].key = k => decideCalls[m].response = decision
  <2> SUFFICES ASSUME NEW m \in Calls, decideCalls[m].key = k
               PROVE  decideCalls[m].response = decision
    OBVIOUS
  <2>1. decideCalls[m].key \in 1..n
    BY DEF DecisionInv, OneAnswer
  <2>2. k = card.key /\ card.sent = decision
    BY <1>1, <1>3, <2>1
  <2> QED
    BY <2>2, InboxDecisionAssumption DEF DecisionInv, CardKeeps
<1>10. k = reviewRow.key => decision = reviewRow.response
  <2> SUFFICES ASSUME k = reviewRow.key PROVE decision = reviewRow.response
    OBVIOUS
  <2>1. k \in 0..n
    BY DEF DecisionInv, Recorded
  <2>2. k = card.key /\ card.sent = decision
    BY <1>1, <1>3, <2>1
  <2> QED
    BY <2>2, InboxDecisionAssumption DEF DecisionInv, CardKeeps
<1>11. OneAnswer'
  <2>1. \A m \in 1..(n + 1) :
           /\ decideCalls'[m].key = IF m = n + 1 THEN k ELSE decideCalls[m].key
           /\ decideCalls'[m].response = IF m = n + 1 THEN decision ELSE decideCalls[m].response
    BY <1>4, <1>6
  <2>2. \A m \in 1..n : decideCalls[m].key \in 1..n
    BY <1>1 DEF DecisionInv, OneAnswer
  <2>3. \A m \in 1..(n + 1) : decideCalls'[m].key \in 1..(n + 1)
    BY <1>1, <1>3, <2>1, <2>2
  <2>4. ASSUME NEW m \in 1..(n + 1), NEW l \in 1..(n + 1),
               decideCalls'[m].key = decideCalls'[l].key
        PROVE  decideCalls'[m].response = decideCalls'[l].response
    <3>1. m = n + 1 \/ m \in Calls
      BY <1>1
    <3>2. l = n + 1 \/ l \in Calls
      BY <1>1
    <3>3. \A i \in Calls : i # n + 1
      BY <1>1
    <3>4. m \in Calls /\ l \in Calls => decideCalls'[m].response = decideCalls'[l].response
      BY <1>1, <2>1, <2>4, <3>3 DEF DecisionInv, OneAnswer
    <3> QED
      BY <1>9, <2>1, <2>4, <3>1, <3>2, <3>3, <3>4
  <2> QED
    BY <1>6, <2>3, <2>4 DEF OneAnswer
<1>12. CardKeeps'
  BY <1>1, <1>3, <1>4, <1>5, <1>6, <1>7, <1>9, <1>10 DEF DecisionInv, CardKeeps
<1>13. Promised'
  <2>1. \A m \in Calls : ~(decideCalls[m].heard /\ decideCalls[m].mounted)
    BY <1>5 DEF DecisionInv, Promised
  <2> QED
    BY <1>1, <1>4, <1>6, <1>7, <2>1 DEF Promised
<1>14. Recorded'
  BY <1>1, <1>4, <1>5, <1>6, <1>10 DEF DecisionInv, Recorded
<1>15. Told'
  BY <1>1, <1>4, <1>5, <1>6, <1>7, <1>8 DEF DecisionInv, Told
<1> QED
  BY <1>8, <1>11, <1>12, <1>13, <1>14, <1>15 DEF DecisionInv

\* A promise is settled: the card that made it says so, any other card says nothing.
LEMMA PromiseSettled ==
    ASSUME DecisionInv, NEW n \in Calls, decideCalls[n].heard, NEW p \in Phases,
           p # "submitting",
           p = "accepted" => decideCalls[n].at \in {"accepted", "receipt"},
           p = "conflict" => decideCalls[n].at = "conflict",
           card'.phase = PhaseSet(decideCalls[n], p).phase,
           card'.sent = card.sent, card'.key = card.key,
           card' \in [shown: Shown, phase: Phases, sent: Decisions \cup {"none"}, key: Nat,
                      unmounts: Nat],
           decideCalls' = [decideCalls EXCEPT ![n].heard = FALSE],
           UNCHANGED <<reviewRow, listsAway>>
    PROVE  DecisionInv'
<1> DEFINE c == [decideCalls[n] EXCEPT !.heard = FALSE]
<1>1. decideCalls[n] \in DecideCall
  BY DEF DecisionInv, DecisionTypeOK, Calls
<1>2. /\ c \in DecideCall /\ c.key = decideCalls[n].key /\ c.at = decideCalls[n].at
      /\ c.response = decideCalls[n].response /\ c.mounted = decideCalls[n].mounted
      /\ c.heard = FALSE
  BY <1>1 DEF DecideCall
<1>3. decideCalls' = [decideCalls EXCEPT ![n] = c]
  OBVIOUS
<1> HIDE DEF c
<1>4. /\ decideCalls' \in Seq(DecideCall) /\ Len(decideCalls') = Len(decideCalls)
      /\ Calls' = Calls
      /\ \A m \in Calls : decideCalls'[m] = IF m = n THEN c ELSE decideCalls[m]
  <2>1. DecisionTypeOK
    BY DEF DecisionInv
  <2>2. c \in DecideCall /\ decideCalls' = [decideCalls EXCEPT ![n] = c]
    BY <1>2, <1>3
  <2> QED
    BY <2>1, <2>2, CallWritten
<1>5. \A m \in Calls :
         /\ decideCalls'[m].key = decideCalls[m].key /\ decideCalls'[m].at = decideCalls[m].at
         /\ decideCalls'[m].response = decideCalls[m].response
         /\ decideCalls'[m].mounted = decideCalls[m].mounted
         /\ (m # n => decideCalls'[m].heard = decideCalls[m].heard)
         /\ (m = n => decideCalls'[m].heard = FALSE)
  BY <1>2, <1>4
<1>6. DecisionTypeOK' /\ Closed' = Closed
  BY <1>4 DEF DecisionInv, DecisionTypeOK, Closed
<1>7. card'.phase = IF decideCalls[n].mounted THEN p ELSE card.phase
  BY DEF PhaseSet, DecisionInv, DecisionTypeOK
<1>8. decideCalls[n].mounted =>
          card.key = decideCalls[n].key /\ card.sent = decideCalls[n].response
  BY DEF DecisionInv, Promised
<1>9. OneAnswer' /\ CardKeeps' /\ Recorded'
  BY <1>4, <1>5 DEF DecisionInv, OneAnswer, CardKeeps, Recorded
<1>10. Promised'
  <2> SUFFICES ASSUME NEW m \in Calls, decideCalls'[m].heard, decideCalls'[m].mounted
               PROVE  /\ m = Len(decideCalls') /\ card'.phase = "submitting"
                      /\ card'.key = decideCalls'[m].key
                      /\ card'.sent = decideCalls'[m].response
    BY <1>4 DEF Promised
  <2>1. m # n /\ decideCalls[m].heard /\ decideCalls[m].mounted
    BY <1>5
  <2>2. /\ m = Len(decideCalls)
        /\ card.phase = "submitting" /\ card.key = decideCalls[m].key
        /\ card.sent = decideCalls[m].response
    BY <2>1 DEF DecisionInv, Promised
  <2>3. ~decideCalls[n].mounted
    BY <2>1 DEF DecisionInv, Promised
  <2> QED
    BY <1>4, <1>5, <1>7, <2>2, <2>3
<1>11. decideCalls[n].response # "none"
  BY <1>1, InboxDecisionAssumption DEF DecideCall
<1>12. Told'
  BY <1>4, <1>5, <1>6, <1>7, <1>8, <1>11 DEF DecisionInv, Told
<1> QED
  BY <1>6, <1>9, <1>10, <1>12 DEF DecisionInv

LEMMA AnswersKeep ==
    ASSUME DecisionInv, NEW n \in Calls, DecideAnswered(n) \/ DecideLost(n)
    PROVE  DecisionInv'
<1>1. decideCalls[n] \in DecideCall
  BY DEF DecisionInv, DecisionTypeOK, Calls
<1>2. \A p \in Phases :
         /\ PhaseSet(decideCalls[n], p) \in
               [shown: Shown, phase: Phases, sent: Decisions \cup {"none"}, key: Nat, unmounts: Nat]
         /\ PhaseSet(decideCalls[n], p).sent = card.sent
         /\ PhaseSet(decideCalls[n], p).key = card.key
  BY <1>1 DEF PhaseSet, DecisionInv, DecisionTypeOK
<1>3. {"accepted", "conflict", "network_error"} \subseteq Phases
  BY DEF Phases
<1>4. CASE DecideLost(n)
  <2>1. card' = PhaseSet(decideCalls[n], "network_error")
    BY <1>4 DEF DecideLost
  <2> QED
    BY <1>2, <1>3, <1>4, <2>1, PromiseSettled DEF DecideLost
<1>5. CASE DecideAnswered(n) /\ decideCalls[n].at = "conflict"
  <2>1. card' = PhaseSet(decideCalls[n], "conflict")
    BY <1>5 DEF DecideAnswered
  <2> QED
    BY <1>2, <1>3, <1>5, <2>1, PromiseSettled DEF DecideAnswered
<1>6. CASE DecideAnswered(n) /\ decideCalls[n].at = "receipt"
  <2>1. PICK d : d = PhaseSet(decideCalls[n], "accepted")
    OBVIOUS
  <2>2. PICK s \in Shown : s = IF d.shown = "absent" THEN d.shown ELSE decideCalls[n].status
    BY <1>1, <1>2, <1>3, <2>1 DEF DecideCall, Shown
  <2>3. card' = [d EXCEPT !.shown = s]
    BY <1>6, <2>1, <2>2 DEF DecideAnswered
  <2>4. d \in [shown: Shown, phase: Phases, sent: Decisions \cup {"none"}, key: Nat, unmounts: Nat]
        /\ d.sent = card.sent /\ d.key = card.key
    BY <1>2, <1>3, <2>1
  <2>5. /\ card' \in [shown: Shown, phase: Phases, sent: Decisions \cup {"none"}, key: Nat,
                      unmounts: Nat]
        /\ card'.phase = d.phase /\ card'.sent = d.sent /\ card'.key = d.key
    BY <2>3, <2>4
  <2>6. card'.phase = PhaseSet(decideCalls[n], "accepted").phase
    BY <2>1, <2>5
  <2> QED
    BY <1>3, <1>6, <2>4, <2>5, <2>6, PromiseSettled DEF DecideAnswered
<1> QED
  BY <1>4, <1>5, <1>6 DEF DecideAnswered

\* The service decides about a call: the pause takes its key, or the call is refused.
LEMMA RespondKeeps ==
    ASSUME DecisionInv, NEW n \in Calls, RespondInboxReview(n)
    PROVE  DecisionInv'
<1> DEFINE call == decideCalls[n]
<1>1. /\ call \in DecideCall /\ call.at = "sent" /\ call.key \in 1..Len(decideCalls)
      /\ Len(decideCalls) \in Nat
  BY DEF RespondInboxReview, DecisionInv, DecisionTypeOK, OneAnswer, Calls
<1>2. PICK a \in {"accepted", "conflict"} :
          a = IF AcceptsDecision(call) THEN "accepted" ELSE "conflict"
  OBVIOUS
<1> DEFINE c == [call EXCEPT !.at = a]
<1>3. /\ c \in DecideCall /\ c.key = call.key /\ c.response = call.response /\ c.at = a
      /\ c.heard = call.heard /\ c.mounted = call.mounted
  BY <1>1 DEF DecideCall
<1>4. decideCalls' = [decideCalls EXCEPT ![n] = c] /\ UNCHANGED <<card, listsAway>>
  BY <1>2 DEF RespondInboxReview
<1> HIDE DEF c
<1>5. /\ decideCalls' \in Seq(DecideCall) /\ Len(decideCalls') = Len(decideCalls)
      /\ Calls' = Calls
      /\ \A m \in Calls : decideCalls'[m] = IF m = n THEN c ELSE decideCalls[m]
  <2>1. DecisionTypeOK
    BY DEF DecisionInv
  <2>2. c \in DecideCall /\ decideCalls' = [decideCalls EXCEPT ![n] = c]
    BY <1>3, <1>4
  <2> QED
    BY <2>1, <2>2, CallWritten
<1>6. \A m \in Calls :
         /\ decideCalls'[m].key = decideCalls[m].key
         /\ decideCalls'[m].response = decideCalls[m].response
         /\ decideCalls'[m].heard = decideCalls[m].heard
         /\ decideCalls'[m].mounted = decideCalls[m].mounted
         /\ decideCalls'[m].at = IF m = n THEN a ELSE decideCalls[m].at
  BY <1>3, <1>5
<1>7. Promised' /\ OneAnswer'
  BY <1>4, <1>5, <1>6 DEF DecisionInv, Promised, OneAnswer
<1>8. CASE AcceptsDecision(call) /\ ~Replays(call)
  <2>1. /\ reviewRow.status = "pending" /\ ~reviewRow.due /\ call.key # reviewRow.key
        /\ a = "accepted" /\ reviewRow.key = NoKey
    BY <1>2, <1>8 DEF AcceptsDecision, Replays, DecisionInv, Recorded
  <2>2. PICK k \in 1..Len(decideCalls) : k = call.key
    BY <1>1
  <2>3. PICK v \in Decisions : v = call.response
    BY <1>1 DEF DecideCall
  <2>4. reviewRow' = [reviewRow EXCEPT !.status = "responding", !.key = k, !.response = v]
    BY <1>8, <2>2, <2>3 DEF RespondInboxReview
  <2>5. /\ reviewRow' \in [status: RowStatuses, due: BOOLEAN, response: Decisions \cup {"none"},
                           key: Nat]
        /\ reviewRow'.status = "responding" /\ reviewRow'.key = k /\ reviewRow'.response = v
    <3>1. k \in Nat /\ "responding" \in RowStatuses /\ v \in Decisions \cup {"none"}
      BY <1>1, <2>2 DEF RowStatuses
    <3>2. reviewRow \in [status: RowStatuses, due: BOOLEAN, response: Decisions \cup {"none"},
                         key: Nat]
      BY DEF DecisionInv, DecisionTypeOK
    <3> QED
      BY <2>4, <3>1, <3>2
  <2>6. DecisionTypeOK' /\ Closed'
    BY <1>4, <1>5, <2>5 DEF DecisionInv, DecisionTypeOK, Closed
  <2>7. \A m \in Calls : decideCalls[m].key = k => decideCalls[m].response = v
    BY <2>2, <2>3 DEF DecisionInv, OneAnswer
  <2>8. Recorded'
    BY <1>1, <1>5, <1>6, <2>2, <2>5, <2>7 DEF Recorded
  <2>9. CardKeeps'
    <3>1. card.sent # "none" /\ card.key = k => card.sent = v
      BY <2>2, <2>3 DEF DecisionInv, CardKeeps
    <3> QED
      BY <1>4, <1>5, <1>6, <2>5, <3>1 DEF DecisionInv, CardKeeps
  <2>10. ~Closed
    BY <2>1 DEF Closed
  <2>11. \A m \in Calls : decideCalls[m].at = "sent"
    <3>1. \A m \in Calls : decideCalls[m].key # NoKey
      BY DEF DecisionInv, OneAnswer, NoKey
    <3>2. \A m \in Calls : decideCalls[m] \in DecideCall
      BY DEF DecisionInv, DecisionTypeOK, Calls
    <3> QED
      BY <2>1, <2>10, <3>1, <3>2 DEF DecisionInv, Told, DecideCall
  <2>12. card.phase \notin {"accepted", "conflict"}
    BY <2>1, <2>10 DEF DecisionInv, Told, CardKeeps, NoKey
  <2>13. Told'
    BY <1>4, <1>5, <1>6, <2>1, <2>2, <2>5, <2>11, <2>12 DEF Told
  <2> QED
    BY <1>7, <2>6, <2>8, <2>9, <2>13 DEF DecisionInv
<1>9. CASE ~(AcceptsDecision(call) /\ ~Replays(call))
  <2>1. reviewRow' = reviewRow
    BY <1>9 DEF RespondInboxReview
  <2>2. DecisionTypeOK' /\ Closed' = Closed
    BY <1>4, <1>5, <2>1 DEF DecisionInv, DecisionTypeOK, Closed
  <2>3. a = "accepted" => call.key = reviewRow.key
    BY <1>2, <1>9 DEF Replays
  <2>4. a = "conflict" => call.key # reviewRow.key /\ Closed
    BY <1>2, <1>9 DEF AcceptsDecision, Replays, Closed
  <2>5. Recorded' /\ CardKeeps'
    BY <1>4, <1>5, <1>6, <2>1 DEF DecisionInv, Recorded, CardKeeps
  <2>6. Told'
    BY <1>2, <1>4, <1>5, <1>6, <2>1, <2>2, <2>3, <2>4 DEF DecisionInv, Told
  <2> QED
    BY <1>7, <2>2, <2>5, <2>6 DEF DecisionInv
<1> QED
  BY <1>8, <1>9

LEMMA ReadReceiptKeeps ==
    ASSUME DecisionInv, NEW n \in Calls, ReadReceipt(n)
    PROVE  DecisionInv'
<1> DEFINE call == decideCalls[n]
<1>1. call \in DecideCall /\ call.at = "accepted" /\ reviewRow.status \in RowStatuses
  BY DEF ReadReceipt, DecisionInv, DecisionTypeOK, Calls
<1>2. PICK s \in RowStatuses : s = reviewRow.status
  BY <1>1
<1> DEFINE c == [call EXCEPT !.at = "receipt", !.status = s]
<1>3. /\ c \in DecideCall /\ c.key = call.key /\ c.response = call.response /\ c.at = "receipt"
      /\ c.heard = call.heard /\ c.mounted = call.mounted
  BY <1>1 DEF DecideCall
<1>4. decideCalls' = [decideCalls EXCEPT ![n] = c] /\ UNCHANGED <<reviewRow, card, listsAway>>
  BY <1>2 DEF ReadReceipt
<1> HIDE DEF c
<1>5. /\ decideCalls' \in Seq(DecideCall) /\ Len(decideCalls') = Len(decideCalls)
      /\ Calls' = Calls
      /\ \A m \in Calls : decideCalls'[m] = IF m = n THEN c ELSE decideCalls[m]
  <2>1. DecisionTypeOK
    BY DEF DecisionInv
  <2>2. c \in DecideCall /\ decideCalls' = [decideCalls EXCEPT ![n] = c]
    BY <1>3, <1>4
  <2> QED
    BY <2>1, <2>2, CallWritten
<1>6. \A m \in Calls :
         /\ decideCalls'[m].key = decideCalls[m].key
         /\ decideCalls'[m].response = decideCalls[m].response
         /\ decideCalls'[m].heard = decideCalls[m].heard
         /\ decideCalls'[m].mounted = decideCalls[m].mounted
         /\ decideCalls'[m].at = IF m = n THEN "receipt" ELSE decideCalls[m].at
  BY <1>3, <1>5
<1>7. DecisionTypeOK' /\ Closed' = Closed
  BY <1>4, <1>5 DEF DecisionInv, DecisionTypeOK, Closed
<1>8. Promised' /\ OneAnswer' /\ CardKeeps' /\ Recorded'
  BY <1>4, <1>5, <1>6 DEF DecisionInv, Promised, OneAnswer, CardKeeps, Recorded
<1>9. Told'
  BY <1>1, <1>4, <1>5, <1>6, <1>7 DEF DecisionInv, Told
<1> QED
  BY <1>7, <1>8, <1>9 DEF DecisionInv

LEMMA ListKeeps ==
    ASSUME DecisionInv,
           ListReadsReview \/ LeaveList \/ (\E i \in DOMAIN listsAway : ListShowsReview(i))
    PROVE  DecisionInv'
<1>1. listsAway \in Seq(Shown) /\ reviewRow.status \in RowStatuses /\ card.shown \in Shown
  BY DEF DecisionInv, DecisionTypeOK
<1>2. CASE ListReadsReview
  <2>1. PICK s \in Shown : s = IF reviewRow.status \in {"pending", "responding"}
                               THEN reviewRow.status ELSE "absent"
    BY <1>1 DEF Shown
  <2>2. listsAway' = Append(listsAway, s) /\ UNCHANGED <<reviewRow, card, decideCalls>>
    BY <1>2, <2>1 DEF ListReadsReview
  <2> QED
    BY <1>1, <2>2, ListsMove
<1>3. CASE LeaveList
  BY <1>3, Unmounts DEF LeaveList
<1>4. ASSUME NEW i \in DOMAIN listsAway, ListShowsReview(i)
      PROVE  DecisionInv'
  <2>1. listsAway' \in Seq(Shown)
    <3> DEFINE front == SubSeq(listsAway, 1, i - 1)
               back == SubSeq(listsAway, i + 1, Len(listsAway))
    <3>1. i \in 1..Len(listsAway) /\ Len(listsAway) \in Nat
      BY <1>1, <1>4
    <3>2. front \in Seq(Shown) /\ back \in Seq(Shown)
      BY <1>1, <3>1, SubSeqProperties
    <3>3. listsAway' = front \o back
      BY <1>4 DEF ListShowsReview, RemoveAt
    <3> HIDE DEF front, back
    <3> QED
      BY <3>2, <3>3, ConcatProperties
  <2>2. listsAway[i] \in Shown
    BY <1>1, <1>4
  <2>3. CASE CardUnmounted
    BY <1>4, <2>1, <2>3, Unmounts DEF ListShowsReview
  <2>4. CASE UNCHANGED <<card, decideCalls>>
    BY <1>4, <2>1, <2>4, ListsMove DEF ListShowsReview
  <2>5. CASE card' = [card EXCEPT !.shown = listsAway[i]] /\ UNCHANGED decideCalls
    <3>1. PICK s \in Shown : s = listsAway[i]
      BY <2>2
    <3>2. card' = [card EXCEPT !.shown = s]
      BY <2>5, <3>1
    <3> QED
      BY <1>4, <2>1, <2>5, <3>2, CardShows DEF ListShowsReview
  <2> QED
    BY <1>4, <2>3, <2>4, <2>5 DEF ListShowsReview
<1> QED
  BY <1>2, <1>3, <1>4

LEMMA RowKeeps ==
    ASSUME DecisionInv, DeadlinePasses \/ ReviewEnds
    PROVE  DecisionInv'
<1> DEFINE Row == [status: RowStatuses, due: BOOLEAN, response: Decisions \cup {"none"}, key: Nat]
<1>1. reviewRow \in Row
  BY DEF DecisionInv, DecisionTypeOK
<1>2. CASE DeadlinePasses
  <2>1. PICK r : r = [reviewRow EXCEPT !.due = TRUE]
    OBVIOUS
  <2>2. r \in Row /\ r.key = reviewRow.key /\ r.response = reviewRow.response
        /\ r.status = reviewRow.status /\ r.due = TRUE
    BY <1>1, <2>1
  <2>3. reviewRow' = r /\ UNCHANGED <<card, listsAway, decideCalls>>
    BY <1>2, <2>1 DEF DeadlinePasses
  <2> QED
    BY <2>2, <2>3, ReviewMoves
<1>3. CASE ReviewEnds
  <2>1. PICK s \in {"closed", "resolved"} : reviewRow' = [reviewRow EXCEPT !.status = s]
    BY <1>3 DEF ReviewEnds
  <2>2. PICK r : r = [reviewRow EXCEPT !.status = s]
    OBVIOUS
  <2>3. r \in Row /\ r.key = reviewRow.key /\ r.response = reviewRow.response
        /\ r.status # "pending" /\ r.due = reviewRow.due
    BY <1>1, <2>2 DEF RowStatuses
  <2>4. reviewRow' = r /\ UNCHANGED <<card, listsAway, decideCalls>>
    BY <1>3, <2>1, <2>2 DEF ReviewEnds
  <2> QED
    BY <2>3, <2>4, ReviewMoves
<1> QED
  BY <1>2, <1>3

LEMMA DecisionNextInv ==
    ASSUME DecisionInv, [InboxDecisionNext]_decisionVars
    PROVE  DecisionInv'
<1>1. CASE UNCHANGED decisionVars
  <2>1. listsAway' \in Seq(Shown) /\ UNCHANGED <<reviewRow, card, decideCalls>>
    BY <1>1 DEF decisionVars, DecisionInv, DecisionTypeOK
  <2> QED
    BY <2>1, ListsMove
<1> QED
  BY <1>1, DecideKeeps, RespondKeeps, ReadReceiptKeeps, AnswersKeep, ListKeeps, RowKeeps
     DEF InboxDecisionNext, Calls

\* "Accepted" on a card means that this very answer is recorded, "conflict" that it never
\* will be, and the accepted attempts at a review carry one key (AnswerTold).
THEOREM AnswerToldHolds == InboxDecisionSpec => []AnswerTold
<1> QED
  BY DecisionInitInv, DecisionNextInv, DecisionHonest, PTL DEF InboxDecisionSpec

-----------------------------------------------------------------------------
(***************************************************************************)
(* The inbox is whole: every page the service answers is the next stretch  *)
(* of one order, and the answer the page waits for is the continuation of  *)
(* what it shows.                                                          *)
(***************************************************************************)
ReviewStatuses == {"none", "pending", "responding", "resolved", "closed"}
Cursors == [filter: Filters, after: Reviews] \cup {NoCursor}
ListCalls ==
    [kind: AllKinds, filter: Filters, cursor: Cursors, limit: Nat \ {0},
     at: {"sent", "paused", "answered", "failed"}, awaited: BOOLEAN, found: Seq(Reviews),
     statuses: Seq(ReviewStatuses), next: Cursors, matching: SUBSET Reviews]
InboxStates ==
    [filter: Filters, items: Seq(Reviews), cursor: Cursors, loading: BOOLEAN,
     loadingMore: BOOLEAN, error: BOOLEAN, pageError: BOOLEAN, history: Seq(Filters),
     moves: Nat, wentBack: BOOLEAN, steady: SUBSET Reviews]
ListSlots == 1..MaxListCalls

InboxTypeOK ==
    /\ reviews \in [Reviews -> ReviewStatuses]
    /\ inbox \in InboxStates
    /\ listCalls \in [ListSlots -> ListCalls \cup {NoListCall}]

\* A page in order, that holds all it must but what comes after its last review
\* when a cursor says that more follows.
Whole(page, next, must) ==
    /\ NewestFirst(page)
    /\ next # NoCursor => page # << >> /\ next.after = Last(page)
    /\ \A p \in must : p \in Range(page) \/ (next # NoCursor /\ Newer(Last(page), p))

\* What a request has read: the continuation of its cursor.
CallSound(call) ==
    /\ call.kind # "more" => call.cursor = NoCursor
    /\ call.at \in {"paused", "answered"} =>
          /\ Whole(call.found, call.next,
                   {p \in call.matching : BeyondCursor(p, call.cursor)})
          /\ \A i \in DOMAIN call.found : BeyondCursor(call.found[i], call.cursor)

\* A further page is asked for at the end of what is shown, and nothing else is
\* awaited beside it, nor beside a first page.
CallInTurn(c) ==
    /\ listCalls[c].kind \in {"first", "more"} =>
          \A d \in ListSlots : (listCalls[d] # NoListCall /\ listCalls[d].awaited) => d = c
    /\ listCalls[c].kind = "first" => inbox.loading
    /\ listCalls[c].kind = "more" =>
          /\ ~inbox.loading /\ inbox.loadingMore
          /\ inbox.cursor # NoCursor /\ listCalls[c].cursor = inbox.cursor

CallsSound == \A c \in ListSlots : listCalls[c] # NoListCall => CallSound(listCalls[c])
CallsInTurn ==
    ~inbox.wentBack =>
        \A c \in ListSlots : listCalls[c] # NoListCall /\ listCalls[c].awaited => CallInTurn(c)
ShownWhole == ~inbox.wentBack => Whole(inbox.items, inbox.cursor, inbox.steady)

InboxInv == InboxTypeOK /\ CallsSound /\ CallsInTurn /\ ShownWhole

LEMMA NewerOrder ==
    ASSUME NEW p \in Reviews, NEW q \in Reviews, NEW o \in Reviews
    PROVE  /\ ~Newer(p, p)
           /\ Newer(p, q) /\ Newer(q, o) => Newer(p, o)
<1>1. {p, q, o} \subseteq Nat /\ {CreatedAt[p], CreatedAt[q], CreatedAt[o]} \subseteq Nat
  BY InboxAssumption
<1> QED
  BY <1>1 DEF Newer

LEMMA NoCursorIsNone ==
    ASSUME NEW f \in Filters, NEW p
    PROVE  [filter |-> f, after |-> p] # NoCursor
BY DEF Filters, NoCursor

LEMMA WholeIsInjective ==
    ASSUME NEW page \in Seq(Reviews), NewestFirst(page)
    PROVE  IsInjective(page)
<1> SUFFICES ASSUME NEW i \in DOMAIN page, NEW j \in DOMAIN page, page[i] = page[j], i # j
             PROVE  FALSE
  BY DEF IsInjective
<1>1. i \in Nat /\ j \in Nat /\ page[i] \in Reviews /\ page[j] \in Reviews
  OBVIOUS
<1>2. Newer(page[i], page[j]) \/ Newer(page[j], page[i])
  BY <1>1 DEF NewestFirst
<1> QED
  BY <1>1, <1>2, NewerOrder

\* A page of a query is a sequence of its rows, in order, and misses only
\* rows that follow its last one.
LEMMA PageFacts ==
    ASSUME NEW listed \in SUBSET Reviews, NEW limit \in Nat \ {0}, NEW page \in PagesOf(listed, limit)
    PROVE  /\ page \in Seq(Reviews) /\ page \in Seq(listed) /\ NewestFirst(page)
           /\ Range(page) \subseteq listed
           /\ ~(listed \subseteq Range(page)) => page # << >> /\ Last(page) \in Reviews
           /\ \A p \in listed : p \in Range(page) \/ Newer(Last(page), p)
<1>1. PICK n \in 0..limit : page \in [1..n -> listed]
  BY DEF PagesOf
<1>2. page \in Seq(listed) /\ Len(page) = n
  BY <1>1, SeqDef
<1>3. page \in Seq(Reviews)
  BY <1>2, SeqMonotonic
<1>4. IsPage(page, listed, limit)
  BY DEF PagesOf
<1>5. Range(page) \subseteq listed
  BY <1>1 DEF Range
<1>6. ~(listed \subseteq Range(page)) => page # << >> /\ Last(page) \in Reviews
  <2>1. ~(listed \subseteq Range(page)) => Len(page) \in 1..limit
    BY <1>4 DEF IsPage
  <2> QED
    BY <2>1, <1>3 DEF Last
<1> QED
  BY <1>2, <1>3, <1>4, <1>5, <1>6 DEF IsPage

\* The pages of a keyset cursor join.
LEMMA PagesJoin ==
    ASSUME NEW page \in Seq(Reviews), NEW found \in Seq(Reviews),
           NewestFirst(page), NewestFirst(found), page # << >>,
           \A i \in DOMAIN found : Newer(Last(page), found[i])
    PROVE  /\ NewestFirst(page \o found)
           /\ Range(page \o found) = Range(page) \cup Range(found)
           /\ found # << >> => Last(page \o found) = Last(found)
           /\ page \o found \in Seq(Reviews) /\ page \o found # << >>
<1> DEFINE all == page \o found
<1>1. /\ all \in Seq(Reviews) /\ Len(all) = Len(page) + Len(found)
      /\ \A i \in 1..Len(all) : all[i] = IF i <= Len(page) THEN page[i] ELSE found[i - Len(page)]
  BY ConcatProperties
<1>2. /\ Len(page) \in Nat \ {0} /\ Len(found) \in Nat
      /\ DOMAIN page = 1..Len(page) /\ DOMAIN found = 1..Len(found) /\ DOMAIN all = 1..Len(all)
      /\ Last(page) = page[Len(page)] /\ Last(page) \in Reviews
  BY <1>1, EmptySeq, LenProperties DEF Last
<1>3. \A i \in DOMAIN page, j \in DOMAIN found : Newer(page[i], found[j])
  <2> SUFFICES ASSUME NEW i \in DOMAIN page, NEW j \in DOMAIN found
               PROVE  Newer(page[i], found[j])
    OBVIOUS
  <2>1. page[i] \in Reviews /\ found[j] \in Reviews
    BY <1>2
  <2>2. i = Len(page) \/ Newer(page[i], Last(page))
    BY <1>2 DEF NewestFirst
  <2> QED
    BY <1>2, <2>1, <2>2, NewerOrder
<1>4. NewestFirst(all)
  <2> SUFFICES ASSUME NEW i \in DOMAIN all, NEW j \in DOMAIN all, i < j
               PROVE  Newer(all[i], all[j])
    BY DEF NewestFirst
  <2>1. CASE j <= Len(page)
    <3>1. i \in DOMAIN page /\ j \in DOMAIN page /\ all[i] = page[i] /\ all[j] = page[j]
      BY <1>1, <1>2, <2>1
    <3> QED
      BY <3>1 DEF NewestFirst
  <2>2. CASE i > Len(page)
    <3>1. /\ i - Len(page) \in DOMAIN found /\ j - Len(page) \in DOMAIN found
          /\ i - Len(page) < j - Len(page)
          /\ all[i] = found[i - Len(page)] /\ all[j] = found[j - Len(page)]
      BY <1>1, <1>2, <2>2
    <3> QED
      BY <3>1 DEF NewestFirst
  <2>3. CASE i <= Len(page) /\ j > Len(page)
    <3>1. /\ i \in DOMAIN page /\ j - Len(page) \in DOMAIN found
          /\ all[i] = page[i] /\ all[j] = found[j - Len(page)]
      BY <1>1, <1>2, <2>3
    <3> QED
      BY <3>1, <1>3
  <2> QED
    BY <1>2, <2>1, <2>2, <2>3
<1>5. Range(all) = Range(page) \cup Range(found)
  <2>1. \A i \in DOMAIN page : i \in DOMAIN all /\ all[i] = page[i]
    BY <1>1, <1>2
  <2>2. \A i \in DOMAIN found : i + Len(page) \in DOMAIN all /\ all[i + Len(page)] = found[i]
    BY <1>1, <1>2
  <2>3. \A i \in DOMAIN all : \/ i \in DOMAIN page /\ all[i] = page[i]
                              \/ i - Len(page) \in DOMAIN found /\ all[i] = found[i - Len(page)]
    BY <1>1, <1>2
  <2>4. \A v \in Range(all) : v \in Range(page) \cup Range(found)
    BY <2>3 DEF Range
  <2>5. \A v \in Range(page) \cup Range(found) : v \in Range(all)
    BY <2>1, <2>2 DEF Range
  <2> QED
    BY <2>4, <2>5
<1>6. found # << >> => Last(all) = Last(found)
  <2>1. found # << >> => Len(found) \in Nat \ {0}
    BY EmptySeq
  <2> QED
    BY <1>1, <1>2, <2>1 DEF Last
<1> QED
  BY <1>1, <1>2, <1>4, <1>5, <1>6

\* What is shown and the page that continues it are whole together.
LEMMA WholeJoins ==
    ASSUME NEW page \in Seq(Reviews), NEW found \in Seq(Reviews), NEW cursor \in Cursors,
           NEW next \in Cursors, NEW must \in SUBSET Reviews, NEW matching \in SUBSET Reviews,
           Whole(page, cursor, must), cursor # NoCursor,
           Whole(found, next, {p \in matching : BeyondCursor(p, cursor)}),
           \A i \in DOMAIN found : BeyondCursor(found[i], cursor)
    PROVE  Whole(page \o found, next, must \cap matching)
<1>1. page # << >> /\ cursor.after = Last(page) /\ NewestFirst(page) /\ NewestFirst(found)
  BY DEF Whole
<1>2. /\ NewestFirst(page \o found) /\ Range(page \o found) = Range(page) \cup Range(found)
      /\ found # << >> => Last(page \o found) = Last(found)
      /\ page \o found # << >>
  BY <1>1, PagesJoin DEF BeyondCursor
<1>3. next # NoCursor => next.after = Last(page \o found)
  BY <1>2 DEF Whole
<1>4. \A p \in must \cap matching :
         p \in Range(page \o found) \/ (next # NoCursor /\ Newer(Last(page \o found), p))
  <2> TAKE p \in must \cap matching
  <2>1. p \in Range(page) \/ Newer(cursor.after, p)
    BY <1>1 DEF Whole
  <2>2. Newer(cursor.after, p) => p \in Range(found) \/ (next # NoCursor /\ Newer(Last(found), p))
    BY DEF Whole, BeyondCursor
  <2>3. next # NoCursor => found # << >>
    BY DEF Whole
  <2> QED
    BY <1>2, <2>1, <2>2, <2>3
<1> QED
  BY <1>2, <1>3, <1>4 DEF Whole

-----------------------------------------------------------------------------
LEMMA InboxInitInv == InboxInit => InboxInv
<1> SUFFICES ASSUME InboxInit PROVE InboxInv
  OBVIOUS
<1>1. FirstPage("active") \in ListCalls /\ FirstPage("active") # NoListCall
  BY InboxAssumption, EmptySeq DEF FirstPage, ListCall, ListCalls, NoListCall, Filters, Cursors, AllKinds
<1>2. /\ FirstPage("active").kind = "first" /\ FirstPage("active").at = "sent"
      /\ FirstPage("active").cursor = NoCursor
  BY DEF FirstPage, ListCall
<1>3. /\ reviews \in [Reviews -> ReviewStatuses]
      /\ listCalls \in [ListSlots -> ListCalls \cup {NoListCall}]
  BY <1>1 DEF InboxInit, ReviewStatuses, ListSlots
<1>4. inbox \in InboxStates
  BY EmptySeq DEF InboxInit, InboxStates, Filters, Cursors
<1>5. /\ inbox.items = << >> /\ inbox.cursor = NoCursor /\ inbox.steady = {} /\ inbox.loading
  BY DEF InboxInit
<1>6. Whole(<< >>, NoCursor, {})
  BY DEF Whole, NewestFirst
<1>7. ShownWhole
  BY <1>5, <1>6 DEF ShownWhole
<1>8. \A c \in ListSlots : listCalls[c] # NoListCall => c = 1 /\ listCalls[c] = FirstPage("active")
  BY DEF InboxInit, ListSlots
<1>9. CallsSound
  BY <1>2, <1>8 DEF CallsSound, CallSound
<1>10. CallsInTurn
  BY <1>2, <1>5, <1>8 DEF CallsInTurn, CallInTurn
<1> QED
  BY <1>3, <1>4, <1>7, <1>9, <1>10 DEF InboxInv, InboxTypeOK

\* A call that goes on and stays what it asks for.
LEMMA CallChanges ==
    ASSUME InboxInv, NEW c \in ListSlots, listCalls[c] # NoListCall, NEW read \in ListCalls,
           listCalls' = [listCalls EXCEPT ![c] = read], UNCHANGED inbox,
           reviews' \in [Reviews -> ReviewStatuses],
           read.kind = listCalls[c].kind, read.awaited = listCalls[c].awaited,
           read.cursor = listCalls[c].cursor, CallSound(read)
    PROVE  InboxInv'
<1>1. listCalls \in [ListSlots -> ListCalls \cup {NoListCall}]
  BY DEF InboxInv, InboxTypeOK
<1>2. /\ DOMAIN listCalls' = ListSlots /\ listCalls'[c] = read
      /\ \A d \in ListSlots : d # c => listCalls'[d] = listCalls[d]
  BY <1>1
<1>3. InboxTypeOK'
  BY <1>1 DEF InboxInv, InboxTypeOK
<1>4. CallsSound'
  <2>1. \A d \in ListSlots : listCalls'[d] # NoListCall => CallSound(listCalls'[d])
    BY <1>2 DEF InboxInv, CallsSound
  <2> QED
    BY <2>1 DEF CallsSound, CallSound, Whole, NewestFirst, BeyondCursor
<1>5. read # NoListCall
  BY DEF ListCalls, NoListCall, AllKinds
<1>6. CallsInTurn'
  BY <1>2, <1>5 DEF InboxInv, CallsInTurn, CallInTurn
<1> QED
  BY <1>3, <1>4, <1>6 DEF InboxInv, ShownWhole

\* The first statement of list_inbox.
LEMMA ReadPausesKeeps ==
    ASSUME InboxInv, NEW c \in ListSlots, ReadPauses(c)
    PROVE  InboxInv'
<1> DEFINE call == listCalls[c]
           listed == InboxRows(call.filter, call.cursor)
<1>1. call \in ListCalls /\ call # NoListCall /\ call.at = "sent" /\ CallSound(call)
  BY DEF ReadPauses, InboxInv, InboxTypeOK, CallsSound
<1>2. UNCHANGED <<reviews, inbox>>
  BY DEF ReadPauses
<1>3. PICK found \in PagesOf(listed, call.limit) :
         listCalls' = [listCalls EXCEPT ![c] =
             IF CursorRefused(call) THEN [call EXCEPT !.at = "failed"]
             ELSE [call EXCEPT !.at = "paused",
                 !.found = found,
                 !.statuses = [i \in DOMAIN found |-> reviews[found[i]]],
                 !.next = IF listed \subseteq Range(found) THEN NoCursor
                          ELSE [filter |-> call.filter, after |-> Last(found)],
                 !.matching = IF call.awaited THEN Matching(call.filter) ELSE {}]]
  BY DEF ReadPauses
<1> DEFINE next == IF listed \subseteq Range(found) THEN NoCursor
                   ELSE [filter |-> call.filter, after |-> Last(found)]
           matching == IF call.awaited THEN Matching(call.filter) ELSE {}
           statuses == [i \in DOMAIN found |-> reviews[found[i]]]
<1>4. listed \in SUBSET Reviews /\ Matching(call.filter) \in SUBSET Reviews
  BY DEF InboxRows, Matching
<1>5. call.filter \in Filters /\ call.limit \in Nat \ {0}
  BY <1>1 DEF ListCalls
<1>6. /\ found \in Seq(Reviews) /\ found \in Seq(listed) /\ NewestFirst(found)
      /\ ~(listed \subseteq Range(found)) => found # << >> /\ Last(found) \in Reviews
      /\ \A p \in listed : p \in Range(found) \/ Newer(Last(found), p)
  BY <1>3, <1>4, <1>5, PageFacts
<1>7. next \in Cursors /\ matching \in SUBSET Reviews
  BY <1>4, <1>5, <1>6 DEF Cursors
<1>8. statuses \in Seq(ReviewStatuses)
  <2>1. /\ DOMAIN found = 1..Len(found) /\ Len(found) \in Nat
        /\ \A i \in 1..Len(found) : found[i] \in Reviews
    BY <1>6
  <2>2. reviews \in [Reviews -> ReviewStatuses]
    BY DEF InboxInv, InboxTypeOK
  <2>3. statuses \in [1..Len(found) -> ReviewStatuses]
    BY <2>1, <2>2
  <2> QED
    BY <2>1, <2>3, SeqDef
<1>9. Whole(found, next, {p \in matching : BeyondCursor(p, call.cursor)})
  <2>1. {p \in matching : BeyondCursor(p, call.cursor)} \subseteq listed
    BY DEF InboxRows
  <2>2. next # NoCursor => found # << >> /\ next.after = Last(found)
    BY <1>6
  <2>3. ~(listed \subseteq Range(found)) => next # NoCursor
    BY <1>5, NoCursorIsNone
  <2>4. \A p \in listed : p \in Range(found) \/ (next # NoCursor /\ Newer(Last(found), p))
    BY <1>6, <2>3
  <2> QED
    BY <1>6, <2>1, <2>2, <2>4 DEF Whole
<1>10. \A i \in DOMAIN found : BeyondCursor(found[i], call.cursor)
  <2>1. \A i \in DOMAIN found : found[i] \in listed
    BY <1>6
  <2> QED
    BY <2>1 DEF InboxRows
<1>11. PICK read : read = IF CursorRefused(call) THEN [call EXCEPT !.at = "failed"]
             ELSE [call EXCEPT !.at = "paused", !.found = found, !.statuses = statuses,
                               !.next = next, !.matching = matching]
  OBVIOUS
<1>12. listCalls' = [listCalls EXCEPT ![c] = read]
  BY <1>3, <1>11
<1>13. /\ read \in ListCalls
       /\ read.kind = call.kind /\ read.awaited = call.awaited /\ read.cursor = call.cursor
       /\ \/ read.at = "failed"
          \/ read.at = "paused" /\ read.found = found /\ read.next = next
             /\ read.matching = matching
  <2>1. CASE CursorRefused(call)
    BY <1>1, <1>11, <2>1 DEF ListCalls
  <2>2. CASE ~CursorRefused(call)
    <3> HIDE DEF next, matching, statuses
    <3> QED
      BY <1>1, <1>6, <1>7, <1>8, <1>11, <2>2 DEF ListCalls
  <2> QED
    BY <2>1, <2>2
<1>14. CallSound(read)
  <2> HIDE DEF next, matching, statuses
  <2> QED
    BY <1>1, <1>9, <1>10, <1>13 DEF CallSound
<1>15. reviews' \in [Reviews -> ReviewStatuses]
  BY <1>2 DEF InboxInv, InboxTypeOK
<1> QED
  BY <1>1, <1>2, <1>12, <1>13, <1>14, <1>15, CallChanges

\* The second statement: what was read stays, or the request fails.
LEMMA ReadMembersKeeps ==
    ASSUME InboxInv, NEW c \in ListSlots, ReadMembers(c)
    PROVE  InboxInv'
<1> DEFINE call == listCalls[c]
<1>1. call \in ListCalls /\ call # NoListCall /\ call.at = "paused" /\ CallSound(call)
  BY DEF ReadMembers, InboxInv, InboxTypeOK, CallsSound
<1>2. PICK at \in {"answered", "failed"} :
         listCalls' = [listCalls EXCEPT ![c].statuses = << >>, ![c].at = at]
  BY DEF ReadMembers
<1>3. PICK read : read = [call EXCEPT !.statuses = << >>, !.at = at]
  OBVIOUS
<1>4. listCalls' = [listCalls EXCEPT ![c] = read]
  BY <1>2, <1>3 DEF InboxInv, InboxTypeOK
<1>5. /\ read \in ListCalls /\ read.kind = call.kind /\ read.awaited = call.awaited
      /\ read.cursor = call.cursor /\ read.found = call.found /\ read.next = call.next
      /\ read.matching = call.matching /\ read.at = at
  BY <1>1, <1>3, EmptySeq DEF ListCalls
<1>6. CallSound(read)
  BY <1>1, <1>5 DEF CallSound
<1>7. UNCHANGED inbox /\ reviews' \in [Reviews -> ReviewStatuses]
  BY DEF ReadMembers, InboxInv, InboxTypeOK
<1> QED
  BY <1>1, <1>4, <1>5, <1>6, <1>7, CallChanges

\* Of the calls that are abandoned none is awaited, and the others stay.
LEMMA AbandonKeeps ==
    ASSUME InboxInv, NEW kinds, NEW n \in ListSlots
    PROVE  LET left == Abandon(kinds)[n] IN
           /\ left \in ListCalls \cup {NoListCall}
           /\ left # NoListCall => CallSound(left)
           /\ left # NoListCall /\ left.awaited =>
                 listCalls[n] # NoListCall /\ left = listCalls[n] /\ left.kind \notin kinds
<1> DEFINE call == listCalls[n]
           left == Abandon(kinds)[n]
<1>1. left = IF call.kind \in kinds THEN Abandoned(call) ELSE call
  BY DEF Abandon, ListSlots
<1>2. call \in ListCalls \cup {NoListCall} /\ (call # NoListCall => CallSound(call))
  BY DEF InboxInv, InboxTypeOK, CallsSound
<1>3. CASE call = NoListCall
  BY <1>1, <1>3 DEF Abandoned, NoListCall
<1>4. CASE call \in ListCalls /\ call.kind \in kinds /\ call.kind = "more" /\ call # NoListCall
  <2>1. left = [call EXCEPT !.awaited = FALSE, !.matching = {}]
    BY <1>1, <1>4 DEF Abandoned
  <2>2. /\ left \in ListCalls /\ ~left.awaited /\ left.matching = {} /\ left.kind = call.kind
        /\ left.cursor = call.cursor /\ left.at = call.at /\ left.found = call.found
        /\ left.next = call.next
    BY <2>1, <1>4 DEF ListCalls
  <2>3. CallSound(left)
    BY <1>2, <1>4, <2>2 DEF CallSound, Whole
  <2> QED
    BY <2>2, <2>3
<1>5. CASE call # NoListCall /\ ~(call.kind \in kinds /\ call.kind = "more")
  BY <1>1, <1>2, <1>5 DEF Abandoned
<1> QED
  BY <1>2, <1>3, <1>4, <1>5

\* The page sends a call: what is awaited then is this call and what was awaited
\* before and not abandoned.
LEMMA PageSends ==
    ASSUME InboxInv, UNCHANGED reviews, inbox' \in InboxStates,
           NEW kinds, NEW call \in ListCalls, call # NoListCall, CallSound(call),
           listCalls' = Send(Abandon(kinds), call)
    PROVE  /\ InboxTypeOK' /\ CallsSound'
           /\ \E c : \A n \in ListSlots :
                 listCalls'[n] # NoListCall /\ listCalls'[n].awaited =>
                    \/ n = c /\ listCalls'[n] = call
                    \/ /\ listCalls[n] # NoListCall /\ listCalls'[n] = listCalls[n]
                       /\ listCalls[n].awaited /\ listCalls[n].kind \notin kinds
<1> PICK left : left = Abandon(kinds)
  OBVIOUS
<1>1. \A n \in ListSlots :
         /\ left[n] \in ListCalls \cup {NoListCall}
         /\ left[n] # NoListCall => CallSound(left[n])
         /\ left[n] # NoListCall /\ left[n].awaited =>
               listCalls[n] # NoListCall /\ left[n] = listCalls[n] /\ left[n].kind \notin kinds
  BY AbandonKeeps
<1>2. left \in [ListSlots -> ListCalls \cup {NoListCall}]
  BY <1>1 DEF Abandon, ListSlots
<1> PICK slot : slot = CHOOSE n \in 1..MaxListCalls :
                 left[n] = NoListCall /\ \A m \in 1..(n - 1) : left[m] # NoListCall
  OBVIOUS
<1>3. listCalls' = [left EXCEPT ![slot] = call]
  BY DEF Send
<1>4. /\ listCalls' \in [ListSlots -> ListCalls \cup {NoListCall}]
      /\ \A n \in ListSlots : listCalls'[n] = IF n = slot THEN call ELSE left[n]
  BY <1>2, <1>3
<1>5. InboxTypeOK'
  BY <1>4 DEF InboxInv, InboxTypeOK
<1>6. CallsSound'
  <2>1. \A n \in ListSlots : listCalls'[n] # NoListCall => CallSound(listCalls'[n])
    BY <1>1, <1>4
  <2> QED
    BY <2>1 DEF CallsSound, CallSound, Whole, NewestFirst, BeyondCursor
<1>7. \A n \in ListSlots :
         listCalls'[n] # NoListCall /\ listCalls'[n].awaited =>
            \/ n = slot /\ listCalls'[n] = call
            \/ /\ listCalls[n] # NoListCall /\ listCalls'[n] = listCalls[n]
               /\ listCalls[n].awaited /\ listCalls[n].kind \notin kinds
  BY <1>1, <1>4
<1> QED
  BY <1>5, <1>6, <1>7

\* A call that the page sends has read nothing yet.
LEMMA NewCallSound ==
    ASSUME NEW kind \in AllKinds, NEW filter \in Filters, NEW cursor \in Cursors,
           NEW limit \in Nat \ {0}, kind # "more" => cursor = NoCursor
    PROVE  LET call == ListCall(kind, filter, cursor, limit) IN
           /\ call \in ListCalls /\ call # NoListCall /\ CallSound(call)
           /\ call.kind = kind /\ call.cursor = cursor
<1> DEFINE call == ListCall(kind, filter, cursor, limit)
<1>1. call \in ListCalls
  BY EmptySeq DEF ListCall, ListCalls, Cursors
<1>2. /\ call.kind = kind /\ call.cursor = cursor /\ call.at = "sent"
  BY DEF ListCall
<1>3. call # NoListCall
  BY <1>2 DEF NoListCall, AllKinds
<1> QED
  BY <1>1, <1>2, <1>3 DEF CallSound

LEMMA FirstPageSound ==
    ASSUME NEW filter \in Filters
    PROVE  /\ FirstPage(filter) \in ListCalls /\ FirstPage(filter) # NoListCall
           /\ CallSound(FirstPage(filter)) /\ FirstPage(filter).kind = "first"
<1>1. "first" \in AllKinds /\ NoCursor \in Cursors /\ InboxPageSize \in Nat \ {0}
  BY InboxAssumption DEF AllKinds, Cursors
<1> QED
  BY <1>1, NewCallSound DEF FirstPage

\* Starting over: nothing is shown, and only the first page is awaited.
LEMMA StartsOver ==
    ASSUME InboxInv, UNCHANGED reviews, inbox' \in InboxStates, NEW filter \in Filters,
           listCalls' = Send(Abandon(AllKinds), FirstPage(filter)),
           \/ inbox'.wentBack
           \/ /\ inbox'.items = << >> /\ inbox'.cursor = NoCursor /\ inbox'.steady = {}
              /\ inbox'.loading
    PROVE  InboxInv'
<1>1. /\ FirstPage(filter) \in ListCalls /\ FirstPage(filter) # NoListCall
      /\ CallSound(FirstPage(filter)) /\ FirstPage(filter).kind = "first"
  BY FirstPageSound
<1>2. InboxTypeOK' /\ CallsSound'
  BY <1>1, PageSends
<1>3. PICK c : \A n \in ListSlots :
         listCalls'[n] # NoListCall /\ listCalls'[n].awaited =>
            \/ n = c /\ listCalls'[n] = FirstPage(filter)
            \/ /\ listCalls[n] # NoListCall /\ listCalls'[n] = listCalls[n]
               /\ listCalls[n].awaited /\ listCalls[n].kind \notin AllKinds
  BY <1>1, PageSends
<1>4. \A n \in ListSlots : listCalls[n] # NoListCall => listCalls[n].kind \in AllKinds
  BY DEF InboxInv, InboxTypeOK, ListCalls
<1>5. CallsInTurn'
  BY <1>1, <1>3, <1>4 DEF CallsInTurn, CallInTurn
<1>6. Whole(<< >>, NoCursor, {})
  BY DEF Whole, NewestFirst
<1>7. ShownWhole'
  <2>1. ~inbox'.wentBack => Whole(inbox'.items, inbox'.cursor, inbox'.steady)
    BY <1>6
  <2> QED
    BY <2>1 DEF ShownWhole, Whole, NewestFirst
<1> QED
  BY <1>2, <1>5, <1>7 DEF InboxInv

LEMMA StartOverKeeps ==
    ASSUME InboxInv, (\E filter \in Filters : SelectFilter(filter)) \/ GoBack \/ ReloadInbox
    PROVE  InboxInv'
<1>1. inbox \in InboxStates
  BY DEF InboxInv, InboxTypeOK
<1>2. ASSUME NEW filter \in Filters, SelectFilter(filter)
      PROVE  InboxInv'
  <2>0. PICK emptied : emptied = Emptied(inbox)
    OBVIOUS
  <2>1. PICK page : page = [emptied EXCEPT !.filter = filter, !.loadingMore = FALSE,
                               !.history = Append(@, inbox.filter), !.moves = @ + 1]
    OBVIOUS
  <2>2. /\ page \in InboxStates /\ page.items = << >> /\ page.cursor = NoCursor
        /\ page.steady = {} /\ page.loading
    <3>1. /\ emptied \in InboxStates /\ emptied.items = << >> /\ emptied.cursor = NoCursor
          /\ emptied.steady = {} /\ emptied.loading
      BY <1>1, <2>0, EmptySeq DEF Emptied, InboxStates, Cursors
    <3>2. Append(emptied.history, inbox.filter) \in Seq(Filters) /\ emptied.moves + 1 \in Nat
      BY <1>1, <3>1 DEF InboxStates
    <3> QED
      BY <2>1, <3>1, <3>2 DEF InboxStates
  <2>3. inbox' = page
    BY <1>2, <2>0, <2>1 DEF SelectFilter
  <2>4. UNCHANGED reviews /\ listCalls' = Send(Abandon(AllKinds), FirstPage(filter))
    BY <1>2 DEF SelectFilter
  <2> QED
    BY <2>2, <2>3, <2>4, StartsOver
<1>3. CASE GoBack
  <2>1. inbox.history \in Seq(Filters) /\ inbox.history # << >>
    BY <1>1, <1>3 DEF InboxStates, GoBack
  <2>2. Last(inbox.history) \in Filters /\ Front(inbox.history) \in Seq(Filters)
    <3>1. Len(inbox.history) \in Nat \ {0}
      BY <2>1, EmptySeq
    <3>2. Front(inbox.history) = SubSeq(inbox.history, 1, Len(inbox.history) - 1)
      BY DEF Front
    <3> QED
      BY <2>1, <3>1, <3>2 DEF Last
  <2>3. PICK page : page = [inbox EXCEPT !.filter = Last(inbox.history), !.history = Front(@),
                                         !.wentBack = TRUE]
    OBVIOUS
  <2>4. page \in InboxStates /\ page.wentBack
    BY <1>1, <2>2, <2>3 DEF InboxStates
  <2>5. inbox' = page
    BY <1>3, <2>3 DEF GoBack
  <2>6. UNCHANGED reviews /\ listCalls' = Send(Abandon(AllKinds), FirstPage(Last(inbox.history)))
    BY <1>3 DEF GoBack
  <2> QED
    BY <2>2, <2>4, <2>5, <2>6, StartsOver
<1>4. CASE ReloadInbox
  <2>1. PICK page : page = Emptied(inbox)
    OBVIOUS
  <2>2. /\ page \in InboxStates /\ page.items = << >> /\ page.cursor = NoCursor
        /\ page.steady = {} /\ page.loading
    BY <1>1, <2>1, EmptySeq DEF Emptied, InboxStates, Cursors
  <2>3. inbox' = page /\ UNCHANGED reviews
        /\ listCalls' = Send(Abandon(AllKinds), FirstPage(inbox.filter))
    BY <1>4, <2>1 DEF ReloadInbox
  <2>4. inbox.filter \in Filters
    BY <1>1 DEF InboxStates
  <2> QED
    BY <2>2, <2>3, <2>4, StartsOver
<1> QED
  BY <1>2, <1>3, <1>4

\* A refresh is sent when no further page is awaited.
LEMMA RefreshKeeps ==
    ASSUME InboxInv, RefreshVisibleItems
    PROVE  InboxInv'
<1>1. inbox \in InboxStates /\ UNCHANGED <<reviews, inbox>> /\ ~inbox.loading /\ ~inbox.loadingMore
  BY DEF InboxInv, InboxTypeOK, RefreshVisibleItems
<1>2. PICK limit \in Nat \ {0} :
         listCalls' = Send(listCalls, ListCall("refresh", inbox.filter, NoCursor, limit))
  <2> DEFINE shown == IF Len(inbox.items) > InboxPageSize THEN Len(inbox.items) ELSE InboxPageSize
             limit == IF shown > MaxInboxLimit THEN MaxInboxLimit ELSE shown
  <2>1. Len(inbox.items) \in Nat
    BY <1>1 DEF InboxStates
  <2>2. limit \in Nat \ {0}
    BY <2>1, InboxAssumption
  <2>3. listCalls' = Send(listCalls, ListCall("refresh", inbox.filter, NoCursor, limit))
    BY DEF RefreshVisibleItems
  <2> QED
    BY <2>2, <2>3
<1>3. Abandon({}) = listCalls
  BY DEF Abandon, InboxInv, InboxTypeOK, ListSlots
<1> DEFINE call == ListCall("refresh", inbox.filter, NoCursor, limit)
<1>4. "refresh" \in AllKinds /\ NoCursor \in Cursors /\ inbox.filter \in Filters
  BY <1>1 DEF AllKinds, Cursors, InboxStates
<1>5. call \in ListCalls /\ call # NoListCall /\ CallSound(call) /\ call.kind = "refresh"
  BY <1>4, NewCallSound
<1> HIDE DEF call
<1>6. listCalls' = Send(Abandon({}), call) /\ inbox' \in InboxStates
  BY <1>1, <1>2, <1>3 DEF call
<1>7. InboxTypeOK' /\ CallsSound'
  BY <1>1, <1>5, <1>6, PageSends
<1>8. PICK c : \A n \in ListSlots :
         listCalls'[n] # NoListCall /\ listCalls'[n].awaited =>
            \/ n = c /\ listCalls'[n] = call
            \/ /\ listCalls[n] # NoListCall /\ listCalls'[n] = listCalls[n]
               /\ listCalls[n].awaited /\ listCalls[n].kind \notin {}
  BY <1>1, <1>5, <1>6, PageSends
<1>9. CallsInTurn'
  <2> SUFFICES ASSUME ~inbox.wentBack, NEW n \in ListSlots,
                      listCalls'[n] # NoListCall, listCalls'[n].awaited
               PROVE  listCalls'[n].kind = "refresh"
    BY <1>1 DEF CallsInTurn, CallInTurn
  <2>1. CASE listCalls'[n] = call
    BY <2>1, <1>5
  <2>2. CASE listCalls[n] # NoListCall /\ listCalls'[n] = listCalls[n] /\ listCalls[n].awaited
    <3>1. CallInTurn(n)
      BY <2>2 DEF InboxInv, CallsInTurn
    <3>2. listCalls[n].kind \in AllKinds
      BY <2>2 DEF InboxInv, InboxTypeOK, ListCalls
    <3> QED
      BY <1>1, <2>2, <3>1, <3>2 DEF CallInTurn, AllKinds
  <2> QED
    BY <1>8, <2>1, <2>2
<1> QED
  BY <1>1, <1>7, <1>9 DEF InboxInv, ShownWhole

\* A further page is asked for where the shown ones end.
LEMMA LoadMoreKeeps ==
    ASSUME InboxInv, LoadMore
    PROVE  InboxInv'
<1>1. inbox \in InboxStates /\ ~inbox.loading /\ ~inbox.loadingMore /\ inbox.cursor # NoCursor
  BY DEF InboxInv, InboxTypeOK, LoadMore
<1>2. PICK page : page = [inbox EXCEPT !.loadingMore = TRUE, !.pageError = FALSE]
  OBVIOUS
<1>3. inbox' = page /\ UNCHANGED reviews
  BY <1>2 DEF LoadMore
<1>4. /\ page \in InboxStates /\ page.loadingMore /\ page.loading = inbox.loading
      /\ page.items = inbox.items /\ page.cursor = inbox.cursor /\ page.steady = inbox.steady
      /\ page.wentBack = inbox.wentBack
  BY <1>1, <1>2 DEF InboxStates
<1> DEFINE call == ListCall("more", inbox.filter, inbox.cursor, InboxPageSize)
<1>5. /\ "more" \in AllKinds /\ inbox.cursor \in Cursors /\ inbox.filter \in Filters
      /\ InboxPageSize \in Nat \ {0}
  BY <1>1, InboxAssumption DEF AllKinds, InboxStates
<1>6. /\ call \in ListCalls /\ call # NoListCall /\ CallSound(call) /\ call.kind = "more"
      /\ call.cursor = inbox.cursor
  BY <1>5, NewCallSound
<1>7. listCalls' = Send(Abandon({"refresh"}), call)
  BY DEF LoadMore
<1> HIDE DEF call
<1>8. InboxTypeOK' /\ CallsSound'
  BY <1>3, <1>4, <1>6, <1>7, PageSends
<1>9. PICK c : \A n \in ListSlots :
         listCalls'[n] # NoListCall /\ listCalls'[n].awaited =>
            \/ n = c /\ listCalls'[n] = call
            \/ /\ listCalls[n] # NoListCall /\ listCalls'[n] = listCalls[n]
               /\ listCalls[n].awaited /\ listCalls[n].kind \notin {"refresh"}
  BY <1>3, <1>4, <1>6, <1>7, PageSends
<1>10. CallsInTurn'
  <2> SUFFICES ASSUME ~inbox'.wentBack
               PROVE  \A n \in ListSlots :
                         listCalls'[n] # NoListCall /\ listCalls'[n].awaited => CallInTurn(n)'
    BY DEF CallsInTurn
  <2>1. \A n \in ListSlots :
           listCalls'[n] # NoListCall /\ listCalls'[n].awaited => n = c /\ listCalls'[n] = call
    <3> SUFFICES ASSUME NEW n \in ListSlots, listCalls[n] # NoListCall, listCalls[n].awaited,
                        listCalls[n].kind # "refresh"
                 PROVE  FALSE
      BY <1>9
    <3>1. CallInTurn(n)
      BY <1>3, <1>4 DEF InboxInv, CallsInTurn
    <3>2. listCalls[n].kind \in AllKinds
      BY DEF InboxInv, InboxTypeOK, ListCalls
    <3> QED
      BY <1>1, <3>1, <3>2 DEF CallInTurn, AllKinds
  <2> QED
    BY <1>1, <1>3, <1>4, <1>6, <2>1 DEF CallInTurn
<1>11. ShownWhole'
  BY <1>3, <1>4 DEF InboxInv, ShownWhole, Whole, NewestFirst
<1> QED
  BY <1>8, <1>10, <1>11 DEF InboxInv

-----------------------------------------------------------------------------
\* When an answer comes, its call is gone, and so may be others.
LEMMA CallsGo ==
    ASSUME InboxTypeOK, CallsSound, NEW c, NEW page,
           listCalls' = StillAwaited([listCalls EXCEPT ![c] = NoListCall], page)
    PROVE  /\ listCalls' \in [ListSlots -> ListCalls \cup {NoListCall}]
           /\ CallsSound'
           /\ \A n \in ListSlots :
                 listCalls'[n] # NoListCall => n # c /\ listCalls'[n] = listCalls[n]
<1>1. PICK left : left = [listCalls EXCEPT ![c] = NoListCall]
  OBVIOUS
<1>2. /\ left \in [ListSlots -> ListCalls \cup {NoListCall}]
      /\ \A n \in ListSlots : left[n] # NoListCall => n # c /\ left[n] = listCalls[n]
  BY <1>1 DEF InboxTypeOK
<1>3. /\ DOMAIN listCalls' = ListSlots
      /\ listCalls' = [n \in ListSlots |-> listCalls'[n]]
      /\ \A n \in ListSlots : listCalls'[n] = left[n] \/ listCalls'[n] = NoListCall
  <2>1. listCalls' = StillAwaited(left, page)
    BY <1>1
  <2>2. \A call : call.kind = "refresh" => Abandoned(call) = NoListCall
    BY DEF Abandoned
  <2> QED
    BY <2>1, <2>2 DEF StillAwaited, ListSlots
<1>4. \A n \in ListSlots :
         listCalls'[n] # NoListCall => n # c /\ listCalls'[n] = listCalls[n]
  BY <1>2, <1>3
<1>5. CallsSound'
  <2>1. \A n \in ListSlots : listCalls'[n] # NoListCall => CallSound(listCalls'[n])
    BY <1>4 DEF CallsSound
  <2> QED
    BY <2>1 DEF CallsSound, CallSound, Whole, NewestFirst, BeyondCursor
<1> QED
  BY <1>2, <1>3, <1>4, <1>5

\* The page that an awaited answer shows.
LEMMA ShowPageKeeps ==
    ASSUME InboxInv, NEW c \in ListSlots, NEW call, call = listCalls[c], call # NoListCall,
           call.at = "answered", call.awaited, NEW page, page = ShowPage(inbox, call)
    PROVE  /\ page \in InboxStates /\ page.wentBack = inbox.wentBack
           /\ ~inbox.wentBack => Whole(page.items, page.cursor, page.steady)
           /\ call.kind = "refresh" =>
                 page.loading = inbox.loading /\ page.loadingMore = inbox.loadingMore
<1>1. call \in ListCalls /\ CallSound(call) /\ inbox \in InboxStates
  BY DEF InboxInv, InboxTypeOK, CallsSound
<1> DEFINE items == (IF call.kind = "more" THEN inbox.items ELSE << >>) \o call.found
           steady == IF call.kind = "more" THEN inbox.steady \cap call.matching ELSE call.matching
<1>2. /\ call.found \in Seq(Reviews) /\ call.next \in Cursors /\ call.matching \in SUBSET Reviews
      /\ call.cursor \in Cursors
      /\ inbox.items \in Seq(Reviews) /\ inbox.steady \in SUBSET Reviews /\ inbox.cursor \in Cursors
  BY <1>1 DEF ListCalls, InboxStates
<1>3. << >> \o call.found = call.found
  BY <1>2, ConcatEmptySeq
<1>4. items \in Seq(Reviews) /\ steady \in SUBSET Reviews
  BY <1>2, <1>3, ConcatProperties
<1>5. page = [inbox EXCEPT !.items = items, !.cursor = call.next, !.steady = steady,
                  !.loading = @ /\ call.kind # "first",
                  !.loadingMore = @ /\ call.kind # "more",
                  !.pageError = @ /\ call.kind # "refresh"]
  BY DEF ShowPage
<1>6. /\ page \in InboxStates /\ page.items = items /\ page.cursor = call.next
      /\ page.steady = steady /\ page.wentBack = inbox.wentBack
      /\ call.kind = "refresh" =>
            page.loading = inbox.loading /\ page.loadingMore = inbox.loadingMore
  <2> HIDE DEF items, steady
  <2> QED
    BY <1>1, <1>2, <1>4, <1>5 DEF InboxStates
<1>7. ASSUME ~inbox.wentBack
      PROVE  Whole(items, call.next, steady)
  <2>1. CASE call.kind = "more"
    <3>1. CallInTurn(c)
      BY <1>7 DEF InboxInv, CallsInTurn
    <3>2. inbox.cursor # NoCursor /\ call.cursor = inbox.cursor
      BY <2>1, <3>1 DEF CallInTurn
    <3>3. Whole(inbox.items, inbox.cursor, inbox.steady)
      BY <1>7 DEF InboxInv, ShownWhole
    <3>4. /\ Whole(call.found, call.next, {p \in call.matching : BeyondCursor(p, inbox.cursor)})
          /\ \A i \in DOMAIN call.found : BeyondCursor(call.found[i], inbox.cursor)
      BY <1>1, <3>2 DEF CallSound
    <3>5. Whole(inbox.items \o call.found, call.next, inbox.steady \cap call.matching)
      BY <1>2, <3>2, <3>3, <3>4, WholeJoins
    <3> QED
      BY <2>1, <3>5
  <2>2. CASE call.kind # "more"
    <3>1. call.cursor = NoCursor
      BY <1>1, <2>2 DEF CallSound
    <3>2. {p \in call.matching : BeyondCursor(p, call.cursor)} = call.matching
      BY <3>1 DEF BeyondCursor
    <3>3. Whole(call.found, call.next, call.matching)
      BY <1>1, <3>2 DEF CallSound
    <3> QED
      BY <1>3, <2>2, <3>3
  <2> QED
    BY <2>1, <2>2
<1> QED
  BY <1>6, <1>7

LEMMA ShowFailureKeeps ==
    ASSUME inbox \in InboxStates, NEW call \in ListCalls, NEW page, page = ShowFailure(inbox, call)
    PROVE  /\ page \in InboxStates /\ page.wentBack = inbox.wentBack
           /\ page.items = inbox.items /\ page.cursor = inbox.cursor /\ page.steady = inbox.steady
           /\ call.kind = "refresh" =>
                 page.loading = inbox.loading /\ page.loadingMore = inbox.loadingMore
<1>1. CASE call.kind = "first"
  BY <1>1 DEF ShowFailure, InboxStates
<1>2. CASE call.kind # "first"
  <2>1. page = [inbox EXCEPT !.pageError = TRUE, !.loadingMore = @ /\ call.kind # "more"]
    BY <1>2 DEF ShowFailure
  <2> QED
    BY <2>1 DEF InboxStates
<1> QED
  BY <1>1, <1>2

LEMMA AnswerKeeps ==
    ASSUME InboxInv, NEW c \in ListSlots, ListCallReturns(c)
    PROVE  InboxInv'
<1>1. PICK call : call = listCalls[c]
  OBVIOUS
<1>2. call \in ListCalls /\ call # NoListCall /\ call.at \in {"answered", "failed"}
  BY <1>1 DEF ListCallReturns, InboxInv, InboxTypeOK
<1>3. /\ UNCHANGED reviews
      /\ inbox' = IF ~call.awaited THEN inbox
                  ELSE IF call.at = "failed" THEN ShowFailure(inbox, call)
                  ELSE ShowPage(inbox, call)
      /\ listCalls' = StillAwaited([listCalls EXCEPT ![c] = NoListCall], inbox')
  BY <1>1 DEF ListCallReturns, ListAnswered
<1>4. /\ listCalls' \in [ListSlots -> ListCalls \cup {NoListCall}] /\ CallsSound'
      /\ \A n \in ListSlots : listCalls'[n] # NoListCall => n # c /\ listCalls'[n] = listCalls[n]
  BY <1>3, CallsGo DEF InboxInv
<1>5. inbox \in InboxStates /\ ShownWhole
  BY DEF InboxInv, InboxTypeOK
<1>6. /\ inbox' \in InboxStates /\ inbox'.wentBack = inbox.wentBack
      /\ ~inbox.wentBack => Whole(inbox'.items, inbox'.cursor, inbox'.steady)
      /\ ~call.awaited => inbox' = inbox
      /\ call.kind = "refresh" =>
            inbox'.loading = inbox.loading /\ inbox'.loadingMore = inbox.loadingMore
  <2>1. CASE ~call.awaited
    BY <1>3, <1>5, <2>1 DEF ShownWhole
  <2>2. CASE call.awaited /\ call.at = "failed"
    <3>1. inbox' = ShowFailure(inbox, call)
      BY <1>3, <2>2
    <3> QED
      BY <1>2, <1>5, <2>2, <3>1, ShowFailureKeeps DEF ShownWhole
  <2>3. CASE call.awaited /\ call.at = "answered"
    <3>1. inbox' = ShowPage(inbox, call)
      BY <1>3, <2>3
    <3> QED
      BY <1>1, <1>2, <2>3, <3>1, ShowPageKeeps
  <2> QED
    BY <1>2, <2>1, <2>2, <2>3
<1>7. ShownWhole'
  <2>1. ~inbox'.wentBack => Whole(inbox'.items, inbox'.cursor, inbox'.steady)
    BY <1>6
  <2> QED
    BY <2>1 DEF ShownWhole, Whole, NewestFirst
<1>8. CallsInTurn'
  <2> SUFFICES ASSUME ~inbox'.wentBack, NEW n \in ListSlots,
                      listCalls'[n] # NoListCall, listCalls'[n].awaited
               PROVE  CallInTurn(n)'
    BY DEF CallsInTurn
  <2>1. n # c /\ listCalls'[n] = listCalls[n] /\ CallInTurn(n)
    BY <1>4, <1>6 DEF InboxInv, CallsInTurn
  <2>2. \A d \in ListSlots : listCalls'[d] # NoListCall => listCalls'[d] = listCalls[d]
    BY <1>4
  <2>3. CASE ~call.awaited
    BY <1>6, <2>1, <2>2, <2>3 DEF CallInTurn
  <2>4. CASE call.awaited
    <3>1. CallInTurn(c)
      BY <1>1, <1>2, <1>6, <2>4 DEF InboxInv, CallsInTurn
    <3>2. listCalls[n].kind \notin {"first", "more"}
      BY <1>1, <1>2, <2>1, <2>4 DEF CallInTurn
    <3> QED
      BY <2>1, <3>2 DEF CallInTurn
  <2> QED
    BY <2>3, <2>4
<1>9. InboxTypeOK'
  BY <1>3, <1>4, <1>6 DEF InboxInv, InboxTypeOK
<1> QED
  BY <1>4, <1>7, <1>8, <1>9 DEF InboxInv

\* The reviews themselves may change in any way.
LEMMA ReviewsMove ==
    ASSUME InboxInv, UNCHANGED <<inbox, listCalls>>, reviews' \in [Reviews -> ReviewStatuses]
    PROVE  InboxInv'
BY DEF InboxInv, InboxTypeOK, CallsSound, CallSound, CallsInTurn, CallInTurn, ShownWhole, Whole,
       NewestFirst, BeyondCursor

LEMMA InboxNextInv ==
    ASSUME InboxInv, [InboxNext]_inboxVars
    PROVE  InboxInv'
<1>1. reviews \in [Reviews -> ReviewStatuses]
  BY DEF InboxInv, InboxTypeOK
<1>2. CASE UNCHANGED inboxVars
  BY <1>1, <1>2, ReviewsMove DEF inboxVars
<1>3. ASSUME NEW p \in Reviews, ReviewAppears(p) \/ ReviewMovesOn(p)
      PROVE  InboxInv'
  <2>1. UNCHANGED <<inbox, listCalls>> /\ reviews' \in [Reviews -> ReviewStatuses]
    BY <1>1, <1>3 DEF ReviewAppears, ReviewMovesOn, ReviewStatuses
  <2> QED
    BY <2>1, ReviewsMove
<1> QED
  BY <1>2, <1>3, ReadPausesKeeps, ReadMembersKeeps, AnswerKeeps, StartOverKeeps, RefreshKeeps,
     LoadMoreKeeps DEF InboxNext, ListSlots

\* No review is listed twice, and none that matched whenever a shown page was read is
\* missing, unless it follows the last one while "load more" is offered (InboxWhole).
THEOREM InboxWholeHolds == InboxSpec => []InboxWhole
<1>1. InboxInv => InboxWhole
  <2> SUFFICES ASSUME InboxInv, ~inbox.wentBack
               PROVE  /\ IsInjective(inbox.items)
                      /\ \A p \in inbox.steady :
                            \/ p \in Range(inbox.items)
                            \/ inbox.cursor # NoCursor /\ Newer(Last(inbox.items), p)
    BY DEF InboxWhole
  <2>1. Whole(inbox.items, inbox.cursor, inbox.steady) /\ inbox.items \in Seq(Reviews)
    BY DEF InboxInv, ShownWhole, InboxTypeOK, InboxStates
  <2>2. IsInjective(inbox.items)
    BY <2>1, WholeIsInjective DEF Whole
  <2>3. \A p \in inbox.steady :
           \/ p \in Range(inbox.items)
           \/ inbox.cursor # NoCursor /\ Newer(Last(inbox.items), p)
    BY <2>1 DEF Whole
  <2> QED
    BY <2>2, <2>3
<1> QED
  BY <1>1, InboxInitInv, InboxNextInv, PTL DEF InboxSpec
=============================================================================
