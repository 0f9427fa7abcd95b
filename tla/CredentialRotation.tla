--------------------------- MODULE CredentialRotation ---------------------------
(***************************************************************************)
(* Notification credentials (notifications/credentials.py, rotation.py,    *)
(* the notification settings of api/service.py) while their key is        *)
(* replaced.  Every process has a keyring: one active key it encrypts      *)
(* with and decrypt-only keys.  The operator moves the processes one by    *)
(* one, runs the rewrap, which may be killed, and retires the old key when *)
(* it reports success.  A settings request holds its row lock from its     *)
(* SELECT ... FOR UPDATE to its commit.                                    *)
(***************************************************************************)
EXTENDS Integers, FiniteSets

CONSTANTS
    ApiProcesses, SendWorkers,  \* processes that write, that only read
    Destinations,               \* NotificationDestination rows (natural numbers, their ids)
    RewrapBatchSize,
    MaxRewrapBatches,           \* max_batches
    MaxDeviceKeys,              \* bound: device keys a user enters
    MaxRewrapKills              \* bound

ASSUME CredentialAssumption ==
    /\ Destinations \subseteq Nat /\ IsFiniteSet(Destinations)
    /\ RewrapBatchSize \in Nat \ {0} /\ MaxRewrapBatches \in Nat \ {0}
    /\ MaxDeviceKeys \in Nat /\ MaxRewrapKills \in Nat

VARIABLES
    keyring,      \* each process: its keyring
    credential,   \* each row: status, key version, plaintext inside the ciphertext
    deviceKey,    \* the device key its user entered last (history)
    settingsTx,   \* each API process: the row its settings request has locked, or none
    rewrap,       \* the rotate_credentials process
    rewrapKills

credentialVars == <<keyring, credential, deviceKey, settingsTx, rewrap, rewrapKills>>

KeyProcesses == ApiProcesses \cup SendWorkers

\* NotificationCredentialCipher: the active version and the decrypt-only versions
Keyrings == [old     |-> [active |-> "v1", decrypt |-> {}],
             staged  |-> [active |-> "v1", decrypt |-> {"v2"}],
             overlap |-> [active |-> "v2", decrypt |-> {"v1"}],
             retired |-> [active |-> "v2", decrypt |-> {}]]

SupportsDecryption(ring, version) == version = ring.active \/ version \in ring.decrypt

NoCredential == [status |-> "absent", version |-> "v1", plain |-> 0]
NoRow == -1
RewrapIdle == [pc |-> "idle", batches |-> 0, remaining |-> 0]

CredentialInit ==
    /\ keyring = [p \in KeyProcesses |-> Keyrings.old]
    /\ credential = [d \in Destinations |-> NoCredential]
    /\ deviceKey = [d \in Destinations |-> 0]
    /\ settingsTx = [p \in ApiProcesses |-> NoRow]
    /\ rewrap = RewrapIdle
    /\ rewrapKills = 0

RowLocked(d) == \E p \in ApiProcesses : settingsTx[p] = d

-----------------------------------------------------------------------------
(* update_notification_settings *)

\* the User row, then the destination row (a new row has no lock to wait for,
\* but the User row serialises its creators)
SettingsLock(p, d) ==
    /\ settingsTx[p] = NoRow /\ ~RowLocked(d)
    /\ settingsTx' = [settingsTx EXCEPT ![p] = d]
    /\ UNCHANGED <<keyring, credential, deviceKey, rewrap, rewrapKills>>

\* with a device key: encrypted under the process's active key
EnterDeviceKey(p, enabled) ==
    LET d == settingsTx[p]
    IN  /\ d # NoRow /\ deviceKey[d] < MaxDeviceKeys
        /\ deviceKey' = [deviceKey EXCEPT ![d] = @ + 1]
        /\ credential' = [credential EXCEPT ![d] =
               [status |-> IF enabled THEN "enabled" ELSE "disabled",
                version |-> keyring[p].active, plain |-> deviceKey[d] + 1]]
        /\ settingsTx' = [settingsTx EXCEPT ![p] = NoRow]
        /\ UNCHANGED <<keyring, rewrap, rewrapKills>>

\* without one: enabling a row that cannot be decrypted is a conflict
SetEnabled(p, enabled) ==
    LET d == settingsTx[p]
    IN  /\ d # NoRow
        /\ settingsTx' = [settingsTx EXCEPT ![p] = NoRow]
        /\ IF /\ credential[d].status # "absent"
              /\ enabled => SupportsDecryption(keyring[p], credential[d].version)
           THEN credential' = [credential EXCEPT ![d].status =
                    IF enabled THEN "enabled" ELSE "disabled"]
           ELSE UNCHANGED credential
        /\ UNCHANGED <<keyring, deviceKey, rewrap, rewrapKills>>

-----------------------------------------------------------------------------
(* rotate_notification_credentials, started with the overlap keyring *)

OldRows == {d \in Destinations : credential[d].status # "absent"
                                 /\ credential[d].version # Keyrings.overlap.active}

\* Mutant: the count passes over rows that another transaction has locked.
UnlockedOldRows == Cardinality({d \in OldRows : ~RowLocked(d)})

\* count_notification_credentials_outside_active_version
RemainingOldRows == Cardinality(OldRows)

\* the operator's order: no process still writes under the old key
RotationStarts ==
    /\ rewrap.pc \in {"idle", "failed"}
    /\ \A p \in KeyProcesses : keyring[p].active = "v2"
    /\ rewrap' = [pc |-> "loop", batches |-> 0, remaining |-> RemainingOldRows]
    /\ UNCHANGED <<keyring, credential, deviceKey, settingsTx, rewrapKills>>

\* rewrap_notification_credential_batch: one transaction, SKIP LOCKED, by id;
\* a row whose key is missing raises and ends the process
RewrapBatch ==
    /\ rewrap.pc = "loop" /\ rewrap.remaining > 0 /\ rewrap.batches < MaxRewrapBatches
    /\ LET open == {d \in OldRows : ~RowLocked(d)}
           batch == {d \in open : Cardinality({e \in open : e < d}) < RewrapBatchSize}
       IN  credential' = [d \in Destinations |->
               IF d \in batch
               THEN [credential[d] EXCEPT !.version = Keyrings.overlap.active]
               ELSE credential[d]]
    /\ rewrap' = [rewrap EXCEPT !.pc = "count", !.batches = @ + 1]
    /\ UNCHANGED <<keyring, deviceKey, settingsTx, rewrapKills>>

CountRemaining ==
    /\ rewrap.pc = "count"
    /\ rewrap' = [rewrap EXCEPT !.pc = "loop", !.remaining = RemainingOldRows]
    /\ UNCHANGED <<keyring, credential, deviceKey, settingsTx, rewrapKills>>

RotationEnds ==
    /\ rewrap.pc = "loop"
    /\ rewrap.remaining = 0 \/ rewrap.batches = MaxRewrapBatches
    /\ rewrap' = [rewrap EXCEPT !.pc = IF rewrap.remaining = 0 THEN "passed" ELSE "failed"]
    /\ UNCHANGED <<keyring, credential, deviceKey, settingsTx, rewrapKills>>

RotationKilled ==
    /\ rewrap.pc \in {"loop", "count"} /\ rewrapKills < MaxRewrapKills
    /\ rewrap' = RewrapIdle
    /\ rewrapKills' = rewrapKills + 1
    /\ UNCHANGED <<keyring, credential, deviceKey, settingsTx>>

-----------------------------------------------------------------------------
(* The operator.  A restart ends the process's request. *)

RestartWith(p, ring) ==
    /\ keyring' = [keyring EXCEPT ![p] = ring]
    /\ settingsTx' = IF p \in ApiProcesses THEN [settingsTx EXCEPT ![p] = NoRow] ELSE settingsTx
    /\ UNCHANGED <<credential, deviceKey, rewrap, rewrapKills>>

RolloutStep(p) ==
    \/ keyring[p] = Keyrings.old /\ RestartWith(p, Keyrings.staged)
    \/ /\ keyring[p] = Keyrings.staged
       /\ \A q \in KeyProcesses : keyring[q] # Keyrings.old
       /\ RestartWith(p, Keyrings.overlap)
    \/ /\ keyring[p] = Keyrings.overlap /\ rewrap.pc = "passed"
       /\ RestartWith(p, Keyrings.retired)

CredentialNext ==
    \/ \E p \in ApiProcesses :
          \/ \E d \in Destinations : SettingsLock(p, d)
          \/ \E enabled \in BOOLEAN : EnterDeviceKey(p, enabled) \/ SetEnabled(p, enabled)
    \/ RotationStarts \/ RewrapBatch \/ CountRemaining \/ RotationEnds \/ RotationKilled
    \/ \E p \in KeyProcesses : RolloutStep(p)

CredentialSpec == CredentialInit /\ [][CredentialNext]_credentialVars

-----------------------------------------------------------------------------
(* Properties. *)

\* Delivery works during the whole rollout: at every moment every process can
\* decrypt every stored credential (what DatabaseNotificationAdapterResolver
\* does), also after the old key is retired, and what it reads is the key its
\* user entered last: no rewrap brings an older one back.
CredentialsReadable ==
    \A d \in Destinations : credential[d].status # "absent" =>
        /\ \A p \in KeyProcesses : SupportsDecryption(keyring[p], credential[d].version)
        /\ credential[d].plain = deviceKey[d]
=============================================================================
