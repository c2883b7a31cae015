-------------------------- MODULE MCMonitor_proofs --------------------------
(***************************************************************************)
(* The properties of the host module, from the theorems of its parts: what  *)
(* a part proves for all values of its constants holds of its instance, and *)
(* a behaviour of another part leaves it nothing to keep.                   *)
(***************************************************************************)
EXTENDS MCMonitor, Sequences, TLAPS

\* Workers of an epoch run only under the advisory lock, whatever the part (superviseSource).
THEOREM FencedAlways == Spec => []Fenced
  <1> DEFINE Inv == part = "source" => Parts!SourceInv
  <1>1. Init => Inv
    BY Parts!SourceFirst DEF Init
  <1>2. Inv /\ [Next]_vars => Inv'
    <2>1. Parts!SourceInv /\ [Parts!Source!Next]_(Parts!Source!vars) => Parts!SourceInv'
      BY Parts!SourceStep, Distinct DEF Two
    <2> QED
      BY <2>1 DEF Next, vars, Parts!Source!vars
  <1>3. Inv => Fenced
    BY Parts!SourceImplies DEF Fenced
  <1> QED
    BY <1>1, <1>2, <1>3, PTL DEF Spec

\* Every queued report has its place and a worker, whatever the part (submit, drain, shutdown).
THEOREM ReportsAlwaysServed == Spec => []ReportsServed
  <1> DEFINE Inv == part = "reports" => Parts!QueueInv
  <1>1. Parts!QueueConstants
    BY DEF Parts!QueueConstants
  <1>2. Init => Inv
    BY <1>1, Parts!QueueFirst DEF Init
  <1>3. Inv /\ [Next]_vars => Inv'
    <2>1. Parts!QueueInv /\ [Parts!Reports!Next]_(Parts!Reports!vars) => Parts!QueueInv'
      BY <1>1, Parts!QueueStep
    <2> QED
      BY <2>1 DEF Next, vars, Parts!Reports!vars
  <1>4. Inv => ReportsServed
    BY Parts!QueueImplies DEF ReportsServed
  <1> QED
    BY <1>2, <1>3, <1>4, PTL DEF Spec

\* The two instances of the publication meet the assumptions of its theorems.
LEMMA PublicationInstances == Publication!Constants /\ Again!Constants
  <1>1. Publication!Constants
    BY Distinct DEF Publication!Constants, Publication!NoTask, Publication!NoDigest, Two, Three
  <1>2. Again!Constants
    BY Distinct DEF Again!Constants, Again!NoTask, Again!NoDigest, Three
  <1> QED
    BY <1>1, <1>2

\* Each part of the publication keeps its own invariant, and no other step touches it.
LEMMA PublicationInv ==
  LET Inv == /\ part = "publication" => Publication!PubInv
             /\ part = "again" => Again!PubInv
  IN  (Init => Inv) /\ (Inv /\ [Next]_vars => Inv')
  <1> DEFINE Inv == /\ part = "publication" => Publication!PubInv
                    /\ part = "again" => Again!PubInv
  <1>1. Init => Inv
    BY PublicationInstances, Publication!InvFirst, Again!InvFirst DEF Init
  <1>2. Inv /\ [Next]_vars => Inv'
    <2>1. Publication!PubInv /\ [Publication!Next]_(Publication!vars) => Publication!PubInv'
      BY PublicationInstances, Publication!InvStep
    <2>2. Again!PubInv /\ [Again!Next]_(Again!vars) => Again!PubInv'
      BY PublicationInstances, Again!InvStep
    <2> QED
      BY <2>1, <2>2 DEF Next, vars, Publication!vars, Again!vars
  <1> QED
    BY <1>1, <1>2

\* Bills, journal rows and leases tell one story, whatever the part (claim, bind, finish).
THEOREM BillsAlwaysAgree == Spec => []BillsAgree
  <1> DEFINE Inv == /\ part = "publication" => Publication!PubInv
                    /\ part = "again" => Again!PubInv
  <1>1. (Init => Inv) /\ (Inv /\ [Next]_vars => Inv')
    BY PublicationInv
  <1>2. Inv => BillsAgree
    BY PublicationInstances, Publication!InvImplies, Again!InvImplies,
       Publication!BillsAgreeFollows, Again!BillsAgreeFollows DEF BillsAgree
  <1> QED
    BY <1>1, <1>2, PTL DEF Spec

\* A draft that may still be published keeps its payload (ChangePublishedGenerationPayload).
THEOREM PayloadIsKept == Spec => []PendingKeepsPayload
  <1> DEFINE Inv == /\ part = "publication" => Publication!PubInv
                    /\ part = "again" => Again!PubInv
  <1>1. (Init => Inv) /\ (Inv /\ [Next]_vars => Inv')
    BY PublicationInv
  <1>2. Inv => PendingKeepsPayload
    BY Publication!InvImplies, Again!InvImplies DEF PendingKeepsPayload
  <1> QED
    BY <1>1, <1>2, PTL DEF Spec

\* What an operator took away comes back only by the holder of the lease (WithdrawMonthlyBill).
THEOREM OnlyHolderReissues == Spec => ReissuedOnlyByHolder
  <1> DEFINE Inv == /\ part = "publication" => Publication!PubInv
                    /\ part = "again" => Again!PubInv
  <1>1. (Init => Inv) /\ (Inv /\ [Next]_vars => Inv')
    BY PublicationInv
  <1>2. Inv /\ [Next]_vars =>
          /\ part = "publication" => Publication!ReissuedOnlyByHolder
          /\ part = "again" => Again!ReissuedOnlyByHolder
    <2>1. Publication!PubInv /\ [Publication!Next]_(Publication!vars) => Publication!ReissuedOnlyByHolder
      BY PublicationInstances, Publication!ReissueStep
    <2>2. Again!PubInv /\ [Again!Next]_(Again!vars) => Again!ReissuedOnlyByHolder
      BY PublicationInstances, Again!ReissueStep
    <2> QED
      BY <2>1, <2>2 DEF Next, vars, Publication!vars, Again!vars
  <1> QED
    BY <1>1, <1>2, PTL DEF Spec, ReissuedOnlyByHolder

\* Nothing stale is stored after a deletion or a newer fill (usageResultCache.Delete).
THEOREM NeverStaleAlways == Spec => []NeverStale
  <1> DEFINE Inv == part = "cache" => Parts!CacheInv
  <1>1. Parts!CacheConstants
    <2>1. Three \cap {host1} = {} /\ none \notin Three \cup {host1}
      BY Distinct DEF Three
    <2> QED
      BY <2>1 DEF Parts!CacheConstants
  <1>2. Init => Inv
    BY <1>1, Parts!CacheFirst DEF Init
  <1>3. Inv /\ [Next]_vars => Inv'
    <2>1. Parts!CacheInv /\ [Parts!Cache!Next]_(Parts!Cache!vars) => Parts!CacheInv'
      BY <1>1, Parts!CacheStep
    <2> QED
      BY <2>1 DEF Next, vars, Parts!Cache!vars
  <1>4. Inv => NeverStale
    BY Parts!CacheImplies DEF NeverStale
  <1> QED
    BY <1>2, <1>3, <1>4, PTL DEF Spec

\* An upstream account keeps a valid token (syncStoredUpstreamUsageWithPriority).
THEOREM AccountAlwaysKept == Spec => []AccountKept
  <1> DEFINE Inv == part = "account" => Parts!AccountInv
  <1>1. Parts!AccountConstants
    BY Distinct DEF Parts!AccountConstants, Two
  <1>2. Init => Inv
    BY <1>1, Parts!AccountFirst DEF Init
  <1>3. Inv /\ [Next]_vars => Inv'
    <2>1. Parts!AccountInv /\ [Parts!Account!Next]_(Parts!Account!vars) => Parts!AccountInv'
      BY <1>1, Parts!AccountStep
    <2> QED
      BY <2>1 DEF Next, vars, Parts!Account!vars
  <1>4. Inv => AccountKept
    BY Parts!AccountImplies DEF AccountKept
  <1> QED
    BY <1>2, <1>3, <1>4, PTL DEF Spec

\* No request is sent before the cooldown of its host is over (loadCircuit, persistCircuit).
THEOREM CooldownIsKept == Spec => CooldownKept
  <1> DEFINE Inv == part = "guard" => Parts!GuardInv
  <1>1. Parts!GuardConstants
    <2>1. [r \in Others |-> host1] \in [Others -> {host1}] /\ none \notin Others
      BY Distinct DEF Others
    <2>2. <<1, 2>> \in Seq(Nat) /\ <<1, 2>> # <<>> /\ {2} \subseteq Nat
      OBVIOUS
    <2>3. Parts!Durations = {1, 2}
      BY DEF Parts!Durations, Parts!Guard!Range
    <2> QED
      BY <2>1, <2>2, <2>3 DEF Parts!GuardConstants
  <1>2. Init => Inv
    BY <1>1, Parts!GuardFirst DEF Init
  <1>3. Inv /\ [Next]_vars =>
          /\ Inv'
          /\ part = "guard" => Parts!Guard!TypeOK /\ Parts!Guard!StartsAfterCooldown
    <2>1. Parts!GuardInv /\ [Parts!Guard!Next]_(Parts!Guard!vars) =>
            Parts!GuardInv' /\ Parts!Guard!TypeOK /\ Parts!Guard!StartsAfterCooldown
      BY <1>1, Parts!GuardStep, Parts!GuardImplies
    <2> QED
      BY <2>1 DEF Next, vars, Parts!Guard!vars
  <1> QED
    BY <1>2, <1>3, PTL DEF Spec, CooldownKept

\* A recovery leaves the sessions of living managers alone (Recover).
THEOREM LiveSessionIsKept == Spec => []LiveSessionKept
  <1> DEFINE Inv == part = "sessions" => Parts!SessionsInv
  <1>1. Parts!SessionsConstants
    BY Distinct DEF Parts!SessionsConstants, Two, Three
  <1>2. Init => Inv
    BY <1>1, Parts!SessionsFirst DEF Init
  <1>3. Inv /\ [Next]_vars => Inv'
    <2>1. Parts!SessionsInv /\ [Parts!Sessions!Next]_(Parts!Sessions!vars) => Parts!SessionsInv'
      BY <1>1, Parts!SessionsStep
    <2> QED
      BY <2>1 DEF Next, vars, Parts!Sessions!vars
  <1>4. Inv => LiveSessionKept
    BY <1>1, Parts!SessionsImplies DEF LiveSessionKept
  <1> QED
    BY <1>2, <1>3, <1>4, PTL DEF Spec

\* A Monitor runs on both halves of a restored pair (preflightStoreRestoreActivation).
THEOREM RunsOnPairAlways == Spec => []RunsOnPair
  <1> DEFINE Inv == part = "restore" => Parts!RestoreInv
  <1>1. Parts!RestoreConstants
    BY Distinct DEF Parts!RestoreConstants, Two
  <1>2. Init => Inv
    BY <1>1, Parts!RestoreFirst DEF Init
  <1>3. Inv /\ [Next]_vars => Inv'
    <2>1. Parts!RestoreInv /\ [Parts!Restoring!Next]_(Parts!Restoring!vars) => Parts!RestoreInv'
      BY <1>1, Parts!RestoreStep
    <2> QED
      BY <2>1 DEF Next, vars, Parts!Restoring!vars
  <1>4. Inv => RunsOnPair
    BY <1>1, Parts!RestoreImplies DEF RunsOnPair
  <1> QED
    BY <1>2, <1>3, <1>4, PTL DEF Spec

\* A result claims no audit row that was not written (appendInvestigationAudit).
THEOREM NoAuditIsOverclaimed == Spec => []NoAuditOverclaimed
  <1> DEFINE Inv == part = "investigation" => Parts!LogsInv
  <1>1. Init => Inv
    BY Parts!LogsFirst DEF Init
  <1>2. Inv /\ [Next]_vars => Inv'
    <2>1. Parts!LogsInv /\ [Parts!Logs!Next]_(Parts!Logs!vars) => Parts!LogsInv'
      BY Parts!LogsStep DEF Parts!LogsKept
    <2> QED
      BY <2>1 DEF Next, vars, Parts!Logs!vars
  <1>3. Inv => NoAuditOverclaimed
    BY Parts!LogsImplies DEF NoAuditOverclaimed
  <1> QED
    BY <1>1, <1>2, <1>3, PTL DEF Spec

\* A canceled investigation never shows a result (cancelLogChainInvestigation).
THEOREM CancelledStaysSo == Spec => CancelledStays
  <1> DEFINE Inv == part = "investigation" => Parts!LogsInv
  <1>1. Init => Inv
    BY Parts!LogsFirst DEF Init
  <1>2. Inv /\ [Next]_vars => Inv' /\ (part = "investigation" => Parts!Logs!StaysCancelled)
    <2>1. Parts!LogsInv /\ [Parts!Logs!Next]_(Parts!Logs!vars) =>
            Parts!LogsInv' /\ Parts!Logs!StaysCancelled
      BY Parts!LogsStep DEF Parts!LogsKept
    <2> QED
      BY <2>1 DEF Next, vars, Parts!Logs!vars
  <1> QED
    BY <1>1, <1>2, PTL DEF Spec, CancelledStays

\* A migrated store has its way back (createPreMigrationSnapshot).
THEOREM RollbackIsPossible == Spec => []RollbackPoint
  <1> DEFINE Inv == part = "migration" => Parts!MigrationInv
  <1>1. Init => Inv
    BY Parts!MigrationFirst DEF Init
  <1>2. Inv /\ [Next]_vars => Inv'
    <2>1. Parts!MigrationInv /\ [Parts!Migration!Next]_(Parts!Migration!vars) => Parts!MigrationInv'
      BY Parts!MigrationStep
    <2> QED
      BY <2>1 DEF Next, vars, Parts!Migration!vars
  <1>3. Inv => RollbackPoint
    BY Parts!MigrationImplies DEF RollbackPoint
  <1> QED
    BY <1>1, <1>2, <1>3, PTL DEF Spec

\* A closed chain is complete, and does not fork (checkArchiveClosure, freezeArchiveEnvelope).
THEOREM ClosureCoversAll == Spec => []ClosureCoversAcks
  <1> DEFINE Inv == part = "archive" => Parts!ChainInv
  <1>1. Parts!ChainConstants
    BY Distinct DEF Parts!ChainConstants, Two
  <1>2. Init => Inv
    BY <1>1, Parts!ChainFirst DEF Init
  <1>3. Inv /\ [Next]_vars => Inv'
    <2>1. Parts!ChainInv /\ [Parts!Chain!Next]_(Parts!Chain!vars) => Parts!ChainInv'
      BY <1>1, Parts!ChainStep
    <2> QED
      BY <2>1 DEF Next, vars, Parts!Chain!vars
  <1>4. Inv => ClosureCoversAcks
    BY <1>1, Parts!ChainImplies DEF ClosureCoversAcks
  <1> QED
    BY <1>2, <1>3, <1>4, PTL DEF Spec

\* The lane of the run meets the assumptions of its theorems.
LEMMA LaneConstants == {1} \subseteq Nginx!File /\ Two # {} /\ Nginx!NginxConstants
  BY DEF Nginx!NginxConstants, Nginx!File, Two

\* The lane of the run keeps its invariant, and no step of another part touches it.
LEMMA LaneInstance ==
  LET Inv == part = "nginx" => Nginx!LaneInv
  IN  (Init => Inv) /\ (Inv /\ [Next]_vars => Inv')
  <1> DEFINE Inv == part = "nginx" => Nginx!LaneInv
  <1>1. Init => Inv
    BY LaneConstants, Nginx!InvFirst DEF Init
  <1>2. Inv /\ [Next]_vars => Inv'
    <2>1. Nginx!LaneInv /\ [Nginx!Next]_(Nginx!vars) => Nginx!LaneInv'
      BY LaneConstants, Nginx!InvStep
    <2> QED
      BY <2>1 DEF Next, vars, Nginx!vars, Nginx!client
  <1> QED
    BY <1>1, <1>2

\* Every line Monitor accepted is counted once (applyNginxSourceRangeV2).
THEOREM LinesCountedOnce == Spec => []CountedOnce
  <1> DEFINE Inv == part = "nginx" => Nginx!LaneInv
  <1>1. (Init => Inv) /\ (Inv /\ [Next]_vars => Inv')
    BY LaneInstance
  <1>2. Inv => CountedOnce
    BY LaneConstants, Nginx!InvImplies DEF CountedOnce
  <1> QED
    BY <1>1, <1>2, PTL DEF Spec

\* A restarted collector can be given the proof it needs (recoverSourceAcknowledgementsV2).
THEOREM LostProofRecoverable == Spec => []Recoverable
  <1> DEFINE Inv == part = "nginx" => Nginx!LaneInv
  <1>1. (Init => Inv) /\ (Inv /\ [Next]_vars => Inv')
    BY LaneInstance
  <1>2. Inv => Recoverable
    BY LaneConstants, Nginx!InvImplies DEF Recoverable
  <1> QED
    BY <1>1, <1>2, PTL DEF Spec

\* Both sides agree on the files, and nothing repeated is refused (ensureSourceProtocolV2).
THEOREM SidesAlwaysAgree == Spec => []SidesAgree
  <1> DEFINE Inv == part = "nginx" => Nginx!LaneInv
  <1>1. (Init => Inv) /\ (Inv /\ [Next]_vars => Inv')
    BY LaneInstance
  <1>2. Inv => SidesAgree
    BY LaneConstants, Nginx!InvImplies DEF SidesAgree
  <1> QED
    BY <1>1, <1>2, PTL DEF Spec

\* The lane of the run implements the delivery of bytes (applyNginxSourceRangeV2,
\* acknowledgeSourceRangeV2, confirmNginxSourceAckV2).
THEOREM LaneImplementsDelivery == Spec => DeliverySpec
  <1> DEFINE Inv == part = "nginx" => Nginx!LaneInv
  <1>1. (Init => Inv) /\ (Inv /\ [Next]_vars => Inv')
    BY LaneInstance
  <1>2. Init => (part = "nginx" => Nginx!Delivery!Init)
    BY LaneConstants, Nginx!DeliveryFirst DEF Init
  <1>3. Inv /\ [Next]_vars =>
          (part = "nginx" => Nginx!Delivery!Next \/ UNCHANGED Nginx!Delivery!vars)
    <2>1. Nginx!LaneInv /\ [Nginx!Next]_(Nginx!vars) =>
            Nginx!Delivery!Next \/ UNCHANGED Nginx!Delivery!vars
      BY LaneConstants, Nginx!DeliveryStep
    <2> QED
      BY <2>1 DEF Next, vars, Nginx!vars, Nginx!client
  <1> QED
    BY <1>1, <1>2, <1>3, PTL DEF Spec, DeliverySpec
=============================================================================
