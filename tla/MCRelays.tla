------------------------------ MODULE MCRelays ------------------------------
(***************************************************************************)
(* The two relays, which share no state, each on its own: a behaviour       *)
(* picks one of them and takes only its steps.                              *)
(*                                                                         *)
(* image     two tasks over two keys of one installation, a key for OpenAI  *)
(*           (a single POST for both outputs) and one for Seedream (a POST  *)
(*           per output); an account that may be rebound at the restart     *)
(* video     a short call and a long transcription, and limits that allow   *)
(*           one of them; two POSTs of each, two recoveries, one restart    *)
(***************************************************************************)
EXTENDS RelayImageTasks

CONSTANTS openaiKey, seedreamKey,               \* keys of the image relay
          owner                                 \* of them, and of the video operations
CONSTANTS short, long                           \* operations of the video relay

\* The constants of the video relay; both relays have an OwnerOf.
CONSTANTS Ops, Long, OpOwnerOf(_), Units(_),
          Callers, Flights, Versions, OwnerLimit, AccountLimit

VARIABLES part,
          opRow, quota, result, rowAcked, doomed, stored, post, submitting, own, lock, flight,
          opSection, opSent, opCharged, opCrashes

MCOwnerOf(k) == owner
MCHops(k) == IF k = seedreamKey THEN Outputs ELSE 1
MCOps == {short, long}
MCLong == {long}
MCUnits(o) == 1

Video == INSTANCE VideoMediaRelay WITH
  OwnerOf <- OpOwnerOf,
  row <- opRow, section <- opSection, sent <- opSent, charged <- opCharged, crashes <- opCrashes

ASSUME VideoAssumption == Video!VideoConfig

videoVars == <<opRow, quota, result, rowAcked, doomed, stored, post, submitting, own, lock, flight,
               opSection, opSent, opCharged, opCrashes>>
partsVars == <<part, vars, videoVars>>

PartsInit ==
  /\ part \in {"image", "video"}
  /\ RelayInit /\ Video!VideoInit
  /\ part # "image" => account = CHOOSE a \in Accounts : TRUE

PartsNext ==
  /\ UNCHANGED part
  /\ \/ part = "image" /\ RelayNext /\ UNCHANGED videoVars
     \/ part = "video" /\ Video!VideoNext /\ UNCHANGED vars

OfImage(A) == part = "image" /\ A /\ UNCHANGED <<part, videoVars>>

\* The fairness of RelaySpec.
PartsSpec ==
  /\ PartsInit /\ [][PartsNext]_partsVars
  /\ \A t \in Tasks : SF_partsVars(OfImage(RunnerStep(t)))
  /\ WF_partsVars(OfImage(\E t \in Tasks : SectionStep(t)))
  /\ WF_partsVars(OfImage(Recover \/ StartServing \/ \E t \in Tasks : RecoveryStep(t)))

-----------------------------------------------------------------------------
\* What the Providers charge stays within the quotas: RelayImageTasks,
\* createWithReservation; VideoMediaRelay, reserve.
SpendWithinLimits == SpendWithinQuota /\ Video!SpendWithinLimits

\* Nothing that may have been paid is sent again: RelayImageTasks, runImageTask;
\* VideoMediaRelay, the fence.
NeverSentAgain == NeverPostedAgain /\ Video!SentOnce

\* What was accepted is not lost: RelayImageTasks, putOutputs and markSucceeded;
\* VideoMediaRelay, promotePublishingResult and sweepExpiredResources.
WorkKept == ResultReadable /\ Video!PublishedIsStored /\ Video!AcceptedCaredFor

=============================================================================
