----------------------------- MODULE MCOperations -----------------------------
(***************************************************************************)
(* Conversations that are shared and exported, what is told of a run, the  *)
(* gateway to the model, the tool calls and their containers, the runs of  *)
(* other services and the scripts of the operator, for TLC: a behaviour is *)
(* one of the part it picks at the start, the others rest in their initial *)
(* state.                                                                  *)
(***************************************************************************)
EXTENDS Naturals, Sequences, FiniteSets

CONSTANTS Parts    \* the parts this run is about
CONSTANTS Tabs, Guests, Shareable, MaxQuestions, MayDie, NoTask
CONSTANTS PageSize, MaxPages, Cap, MaxConversations, MaxMessages
CONSTANTS Callers, MaxNotices
CONSTANTS Handlers, Tokens, OrphanLimit, RateLimit, MaxRetries, MaxRequests,
    Presented, NoToken
CONSTANTS Processes, Workers, MaxContainers, LeftoverLimit, Mortal,
    NoContainer
CONSTANTS Runs, MaxEvents, MaxCrashes, MaxReads
CONSTANTS ChangesMax, MayDrift
CONSTANTS MaxChanges, MaxTroubles
CONSTANTS Documents, TooLong, Unnamed, RowsPerPage, PageLimit, MaxRows,
    MaxUploads, MaxImports

VARIABLES conversation, remembered, members, questions, replies, trail,
    sharingAt, sharingTask, held, sharedCalmly
VARIABLES liveConversations, createdConversations, messages, request, client,
    bundle, begun, exportDeletions
VARIABLES run, record, used, runNotices, noticeAt, moving, snapshots, moments,
    ends, audited, told, noticedCalmly
VARIABLES tokens, expired, spent, count, meter, gatewayAt, serving, requests,
    admitted, uncounted, late, servedCalmly
VARIABLES boxes, createdBoxes, tracked, sweep, ready, executorAt, mine, exit,
    outcome, restarted, early
VARIABLES remote, emitted, rememberedRuns, rows, stage, cursor, delivered,
    adapterCrashes, answered
VARIABLES call, pipelineAt, first, why, passed, face, disk, binary, keyHeld,
    action, callTrail, artifacts, answers, calls, lost
VARIABLES system, docker, database, setup, probeAt, checks, notified,
    exitCode, changes, everFaulty, faulty, readable
VARIABLES upstream, registry, importTrail, how, importAt, page, collected,
    entries, report, uploads, imports, listed, stayed, shrunk, written,
    untold
VARIABLE part

hVars == <<conversation, remembered, members, questions, replies, trail,
    sharingAt, sharingTask, held, sharedCalmly>>
xVars == <<liveConversations, createdConversations, messages, request,
    client, bundle, begun, exportDeletions>>
nVars == <<run, record, used, runNotices, noticeAt, moving, snapshots,
    moments, ends, audited, told, noticedCalmly>>
gVars == <<tokens, expired, spent, count, meter, gatewayAt, serving,
    requests, admitted, uncounted, late, servedCalmly>>
qVars == <<boxes, createdBoxes, tracked, sweep, ready, executorAt, mine,
    exit, outcome, restarted, early>>
yVars == <<remote, emitted, rememberedRuns, rows, stage, cursor, delivered,
    adapterCrashes, answered>>
tVars == <<call, pipelineAt, first, why, passed, face, disk, binary,
    keyHeld, action, callTrail, artifacts, answers, calls, lost>>
bVars == <<system, docker, database, setup, probeAt, checks, notified,
    exitCode, changes, everFaulty, faulty, readable>>
kVars == <<upstream, registry, importTrail, how, importAt, page, collected,
    entries, report, uploads, imports, listed, stayed, shrunk,
    written, untold>>
vars == <<part, hVars, xVars, nVars, gVars, qVars, yVars, tVars, bVars, kVars>>

H == INSTANCE ConversationSharing WITH
    at <- sharingAt, task <- sharingTask, calm <- sharedCalmly
X == INSTANCE ConversationExport WITH
    deletions <- exportDeletions, live <- liveConversations, created <-
    createdConversations
N == INSTANCE RunNotices WITH
    at <- noticeAt, notices <- runNotices, calm <- noticedCalmly, doing <-
    moving, seen <- snapshots
G == INSTANCE ModelGateway WITH
    at <- gatewayAt, doing <- serving, calm <- servedCalmly, lost <- uncounted
Q == INSTANCE ContainerPool WITH
    at <- executorAt, serving <- ready, live <- tracked, created <-
    createdBoxes, OrphanLimit <- LeftoverLimit
Y == INSTANCE ExternalRuntime WITH
    crashes <- adapterCrashes, told <- answered, seen <- delivered, known <-
    rememberedRuns
T == INSTANCE ToolPipeline WITH
    at <- pipelineAt, trail <- callTrail, readable <- keyHeld
B == INSTANCE MonitoringProbe WITH
    at <- probeAt, told <- notified, code <- exitCode
K == INSTANCE KnowledgeImport WITH
    at <- importAt, trail <- importTrail

\* Requests are of the owner or of a guest.
ASSUME SharingAssumption ==
    /\ IsFiniteSet(Tabs) /\ IsFiniteSet(Guests) /\ Tabs \cap Guests = {}
    /\ MaxQuestions \in Nat

\* The pages the client fetches at most hold what the server counts at most.
ASSUME ExportAssumption ==
    /\ PageSize \in Nat \ {0} /\ MaxPages \in Nat \ {0}
    /\ Cap \in Nat /\ Cap <= PageSize * MaxPages
    /\ MaxConversations \in Nat /\ MaxMessages \in Nat

\* A limiter that is switched off, by a limit of 0, is none.
ASSUME GatewayAssumption ==
    /\ IsFiniteSet(Handlers) /\ Handlers # {} /\ NoToken \notin Tokens
    /\ OrphanLimit \in Nat /\ RateLimit \in Nat \ {0}
    /\ MaxRetries \in Nat /\ MaxRequests \in Nat

\* No container has a number.
ASSUME PoolAssumption ==
    /\ IsFiniteSet(Processes) /\ IsFiniteSet(Workers)
    /\ LeftoverLimit \in Nat /\ MaxContainers \in Nat
    /\ NoContainer \notin Nat \ {0}

ASSUME PipelineAssumption == ChangesMax \in Nat

ASSUME ExternalAssumption == MaxEvents \in Nat /\ MaxCrashes \in Nat

\* Pages hold rows, and a row without an id is no document.
ASSUME ImportAssumption ==
    /\ RowsPerPage \in Nat \ {0} /\ PageLimit \in Nat \ {0}
    /\ Unnamed \notin Documents
    /\ MaxRows \in Nat /\ MaxUploads \in Nat /\ MaxImports \in Nat

Init ==
    /\ part \in Parts
    /\ H!Init /\ X!Init /\ N!Init /\ G!Init /\ Q!Init /\ Y!Init /\ T!Init
    /\ B!Init /\ K!Init
    /\ part # "export" => createdConversations = 0
    /\ part # "import" => upstream = <<>>
    /\ part # "tools" => disk = "inside" /\ binary = "listed" /\ "export" \in face

Next ==
    \/ /\ part = "sharing" /\ H!Next
       /\ UNCHANGED <<part, xVars, nVars, gVars, qVars, yVars, tVars, bVars, kVars>>
    \/ /\ part = "export" /\ X!Next
       /\ UNCHANGED <<part, hVars, nVars, gVars, qVars, yVars, tVars, bVars, kVars>>
    \/ /\ part = "notices" /\ N!Next
       /\ UNCHANGED <<part, hVars, xVars, gVars, qVars, yVars, tVars, bVars, kVars>>
    \/ /\ part = "gateway" /\ G!Next
       /\ UNCHANGED <<part, hVars, xVars, nVars, qVars, yVars, tVars, bVars, kVars>>
    \/ /\ part = "containers" /\ Q!Next
       /\ UNCHANGED <<part, hVars, xVars, nVars, gVars, yVars, tVars, bVars, kVars>>
    \/ /\ part = "external" /\ Y!Next
       /\ UNCHANGED <<part, hVars, xVars, nVars, gVars, qVars, tVars, bVars, kVars>>
    \/ /\ part = "tools" /\ T!Next
       /\ UNCHANGED <<part, hVars, xVars, nVars, gVars, qVars, yVars, bVars, kVars>>
    \/ /\ part = "probe" /\ B!Next
       /\ UNCHANGED <<part, hVars, xVars, nVars, gVars, qVars, yVars, tVars, kVars>>
    \/ /\ part = "import" /\ K!Next
       /\ UNCHANGED <<part, hVars, xVars, nVars, gVars, qVars, yVars, tVars, bVars>>

Spec == Init /\ [][Next]_vars

-----------------------------------------------------------------------------
(*                 Properties, stated in their own modules                 *)

\* Every variable has its type.
TypeOK ==
    /\ part = "sharing" => H!TypeOK
    /\ part = "export" => X!TypeOK
    /\ part = "notices" => N!TypeOK
    /\ part = "gateway" => G!TypeOK
    /\ part = "containers" => Q!TypeOK
    /\ part = "external" => Y!TypeOK
    /\ part = "tools" => T!TypeOK
    /\ part = "probe" => B!TypeOK
    /\ part = "import" => K!TypeOK

\* A conversation is shown to its members and written by who may, the trail says
\* who they are, and its owner's export misses no more than it tells, and one
\* conversation for each that was deleted meanwhile.
ConversationIsOwned ==
    /\ part = "sharing" =>
        H!ServedWasAdmitted /\ H!MembersAreShareable /\ H!TrailTellsTheMembers
    /\ part = "export" => X!ExportIsWhole /\ X!ExportHasMessages

\* What is told and charged of a run did happen, and while requests do not overlap
\* an end is told by one of them, or audited instead; the events of a run on
\* another service arrive once and in order, no run is lost there but by a failure,
\* and a notice that was read stays so.
RunsAreReported ==
    /\ [](part = "notices" => N!WordIsTrue /\ N!EndIsAccountedFor)
    /\ [](part = "external" => Y!EventsAreInOrder /\ Y!RemoteIsHeld)
    /\ N!ReadStaysRead

\* A limit of the gateway's tokens or of the containers is overrun by no more than
\* the requests that passed it together, an admission of the limiter uses up a state
\* that does not come back; the meter shows no answer that was not sent for, and for
\* one request at a time misses none; a process keeps the containers it tracks, and
\* a tool is called once, past every gate, the trail telling how it went.
CallsAreContained ==
    /\ part = "gateway" => G!LimitsHold /\ G!UpstreamIsAccounted
    /\ part = "containers" =>
        Q!ContainersAreBounded /\ Q!OutcomesAreEarned /\ Q!OwnAreKept
    /\ part = "tools" => T!ExecutedAsJudged /\ T!RefusalIsTold /\ T!TrailTells

\* The operator's scripts tell the truth of what changes under them: the probe of
\* faults, the import of documents, of which it misses none that stayed, unless one
\* was removed while it read the list, and registers none without a word, unless it
\* died between the two writes.
ScriptsTellTruth ==
    /\ part = "probe" => B!ProbeTellsTruth
    /\ part = "import" => K!ListIsWhole /\ K!ReportIsTrue /\ K!RegistrationIsTold
=============================================================================
