---------------------------- MODULE ToolPipeline ----------------------------
(***************************************************************************)
(* One tool call and the nine gates it passes: the request of a message,   *)
(* the pending action it may leave, the decision, and the second pass      *)
(* through every gate that an approval starts.  The world changes between  *)
(* two steps: tools are withdrawn, keys rotated, files and executables     *)
(* replaced.  Every refusal is told to the audit before anything else is   *)
(* done about it.  ToolApproval has the transactions of the decision.      *)
(***************************************************************************)
EXTENDS Naturals, Sequences, FiniteSets, SequencesExt

CONSTANTS ChangesMax,   \* WORKBENCH_FILE_CHANGES_MAX
          MayDrift      \* may files, executables, tools and keys change meanwhile?

VARIABLES call,       \* the request, or NoCall
          at, first,  \* where the pass is, and is it the first one?
          why,        \* the refusal on its way
          passed,     \* the gates of this pass, as it passed them
          face, disk, binary, readable,   \* the world: the tools assembled, where the
                      \* path leads, what the executable is, is the body's key held?
          action,     \* the row of workbench_tool_actions, or NoAction
          trail,      \* the audit entries about the call
          artifacts,  \* rows of workbench_run_artifacts; old: past their retention
          answers,    \* history: how the passes ended that were executed or refused
          calls,      \* history: per call of the executor, the gates passed
          lost        \* history: the process died, or the audit failed

vars == <<call, at, first, why, passed, face, disk, binary, readable, action, trail,
          artifacts, answers, calls, lost>>
world == <<face, disk, binary, readable>>
told == <<answers, calls, lost>>

\* default_tool_specs, one of a kind: what is judged of the arguments, how many of
\* them are bodies, and whether it must be approved, as all that has effects.
Tool == [read |-> [judged |-> "path", bodies |-> 0, approval |-> FALSE],
         write |-> [judged |-> "path", bodies |-> 1, approval |-> TRUE],
         run |-> [judged |-> "executable", bodies |-> 0, approval |-> FALSE],
         export |-> [judged |-> "root", bodies |-> 0, approval |-> TRUE],
         log |-> [judged |-> "nothing", bodies |-> 2, approval |-> TRUE]]
Tools == DOMAIN Tool

\* assemble_tool_face: whether results may be exported is a setting.
Assembled == {Tools, Tools \ {"export"}}

NoCall == [tool |-> "none", fits |-> FALSE, words |-> "plain", policy |-> FALSE]
NoAction == [status |-> "none", by |-> "none", body |-> FALSE]
Rejected(by) == [status |-> "rejected", by |-> by, body |-> FALSE]
Kind == Tool[call.tool]

Places == {"idle", "restore", "whitelist", "path", "danger", "risk", "authorize",
           "execute", "executed", "register", "blocked", "mark"}
Reasons == {"not_in_catalog", "param_invalid", "path_denied", "blacklisted",
            "not_authorized", "runtime_error", "timeout"}
Leads == {"inside", "secret", "outside"}
Binaries == {"listed", "unlisted", "untrusted"}

Init ==
    /\ call = NoCall /\ at = "idle" /\ first = TRUE /\ why = "none" /\ passed = {}
    /\ face \in Assembled /\ disk \in Leads /\ binary \in Binaries
    /\ readable = TRUE
    /\ action = NoAction /\ trail = <<>> /\ artifacts = [rows |-> 0, old |-> FALSE]
    /\ answers = <<>> /\ calls = <<>> /\ lost = FALSE

Go(place) == at' = place
Ended == Reasons \cup {"executed"}
Answer(a) == /\ answers' = IF a \in Ended THEN Append(answers, a) ELSE answers
             /\ Go("idle") /\ why' = "none" /\ passed' = {}

-----------------------------------------------------------------------------
(*                                 The gates                                *)

\* execute: the request comes in, its parameters as they may be.
Ask(tool, fits, words, policy) ==
    /\ at = "idle" /\ call = NoCall
    /\ call' = [tool |-> tool, fits |-> fits, words |-> words, policy |-> policy]
    /\ first' = TRUE /\ Go("whitelist")
    /\ UNCHANGED <<why, passed, world, action, trail, artifacts, told>>

\* A gate of this pass is passed, or the pass is refused for a reason.
Gate(place, ok, reason, next) ==
    /\ at = place
    /\ IF ok THEN passed' = passed \cup {place} /\ Go(next) /\ UNCHANGED why
       ELSE why' = reason /\ Go("blocked") /\ UNCHANGED passed
    /\ UNCHANGED <<call, first, world, action, trail, artifacts, told>>

\* 1 and 2: the tool is assembled, its parameters fit the schema.
Fits == call.fits
Whitelist ==
    Gate("whitelist", call.tool \in face /\ Fits,
         IF call.tool \in face THEN "param_invalid" ELSE "not_in_catalog", "path")

\* 3: PathGuard: where the path leads, links followed, is within the volume.
Path == Gate("path", Kind.judged \in {"path", "root"} => disk # "outside",
             "path_denied", "danger")

\* 4: the source of the executable, its name and its arguments, or, of a path,
\* that it names no secret; export is not judged by it.
PathHit == Kind.judged = "path" /\ disk = "secret"
SourceDenied == binary = "untrusted"
NameDenied == binary = "unlisted"
ParamHit == call.words = "denied"
CommandHit == Kind.judged = "executable" /\ (SourceDenied \/ NameDenied \/ ParamHit)
Danger == Gate("danger", ~PathHit /\ ~CommandHit, "blacklisted", "risk")

\* 5: the catalogue or the policy demands an approval; the second pass has one.
Risk ==
    /\ at = "risk" /\ (first => ~(Kind.approval \/ call.policy))
    /\ Go("authorize")
    /\ UNCHANGED <<call, first, why, passed, world, action, trail, artifacts, told>>

\* 6: the action is stored, its first body encrypted, and only then awaited.
Persist ==
    /\ at = "risk" /\ first /\ (Kind.approval \/ call.policy)
    /\ \/ /\ action' = [NoAction EXCEPT !.status = "pending", !.body = Kind.bodies > 0]
          /\ Answer("pending")
       \/ UNCHANGED action /\ Answer("unavailable")
    /\ UNCHANGED <<call, first, world, trail, artifacts, calls, lost>>

\* 7: every action of the run is approved.  The first pass asks the runtime, too;
\* the second is told of no actor and does not.
Approved == action.status = "approved"
Authorize ==
    \E runtime \in IF first THEN BOOLEAN ELSE {TRUE} :
        Gate("authorize", (action = NoAction \/ Approved) /\ runtime,
             "not_authorized", "execute")

-----------------------------------------------------------------------------
(*                        Execution and what it leaves                     *)

\* 8: the executor is called and answers, times out, or fails.
Execute ==
    /\ at = "execute"
    /\ calls' = Append(calls, [tool |-> call.tool, gates |-> passed, first |-> first])
    /\ \/ Go("executed") /\ UNCHANGED why
       \/ why' \in {"timeout", "runtime_error"} /\ Go("blocked")
    /\ UNCHANGED <<call, first, passed, world, action, trail, artifacts, answers, lost>>

\* The audit's store is down: the request ends there.
AuditFails ==
    /\ at \in {"executed", "blocked"}
    /\ lost' = TRUE /\ Answer("broken")
    /\ UNCHANGED <<call, first, world, action, trail, artifacts, calls>>

Tell(entry) == trail' = Append(trail, entry)

\* 9: _record_executed
RecordExecuted ==
    /\ at = "executed"
    /\ Tell([what |-> "executed", why |-> "none", of |-> IF first THEN "step" ELSE "action"])
    /\ Go("register")
    /\ UNCHANGED <<call, first, why, passed, world, action, artifacts, told>>

\* bounded_changes: the first of them; none when the channel is closed.
Kept(n) == IF n <= ChangesMax THEN n ELSE ChangesMax

\* A marker line in the output of a tool on files decodes to the files it changed.
\* What is read is output as well, and may hold such a line.
FsTools == {"read", "write"}
Decoded == 0..ChangesMax + 1
FileChanges == IF call.tool \in FsTools THEN Decoded ELSE {0}

\* The rows are inserted in one transaction; when that fails, the execution stands.
Inserted(n) == [artifacts EXCEPT !.rows = @ + n]
Recorded(n) == {artifacts, Inserted(n)}

\* _record_artifacts
Register ==
    /\ at = "register"
    /\ \E n \in FileChanges : artifacts' \in Recorded(Kept(n))
    /\ Answer("executed")
    /\ UNCHANGED <<call, first, world, action, trail, calls, lost>>

\* _fail is given the action by the gates that know it: not by 2 and 3.
Named == ~first /\ why \notin {"param_invalid", "path_denied"}

\* _write_blocked_audit, and then: what is on the blacklist is rejected for good.
Block ==
    /\ at = "blocked"
    /\ Tell([what |-> "blocked", why |-> why, of |-> IF Named THEN "action" ELSE "step"])
    /\ IF Named /\ why = "blacklisted"
       THEN Go("mark") /\ UNCHANGED <<why, passed, answers>>
       ELSE Answer(why)
    /\ UNCHANGED <<call, first, world, action, artifacts, calls, lost>>

\* _mark_rejected; a failure to store it is swallowed.
MarkRejected ==
    /\ at = "mark"
    /\ action' \in {action, Rejected("gate")}
    /\ Answer(why)
    /\ UNCHANGED <<call, first, world, trail, artifacts, calls, lost>>

Pass == Whitelist \/ Path \/ Danger \/ Risk \/ Persist \/ Authorize \/ Execute
        \/ AuditFails \/ RecordExecuted \/ Register \/ Block \/ MarkRejected

-----------------------------------------------------------------------------
(*                      The decision and the second pass                   *)

\* The decision; an approval is followed by resume, whether or not the action was
\* still pending.
Decide(approve) ==
    /\ at = "idle" /\ first /\ action # NoAction
    /\ action' = IF action.status # "pending" THEN action
                 ELSE IF approve THEN [action EXCEPT !.status = "approved", !.by = "human"]
                 ELSE Rejected("human")
    /\ first' = FALSE
    /\ Go(IF approve THEN "restore" ELSE "idle")
    /\ UNCHANGED <<call, why, passed, world, trail, artifacts, told>>

\* Its time is up before it is decided.
ExpireBody ==
    /\ action.status = "pending" /\ action.body
    /\ action' = [NoAction EXCEPT !.status = "expired"]
    /\ UNCHANGED <<call, at, first, why, passed, world, trail, artifacts, told>>

\* find_approved: there is no approved action, 409 and no entry.
NothingApproved ==
    /\ at = "restore" /\ ~Approved
    /\ Answer("conflict")
    /\ UNCHANGED <<call, first, world, action, trail, artifacts, calls, lost>>

\* _restore_params of a tool with more than one body raises what nobody handles.
TwoBodies ==
    /\ at = "restore" /\ Approved /\ call.tool \in face /\ Kind.bodies > 1
    /\ Answer("broken")
    /\ UNCHANGED <<call, first, world, action, trail, artifacts, calls, lost>>

\* The tool is withdrawn, or the body is not to be decrypted.
Unrestorable ==
    IF call.tool \notin face THEN "not_in_catalog"
    ELSE IF action.body /\ ~readable THEN "runtime_error" ELSE "none"

\* The frozen parameters again, and from the first gate.
Restore ==
    /\ at = "restore" /\ Approved
    /\ call.tool \in face => Kind.bodies < 2
    /\ IF Unrestorable = "none"
       THEN Go("whitelist") /\ UNCHANGED why
       ELSE Go("blocked") /\ why' = Unrestorable
    /\ UNCHANGED <<call, first, passed, world, action, trail, artifacts, told>>

-----------------------------------------------------------------------------
(*                            The world meanwhile                          *)

\* Somebody replaces a file or an executable.
Drift ==
    /\ MayDrift /\ disk' \in Leads /\ binary' \in Binaries
    /\ UNCHANGED <<call, at, first, why, passed, face, readable, action, trail,
                   artifacts, told>>

\* The process dies, and is deployed anew: without a tool, with other keys, the
\* previous ones kept to decrypt or not.
Redeploy ==
    /\ MayDrift
    /\ face' \in Assembled \cup {face, face \ {call.tool}}
    /\ readable' \in {readable, FALSE}
    /\ lost' = (lost \/ at # "idle")
    /\ Go("idle") /\ why' = "none" /\ passed' = {}
    /\ UNCHANGED <<call, first, disk, binary, action, trail, artifacts, answers, calls>>

\* The rows of the register age, and the cleaner deletes what nobody is shown.
Shown == IF artifacts.old THEN 0 ELSE artifacts.rows
Age ==
    /\ artifacts.rows > 0 /\ artifacts' = [artifacts EXCEPT !.old = TRUE]
    /\ UNCHANGED <<call, at, first, why, passed, world, action, trail, told>>
PurgeExpired ==
    /\ artifacts.rows > 0 /\ Shown = 0 /\ artifacts' = [rows |-> 0, old |-> FALSE]
    /\ UNCHANGED <<call, at, first, why, passed, world, action, trail, told>>

Next == \/ \E tool \in Tools, fits, policy \in BOOLEAN, words \in {"plain", "denied"} :
            Ask(tool, fits, words, policy)
        \/ Pass \/ NothingApproved \/ TwoBodies \/ Restore
        \/ \E approve \in BOOLEAN : Decide(approve)
        \/ ExpireBody \/ Drift \/ Redeploy \/ Age \/ PurgeExpired

Spec == Init /\ [][Next]_vars

-----------------------------------------------------------------------------
(*                                Properties                               *)

\* Every variable has its type.
TypeOK ==
    /\ at \in Places /\ first \in BOOLEAN /\ why \in Reasons \cup {"none"}
    /\ passed \subseteq Places /\ face \subseteq Tools
    /\ disk \in Leads /\ binary \in Binaries /\ readable \in BOOLEAN
    /\ action \in [status : {"none", "pending", "approved", "rejected", "expired"},
                    by : {"none", "human", "gate"}, body : BOOLEAN]
    /\ artifacts.rows \in Nat /\ artifacts.old \in BOOLEAN

\* However the world changes, the executor is called at most once for a call, in a
\* pass that went through every gate itself, and with effects only in the pass an
\* approval started.
ExecutedAsJudged ==
    /\ Len(calls) <= 1
    /\ \A c \in ToSet(calls) :
        /\ c.gates = {"whitelist", "path", "danger", "authorize"}
        /\ Tool[c.tool].approval => ~c.first

\* What the gates reject for good was told first, whatever dies or fails then; a
\* refusal that keeps the approval leaves it; and no body outlives its action.
RefusalIsTold ==
    /\ action.by = "gate" =>
        [what |-> "blocked", why |-> "blacklisted", of |-> "action"] \in ToSet(trail)
    /\ ~first /\ answers # <<>> /\ Last(answers) \in Reasons \ {"blacklisted"} => Approved
    /\ action.body => action.status \in {"pending", "approved"}

EndOf(entry) == IF entry.what = "executed" THEN "executed" ELSE entry.why

\* Unless the process died or the audit failed, there is one entry for every pass
\* that was executed or refused, in their order, and files are on the register
\* only of what was executed, no more of them than the frame showed.
TrailTells ==
    /\ ~lost /\ at = "idle" => [i \in DOMAIN trail |-> EndOf(trail[i])] = answers
    /\ artifacts.rows <= ChangesMax
    /\ artifacts.rows > 0 => \E e \in ToSet(trail) : e.what = "executed"
=============================================================================
