-------------------------- MODULE MonitoringProbe --------------------------
(***************************************************************************)
(* The probe that an operator runs beside the system: nine signals, read   *)
(* one after another while they change, a report, an exit code and, if     *)
(* asked for, a notification.  A signal that cannot be read is skipped.    *)
(***************************************************************************)
EXTENDS Naturals, Sequences, FiniteSets, SequencesExt

CONSTANTS MaxChanges,   \* bound: changes of the system from one probe to the next
          MaxTroubles   \* bound: signals that are not as usual at one time

VARIABLES system,             \* what each signal would read as now
          docker, database,   \* can they be asked now?
          setup, at,          \* how the probe was started, and where it is
          checks,             \* the verdicts so far, in order
          told, code,         \* what became of the notification, the exit code
          changes,
          everFaulty, faulty, \* history: the signals at fault at some time, and all
          readable            \* the time, of this probe, and those always readable

vars == <<system, docker, database, setup, at, checks, told, code, changes,
          everFaulty, faulty, readable>>
history == <<everFaulty, faulty, readable>>

\* SIGNALS, in the order in which they are read.
Signals == <<"beat", "worker", "app", "outbox", "letters", "audit", "disk",
             "connections", "memory">>
Dockered == {"beat", "worker", "memory"}
Queried == {"outbox", "letters", "audit", "connections"}

-----------------------------------------------------------------------------
(*           What the signals read as, and what the checks make of it      *)

\* The log over thrice the time a beat may be silent: when it dispatched last, that
\* it only wrote other lines, or none at all.
CheckBeat == [fresh |-> "ok", stale |-> "alert", other |-> "alert", empty |-> "skipped",
              gone |-> "skipped"]

\* The state of the container's health check, which it may not have.
CheckWorkerHealth == [healthy |-> "ok", starting |-> "ok", unhealthy |-> "alert",
                      unchecked |-> "skipped", unknown |-> "skipped", gone |-> "skipped"]

\* GET /api/v1/health: it is a fault not to be reached.
CheckAppHealth == [ok |-> "ok", error |-> "alert", unreachable |-> "alert"]

\* One sample: rows not published, letters not replayed.
CheckOutbox == [none |-> "ok", some |-> "alert"]
CheckDeadLetters == [none |-> "ok", some |-> "alert"]

\* The last entry; one from the future is the clock's fault.
CheckAudit == [recent |-> "ok", ahead |-> "ok", old |-> "alert", none |-> "alert"]

CheckDisk == [low |-> "ok", warn |-> "alert", critical |-> "alert", unknown |-> "skipped"]
CheckConnections == [low |-> "ok", high |-> "alert", odd |-> "skipped"]
CheckMemory == [low |-> "ok", high |-> "alert", unparsed |-> "skipped", gone |-> "skipped"]

Check == [beat |-> CheckBeat, worker |-> CheckWorkerHealth, app |-> CheckAppHealth,
          outbox |-> CheckOutbox, letters |-> CheckDeadLetters, audit |-> CheckAudit,
          disk |-> CheckDisk, connections |-> CheckConnections, memory |-> CheckMemory]

\* The faults the runbook lists; a beat that dispatched nothing for so long is one,
\* whatever else it wrote.
Faults == [beat |-> {"stale", "other", "empty"}, worker |-> {"unhealthy"},
           app |-> {"error", "unreachable"}, outbox |-> {"some"}, letters |-> {"some"},
           audit |-> {"old", "none"}, disk |-> {"warn", "critical"},
           connections |-> {"high"}, memory |-> {"high"}]
Healthy == [beat |-> "fresh", worker |-> "healthy", app |-> "ok", outbox |-> "none",
            letters |-> "none", audit |-> "recent", disk |-> "low",
            connections |-> "low", memory |-> "low"]

All == ToSet(Signals)
Faulty(sys) == {s \in All : sys[s] \in Faults[s]}

\* Is there an answer: a docker command, an address, a database?
Asked(s, d, q) ==
    /\ s \in Dockered => d
    /\ s = "app" => setup.app
    /\ s \in Queried => setup.database /\ q
Readable(sys, d, q) == {s \in All : Asked(s, d, q) /\ Check[s][sys[s]] # "skipped"}

\* How it may be started: with an address to ask, a database, a notification.
Usual == [valid |-> TRUE, app |-> TRUE, database |-> TRUE, notify |-> "set"]
Setups == {[Usual EXCEPT !.valid = FALSE], [Usual EXCEPT !.app = FALSE],
           [Usual EXCEPT !.database = FALSE]}
          \cup {[Usual EXCEPT !.notify = n] : n \in {"no", "unset", "bad", "set"}}

Init ==
    /\ system = Healthy /\ docker = TRUE /\ database = TRUE /\ setup = Usual
    /\ at = "idle" /\ checks = <<>> /\ told = "none" /\ code = 0 /\ changes = 0
    /\ everFaulty = {} /\ faulty = {} /\ readable = {}

-----------------------------------------------------------------------------
(*                                 The probe                               *)

\* main: parameters and thresholds are judged before anything is asked.
Start(with) ==
    /\ at = "idle"
    /\ setup' = with /\ checks' = <<>> /\ told' = "none" /\ changes' = 0
    /\ IF with.valid THEN at' = "probing" /\ code' = 0 ELSE at' = "idle" /\ code' = 2
    /\ everFaulty' = Faulty(system) /\ faulty' = Faulty(system) /\ readable' = All
    /\ UNCHANGED <<system, docker, database>>

\* run_probe: the next signal is read.
Probe ==
    /\ at = "probing" /\ Len(checks) < Len(Signals)
    /\ LET s == Signals[Len(checks) + 1]
       IN  checks' = Append(checks, IF Asked(s, docker, database) THEN Check[s][system[s]]
                                    ELSE "skipped")
    /\ readable' = readable \cap Readable(system, docker, database)
    /\ UNCHANGED <<system, docker, database, setup, at, told, code, changes, everFaulty,
                   faulty>>

Status(c) == IF Contains(c, "alert") THEN "alert"
             ELSE IF ToSet(c) = {"skipped"} THEN "skipped" ELSE "ok"

\* The summary of the alerts goes to the hook, unless there is none or no hook; that
\* it fails changes nothing else.
Notify ==
    IF Status(checks) = "alert" /\ setup.notify = "set"
    THEN told' \in {"sent", "failed"} ELSE UNCHANGED told

\* A setting of the hook that is wrong is found only now, and the report is dropped.
BadHook ==
    /\ at = "probing" /\ Len(checks) = Len(Signals) /\ setup.notify = "bad"
    /\ at' = "idle" /\ code' = 2
    /\ UNCHANGED <<system, docker, database, setup, checks, told, changes, history>>

Finish ==
    /\ at = "probing" /\ Len(checks) = Len(Signals) /\ setup.notify # "bad"
    /\ Notify
    /\ at' = "idle" /\ code' = IF Status(checks) = "alert" THEN 1 ELSE 0
    /\ UNCHANGED <<system, docker, database, setup, checks, changes, history>>

-----------------------------------------------------------------------------
(*                          The system meanwhile                           *)

Note(sys, d, q) ==
    /\ everFaulty' = everFaulty \cup Faulty(sys)
    /\ faulty' = faulty \cap Faulty(sys)
    /\ readable' = readable \cap Readable(sys, d, q)

Troubles(sys) == {s \in All : sys[s] # Healthy[s]}
Counted ==
    /\ changes < MaxChanges /\ changes' = changes + 1
    /\ Cardinality(Troubles(system')) <= MaxTroubles
Rest == UNCHANGED <<setup, at, checks, told, code>>

\* A signal changes.
Change(s) ==
    /\ \E r \in DOMAIN Check[s] : system' = [system EXCEPT ![s] = r]
    /\ Counted
    /\ Note(system', docker, database) /\ UNCHANGED <<docker, database>> /\ Rest

\* Docker or the database is there no more, or again.
Reach ==
    /\ UNCHANGED system /\ docker' \in BOOLEAN /\ database' \in BOOLEAN
    /\ Counted /\ Note(system, docker', database') /\ Rest

Next == \/ \E with \in Setups : Start(with)
        \/ Probe \/ BadHook \/ Finish
        \/ \E s \in All : Change(s)
        \/ Reach

Spec == Init /\ [][Next]_vars

-----------------------------------------------------------------------------
(*                                Properties                               *)

\* Every variable has its type.
TypeOK ==
    /\ \A s \in All : system[s] \in DOMAIN Check[s]
    /\ docker \in BOOLEAN /\ database \in BOOLEAN /\ setup \in Setups
    /\ at \in {"idle", "probing"} /\ told \in {"none", "sent", "failed"} /\ code \in 0..2
    /\ \A i \in DOMAIN checks : checks[i] \in {"ok", "alert", "skipped"}
    /\ Len(checks) <= Len(Signals)

\* Whatever changes while the probe reads, it alerts only for what was at fault
\* then; what was at fault and could be read all the time it does alert for, and
\* then it neither exits with 0 nor, if there is a hook, leaves it alone.
ProbeTellsTruth ==
    /\ \A i \in DOMAIN checks : checks[i] = "alert" => Signals[i] \in everFaulty
    /\ \A i \in DOMAIN checks : Signals[i] \in faulty \cap readable => checks[i] = "alert"
    /\ at = "idle" /\ Len(checks) = Len(Signals) /\ faulty \cap readable # {} =>
        /\ code # 0
        /\ code = 1 /\ setup.notify = "set" => told # "none"
    /\ told # "none" => Contains(checks, "alert")
=============================================================================
