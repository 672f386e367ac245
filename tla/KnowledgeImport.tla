--------------------------- MODULE KnowledgeImport ---------------------------
(***************************************************************************)
(* The script that registers the documents of the time before documents    *)
(* were governed: it reads a list of them, from a file or page by page from*)
(* WeKnora, where documents come and go meanwhile, and registers one after *)
(* another, beside the requests that register documents too.               *)
(***************************************************************************)
EXTENDS Naturals, Sequences, FiniteSets, SequencesExt

CONSTANTS Documents, TooLong,       \* documents; those whose id is refused
          Unnamed,                  \* a row without an id
          RowsPerPage, PageLimit,   \* --page-size, --max-pages
          MaxRows,                  \* bound: rows upstream at first, or of a manifest
          MaxUploads, MaxImports    \* bounds: changes upstream, runs of the script

VARIABLES upstream,          \* the documents of WeKnora, the newest first
          registry, trail,   \* who registered each; what the script told the trail of
          how, at,           \* how the script was started, and where it is
          page, collected,   \* of the list: the next page, rows so far
          entries, report,   \* entries to treat; created, skipped and rejected
          uploads, imports,
          listed, stayed,    \* history: entries read, documents there all the time,
          shrunk,            \* was one removed while the list was read?
          written, untold    \* rows of this run, rows of runs that died before telling

vars == <<upstream, registry, trail, how, at, page, collected, entries, report,
          uploads, imports, listed, stayed, shrunk, written, untold>>
registration == <<registry, trail, written, untold>>
reading == <<page, collected, listed, stayed, shrunk>>
outside == <<upstream, how, uploads, imports>>

Rows == Documents \cup {Unnamed}

\* The rows that have an id, in their order.
Named(rows) ==
    LET kept[n \in 0..Len(rows)] ==
            IF n = 0 THEN <<>>
            ELSE IF rows[n] = Unnamed THEN kept[n - 1] ELSE Append(kept[n - 1], rows[n])
    IN  kept[Len(rows)]

Registered(d) == registry[d] # "none"
NoReport == [created |-> {}, skipped |-> {}, rejected |-> {}]

Init ==
    /\ upstream \in {s \in BoundedSeq(Rows, MaxRows) : IsInjective(s)}
    /\ registry = [d \in Documents |-> "none"] /\ trail = {}
    /\ how = [source |-> "file", apply |-> FALSE] /\ at = "idle"
    /\ page = 1 /\ collected = 0 /\ entries = <<>> /\ report = NoReport
    /\ uploads = 0 /\ imports = 0
    /\ listed = {} /\ stayed = {} /\ shrunk = FALSE /\ written = {} /\ untold = {}

-----------------------------------------------------------------------------
(*                       WeKnora and the other requests                    *)

Change == uploads < MaxUploads /\ uploads' = uploads + 1

Upload(d) ==
    /\ Change /\ d \notin ToSet(upstream) /\ upstream' = <<d>> \o upstream
    /\ UNCHANGED <<registration, reading, how, at, entries, report, imports>>
Withdraw(d) ==
    /\ Change
    /\ \E i \in DOMAIN upstream : upstream[i] = d /\ upstream' = RemoveAt(upstream, i)
    /\ stayed' = stayed \ {d} /\ shrunk' = (at = "fetch" \/ shrunk)
    /\ UNCHANGED <<registration, how, at, page, collected, listed, entries, report, imports>>

\* POST of a document that nobody has registered.
RegisterByRequest(d) ==
    /\ ~Registered(d) /\ d \notin TooLong
    /\ registry' = [registry EXCEPT ![d] = "request"]
    /\ UNCHANGED <<outside, reading, at, entries, report, trail, written, untold>>

-----------------------------------------------------------------------------
(*                             Reading the list                            *)

\* Rows without an id are refused one by one.
Read(rows) ==
    /\ entries' = entries \o Named(rows) /\ listed' = listed \cup ToSet(Named(rows))
    /\ report' = [report EXCEPT !.rejected = @ \cup (ToSet(rows) \cap {Unnamed})]

Main(source, apply) ==
    /\ at = "idle" /\ imports < MaxImports /\ imports' = imports + 1
    /\ how' = [source |-> source, apply |-> apply]
    /\ stayed' = ToSet(Named(upstream))
    /\ IF source = "file"
       THEN \E rows \in BoundedSeq(Rows, MaxRows) : Read(rows) /\ at' = "entry"
       ELSE at' = "fetch" /\ UNCHANGED <<entries, listed, report>>
    /\ UNCHANGED <<registration, upstream, uploads, page, collected, shrunk>>

OnPage(n) == SubSeq(upstream, (n - 1) * RowsPerPage + 1, Min({n * RowsPerPage, Len(upstream)}))

\* Mutant: what was read so far is imported.
GoOn == "entry"
GiveUp == "failed"

\* One page, and how many rows there are now: it is the last when it is empty or as
\* many have come.  A list of more pages than allowed is given up.
FetchPage ==
    /\ at = "fetch" /\ Read(OnPage(page))
    /\ collected' = collected + Len(OnPage(page)) /\ page' = page + 1
    /\ at' = IF OnPage(page) = <<>> \/ collected' >= Len(upstream) THEN "entry"
             ELSE IF page = PageLimit THEN GiveUp ELSE "fetch"
    /\ UNCHANGED <<registration, outside, stayed, shrunk>>

-----------------------------------------------------------------------------
(*                       Registering, entry by entry                       *)

Entry == Head(entries)
Put(list) ==
    /\ report' = [report EXCEPT ![list] = @ \cup {Entry}]
    /\ entries' = Tail(entries) /\ at' = "entry"
Go(to) == at' = to /\ UNCHANGED <<entries, report>>

\* Skipped if it is there; a dry run ends here; the service refuses an id too long.
LookUp ==
    /\ at = "entry" /\ entries # <<>>
    /\ IF Registered(Entry) THEN Put("skipped")
       ELSE IF ~how.apply THEN Put("created")
       ELSE IF Entry \in TooLong THEN Put("rejected")
       ELSE Go("register")
    /\ UNCHANGED <<registration, reading, outside>>

\* The store looks again and returns what is there.
RegisterReads ==
    /\ at = "register" /\ Go(IF Registered(Entry) THEN "record" ELSE "insert")
    /\ UNCHANGED <<registration, reading, outside>>

\* Somebody registered it meanwhile: the key is taken and the script dies.
RegisterInserts ==
    /\ at = "insert"
    /\ IF Registered(Entry) THEN Go("failed") /\ UNCHANGED <<registry, written>>
       ELSE /\ Go("record") /\ registry' = [registry EXCEPT ![Entry] = "migration"]
            /\ written' = written \cup {Entry}
    /\ UNCHANGED <<reading, outside, trail, untold>>

Record ==
    /\ at = "record" /\ trail' = trail \cup {Entry} /\ Put("created")
    /\ UNCHANGED <<reading, outside, registry, written, untold>>

Finish ==
    /\ at = "entry" /\ entries = <<>> /\ Go("done")
    /\ UNCHANGED <<registration, reading, outside>>

\* A manifest that is none, a failed page, a lost database, an interrupt.
Die ==
    /\ at \in {"fetch", "entry", "register", "insert", "record"} /\ Go("failed")
    /\ untold' = untold \cup (IF at = "record" /\ Entry \notin trail THEN {Entry} ELSE {})
    /\ UNCHANGED <<reading, outside, registry, trail, written>>

\* The operator starts it again.
Leave ==
    /\ at \in {"done", "failed"} /\ at' = "idle"
    /\ page' = 1 /\ collected' = 0 /\ entries' = <<>> /\ report' = NoReport
    /\ listed' = {} /\ stayed' = {} /\ shrunk' = FALSE /\ written' = {}
    /\ UNCHANGED <<outside, registry, trail, untold>>

Next ==
    \/ \E d \in Documents : Upload(d) \/ Withdraw(d) \/ RegisterByRequest(d)
    \/ \E source \in {"file", "weknora"}, apply \in BOOLEAN : Main(source, apply)
    \/ FetchPage \/ LookUp \/ RegisterReads \/ RegisterInserts \/ Record
    \/ Finish \/ Die \/ Leave

Spec == Init /\ [][Next]_vars

-----------------------------------------------------------------------------
(*                                Properties                               *)

\* Every variable has its type.
TypeOK ==
    /\ upstream \in Seq(Rows) /\ entries \in Seq(Documents)
    /\ registry \in [Documents -> {"none", "request", "migration"}]
    /\ trail \subseteq Documents /\ written \subseteq Documents /\ untold \subseteq Documents
    /\ how \in [source : {"file", "weknora"}, apply : BOOLEAN]
    /\ at \in {"idle", "fetch", "entry", "register", "insert", "record", "done", "failed"}
    /\ page \in 1..PageLimit + 1 /\ collected \in Nat /\ shrunk \in BOOLEAN
    /\ report \in [created : SUBSET Documents, skipped : SUBSET Documents, rejected : SUBSET Rows]
    /\ uploads \in 0..MaxUploads /\ imports \in 0..MaxImports
    /\ listed \subseteq Documents /\ stayed \subseteq Documents

\* A list that was read to its end misses no document that was there all the time,
\* whatever came meanwhile, unless one was removed before its end
\* (fetch_entries_from_weknora: never a silent part).
ListIsWhole ==
    how.source = "weknora" /\ at \notin {"idle", "fetch", "failed"} /\ ~shrunk
        => stayed \subseteq listed

\* At its end the script has told of every entry: what it created or skipped is
\* registered, and what it refused is not by it; a dry run wrote nothing
\* (run_import).
ReportIsTrue ==
    /\ at = "done" =>
        /\ listed = (report.created \cup report.skipped \cup report.rejected) \ {Unnamed}
        /\ \A d \in report.skipped : Registered(d)
        /\ how.apply => /\ \A d \in report.created : Registered(d)
                        /\ written \subseteq report.created /\ report.rejected \cap written = {}
    /\ written # {} => how.apply

\* The trail tells of every document the script registered, but of those whose run
\* died between the two writes, which no later run makes up for
\* (register_document; run_import skips what is registered).
RegistrationIsTold ==
    \A d \in Documents :
        registry[d] = "migration" => d \in trail \/ d \in untold \/ (at = "record" /\ d = Entry)
=============================================================================
