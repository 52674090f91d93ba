------------------------------ MODULE Exports -------------------------------
(***************************************************************************)
(* The export of scripts (ExportService) beside their generation and       *)
(* review: a request finds the SQL row of each script, reads its document  *)
(* from Cosmos DB, takes the text that was generated or renders the test   *)
(* cases, uploads a file whose name depends only on row and format, and    *)
(* then signs a link to that name.  A bulk export does so for each script  *)
(* in turn and keeps what fails as an entry of its archive.                *)
(*                                                                         *)
(* The export of a cycle is not modelled: it selects rows by a SQL status  *)
(* that no code sets, and is always refused.                               *)
(***************************************************************************)
EXTENDS ScriptReview, Exporters

CONSTANTS
  ExportRequests,  \* the export requests that can be open at a time
  ExportFormats,   \* the formats they ask for
  ExportRows,      \* the rows they ask for; whether there are others makes no difference
  BulkLists,       \* the lists of scripts a bulk export may name
  TestCases,       \* the test_cases of each content a document may have, as lists of steps
  Pregenerated     \* the formats each content has a generated script for

\* A row of test_scripts is named by the document and the attempt it is made for.
Rows == Scripts \X (1 .. MaxDelivery)

ASSUME ExportAssumption ==
  /\ ExportFormats \subseteq Formats
  /\ ExportRows \subseteq Rows
  /\ BulkLists \subseteq Seq(ExportRows)
  /\ Pregenerated \in [1 .. MaxDelivery -> SUBSET Formats]
  /\ None \notin 0 .. MaxDelivery

VARIABLES
  rows,  \* the rows of test_scripts
  blob,  \* Blob Storage: of the file of each row and format, the content it was made from
  exp    \* the exports in flight

evars == <<rows, blob, exp>>

\* The version of a document: its content, or 0 when there is none (the stub).
Version(s) == IF Exists(s) THEN doc[s].content ELSE 0

Versions == 0 .. MaxDelivery

NoExport ==
  [op |-> "idle", fmt |-> None, ids |-> <<>>, since |-> None, overlap |-> None,
   file |-> None, uploaded |-> FALSE, entries |-> <<>>, count |-> 0]

ExportInit ==
  /\ rows = {}
  /\ blob = [path \in Rows \X ExportFormats |-> None]
  /\ exp = [e \in ExportRequests |-> NoExport]

\* The worker's row for an attempt that stored the document.
CreateTestScriptRow(s, n) ==
  /\ n =< attempts[s]
  /\ <<s, n>> \notin rows
  /\ rows' = rows \cup {<<s, n>>}
  /\ UNCHANGED <<blob, exp>>

\* History: what the exports in flight may have read of a document.
Underway(s) == UNION {exp[e].since[s] : e \in {f \in ExportRequests : exp[f] # NoExport}}

Open(e, op, ids, fmt) ==
  /\ exp[e] = NoExport
  /\ exp' = [exp EXCEPT ![e] = [NoExport EXCEPT
               !.op = op, !.fmt = fmt, !.ids = ids,
               !.since = [s \in Scripts |-> {Version(s)}],
               !.overlap = [s \in Scripts |-> {Version(s)} \cup Underway(s)]]]
  /\ UNCHANGED <<rows, blob>>

ExportScript(e, row, fmt) == Open(e, "script", <<row>>, fmt)

ExportBulk(e, ids, fmt) == Open(e, "bulk", ids, fmt)

-----------------------------------------------------------------------------

\* The script an export is at.
Current(e) == exp[e].ids[Len(exp[e].entries) + 1]

Working(e) == exp[e].op # "idle" /\ Len(exp[e].entries) < Len(exp[e].ids)

\* The generated script of the format, or else one rendered from the test cases: by an
\* exporter that has been made before either is looked for.
HasContent(s, fmt) ==
  /\ fmt \in Compiling
  /\ Exists(s) =>
       \/ fmt \in Pregenerated[doc[s].content]
       \/ ~Raises(fmt, TestCases[doc[s].content])

\* Row and document are read, and the rest is computed without a wait.
ProduceFile(e) ==
  /\ Working(e) /\ exp[e].file = None
  /\ Current(e) \in rows
  /\ HasContent(Current(e)[1], exp[e].fmt)
  /\ exp' = [exp EXCEPT ![e].file = Version(Current(e)[1])]
  /\ UNCHANGED <<rows, blob>>

\* The answer to a request for one script, or an entry of the archive.
Answer(e, ok, counted) ==
  exp' = [exp EXCEPT ![e] =
            IF exp[e].op = "script" THEN NoExport
            ELSE [exp[e] EXCEPT !.file = None, !.uploaded = FALSE,
                    !.count = exp[e].count + counted,
                    !.entries = Append(exp[e].entries, [row |-> Current(e), ok |-> ok])]]

\* Mutant: a script that fails is counted, too.
FailScript_Counted(e) ==
  /\ Working(e) /\ exp[e].file = None
  /\ Answer(e, FALSE, 1)
  /\ UNCHANGED <<rows, blob>>

\* No row, no answer from a store, a template that does not compile, a step that
\* cannot be rendered: the answer is an error, or the archive has an error entry.
FailScript(e) ==
  /\ Working(e) /\ exp[e].file = None
  /\ Answer(e, FALSE, 0)
  /\ UNCHANGED <<rows, blob>>

Path(e) == <<Current(e), exp[e].fmt>>

\* Mutant: the blob is uploaded unless there is one (overwrite=False).
Upload_Keep(e) ==
  /\ exp[e].file # None /\ ~exp[e].uploaded
  /\ blob' = [blob EXCEPT ![Path(e)] = IF @ = None THEN exp[e].file ELSE @]
  /\ exp' = [exp EXCEPT ![e].uploaded = TRUE]
  /\ UNCHANGED rows

\* The file is in the storage; the answer is on its way to the export.
Upload(e) ==
  /\ exp[e].file # None /\ ~exp[e].uploaded
  /\ blob' = [blob EXCEPT ![Path(e)] = exp[e].file]
  /\ exp' = [exp EXCEPT ![e].uploaded = TRUE]
  /\ UNCHANGED rows

\* The answer has arrived: the link is to whatever is at the path by now.
Sign(e) ==
  /\ exp[e].uploaded
  /\ Answer(e, TRUE, 1)
  /\ UNCHANGED <<rows, blob>>

\* The storage, with the file or without, or the signature raises: the export goes on
\* without a link.
UploadFails(e) ==
  /\ exp[e].file # None
  /\ Answer(e, TRUE, 1)
  /\ UNCHANGED <<rows, blob>>

\* The archive goes to a path of its own, and its link is the response.
RespondBulk(e) ==
  /\ exp[e].op = "bulk"
  /\ Len(exp[e].entries) = Len(exp[e].ids)
  /\ exp' = [exp EXCEPT ![e] = NoExport]
  /\ UNCHANGED <<rows, blob>>

ExportStep(e) ==
  \/ \E row \in ExportRows, fmt \in ExportFormats : ExportScript(e, row, fmt)
  \/ \E ids \in BulkLists, fmt \in ExportFormats : ExportBulk(e, ids, fmt)
  \/ ProduceFile(e) \/ FailScript(e)
  \/ Upload(e) \/ Sign(e) \/ UploadFails(e)
  \/ RespondBulk(e)

ExportNext ==
  \/ \E row \in ExportRows : CreateTestScriptRow(row[1], row[2])
  \/ \E e \in ExportRequests : ExportStep(e)

\* History: the versions of each document since a request came in, and since the
\* exports in flight at that time came in.
Watch ==
  exp' = [e \in ExportRequests |->
            IF exp[e] = NoExport THEN NoExport
            ELSE [exp[e] EXCEPT !.since = [s \in Scripts |-> @[s] \cup {Version(s)'}],
                                !.overlap = [s \in Scripts |-> @[s] \cup {Version(s)'}]]]

ReviewOrExport ==
  \/ Next /\ Watch /\ UNCHANGED <<rows, blob>>
  \/ ExportNext /\ UNCHANGED vars

InitBoth == Init /\ ExportInit

ReviewAndExport == InitBoth /\ [][ReviewOrExport]_<<vars, evars>>

(***************************************************************************)
(* Properties                                                              *)
(***************************************************************************)

Entries == [row : Rows, ok : BOOLEAN]

OpenExports ==
  [op : {"script", "bulk"}, fmt : ExportFormats, ids : Seq(Rows),
   since : [Scripts -> SUBSET Versions], overlap : [Scripts -> SUBSET Versions],
   file : Versions \cup {None}, uploaded : BOOLEAN, entries : Seq(Entries), count : Nat]

ExportStates == {NoExport} \cup OpenExports

\* Rows, files and exports keep their types; history included.
ExportTypeOK ==
  /\ rows \subseteq Rows
  /\ blob \in [Rows \X ExportFormats -> Versions \cup {None}]
  /\ exp \in [ExportRequests -> ExportStates]
  /\ \A e \in ExportRequests : Len(exp[e].entries) =< Len(exp[e].ids)

\* An archive has one entry per script asked for so far, in order and with
\* repetitions, and counts those that are scripts; it never ends before the last
\* one, whatever fails on the way (export_bulk).
ArchiveAccounts ==
  \A e \in ExportRequests :
    LET done == exp[e].entries
    IN  /\ \A k \in DOMAIN done : done[k].row = exp[e].ids[k]
        /\ exp[e].count = Cardinality({k \in DOMAIN done : done[k].ok})

\* From its upload until it signs, the path of an export serves what the document was
\* at some time since the oldest of the exports came in that were under way with its
\* own: another may write the path in between, with what it read before, but nothing
\* that older exports have left there is served (_upload_and_sign, overwrite=True).
LinkIsFresh ==
  \A e \in ExportRequests :
    exp[e].uploaded => blob[Path(e)] \in exp[e].overlap[Current(e)[1]]

(***************************************************************************)
(* The inductive invariant                                                 *)
(***************************************************************************)

\* An export has seen the documents as they are now; a file it is about to hand over
\* was made from its script as it was since the request came in.
SeenInv ==
  \A e \in ExportRequests : exp[e] # NoExport =>
    /\ \A s \in Scripts : Version(s) \in exp[e].since[s]
    /\ exp[e].file # None => Working(e) /\ exp[e].file \in exp[e].since[Current(e)[1]]
    /\ exp[e].uploaded => exp[e].file # None

\* An export may serve whatever the exports beside it may have read.
OverlapInv ==
  \A e, f \in ExportRequests : exp[e] # NoExport /\ exp[f] # NoExport =>
    \A s \in Scripts : exp[f].since[s] \subseteq exp[e].overlap[s]

ExportInv == ExportTypeOK /\ ArchiveAccounts /\ LinkIsFresh /\ SeenInv /\ OverlapInv
=============================================================================
