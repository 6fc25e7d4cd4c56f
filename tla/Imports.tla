------------------------------- MODULE Imports -------------------------------
(***************************************************************************)
(* Master-data imports of one organization and one resource                *)
(* (modules/imports): a file is validated on committed data, then, in one  *)
(* transaction, under an advisory lock, validated again and written,       *)
(* together with the record of its idempotency key.  Rows are also entered *)
(* by hand, renamed and removed, which takes no lock.  The resources meant *)
(* are those whose identity is in the row: clients, supplies, expense and  *)
(* transaction categories.  Only the last have a unique index, which would *)
(* undo some of what is possible here.                                     *)
(***************************************************************************)
EXTENDS Naturals, FiniteSets

CONSTANTS Requests,    \* import requests, each made once
          Keys,        \* idempotency keys of the clients
          Identities,  \* what tells a row from another, after normalisation: the tax
                       \* number, or the name with the telephone or the package size
          Files,       \* files: non-empty sets of identities
          StoredAs,    \* how the columns keep an identity: a package size to four decimals
          Clerks,      \* rows entered by hand
          Nobody       \* no request, no row

ASSUME ImportsAssumption ==
  /\ Requests \cap Clerks = {} /\ Nobody \notin Requests
  /\ \A file \in Files : file \subseteq Identities
  /\ StoredAs \in [Identities -> Identities]

VARIABLES catalogue,  \* the rows on file: who entered them and as what
          renamed,    \* history: rows whose identity was edited since
          recordOf,   \* import_records: the request that used a key
          lock,       \* pg_advisory_xact_lock of organization and resource
          request     \* what a request in progress holds

importVars == <<catalogue, renamed, recordOf, lock, request>>

Row == [by : Requests \cup Clerks, line : Identities, identity : Identities]
Entered(by, line) == [by |-> by, line |-> line, identity |-> StoredAs[line]]

Waiting == [at : {"new", "done"}] \cup
           [at : {"prepared", "locked", "valid"}, file : Files, key : Keys]

ImportsTypeOK ==
  /\ catalogue \subseteq Row /\ renamed \subseteq Row
  /\ recordOf \in [Keys -> Requests \cup {Nobody}]
  /\ lock \in Requests \cup {Nobody}
  /\ request \in [Requests -> Waiting]

ImportsInit ==
  /\ catalogue = {} /\ renamed = {}
  /\ recordOf = [k \in Keys |-> Nobody]
  /\ lock = Nobody
  /\ request = [r \in Requests |-> [at |-> "new"]]

Leave(r) == request' = [request EXCEPT ![r] = [at |-> "done"]]
Step(r, at) == request' = [request EXCEPT ![r].at = at]
Release(r) == lock' = IF lock = r THEN Nobody ELSE lock

\* prepare: an identity that is on file, or twice in the file, is an error.  Those of the
\* file are taken as they are written, those on file as they are stored.
Prepared(file) == \A row \in catalogue : row.identity \notin file

-----------------------------------------------------------------------------
\* A key that has been used answers from its record, or is refused with
\* another file; a file with errors is refused.
Start(r, key, file) ==
  /\ request[r].at = "new"
  /\ IF recordOf[key] = Nobody /\ Prepared(file)
       THEN request' = [request EXCEPT ![r] =
                          [at |-> "prepared", file |-> file, key |-> key]]
       ELSE Leave(r)
  /\ UNCHANGED <<catalogue, renamed, recordOf, lock>>

Lock(r) ==
  /\ request[r].at = "prepared"
  /\ lock = Nobody
  /\ lock' = r
  /\ Step(r, "locked")
  /\ UNCHANGED <<catalogue, renamed, recordOf>>

\* Mutant: the file is not validated again under the lock.
RecheckKeyOnly(r) ==
  /\ request[r].at = "locked"
  /\ IF recordOf[request[r].key] = Nobody
       THEN Step(r, "valid") /\ UNCHANGED lock
       ELSE Leave(r) /\ Release(r)
  /\ UNCHANGED <<catalogue, renamed, recordOf>>

\* Every statement of a READ COMMITTED transaction sees what is committed
\* when it starts: the key and the file are looked up again, under the lock.
Recheck(r) ==
  /\ request[r].at = "locked"
  /\ IF recordOf[request[r].key] = Nobody /\ Prepared(request[r].file)
       THEN Step(r, "valid") /\ UNCHANGED lock
       ELSE Leave(r) /\ Release(r)
  /\ UNCHANGED <<catalogue, renamed, recordOf>>

\* The rows, the record and COMMIT, which also lets go of the lock.  The
\* unique index on the key refuses a second record: everything is undone.
CommitImport(r) ==
  /\ request[r].at = "valid"
  /\ IF recordOf[request[r].key] = Nobody
       THEN /\ catalogue' = catalogue \cup {Entered(r, i) : i \in request[r].file}
            /\ recordOf' = [recordOf EXCEPT ![request[r].key] = r]
       ELSE UNCHANGED <<catalogue, recordOf>>
  /\ Leave(r) /\ Release(r)
  /\ UNCHANGED renamed

\* maxWait, the timeout of a minute, a lost connection: ROLLBACK.
Undo(r) ==
  /\ request[r].at \in {"prepared", "locked", "valid"}
  /\ Leave(r) /\ Release(r)
  /\ UNCHANGED <<catalogue, renamed, recordOf>>

\* The services of the resource: nothing compares the row with the others.
\* A clerk has at most one row of its own on file (bound).
Enter(c, identity) ==
  /\ \A row \in catalogue : row.by # c
  /\ catalogue' = catalogue \cup {Entered(c, identity)}
  /\ UNCHANGED <<renamed, recordOf, lock, request>>

Rename(row, identity) ==
  /\ row \in catalogue /\ row.identity # StoredAs[identity]
  /\ LET edited == [row EXCEPT !.identity = StoredAs[identity]]
     IN /\ edited \notin catalogue
        /\ catalogue' = (catalogue \ {row}) \cup {edited}
        /\ renamed' = IF row.by \in Requests THEN renamed \cup {edited}
                                             ELSE renamed
  /\ UNCHANGED <<recordOf, lock, request>>

RemoveRow(row) ==
  /\ row \in catalogue
  /\ catalogue' = catalogue \ {row}
  /\ UNCHANGED <<renamed, recordOf, lock, request>>

ImportStep(r) == Lock(r) \/ Recheck(r) \/ CommitImport(r)

ImportsNext ==
  \/ \E r \in Requests :
       \/ \E key \in Keys, file \in Files : Start(r, key, file)
       \/ ImportStep(r)
       \/ Undo(r)
  \/ \E i \in Identities :
       \/ \E c \in Clerks : Enter(c, i)
       \/ \E row \in catalogue : Rename(row, i)
  \/ \E row \in catalogue : RemoveRow(row)

\* PostgreSQL hands the lock on in order of arrival, Node resumes a request
\* when the database answers.
ImportsFairness == \A r \in Requests : SF_importVars(ImportStep(r))

ImportsSpec == ImportsInit /\ [][ImportsNext]_importVars /\ ImportsFairness

-----------------------------------------------------------------------------
ByImport == {row \in catalogue : row.by \in Requests}

\* What imports have created out of lines that are stored as they were written.
Faithful == {row \in ByImport \ renamed : StoredAs[row.line] = row.line}

(* Two imports never create the same record twice: the second validation,  *)
(* under the lock, sees what the first one wrote (lines 124-138).  Rows    *)
(* renamed afterwards, and rows entered by hand, are outside the lock, and *)
(* a line that is stored otherwise than it was written (line 280) is not   *)
(* found again.                                                            *)
NoTwinImports ==
  \A a, b \in Faithful : a.identity = b.identity => a = b

(* A key stands for one import: the rows that requests with the same key   *)
(* created are those of the request on its record (lines 111-117, 128-134).*)
KeyMeansOneImport ==
  \A row \in ByImport : \E k \in Keys : recordOf[k] = row.by

(* A file is imported once, whoever sends it again or at the same time,    *)
(* but for the lines that storage alters.                                  *)
ImportedOnce == NoTwinImports /\ KeyMeansOneImport

(* Every import that was accepted ends, although all of them queue for one *)
(* lock: whoever is refused, undone or cut off lets go of it.              *)
ImportsEnd ==
  \A r \in Requests : (request[r].at = "prepared") ~> (request[r].at = "done")
=============================================================================
