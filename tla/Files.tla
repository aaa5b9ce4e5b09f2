------------------------------- MODULE Files --------------------------------
(***************************************************************************)
(* Uploaded files (src/internal/file): records with a reference count in   *)
(* MongoDB, contents in the object store under their MD5.  No index makes  *)
(* a record unique and no transaction spans two statements, so every       *)
(* statement of a call is a step of its own.                               *)
(***************************************************************************)
EXTENDS Integers, FiniteSets, FiniteSetsExt

CONSTANTS Students, MD5s, Calls,
          Docs,        \* identifiers of records, reused once a record is gone
          MaxRefs,     \* bound: references taken at the same time
          MaxFileFaults,   \* bound: failing statements
          Nothing

VARIABLES files,     \* file collection: the records
          objects,   \* object store: the contents that are there
          calls,     \* the calls under way
          held,      \* history: references a user took by Upload and has not given back
          owed,      \* history: references taken and not given back, per content
          raced,     \* history: contents that two calls worked on at once
          shared,    \* history: contents that had two records at once
          overdrawn, \* history: contents given back by somebody who had not taken them, or needs them
          spoilt,    \* history: contents with a failed statement
          fileFaults

fileVars == <<files, objects, calls, held, owed, raced, shared, overdrawn, spoilt, fileFaults>>
fileHistory == <<held, owed, shared, overdrawn>>

ASSUME FilesAssumption == Docs \subseteq Nat /\ {MaxRefs, MaxFileFaults} \subseteq Nat

NoCall == [op |-> "none", pc |-> "idle", md5 |-> Nothing, user |-> Nothing, doc |-> 0, ref |-> 0,
           course |-> Nothing, mat |-> Nothing, kind |-> Nothing]

FilesInit ==
  /\ files = [d \in Docs |-> Nothing]
  /\ objects = {}
  /\ calls = [k \in Calls |-> NoCall]
  /\ held = [m \in MD5s |-> [u \in Students |-> 0]]
  /\ owed = [m \in MD5s |-> 0]
  /\ raced = {} /\ shared = {} /\ overdrawn = {} /\ spoilt = {} /\ fileFaults = 0

Records(m) == {d \in Docs : files[d] # Nothing /\ files[d].md5 = m}
RefCount(m) == MapThenSumSet(LAMBDA d : files[d].ref, Records(m))

\* The first match in the order of the collection, 0 if there is none.
First(S) == IF S = {} THEN 0 ELSE Min(S)
FindFileByMD5(m) == First(Records(m))
FindFileByUserAndMD5(u, m) == First({d \in Records(m) : files[d].user = u})

----------------------------------------------------------------------------
(* Steps *)

\* A call starts; Busy says whether another one works on the content.
Busy(k, m) == m # Nothing /\ \E i \in Calls \ {k} : calls[i].md5 = m
Enter(k, c) ==
  /\ calls' = [calls EXCEPT ![k] = c]
  /\ raced' = IF Busy(k, c.md5) THEN raced \cup {c.md5} ELSE raced

\* Mutant: the caller never hears of a failure.
ReturnAnyway(k, ok) ==
  calls' = [calls EXCEPT ![k] = IF @.mat = Nothing THEN NoCall ELSE [@ EXCEPT !.pc = "stored"]]

Advance(k, pc) == calls' = [calls EXCEPT ![k].pc = pc]
\* A call made for a material returns to its caller.
Return(k, ok) ==
  calls' = [calls EXCEPT ![k] = IF @.mat = Nothing THEN NoCall
                                ELSE [@ EXCEPT !.pc = IF ok THEN "stored" ELSE "refused"]]

FileFault(m) ==
  /\ fileFaults < MaxFileFaults /\ fileFaults' = fileFaults + 1
  /\ spoilt' = spoilt \cup {m}
NoFault == UNCHANGED <<fileFaults, spoilt>>

\* The statement had its effect; its answer may be lost.
Answer(k, ok) == Return(k, ok) /\ IF ok THEN NoFault ELSE FileFault(calls[k].md5)

\* The history of references taken and given back, kept while it is of interest.
Account(k, n, mine) ==
  LET m == calls[k].md5
      u == calls[k].user
  IN
  /\ owed' = [owed EXCEPT ![m] = IF m \in raced THEN 0 ELSE @ + n]
  /\ held' = IF m \in raced \cup overdrawn THEN [held EXCEPT ![m] = [v \in Students |-> 0]]
             ELSE IF mine THEN [held EXCEPT ![m][u] = @ + n]
             ELSE held
Take(k) == Account(k, 1, calls[k].op = "upload")
GiveBack(k, n) == Account(k, -n, calls[k].op = "delete")

----------------------------------------------------------------------------
(* Uploads *)

\* Found or not: the reference is counted, or the content and then a record are stored.
UploadCall(op, u, m, d, course, mat, kind) ==
  [NoCall EXCEPT !.op = op, !.pc = IF d # 0 THEN "increment" ELSE "put", !.md5 = m, !.user = u,
                 !.doc = d, !.course = course, !.mat = mat, !.kind = kind]

Upload(k, u, m) ==
  /\ calls[k] = NoCall /\ RefCount(m) < MaxRefs
  /\ Enter(k, UploadCall("upload", u, m, FindFileByUserAndMD5(u, m), Nothing, Nothing, Nothing))
  /\ NoFault /\ UNCHANGED <<files, objects, fileHistory>>

\* Mutant: the count of the record the upload found is written back.
IncrementStale(d, n) == IF files[d] = Nothing THEN files ELSE [files EXCEPT ![d].ref = n]

\* $inc by identifier: nothing happens if the record is gone, and nobody notices.
IncrementFileRefCount(d, n) ==
  IF files[d] = Nothing THEN files ELSE [files EXCEPT ![d].ref = @ + n]

increment(k) ==
  /\ calls[k].pc = "increment"
  /\ files' = IncrementFileRefCount(calls[k].doc, 1)
  /\ Take(k) /\ \E ok \in BOOLEAN : Answer(k, ok)
  /\ UNCHANGED <<objects, raced, shared, overdrawn>>

Put(k) ==
  /\ calls[k].pc = "put"
  /\ objects' = objects \cup {calls[k].md5}
  /\ (Advance(k, "create") /\ NoFault) \/ Answer(k, FALSE)
  /\ UNCHANGED <<files, fileHistory, raced>>

CreateFile(k) ==
  LET c == calls[k] IN
  /\ c.pc = "create"
  /\ \E d \in Docs :
       /\ files[d] = Nothing /\ \A e \in Docs : files[e] = Nothing => d <= e
       /\ files' = [files EXCEPT ![d] = [md5 |-> c.md5, user |-> c.user, ref |-> 1]]
  /\ shared' = IF Records(c.md5) # {} THEN shared \cup {c.md5} ELSE shared
  /\ Take(k) /\ \E ok \in BOOLEAN : Answer(k, ok)
  /\ UNCHANGED <<objects, raced, overdrawn>>

\* The object store or the database refuses a step of an upload: it has no effect.
uploadFails(k) ==
  /\ calls[k].pc \in {"increment", "put", "create"}
  /\ FileFault(calls[k].md5)
  /\ Return(k, FALSE)
  /\ UNCHANGED <<files, objects, fileHistory, raced>>

----------------------------------------------------------------------------
(* Which documents are taken: by the extension, the detected type and, for *)
(* the formats that are archives, the entries of the archive.              *)

Payload(ext) == CASE ext = "docx" -> "word/" [] ext = "xlsx" -> "xl/" [] ext = "pptx" -> "ppt/"

validOOXML(ext, entries) == "types" \in entries /\ Payload(ext) \in entries

validAcademicDocument(ext, type, entries) ==
  CASE ext \in {"docx", "xlsx", "pptx"} -> type \in {"zip", "office"} /\ validOOXML(ext, entries)
    [] ext = "pdf" -> type = "pdf"
    [] ext = "doc" -> type \in {"msword", "unknown"}
    [] ext \in {"xls", "ppt"} -> type \in {ext, "ole", "unknown"}
    [] ext = "txt" -> type = "text"
    [] ext = "png" -> type = "image"
    [] OTHER -> FALSE

\* Documents that clients offer: one that is what its name says, and others that are not.
Documents ==
  {[ext |-> "docx", type |-> "zip", entries |-> {"types", "word/"}],
   [ext |-> "docx", type |-> "zip", entries |-> {"types", "xl/"}],
   [ext |-> "pptx", type |-> "zip", entries |-> {"ppt/"}],
   [ext |-> "zip", type |-> "zip", entries |-> {"types", "word/"}],
   [ext |-> "doc", type |-> "exe", entries |-> {}]}

\* The largest part of UploadAcademicDocument is deciding whether to take the document.
Accepted == {d \in Documents : validAcademicDocument(d.ext, d.type, d.entries)}

----------------------------------------------------------------------------
(* Deletions *)

\* What the count will be, from the record as it was read.
NextRef(d, force) == IF force THEN 0 ELSE files[d].ref - 1

DropCall(op, u, m, d) ==
  LET next == NextRef(d, op = "force") IN
  [NoCall EXCEPT !.op = op, !.pc = IF next <= 0 THEN "deleteFile" ELSE "setRef",
                 !.md5 = m, !.user = u, !.doc = d, !.ref = next]

\* Delete: the user's own record, or with force the first record of the content.
Delete(k, u, m, force) ==
  LET d == IF force THEN FindFileByMD5(m) ELSE FindFileByUserAndMD5(u, m) IN
  /\ calls[k] = NoCall /\ d # 0
  /\ Enter(k, DropCall(IF force THEN "force" ELSE "delete", u, m, d))
  /\ overdrawn' = IF force \/ held[m][u] = 0 THEN overdrawn \cup {m} ELSE overdrawn
  /\ NoFault /\ UNCHANGED <<files, objects, held, owed, shared>>

\* ReleaseReference reads the first record of the content, whoever owns it.
Release(m) ==
  IF FindFileByMD5(m) = 0 THEN NoCall ELSE DropCall("release", Nothing, m, FindFileByMD5(m))

UpdateFileRefCount(k) ==
  LET c == calls[k] IN
  /\ c.pc = "setRef"
  /\ files' = IF files[c.doc] = Nothing THEN files ELSE [files EXCEPT ![c.doc].ref = c.ref]
  /\ GiveBack(k, 1) /\ \E ok \in BOOLEAN : Answer(k, ok)
  /\ UNCHANGED <<objects, raced, shared, overdrawn>>

DeleteFile(k) ==
  LET c == calls[k] IN
  /\ c.pc = "deleteFile"
  /\ files' = [files EXCEPT ![c.doc] = Nothing]
  /\ GiveBack(k, IF files[c.doc] = Nothing THEN 1 ELSE files[c.doc].ref)
  /\ (Advance(k, "deleteObject") /\ NoFault) \/ Answer(k, FALSE)
  /\ UNCHANGED <<objects, raced, shared, overdrawn>>

DeleteObject(k) ==
  /\ calls[k].pc = "deleteObject"
  /\ objects' = objects \ {calls[k].md5}
  /\ Return(k, TRUE)
  /\ NoFault /\ UNCHANGED <<files, fileHistory, raced>>

\* The database refuses; or the object store does, which is only logged.
deleteFails(k) ==
  /\ calls[k].pc \in {"setRef", "deleteFile", "deleteObject"}
  /\ FileFault(calls[k].md5)
  /\ Return(k, FALSE)
  /\ UNCHANGED <<files, objects, fileHistory, raced>>

FileStep(k) ==
  \/ increment(k) \/ Put(k) \/ CreateFile(k) \/ uploadFails(k)
  \/ UpdateFileRefCount(k) \/ DeleteFile(k) \/ DeleteObject(k) \/ deleteFails(k)

FileCall(k) ==
  \E u \in Students, m \in MD5s : \/ Upload(k, u, m)
                               \/ \E force \in BOOLEAN : Delete(k, u, m, force)

----------------------------------------------------------------------------
(* Properties *)

FilesTypeOK ==
  /\ files \in [Docs -> {Nothing} \cup [md5 : MD5s, user : Students, ref : Nat \ {0}]]
  /\ objects \subseteq MD5s
  /\ held \in [MD5s -> [Students -> Nat]] /\ owed \in [MD5s -> Nat]
  /\ \A k \in Calls : /\ calls[k].md5 \in MD5s \cup {Nothing} /\ calls[k].user \in Students \cup {Nothing}
                      /\ calls[k].doc \in Docs \cup {0} /\ calls[k].ref \in Nat
                      /\ calls[k].pc \in {"idle", "increment", "put", "create", "setRef",
                                          "deleteFile", "deleteObject", "stored", "refused"}
  /\ UNION {raced, shared, overdrawn, spoilt} \subseteq MD5s
  /\ fileFaults \in 0 .. MaxFileFaults

Quiet(m) == \A k \in Calls : calls[k].md5 # m

(***************************************************************************)
(* The counts of the records of a content are the references taken and not *)
(* given back: Upload, Delete and ReleaseReference lose or invent one only *)
(* when two calls work on the same content at once.                        *)
(***************************************************************************)
RefCountsAgree == \A m \in MD5s \ raced : RefCount(m) = owed[m]

(***************************************************************************)
(* A content with a record is in the object store, unless calls raced or   *)
(* the content had two records: whichever record goes first then takes the *)
(* object along (Delete, ReleaseReference).                                *)
(***************************************************************************)
RecordsHaveObjects == \A m \in MD5s \ (raced \cup shared) : Records(m) # {} => m \in objects

(***************************************************************************)
(* No content stays in the object store without a record, unless a         *)
(* statement failed halfway or calls raced.                                *)
(***************************************************************************)
ObjectsHaveRecords ==
  \A m \in MD5s \ (raced \cup spoilt) : Quiet(m) /\ m \in objects => Records(m) # {}

(***************************************************************************)
(* Counts, records and objects of a content agree: as many references as   *)
(* were taken, an object for every record and no object without one.       *)
(***************************************************************************)
FilesAgree ==
  /\ RefCountsAgree
  /\ RecordsHaveObjects
  /\ ObjectsHaveRecords
=============================================================================
