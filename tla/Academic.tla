------------------------------ MODULE Academic ------------------------------
(***************************************************************************)
(* Courses, reviews and materials (src/internal/academic), in MySQL, with  *)
(* the files of the materials (module Files).  A request reads the course  *)
(* before it writes; a merge is a transaction that works on a snapshot and *)
(* writes rows by their identifiers.  Saving a review looks a row up and   *)
(* writes it by its identifier.                                            *)
(***************************************************************************)
EXTENDS Files

CONSTANTS Courses,
          Rows,        \* identifiers of reviews
          Materials,
          Reviewers,   \* requests that save a review
          Mergers,     \* requests that merge courses
          MaxClock     \* bound: reviews written and merges

ASSUME AcademicAssumption == Rows \subseteq Nat \ {0} /\ MaxClock \in Nat

VARIABLES courses,   \* academic_courses: status and merge target
          reviews,   \* academic_reviews: the rows
          mats,      \* academic_materials: the rows
          clock,     \* updated_at, one tick per write that sets it
          saves,     \* requests that have seen the course and will save a review
          merges,    \* transactions that merge courses
          crossed,   \* history: courses merged under a request, or shown again
          restamped, \* history: reviews whose updated_at was not the author's at a merge
          tangled    \* history: two merges were under way at once

courseVars == <<courses, reviews, clock, saves, merges, crossed, restamped, tangled>>
academicVars == <<fileVars, mats, courseVars>>

NoSave == [course |-> Nothing, user |-> Nothing, row |-> Nothing]
NoMerge == [from |-> Nothing, to |-> Nothing, rows |-> <<>>]

AcademicInit ==
  /\ FilesInit
  /\ courses = [c \in Courses |-> [status |-> "absent", target |-> Nothing]]
  /\ reviews = [r \in Rows |-> Nothing]
  /\ mats = [m \in Materials |-> Nothing]
  /\ clock = 0
  /\ saves = [q \in Reviewers |-> NoSave]
  /\ merges = [q \in Mergers |-> NoMerge]
  /\ crossed = {} /\ restamped = {} /\ tangled = FALSE

----------------------------------------------------------------------------
(* Courses *)

\* School, name and teacher identify a course; the unique key refuses another.
CreateCourse(c) ==
  /\ courses[c].status = "absent"
  /\ courses' = [courses EXCEPT ![c].status = "normal"]
  /\ UNCHANGED <<fileVars, mats, reviews, clock, saves, merges, crossed, restamped, tangled>>

\* Hidden or shown, whatever the status was; the merge target stays.
UpdateCourseStatus(c, status) == [courses EXCEPT ![c].status = status]

HideCourse(c, hidden) ==
  /\ courses[c].status # "absent"
  /\ courses' = UpdateCourseStatus(c, IF hidden THEN "hidden" ELSE "normal")
  /\ crossed' = IF courses[c].status = "merged" THEN crossed \cup {c} ELSE crossed
  /\ UNCHANGED <<fileVars, mats, reviews, clock, saves, merges, restamped, tangled>>

Open(c) == courses[c].status = "normal"

----------------------------------------------------------------------------
(* Reviews *)

Review(c, u) == {r \in Rows : reviews[r] # Nothing /\ reviews[r].course = c /\ reviews[r].user = u}

SaveReview(q, u, c) ==
  /\ saves[q] = NoSave /\ Open(c) /\ clock < MaxClock
  /\ saves' = [saves EXCEPT ![q] = [NoSave EXCEPT !.course = c, !.user = u]]
  /\ UNCHANGED <<fileVars, mats, courses, reviews, clock, merges, crossed, restamped, tangled>>

\* The row of the user, 0 if there is none.
findReview(q) ==
  /\ saves[q] # NoSave /\ saves[q].row = Nothing
  /\ saves' = [saves EXCEPT ![q].row = First(Review(saves[q].course, saves[q].user))]
  /\ UNCHANGED <<fileVars, mats, courses, reviews, clock, merges, crossed, restamped, tangled>>

\* It is written over and shown again, in whatever course it is by now; the unique key
\* refuses a second row.  text is what was written.
upsertReview(q) ==
  LET save == saves[q]
      row == [course |-> save.course, user |-> save.user, status |-> "normal", text |-> clock + 1, at |-> clock + 1]
  IN
  /\ save.row # Nothing /\ clock < MaxClock
  /\ clock' = clock + 1
  /\ \/ /\ save.row # 0
        /\ reviews' = [reviews EXCEPT ![save.row] = [row EXCEPT !.course = reviews[save.row].course]]
        /\ restamped' = restamped \ {save.row}
     \/ /\ save.row = 0 /\ Review(save.course, save.user) = {}
        /\ \E r \in Rows :
             /\ reviews[r] = Nothing /\ \A s \in Rows : reviews[s] = Nothing => r <= s
             /\ reviews' = [reviews EXCEPT ![r] = row]
        /\ UNCHANGED restamped
     \/ /\ save.row = 0 /\ Review(save.course, save.user) # {}
        /\ UNCHANGED <<reviews, restamped>>
  /\ saves' = [saves EXCEPT ![q] = NoSave]
  /\ UNCHANGED <<fileVars, mats, courses, merges, crossed, tangled>>

UpdateReviewStatus(r, status) ==
  [reviews EXCEPT ![r].status = status, ![r].at = clock + 1]

DeleteReview(u, c) ==
  /\ clock < MaxClock /\ clock' = clock + 1
  /\ \E r \in Review(c, u) : /\ reviews[r].status # "deleted"
                             /\ reviews' = UpdateReviewStatus(r, "deleted")
  /\ UNCHANGED <<fileVars, mats, courses, saves, merges, crossed, restamped, tangled>>

\* Hidden or shown by a moderator, whatever the status was.
HideReview(r, hidden) ==
  /\ reviews[r] # Nothing /\ clock < MaxClock /\ clock' = clock + 1
  /\ reviews' = UpdateReviewStatus(r, IF hidden THEN "hidden" ELSE "normal")
  /\ crossed' = IF reviews[r].status = "merged" THEN crossed \cup {reviews[r].course} ELSE crossed
  /\ UNCHANGED <<fileVars, mats, courses, saves, merges, restamped, tangled>>

----------------------------------------------------------------------------
(* Merging *)

\* The transaction reads both courses and their reviews.
MergeCourses(q, from, to) ==
  /\ merges[q] = NoMerge /\ from # to /\ clock < MaxClock
  /\ Open(from) /\ Open(to)
  /\ merges' = [merges EXCEPT ![q] = [from |-> from, to |-> to, rows |-> reviews]]
  /\ tangled' = (tangled \/ \E p \in Mergers : merges[p] # NoMerge)
  /\ UNCHANGED <<fileVars, mats, courses, reviews, clock, saves, crossed, restamped>>

RowsOf(seen, c) == {r \in Rows : seen[r] # Nothing /\ seen[r].course = c}
Rival(seen, r, to) == {s \in RowsOf(seen, to) : seen[s].user = seen[r].user}

\* Mutant: the target's review stays, whichever is newer.
KeepTarget(seen, r, s) == FALSE

Newer(seen, r, s) == seen[r].at > seen[s].at

\* One row after the merge: moved, written over by a newer rival, or retired.
MergedRow(seen, row, r, from, to) ==
  LET rival == Rival(seen, r, to)
      winners == {s \in RowsOf(seen, from) : r \in Rival(seen, s, to) /\ Newer(seen, s, r)}
  IN
  IF r \in RowsOf(seen, from) THEN
       IF rival = {} THEN [row EXCEPT !.course = to, !.at = clock + 1]
       ELSE [row EXCEPT !.status = "merged", !.at = clock + 1]
  ELSE IF winners # {} THEN
       LET s == CHOOSE s \in winners : TRUE IN
       [row EXCEPT !.status = seen[s].status, !.text = seen[s].text, !.at = clock + 1]
  ELSE row

Moved(seen, from, to) == {r \in RowsOf(seen, from) : Rival(seen, r, to) = {}}

\* A row that appeared in the target meanwhile breaks the unique key of a moved one.
Conflict(seen, from, to) ==
  \E r \in Moved(seen, from, to) : Review(to, seen[r].user) \ {r} # {}

mergeCommits(q) ==
  LET from == merges[q].from
      to == merges[q].to
      seen == merges[q].rows
      after == [r \in Rows |-> IF reviews[r] = Nothing THEN Nothing
                               ELSE MergedRow(seen, reviews[r], r, from, to)]
  IN
  /\ merges[q] # NoMerge /\ clock < MaxClock /\ ~Conflict(seen, from, to)
  /\ clock' = clock + 1
  /\ reviews' = after
  /\ mats' = [m \in Materials |-> IF mats[m] # Nothing /\ mats[m].course = from
                                    THEN [mats[m] EXCEPT !.course = to] ELSE mats[m]]
  /\ courses' = [courses EXCEPT ![from] = [status |-> "merged", target |-> to]]
  /\ merges' = [merges EXCEPT ![q] = NoMerge]
  /\ crossed' = crossed \cup
       {c \in {from, to} : \/ \E p \in Reviewers : saves[p].course = c
                           \/ \E k \in Calls : calls[k].course = c
                           \/ reviews # seen \/ ~Open(c)}
  /\ restamped' = restamped \cup {r \in Rows : reviews[r] # Nothing /\ reviews[r].at # reviews[r].text}
  /\ UNCHANGED <<fileVars, saves, tangled>>

\* The key is broken, or MySQL refuses: nothing has changed.
mergeFails(q) ==
  /\ merges[q] # NoMerge /\ Conflict(merges[q].rows, merges[q].from, merges[q].to)
  /\ merges' = [merges EXCEPT ![q] = NoMerge]
  /\ UNCHANGED <<fileVars, mats, courses, reviews, clock, saves, crossed, restamped, tangled>>

----------------------------------------------------------------------------
(* Materials *)

\* The course is read before the file is stored.
UploadMaterial(k, u, c, m, x, kind) ==
  /\ calls[k] = NoCall /\ mats[m] = Nothing /\ Open(c) /\ RefCount(x) < MaxRefs
  /\ \A i \in Calls : calls[i].mat # m
  /\ Enter(k, UploadCall("document", u, x, FindFileByMD5(x), c, m, kind))
  /\ NoFault /\ UNCHANGED <<files, objects, fileHistory, mats, courseVars>>

AddsMaterial(c) ==
  mats' = [mats EXCEPT ![c.mat] =
             [course |-> c.course, user |-> c.user, md5 |-> c.md5, kind |-> c.kind, status |-> "normal"]]

CreateMaterial(k) ==
  /\ calls[k].pc = "stored"
  /\ AddsMaterial(calls[k])
  /\ calls' = [calls EXCEPT ![k] = NoCall]
  /\ NoFault /\ UNCHANGED <<files, objects, raced, fileHistory, courseVars>>

\* The row is refused, or the answer is lost: the reference is given back, of a
\* material that is there in the second case.
createMaterialFails(k) ==
  /\ calls[k].pc = "stored"
  /\ \/ UNCHANGED <<mats, overdrawn>>
     \/ AddsMaterial(calls[k]) /\ overdrawn' = overdrawn \cup {calls[k].md5}
  /\ FileFault(calls[k].md5)
  /\ calls' = [calls EXCEPT ![k] = Release(calls[k].md5)]
  /\ UNCHANGED <<files, objects, raced, held, owed, shared, courseVars>>

uploadRefused(k) ==
  /\ calls[k].pc = "refused"
  /\ calls' = [calls EXCEPT ![k] = NoCall]
  /\ NoFault /\ UNCHANGED <<files, objects, raced, fileHistory, mats, courseVars>>

ReleaseReference(k, x) == Enter(k, Release(x))

\* The owner may delete a material again and again; every time gives back a reference.
DeleteMaterial(k, m) ==
  LET x == mats[m].md5 IN
  /\ calls[k] = NoCall /\ mats[m] # Nothing
  /\ mats' = [mats EXCEPT ![m].status = "deleted"]
  /\ ReleaseReference(k, x)
  /\ overdrawn' = IF mats[m].status = "deleted" THEN overdrawn \cup {x} ELSE overdrawn
  /\ NoFault /\ UNCHANGED <<files, objects, held, owed, shared, courseVars>>

HideMaterial(m, hidden) ==
  /\ mats[m] # Nothing
  /\ mats' = [mats EXCEPT ![m].status = IF hidden THEN "hidden" ELSE "normal"]
  /\ overdrawn' = IF mats[m].status = "deleted" THEN overdrawn \cup {mats[m].md5} ELSE overdrawn
  /\ UNCHANGED <<files, objects, calls, raced, held, owed, shared, spoilt, fileFaults, courseVars>>

----------------------------------------------------------------------------
AcademicStep ==
  \/ \E c \in Courses : CreateCourse(c) \/ \E hidden \in BOOLEAN : HideCourse(c, hidden)
  \/ \E q \in Reviewers : \/ findReview(q) \/ upsertReview(q)
                          \/ \E u \in Students, c \in Courses : SaveReview(q, u, c)
  \/ \E u \in Students, c \in Courses : DeleteReview(u, c)
  \/ \E r \in Rows, hidden \in BOOLEAN : HideReview(r, hidden)
  \/ \E q \in Mergers : \/ mergeCommits(q) \/ mergeFails(q)
                        \/ \E from, to \in Courses : MergeCourses(q, from, to)

MaterialStep ==
  \/ \E k \in Calls, u \in Students, c \in Courses, m \in Materials, x \in MD5s,
        kind \in Accepted : UploadMaterial(k, u, c, m, x, kind)
  \/ \E k \in Calls : CreateMaterial(k) \/ createMaterialFails(k) \/ uploadRefused(k)
  \/ \E k \in Calls, m \in Materials : DeleteMaterial(k, m)
  \/ \E m \in Materials, hidden \in BOOLEAN : HideMaterial(m, hidden)

AcademicNext ==
  \/ AcademicStep
  \/ MaterialStep
  \/ (\E k \in Calls : FileStep(k) \/ FileCall(k)) /\ UNCHANGED <<mats, courseVars>>

AcademicSpec == AcademicInit /\ [][AcademicNext]_academicVars

----------------------------------------------------------------------------
(* Queries *)

ListReviews(c) == {r \in Rows : reviews[r] # Nothing /\ reviews[r].course = c
                                                  /\ reviews[r].status = "normal"}
RatingCount(c) == Cardinality(ListReviews(c))

ListMaterials(c) == {m \in Materials : mats[m] # Nothing /\ mats[m].course = c
                                                      /\ mats[m].status = "normal"}

\* A merged course shows its target, one step away.
CourseDetail(c) == IF courses[c].status = "merged" THEN courses[c].target ELSE c

----------------------------------------------------------------------------
(* Properties *)

AcademicTypeOK ==
  /\ FilesTypeOK
  /\ courses \in [Courses -> [status : {"absent", "normal", "hidden", "merged"},
                              target : Courses \cup {Nothing}]]
  /\ reviews \in [Rows -> {Nothing} \cup
        [course : Courses, user : Students, status : {"normal", "hidden", "deleted", "merged"},
         text : 1 .. MaxClock, at : 1 .. MaxClock]]
  /\ mats \in [Materials -> {Nothing} \cup
        [course : Courses, user : Students, md5 : MD5s, kind : Documents,
         status : {"normal", "hidden", "deleted"}]]
  /\ clock \in 0 .. MaxClock

(***************************************************************************)
(* A merged course keeps nothing that is listed: its reviews and materials *)
(* are found under the target, unless a request had already read the       *)
(* course when it was merged, or a moderator showed it again.              *)
(***************************************************************************)
MergedCoursesAreEmpty ==
  \A c \in Courses \ crossed :
    courses[c].status = "merged" => ListReviews(c) = {} /\ ListMaterials(c) = {}

(***************************************************************************)
(* However courses are merged while reviews are saved, a user counts once  *)
(* in the rating of a course (RatingStats).                                *)
(***************************************************************************)
OneRatingEach ==
  \A c \in Courses : Cardinality({reviews[r].user : r \in ListReviews(c)}) = RatingCount(c)

\* Asking for the course again and again, each time for what the last answer named.
Follow(c) ==
  LET hop[n \in 0 .. Cardinality(Courses)] == IF n = 0 THEN c ELSE CourseDetail(hop[n - 1])
  IN hop[Cardinality(Courses)]

(***************************************************************************)
(* Merge targets lead to a course that is not merged, in whatever order    *)
(* courses are merged, hidden and shown again; only two merges at the same *)
(* time can send a course in a circle.                                     *)
(***************************************************************************)
MergesEnd == ~tangled => \A c \in Courses : courses[Follow(c)].status # "merged"

(***************************************************************************)
(* Of two reviews by the same user that a merge brings together the one    *)
(* written last is kept (TestCourseMergeKeepsLatestConflictingReview),     *)
(* provided updated_at was the time of writing: an earlier merge, a        *)
(* deletion or a moderator sets it too, and it is what the merge compares. *)
(***************************************************************************)
MergeKeepsLatest ==
  \A r, s \in Rows \ restamped :
    /\ reviews[r] # Nothing /\ reviews[r].status = "merged" /\ reviews[r].course \notin crossed
    /\ s \in Review(courses[reviews[r].course].target, reviews[r].user)
    => reviews[s].text >= reviews[r].text

(***************************************************************************)
(* "Ordinary archives and executables are refused" (docs/campus-business-  *)
(* frontend-integration.md): a material that is an archive has the entries *)
(* of the office format that its name says (validOOXML).                   *)
(***************************************************************************)
ArchivesAreOfficeFiles ==
  \A m \in Materials : mats[m] # Nothing =>
    /\ mats[m].kind.type # "exe"
    /\ mats[m].kind.type = "zip" => {"types", Payload(mats[m].kind.ext)} \subseteq mats[m].kind.entries

Holding(x) == {m \in Materials : mats[m] # Nothing /\ mats[m].md5 = x /\ mats[m].status # "deleted"}

(***************************************************************************)
(* The file of a material that is not deleted keeps at least one reference *)
(* per material, whoever else uploads and deletes the same content, unless *)
(* a reference was given back that a material still had, or twice, or      *)
(* calls raced.                                                            *)
(***************************************************************************)
MaterialsHoldTheirFiles ==
  \A x \in MD5s \ (raced \cup overdrawn) : Cardinality(Holding(x)) <= RefCount(x)

(***************************************************************************)
(* Merging moves everything of a course to where it is found, once per     *)
(* user and in its latest version, and always leads to an open course.     *)
(***************************************************************************)
MergesAgree ==
  /\ AcademicTypeOK
  /\ MergedCoursesAreEmpty
  /\ OneRatingEach
  /\ MergesEnd
  /\ MergeKeepsLatest

(***************************************************************************)
(* A material is a document of a kind that is accepted, and its file stays *)
(* while it is there.                                                      *)
(***************************************************************************)
MaterialsAgree ==
  /\ ArchivesAreOfficeFiles
  /\ MaterialsHoldTheirFiles
=============================================================================
